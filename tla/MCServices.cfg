\* The surroundings the code expects.
CONSTANTS
    FondosRotos = FALSE
    CancelaAvisos = FALSE
    Tarde = TRUE
    DosEscriben = FALSE
    Lento = FALSE
    Cruzan = FALSE
    Deslizador = TRUE
    Mudo = TRUE
    Solapan = FALSE
    LeeEnFoto = FALSE
    Depende = TRUE
    Lenta = FALSE
    Dia = 6
    Personas <- MCPersonas
    Otras = {"x"}
    Conversaciones <- MCConversaciones
    MaxCola = 3
    MaxFallosG = 1
    Redes = {"casa", "cafe"}
    Abiertas = {"cafe"}
    MaxTareas = 2
    MaxFallosGW = 1
    Suelo = 1
    Tope = 6
    Maximo = 6
    Umbral = 1
    Tolerancia = 0
    DesvioMax = 4
    Reparto = 2
    Tramo = 2
    Curva <- MCCurva
    Teclas <- MCTeclas
    Automaticos = {TRUE, FALSE}
    Cargas = {"baja", "media", "bien"}
    MaxSucesos = 3
    Clase <- MCClase
    Serie <- MCSerie
    Pistas = {"uno"}
    ConPortada = {"uno"}
    Delante = {"player"}
    Configs <- MCConfigs
    MaxConexiones <- MCConexiones
    MaxBus = 1
SPECIFICATION Spec
CHECK_DEADLOCK FALSE
INVARIANTS
    AccesoEnOrden
    CascosEnOrden
    ActividadesEnOrden
    SistemaEnOrden
    AjustesAlDia
    BrilloEnOrden
