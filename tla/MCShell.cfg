\* The surroundings the code expects.
CONSTANTS
    a1 = a1
    a2 = a2
    a3 = a3
    Vacio = Vacio
    Impaciente = FALSE
    MismoSegundo = FALSE
    TeclaEnArrastre = FALSE
    Tardon = FALSE
    Deprisa = FALSE
    MenuYMusica = FALSE
    ConfigEnMenu = FALSE
    Reducidos = FALSE
    Widgets = {"sonido", "red"}
    PuntosCentro <- MCPuntosCentro
    Sensor = TRUE
    MaxCrudo = 7
    Sistemas <- MCSistemas
    DeFuera <- MCDeFuera
    PulsosCentro = 2
    CambiosCentro = 1
    AperturasCentro = 2
    Entradas <- MCEntradas
    ConfigsBloqueo <- MCConfigsBloqueo
    FASES = 3
    AnchoHoja = 12
    AltoHoja = 16
    LADO_ENERGIA = 1
    MARGEN_ENERGIA = 1
    ANCHO_MENU = 2
    ALTO_ENTRADA = 2
    MEDIOS_ALTO = 4
    MEDIOS_PAD = 1
    MEDIOS_CONTROL = 1
    MEDIOS_PASO = 2
    MARGEN_MEDIOS = 1
    AccesoFin = 5
    MediosY = 9
    ConfAncho = 6
    ConfAlto = 4
    ConfBotonY = 2
    ConfBotonAlto = 1
    ConfMitad = 3
    PuntosBloqueo <- MCPuntosBloqueo
    ActosHoja = 3
    MaxBloqueos = 2
    Ventanas = {"w1", "w2", "w3"}
    Nadie = "nadie"
    MAXIMO = 2
    Pantallas <- MCPantallas
    ActosFila = 7
    Ids = {1, 2}
    Maximo = 2
    Visibles = 1
    MaxBus = 1
    AnchoCaptura = 12
    AltoCaptura = 10
    MINIMO = 2
    AGARRE = 1
    CELDA_W = 1
    CELDA_H = 1
    CELDA_HUECO = 1
    DIVISOR_HUECO = 1
    BARRA_PADDING = 1
    BARRA_ALTO = 3
    BARRA_MARGEN = 0
    PASTILLA_ANCHO = 3
    PASTILLA_ALTO = 1
    PASTILLA_HUECO = 1
    PuntosCaptura <- MCPuntosCaptura
    UNIDAD = 1
    EscN = 1
    EscD = 1
    Volteada = TRUE
    PulsosCaptura = 2
    MaxFotos = 1
SPECIFICATION Spec
CHECK_DEADLOCK FALSE
INVARIANTS
    RejillaEntera
    AvisosFieles
    TarjetasEnOrden
    ConmutadorEnOrden
    CapturaEnOrden
    LockViewEnOrden
PROPERTIES
    PasosDelShell
