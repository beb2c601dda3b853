\* The surroundings the code expects.
CONSTANTS
    Lento = FALSE
    EnMedio = FALSE
    Explorador = FALSE
    Deprisa = FALSE
    RetiraX11 = FALSE
    Entretanto = FALSE
    OtraVez = TRUE
    Solapan = FALSE
    Tarjeta = TRUE
    Clase <- MCClase
    Elecciones <- MCElecciones
    DeSerie <- MCDeSerie
    MaxProcesos = 6
    MaxCargas = 2
    Destinos <- MCFicheros
    Fotos = {"azul", "verde", "video"}
    Valen = {"azul", "verde"}
    Tam <- MCTam
    Ajustes = {"uno", "dos"}
    MaxHilos = 3
    Wayland = {"w1"}
    X11 = {"x1"}
    Menudas = {"o1"}
    NoHay = "nadie"
    Menus = {"w1"}
SPECIFICATION Spec
CHECK_DEADLOCK FALSE
INVARIANTS
    VentanaEnSuSitio
    FocoEnOrden
    IconosEnOrden
    EscenaEnOrden
    FondoEnOrden
