\* Safety: two locks in a row, threads that die, a shell that panics.
CONSTANTS
    Obreros = {o1, o2}
    Nadie = Nadie
    HayLector = TRUE
    HilosFallan = TRUE
    PuedeReventar = TRUE
    MaxGeneracion = 3
    MaxEscrito = 1
    MaxReanudaciones = 1
    FallosMax = 3
VIEW Vista
SPECIFICATION Spec
INVARIANTS
    ConversacionAtendida
    SensorDeUno
    SecretoComprobado
    PantallaFiel
PROPERTIES
    PasosVeraces
    ImplementaBarrera
