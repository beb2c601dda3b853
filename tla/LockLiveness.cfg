\* Liveness: one lock, a reader and a keyboard, threads that die, one suspend.
CONSTANTS
    Obreros = {o1, o2}
    Nadie = Nadie
    HayLector = TRUE
    HilosFallan = TRUE
    PuedeReventar = FALSE
    MaxGeneracion = 1
    MaxEscrito = 1
    MaxReanudaciones = 1
    FallosMax = 3
SPECIFICATION FairSpec
PROPERTIES
    TodoTermina
