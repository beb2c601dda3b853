\* The surroundings the code expects: see the README for what lifting each one shows.
CONSTANTS
    Vacias = FALSE
    Repite = FALSE
    Interrumpe = FALSE
    Salidas = {"s1", "s2"}
    Principal = "s1"
    Fotos = {"f1"}
    Portales = {"p1"}
    Teclas = {"meta", "shift", "f23", "impr", "letra"}
    Mapas <- MCMapas
    TeclasALaVez = 3
SPECIFICATION Spec
CHECK_DEADLOCK FALSE
INVARIANTS
    NadaSinEnsenar
    EscritorioEntero
    NadaTrabado
PROPERTIES
    CiegoBajoCandado
