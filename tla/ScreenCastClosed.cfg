\* A session closed while its question is up.
CONSTANTS
    Sesiones = {s1, s2}
    Dibujadas = {s1}
    Nadie = Nadie
SPECIFICATION Spec
CHECK_DEADLOCK FALSE
INVARIANTS
    SesionCerradaCorta
