\* Two sessions, the output of one is drawn.
CONSTANTS
    Sesiones = {s1, s2}
    Dibujadas = {s1}
    Nadie = Nadie
SPECIFICATION Spec
CHECK_DEADLOCK FALSE
INVARIANTS
    SesionEnOrden
