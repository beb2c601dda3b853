\* Two sessions that watch a still desktop.
CONSTANTS
    Sesiones = {s1, s2}
    Dibujadas = {}
    Nadie = Nadie
SPECIFICATION SpecViva
CHECK_DEADLOCK FALSE
PROPERTIES
    UnaAcaba
