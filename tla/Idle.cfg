\* Five seconds to a unit, rounded: ten seconds of DPMS are two, the deaf two
\* seconds and the warning one.
CONSTANTS
    Superficies = {x1, x2}
    Plazos = {0, 3}
    Techo = 4
    AvisoMax = 1
    PlazoDpms = 2
    Sordera = 1
SPECIFICATION Spec
SYMMETRY Simetria
INVARIANTS
    AlarmasEnOrden
PROPERTIES
    SuspensionMerecida
