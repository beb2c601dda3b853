\* Two installed desktops, three compositors, two locks in each.
CONSTANTS
    Otras = {"Plasma", "GNOME"}
    MaxArranques = 3
    MaxCierres = 2
SPECIFICATION SpecViva
CHECK_DEADLOCK FALSE
INVARIANTS
    SinPermiso
    UnSoloDueno
PROPERTIES
    ReintentoPedido
    FronteraRespetada
    RecuperacionTermina
