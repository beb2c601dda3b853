\* A laptop and its monitor, two windows of two programs; one unplugging, no gesture
\* over another's slide, no dying client in the middle of one.
CONSTANTS
    Ventanas = {w1, w2}
    Salidas = {portatil, monitor}
    Principal = portatil
    Ninguna = Ninguna
    Lado <- DosAlLado
    App <- Programas
    Maximo = 2
    AlInicio = 2
    Desenchufes = 1
    Solapes = FALSE
    Huerfanas = FALSE
SPECIFICATION Spec
CHECK_DEADLOCK FALSE
INVARIANTS
    VentanasEnOrden
PROPERTIES
    ImplementaMapa
