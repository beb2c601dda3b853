--------------------------- MODULE SessionBoundary ---------------------------
(***************************************************************************)
(* The authentication boundary of a BookOS login, with none of the         *)
(* processes that keep it: what is on the screen is the user's desktop,    *)
(* a closed door, or the login manager.  A door that was closed opens      *)
(* only by authenticating at it; anything else leads to the login manager, *)
(* and from there nothing of this session comes back.                      *)
(***************************************************************************)
VARIABLES
    acceso,       \* "abierta", "cerrada" or "entrada" (the login manager)
    autenticado   \* somebody authenticated at the closed door

vars == <<acceso, autenticado>>

Init == acceso = "abierta" /\ autenticado = FALSE

Cerrar == /\ acceso = "abierta"
          /\ acceso' = "cerrada"
          /\ autenticado' = FALSE

Autenticar == /\ acceso = "cerrada"
              /\ autenticado' = TRUE
              /\ UNCHANGED acceso

Abrir == /\ acceso = "cerrada"
         /\ autenticado
         /\ acceso' = "abierta"
         /\ autenticado' = FALSE

Salir == /\ acceso # "entrada"
         /\ acceso' = "entrada"
         /\ autenticado' = FALSE

Next == Cerrar \/ Autenticar \/ Abrir \/ Salir

Spec == Init /\ [][Next]_vars
==============================================================================
