------------------------------ MODULE DesktopMap ------------------------------
(***************************************************************************)
(* What the desktops promise, without lists, stacks or animations: every   *)
(* open window lives on one desktop of one output, hidden by "show         *)
(* desktop" or not, or in the dock; changing desktop moves nobody; a       *)
(* deleted desktop hands its windows to a neighbour; an output that goes   *)
(* leaves what it had put away to the others, under the same number.       *)
(***************************************************************************)
EXTENDS Integers

CONSTANTS Ventanas, Salidas, Maximo, Inicial

VARIABLES
    casa,      \* where each window lives
    vista,     \* the desktop in view of each output that is plugged in
    cuantos    \* how many desktops there are

vars == <<casa, vista, cuantos>>

Nada == [tipo |-> "nada"]
Dock == [tipo |-> "dock"]
En(o, i, oculta) == [tipo |-> "escritorio", salida |-> o, numero |-> i, oculta |-> oculta]
ALaDeriva(o) == En(o, 0, FALSE)           \* in view on an output that has gone

Puestas == DOMAIN vista
EnVista(o) == En(o, vista[o], FALSE)
EsEscritorio(c) == c.tipo = "escritorio"
Visible(c) == EsEscritorio(c) /\ c.salida \in Puestas /\ c = EnVista(c.salida)
Menor(a, b) == IF a <= b THEN a ELSE b

Init ==
    /\ casa = [w \in Ventanas |-> Nada]
    /\ vista = [o \in Salidas |-> 1]
    /\ cuantos = Inicial

Abrir(w) == \E o \in Puestas :
    UNCHANGED <<vista, cuantos>> /\ casa[w] = Nada /\ casa' = [casa EXCEPT ![w] = EnVista(o)]
Cerrar(w) ==
    UNCHANGED <<vista, cuantos>> /\ casa[w] # Nada /\ casa' = [casa EXCEPT ![w] = Nada]
Cambiar(o) == \E n \in 1..cuantos :
    o \in Puestas /\ vista' = [vista EXCEPT ![o] = n] /\ UNCHANGED <<casa, cuantos>>

\* To another desktop of its output, or to what another output shows.
Mover(w) ==
    /\ EsEscritorio(casa[w])
    /\ \/ \E n \in 1..cuantos : casa' = [casa EXCEPT ![w] = En(casa[w].salida, n, FALSE)]
       \/ \E o \in Puestas : casa' = [casa EXCEPT ![w] = EnVista(o)]
    /\ UNCHANGED <<vista, cuantos>>

Ocultar ==
    /\ casa' = [w \in Ventanas |->
           IF Visible(casa[w]) THEN [casa[w] EXCEPT !.oculta = TRUE] ELSE casa[w]]
    /\ UNCHANGED <<vista, cuantos>>
Devolver ==
    /\ casa' = [w \in Ventanas |->
           IF EsEscritorio(casa[w]) /\ casa[w].salida \in Puestas
              /\ casa[w].numero = vista[casa[w].salida]
           THEN [casa[w] EXCEPT !.oculta = FALSE] ELSE casa[w]]
    /\ UNCHANGED <<vista, cuantos>>

Minimizar(w) ==
    /\ EsEscritorio(casa[w]) /\ ~casa[w].oculta
    /\ casa' = [casa EXCEPT ![w] = Dock] /\ UNCHANGED <<vista, cuantos>>
Restaurar(w) == \E o \in Salidas :
    /\ casa[w] = Dock
    /\ casa' = [casa EXCEPT ![w] = IF o \in Puestas THEN EnVista(o) ELSE ALaDeriva(o)]
    /\ UNCHANGED <<vista, cuantos>>

Ampliar == \E n \in (cuantos + 1)..Maximo : cuantos' = n /\ UNCHANGED <<casa, vista>>

\* The windows of desktop i go to the one before it; those of the first, and
\* those in view, to the one that takes its place.
Vecino(o, i) ==
    IF i = vista[o] THEN Menor(i, cuantos - 1) ELSE IF i = 1 THEN 1 ELSE i - 1
Renumera(o, i, j) == IF j = i THEN Vecino(o, i) ELSE IF j > i THEN j - 1 ELSE j
Suelta(c) == IF EsEscritorio(c) THEN [c EXCEPT !.oculta = FALSE] ELSE c
Borrar == \E i \in 1..cuantos :
    /\ cuantos > 1 /\ cuantos' = cuantos - 1
    /\ casa' = [w \in Ventanas |->
           IF EsEscritorio(casa[w]) /\ casa[w].salida \in Puestas
           THEN [Suelta(casa[w]) EXCEPT !.numero = Renumera(casa[w].salida, i, @)]
           ELSE casa[w]]
    /\ vista' = [o \in Puestas |->
           IF vista[o] > i THEN vista[o] - 1
           ELSE IF vista[o] = i THEN Menor(i, cuantos - 1) ELSE vista[o]]
\* From the end, until n are left.
Reducir == \E n \in 1..(cuantos - 1) :
    /\ cuantos' = n
    /\ casa' = [w \in Ventanas |->
           IF EsEscritorio(casa[w]) THEN [Suelta(casa[w]) EXCEPT !.numero = Menor(@, n)]
           ELSE casa[w]]
    /\ vista' = [o \in Puestas |-> Menor(vista[o], n)]
\* The last desktop is not deleted, but what was hidden comes back.
NoBorrar ==
    casa' = [w \in Ventanas |-> Suelta(casa[w])] /\ UNCHANGED <<vista, cuantos>>

Desenchufar(o) == \E h \in Puestas \ {o} :
    /\ o \in Puestas
    /\ casa' = [w \in Ventanas |->
           IF ~EsEscritorio(casa[w]) \/ casa[w].salida # o THEN casa[w]
           ELSE IF Visible(casa[w]) THEN ALaDeriva(o) ELSE En(h, casa[w].numero, FALSE)]
    /\ vista' = [p \in Puestas \ {o} |-> vista[p]]
    /\ UNCHANGED cuantos
Enchufar(o) == \E n \in 1..cuantos :
    /\ o \in Salidas \ Puestas
    /\ vista' = [p \in Puestas \cup {o} |-> IF p = o THEN n ELSE vista[p]]
    /\ casa' = [w \in Ventanas |-> IF casa[w] = ALaDeriva(o) THEN En(o, n, FALSE) ELSE casa[w]]
    /\ UNCHANGED cuantos

Next ==
    \/ UNCHANGED vars       \* the stack, the focus and the animations are not of the map
    \/ \E w \in Ventanas : Abrir(w) \/ Cerrar(w) \/ Mover(w) \/ Minimizar(w) \/ Restaurar(w)
    \/ \E o \in Salidas : Cambiar(o) \/ Desenchufar(o) \/ Enchufar(o)
    \/ Ocultar \/ Devolver \/ Ampliar \/ Borrar \/ Reducir \/ NoBorrar

Spec == Init /\ [][Next]_vars
===============================================================================
