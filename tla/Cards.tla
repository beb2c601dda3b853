------------------------------- MODULE Cards -------------------------------
(***************************************************************************)
(* The cards that hang from the panel and the dock, and the two bars they  *)
(* hang from: bookos-comp/src/shell.rs, with the part of bookos-shell that *)
(* says which card is open.  Closing is in two halves.  The shell forgets  *)
(* the card at once; the compositor keeps its surface while the exit is    *)
(* drawn, and lets go of it in post_dispatch when nothing moves any more.  *)
(* A click on another widget queues its card until then.  A bar in the     *)
(* dodging mode hides when a window is under it, comes when the pointer    *)
(* asks for it at the edge, and is held while something hangs from it.     *)
(* Every card that is neither a widget's, the launchpad, the search nor    *)
(* the dock's menu is "dialogo".                                           *)
(***************************************************************************)
EXTENDS Naturals, FiniteSets

CONSTANT Widgets        \* the widgets of the panel that have a card

Ninguna == "ninguna"
Cartas == Widgets \cup {"launchpad", "buscador", "menudock", "dialogo"}
Barras == {"panel", "dock"}

\* Where the pointer is: on an edge of the screen, over a bar, or elsewhere.
Zonas == {"bordePanel", "panel", "centro", "dock", "bordeDock"}
Borde(b) == IF b = "panel" THEN "bordePanel" ELSE "bordeDock"
Sobre(b) == {Borde(b), b}

VARIABLES
  tarjeta,      \* abierta (the shell's), superficie and cerrando (the host's)
  pendiente,    \* emergente_pendiente: the card queued behind the one leaving
  barras,       \* EstadoBarra of each bar
  mueve,        \* an entrance or a bar is still moving
  isla,         \* the island of the live activities is unfolded
  puntero,
  ventana,      \* whether a window is where each bar is
  bloqueada
vars == <<tarjeta, pendiente, barras, mueve, isla, puntero, ventana, bloqueada>>

Abierta == tarjeta.abierta # Ninguna
DelPanel == tarjeta.abierta \in Widgets

(***************************************************************************)
(* The bars.                                                               *)
(***************************************************************************)
\* EstadoBarra::destino: whether the bar ends out of the screen.
Fuera(barra) == barra.escondida /\ ~barra.pedida

ALaVista(b) == mueve \/ ~Fuera(barras[b])

Retenida(b, abierta, desplegada) ==
  IF b = "panel" THEN abierta # Ninguna \/ desplegada ELSE abierta = "menudock"

\* The edge brings the bar; the whole bar keeps it.
Pide(b, zona, yaPedida) == zona = Borde(b) \/ (yaPedida /\ zona \in Sobre(b))

Reclamada(bs, abierta, desplegada, zona) ==
  [b \in Barras |->
     IF Retenida(b, abierta, desplegada) \/ bs[b].modo = "siempre" THEN bs[b]
     ELSE [bs[b] EXCEPT !.pedida = Pide(b, zona, @)]]

EstorbadaSinApuntar(bs, abierta, desplegada, hay) ==
  [b \in Barras |->
     CASE bs[b].modo = "siempre" -> bs[b]
       [] bs[b].modo = "esquivando" /\ Retenida(b, abierta, desplegada) ->
            [bs[b] EXCEPT !.pedida = TRUE]
       [] OTHER -> [bs[b] EXCEPT !.escondida = hay[b]]]

\* What revisar_barras does to both bars: `escondida` tells the truth about
\* the window, and what holds a bar does so through `pedida`.
Estorbada(bs, abierta, desplegada, hay) ==
  [b \in Barras |->
     IF bs[b].modo = "siempre" THEN bs[b]
     ELSE [bs[b] EXCEPT !.escondida = hay[b],
                        !.pedida = @ \/ Retenida(b, abierta, desplegada)]]

Alternada(barra) ==
  IF barra.modo = "siempre"
  THEN [modo |-> "esquivando", escondida |-> TRUE, pedida |-> FALSE]
  ELSE [barra EXCEPT !.modo = "siempre", !.escondida = FALSE]

Arranca(bs) == \E b \in Barras : Fuera(bs[b]) # Fuera(barras[b])

(***************************************************************************)
(* The card: closing it through the host, and sincronizar_emergente, which *)
(* follows every call that may have changed it in the shell.               *)
(***************************************************************************)
Cerrar(t) ==
  IF t.abierta = Ninguna THEN t ELSE [t EXCEPT !.abierta = Ninguna, !.cerrando = "sale"]

SincronizarSinCancelar(t) ==
  IF t.abierta # Ninguna THEN [t EXCEPT !.superficie = TRUE]
  ELSE [t EXCEPT !.superficie = @ /\ t.cerrando # "no"]

Sincronizar(t) ==
  IF t.abierta # Ninguna THEN [t EXCEPT !.superficie = TRUE, !.cerrando = "no"]
  ELSE [t EXCEPT !.superficie = @ /\ t.cerrando # "no"]

Abrir(t, c) == Sincronizar([t EXCEPT !.abierta = c])
Soltar(t) == Sincronizar([t EXCEPT !.abierta = Ninguna])

\* cerrar_emergente looks at the bars again under the pointer; what closes
\* the card inside the shell does not.
TrasCerrar(bs, desplegada) ==
  IF Abierta THEN Reclamada(bs, Ninguna, desplegada, puntero) ELSE bs

QuedaAsi(t, bs) ==
  /\ tarjeta' = t
  /\ barras' = bs
  /\ mueve' = (mueve \/ Arranca(bs) \/ (t.superficie /\ ~tarjeta.superficie))

Init ==
  /\ tarjeta = [abierta |-> Ninguna, superficie |-> FALSE, cerrando |-> "no"]
  /\ pendiente = Ninguna
  /\ barras \in [Barras -> [modo : {"siempre", "esquivando"},
                            escondida : {FALSE}, pedida : {FALSE}]]
  /\ mueve = FALSE
  /\ isla = FALSE
  /\ puntero = "centro"
  /\ ventana = [b \in Barras |-> FALSE]
  /\ bloqueada = FALSE

(***************************************************************************)
(* The pointer.                                                            *)
(***************************************************************************)
Mover ==
  \E z \in Zonas \ {puntero} :
    /\ puntero' = z
    /\ QuedaAsi(tarjeta, Reclamada(barras, tarjeta.abierta, isla, z))
    /\ UNCHANGED <<pendiente, isla, ventana, bloqueada>>

\* A press outside the island folds it before anything else sees the press.
Recogida == IF isla THEN Reclamada(barras, tarjeta.abierta, FALSE, puntero) ELSE barras

\* pulsar, over the panel: the same widget closes its card, another one waits
\* for the card that is open to leave, and with none open it opens at once.
PulsarPanel ==
  /\ ~bloqueada
  /\ puntero \in Sobre("panel")
  /\ tarjeta.abierta # "launchpad"
  /\ ALaVista("panel") \/ Abierta
  /\ isla' = FALSE
  /\ \E w \in Widgets :
       \/ /\ Abierta
          /\ pendiente' = IF tarjeta.abierta = w THEN pendiente ELSE w
          /\ QuedaAsi(Cerrar(tarjeta), TrasCerrar(Recogida, FALSE))
       \/ /\ ~Abierta
          /\ QuedaAsi(Abrir(tarjeta, w), Recogida)
          /\ UNCHANGED pendiente
  /\ UNCHANGED <<puntero, ventana, bloqueada>>

\* A press outside the card, or on the dock under the launchpad.
PulsarFuera ==
  /\ ~bloqueada
  /\ Abierta
  /\ puntero \notin Sobre("panel") \/ tarjeta.abierta = "launchpad"
  /\ isla' = FALSE
  /\ QuedaAsi(Cerrar(tarjeta), TrasCerrar(Recogida, FALSE))
  /\ UNCHANGED <<pendiente, puntero, ventana, bloqueada>>

\* The right button over an icon of the dock.
AbrirMenuDock ==
  /\ ~bloqueada
  /\ puntero \in Sobre("dock")
  /\ ALaVista("dock")
  /\ QuedaAsi(Abrir(tarjeta, "menudock"), barras)
  /\ UNCHANGED <<pendiente, isla, puntero, ventana, bloqueada>>

PulsarIsla ==
  /\ ~bloqueada
  /\ ALaVista("panel")
  /\ isla' = ~isla
  /\ QuedaAsi(tarjeta, Reclamada(barras, tarjeta.abierta, ~isla, puntero))
  /\ UNCHANGED <<pendiente, puntero, ventana, bloqueada>>

(***************************************************************************)
(* What is chosen in a card, and the keys.                                 *)
(***************************************************************************)
\* Escape, or choosing something that completes the interaction: the shell
\* drops its card and the host finds it gone.
Consumir ==
  /\ ~bloqueada
  /\ Abierta
  /\ QuedaAsi(Soltar(tarjeta), barras)
  /\ UNCHANGED <<pendiente, isla, puntero, ventana, bloqueada>>

\* A card may choose another card: the control centre, the menu of the logo.
ElegirOtra ==
  /\ ~bloqueada
  /\ Abierta
  /\ \E c \in Widgets \cup {"dialogo"} : QuedaAsi(Abrir(Soltar(tarjeta), c), barras)
  /\ UNCHANGED <<pendiente, isla, puntero, ventana, bloqueada>>

\* The shortcut of a panel card.  The bars are looked at after it.
AtajoTarjeta ==
  /\ ~bloqueada
  /\ \E w \in Widgets :
       LET t == IF Abierta THEN Cerrar(tarjeta) ELSE Abrir(tarjeta, w) IN
         /\ QuedaAsi(t, Estorbada(TrasCerrar(barras, isla), t.abierta, isla, ventana))
         /\ pendiente' = IF Abierta /\ tarjeta.abierta # w THEN w ELSE pendiente
  /\ UNCHANGED <<isla, puntero, ventana, bloqueada>>

AlternarLaunchpad ==
  /\ ~bloqueada
  /\ \/ Abierta /\ QuedaAsi(Cerrar(tarjeta), TrasCerrar(barras, isla))
     \/ ~Abierta /\ QuedaAsi(Abrir(tarjeta, "launchpad"), barras)
  /\ UNCHANGED <<pendiente, isla, puntero, ventana, bloqueada>>

AlternarBuscador ==
  /\ ~bloqueada
  /\ QuedaAsi(IF tarjeta.abierta = "buscador" THEN Cerrar(tarjeta)
              ELSE Abrir(Cerrar(tarjeta), "buscador"),
              TrasCerrar(barras, isla))
  /\ UNCHANGED <<pendiente, isla, puntero, ventana, bloqueada>>

\* The dialogs that toggle close themselves; the rest replace what there is.
AbrirDialogo ==
  /\ ~bloqueada
  /\ \/ QuedaAsi(Abrir(tarjeta, "dialogo"), barras)
     \/ tarjeta.abierta = "dialogo" /\ QuedaAsi(Cerrar(tarjeta), TrasCerrar(barras, isla))
  /\ UNCHANGED <<pendiente, isla, puntero, ventana, bloqueada>>

\* Meta+Alt+B.  The windows that fill the screen are placed again, so what is
\* under the bar may change before the bars are looked at.
AlternarBarra ==
  /\ ~bloqueada
  /\ \E b \in Barras, hay \in BOOLEAN :
       LET cierra == b = "panel"
           t == IF cierra THEN Cerrar(tarjeta) ELSE tarjeta
           antes == IF cierra THEN TrasCerrar(barras, isla) ELSE barras
           bs == [antes EXCEPT ![b] = Alternada(@)]
       IN /\ ventana' = [ventana EXCEPT ![b] = hay]
          /\ QuedaAsi(t, Estorbada(bs, t.abierta, isla, ventana'))
  /\ UNCHANGED <<pendiente, isla, puntero, bloqueada>>

(***************************************************************************)
(* The windows, the lock and the passing of time.                          *)
(***************************************************************************)
VentanaCambia ==
  \E b \in Barras :
    /\ ventana' = [ventana EXCEPT ![b] = ~@]
    /\ QuedaAsi(tarjeta, Estorbada(barras, tarjeta.abierta, isla, ventana'))
    /\ UNCHANGED <<pendiente, isla, puntero, bloqueada>>

Bloquear ==
  /\ ~bloqueada
  /\ bloqueada' = TRUE
  /\ QuedaAsi(Cerrar(tarjeta), Estorbada(TrasCerrar(barras, isla), Ninguna, isla, ventana))
  /\ UNCHANGED <<pendiente, isla, puntero, ventana>>

Desbloquear ==
  /\ bloqueada
  /\ bloqueada' = FALSE
  /\ UNCHANGED <<tarjeta, pendiente, barras, mueve, isla, puntero, ventana>>

Reposa ==
  /\ mueve
  /\ mueve' = FALSE
  /\ UNCHANGED <<tarjeta, pendiente, barras, isla, puntero, ventana, bloqueada>>

AcabaLaSalida ==
  /\ tarjeta.cerrando = "sale"
  /\ tarjeta' = [tarjeta EXCEPT !.cerrando = "fuera"]
  /\ UNCHANGED <<pendiente, barras, mueve, isla, puntero, ventana, bloqueada>>

\* recoger_cerrada.
Recoger(t) ==
  IF t.cerrando = "fuera" THEN [t EXCEPT !.superficie = FALSE, !.cerrando = "no"] ELSE t

\* fin_animacion: what was leaving is let go, and the queued card is opened.
PostDispatch ==
  /\ ~mueve /\ tarjeta.cerrando # "sale"
  /\ LET t == Recoger(tarjeta) IN
       \/ /\ ~t.superficie /\ pendiente # Ninguna
          /\ QuedaAsi(Abrir(t, pendiente), barras)
          /\ pendiente' = Ninguna
       \/ /\ t.superficie \/ pendiente = Ninguna
          /\ QuedaAsi(t, barras)
          /\ UNCHANGED pendiente
  /\ UNCHANGED <<isla, puntero, ventana, bloqueada>>

Next ==
  \/ Mover
  \/ PulsarPanel
  \/ PulsarFuera
  \/ AbrirMenuDock
  \/ PulsarIsla
  \/ Consumir
  \/ ElegirOtra
  \/ AtajoTarjeta
  \/ AlternarLaunchpad
  \/ AlternarBuscador
  \/ AbrirDialogo
  \/ AlternarBarra
  \/ VentanaCambia
  \/ Bloquear
  \/ Desbloquear
  \/ Reposa
  \/ AcabaLaSalida
  \/ PostDispatch

Spec == Init /\ [][Next]_vars

(***************************************************************************)
(* Properties.                                                             *)
(***************************************************************************)
TypeOK ==
  /\ tarjeta \in [abierta : Cartas \cup {Ninguna}, superficie : BOOLEAN,
                  cerrando : {"no", "sale", "fuera"}]
  /\ pendiente \in Widgets \cup {Ninguna}
  /\ barras \in [Barras -> [modo : {"siempre", "esquivando"},
                            escondida : BOOLEAN, pedida : BOOLEAN]]
  /\ puntero \in Zonas
  /\ ventana \in [Barras -> BOOLEAN]

\* What is drawn and what is open agree, through every overlap of an exit
\* with an entrance: an open card has its surface and is not leaving, and a
\* surface with no card open is one that is leaving.  A card opened while
\* another leaves would be let go in the middle of being used otherwise.
NadaColgado ==
  /\ Abierta => tarjeta.superficie /\ tarjeta.cerrando = "no"
  /\ tarjeta.superficie /\ ~Abierta => tarjeta.cerrando # "no"

\* `escondida` tells the truth about the window under a dodging bar also while
\* a card holds the bar by the other flag, and a fixed bar never keeps it.
BarrasVeraces ==
  \A b \in Barras : barras[b].escondida = (barras[b].modo = "esquivando" /\ ventana[b])

\* "Tarjeta solicitada mientras otra esta saliendo" (shell.rs:234): a card is
\* queued only behind one that is leaving.
ColaEnSalida == pendiente # Ninguna => tarjeta.cerrando # "no"

\* "Lo que estuviera abierto se cierra antes de echar el bloqueo"
\* (keybinds.rs, bloquear): no card is open under the lock.
CandadoSinTarjetas == bloqueada => ~Abierta

\* `pedida` is worked out again with the cursor when a card closes (shell.rs,
\* estorbada): a dodging bar nothing holds is asked for by the pointer only.
PedidaPorElCursor ==
  \A b \in Barras :
    /\ barras[b].modo = "esquivando"
    /\ barras[b].pedida
    /\ ~Retenida(b, tarjeta.abierta, isla)
    => puntero \in Sobre(b)

\* A shortcut looks at the bars because "la tarjeta salia colgando de una
\* barra que no se veia" (keybinds.rs, alternar_tarjeta_del_panel).
TarjetaConSuPanel == DelPanel => ~Fuera(barras["panel"])
=============================================================================
