--------------------------- MODULE SystemService ---------------------------
(***************************************************************************)
(* bookos-system: the service of the session that reads the network, the   *)
(* Bluetooth and the sound, does what it is asked and says what changed    *)
(* (main.rs), and the client inside the compositor that keeps a copy of    *)
(* its state (lib.rs).  NetworkManager, BlueZ and PipeWire are external: a  *)
(* domain is a number that grows with every change of its hardware.  An    *)
(* operation takes the lock of its domain, that of the aeroplane both; its  *)
(* answer waits for the state to be read again.                            *)
(***************************************************************************)
EXTENDS Naturals, Sequences, FiniteSets

CONSTANTS
  Carriles,    \* per lane of the client: the domains it may ask for
  MaxCambios,  \* bound: changes of each domain
  MaxCanal,    \* what the channel of changes holds (32 in the code)
  MaxPedidos,  \* bound: operations asked for
  MaxVence,    \* bound: times an answer is given up
  MaxFallos,   \* bound: readings that fail
  Cruzan       \* whether a reply and a signal may pass each other

Dominios == {"network", "bluetooth"}
Lineas == DOMAIN Carriles
De(d) == IF d = "all" THEN Dominios ELSE {d}

VARIABLES
  hw,       \* the hardware
  avisos,   \* domains whose watcher has something to say
  canal,    \* changes: domain and the lane that waits for it, or nobody
  bucle,    \* the loop of main: its phase and what it has gathered
  estado,   \* the state of the service: what was read of each domain
  llamada,  \* what the worker of each lane is at
  senales,  \* StateChanged, on its way to the subscriber
  cache,    \* the copy of the client
  cuenta    \* operations asked for, answers given up, readings failed
vars == <<hw, avisos, canal, bucle, estado, llamada, senales, cache, cuenta>>

Nadie == "nadie"
Fallo == 98    \* the reading failed: above any count
SinLeer == 99  \* nothing was read yet
Quieto == [fase |-> "espera", pedidos |-> {}, esperan |-> {}, leido |-> [d \in Dominios |-> SinLeer]]
Libre == [fase |-> "libre", dom |-> "-", ok |-> TRUE, hecho |-> [d \in Dominios |-> 0],
          dato |-> [d \in Dominios |-> SinLeer]]

(***************************************************************************)
(* The hardware and its watchers: watch_bus, watch_owner, watch_audio.     *)
(***************************************************************************)
Cambiar(d) ==
  /\ hw[d] < MaxCambios
  /\ hw' = [hw EXCEPT ![d] = @ + 1]
  /\ avisos' = avisos \cup {d}
  /\ UNCHANGED <<canal, bucle, estado, llamada, senales, cache, cuenta>>

\* try_send: with the channel full the notice is lost.
Vigilar(d) ==
  /\ d \in avisos
  /\ avisos' = avisos \ {d}
  /\ canal' = IF Len(canal) < MaxCanal THEN Append(canal, [dom |-> d, done |-> Nadie]) ELSE canal
  /\ UNCHANGED <<hw, bucle, estado, llamada, senales, cache, cuenta>>

(***************************************************************************)
(* The loop of main.                                                       *)
(***************************************************************************)
Recibir ==
  /\ bucle.fase = "espera" /\ canal # <<>>
  /\ bucle' = [bucle EXCEPT !.fase = "agrupa", !.pedidos = {Head(canal).dom},
                            !.esperan = {Head(canal).done} \ {Nadie}]
  /\ canal' = Tail(canal)
  /\ UNCHANGED <<hw, avisos, estado, llamada, senales, cache, cuenta>>

\* SLIP: whoever waits is answered from what was read before.
AgruparContestando ==
  /\ bucle.fase = "agrupa"
  /\ bucle' = [bucle EXCEPT !.fase = "lee",
                 !.pedidos = UNION {De(d) : d \in @ \cup {canal[i].dom : i \in DOMAIN canal}},
                 !.esperan = {}]
  /\ llamada' = [l \in Lineas |->
       IF llamada[l].fase = "espera" /\ l \in bucle.esperan \cup {canal[i].done : i \in DOMAIN canal}
       THEN [llamada[l] EXCEPT !.fase = "devuelta"] ELSE llamada[l]]
  /\ canal' = <<>>
  /\ UNCHANGED <<hw, avisos, estado, senales, cache, cuenta>>

\* After 40 ms, all there is: one reading for the whole burst.
Agrupar ==
  /\ bucle.fase = "agrupa"
  /\ bucle' = [bucle EXCEPT !.fase = "lee",
                 !.pedidos = UNION {De(d) : d \in @ \cup {canal[i].dom : i \in DOMAIN canal}},
                 !.esperan = @ \cup ({canal[i].done : i \in DOMAIN canal} \ {Nadie})]
  /\ canal' = <<>>
  /\ UNCHANGED <<hw, avisos, estado, llamada, senales, cache, cuenta>>

\* Each domain is read on its own, and may not answer.
Leer(d, v) ==
  /\ bucle.fase = "lee" /\ d \in bucle.pedidos /\ bucle.leido[d] = SinLeer
  /\ v = Fallo => cuenta.fallos < MaxFallos
  /\ bucle' = [bucle EXCEPT !.leido[d] = v]
  /\ cuenta' = [cuenta EXCEPT !.fallos = IF v = Fallo THEN @ + 1 ELSE @]
  /\ UNCHANGED <<hw, avisos, canal, estado, llamada, senales, cache>>

Leido(d) == IF bucle.leido[d] = SinLeer THEN estado[d] ELSE bucle.leido[d]

Escribir ==
  /\ bucle.fase = "lee" /\ \A d \in bucle.pedidos : bucle.leido[d] # SinLeer
  /\ estado' = [d \in Dominios |-> Leido(d)]
  /\ bucle' = [bucle EXCEPT !.fase = IF estado' = estado THEN "contesta" ELSE "emite"]
  /\ UNCHANGED <<hw, avisos, canal, llamada, senales, cache, cuenta>>

Emitir ==
  /\ bucle.fase = "emite"
  /\ senales' = Append(senales, estado)
  /\ bucle' = [bucle EXCEPT !.fase = "contesta"]
  /\ UNCHANGED <<hw, avisos, canal, estado, llamada, cache, cuenta>>

\* perform is told: it looks at the errors of its domain and answers.
Confirmada(l) == llamada[l].ok /\ \A d \in De(llamada[l].dom) : estado[d] # Fallo

Contestar ==
  /\ bucle.fase = "contesta"
  /\ llamada' = [l \in Lineas |->
       IF l \in bucle.esperan /\ llamada[l].fase = "espera"
       THEN [llamada[l] EXCEPT !.fase = "devuelta", !.ok = Confirmada(l)] ELSE llamada[l]]
  /\ bucle' = Quieto
  /\ UNCHANGED <<hw, avisos, canal, estado, senales, cache, cuenta>>

(***************************************************************************)
(* perform, called from the worker of a lane.                              *)
(***************************************************************************)
Tiene(l) == CASE llamada[l].fase \in {"dentro", "hecha", "espera"} -> De(llamada[l].dom)
              [] llamada[l].fase = "medio" -> {"network"}
              [] OTHER -> {}
LibreDe(d) == \A l \in Lineas : d \notin Tiene(l)

Pedir(l, dom) ==
  /\ llamada[l].fase = "libre" /\ cuenta.pedidas < MaxPedidos
  /\ llamada' = [llamada EXCEPT ![l] = [Libre EXCEPT !.fase = "cola", !.dom = dom]]
  /\ cuenta' = [cuenta EXCEPT !.pedidas = @ + 1]
  /\ UNCHANGED <<hw, avisos, canal, bucle, estado, senales, cache>>

\* The aeroplane takes the lock of the network, and then that of Bluetooth.
Entrar(l) ==
  /\ \/ llamada[l].fase = "cola" /\ LibreDe(IF llamada[l].dom = "all" THEN "network" ELSE llamada[l].dom)
     \/ llamada[l].fase = "medio" /\ LibreDe("bluetooth")
  /\ llamada' = [llamada EXCEPT ![l].fase =
                   IF @ = "cola" /\ llamada[l].dom = "all" THEN "medio" ELSE "dentro"]
  /\ UNCHANGED <<hw, avisos, canal, bucle, estado, senales, cache, cuenta>>

\* It may change the hardware, or not, and say so or not: it has a time.
Hacer(l, cambia, ok) ==
  /\ llamada[l].fase = "dentro"
  /\ hw' = [d \in Dominios |-> IF cambia /\ d \in De(llamada[l].dom) /\ hw[d] < MaxCambios
                               THEN hw[d] + 1 ELSE hw[d]]
  /\ avisos' = avisos \cup {d \in Dominios : hw'[d] # hw[d]}
  /\ llamada' = [llamada EXCEPT ![l].fase = "hecha", ![l].ok = ok, ![l].hecho = hw']
  /\ UNCHANGED <<canal, bucle, estado, senales, cache, cuenta>>

Avisar(l) ==
  /\ llamada[l].fase = "hecha" /\ Len(canal) < MaxCanal
  /\ canal' = Append(canal, [dom |-> llamada[l].dom, done |-> l])
  /\ llamada' = [llamada EXCEPT ![l].fase = "espera"]
  /\ UNCHANGED <<hw, avisos, bucle, estado, senales, cache, cuenta>>

\* 15 seconds with no reading: done, but not confirmed.
Vencer(l) ==
  /\ llamada[l].fase = "espera" /\ cuenta.vencidas < MaxVence
  /\ cuenta' = [cuenta EXCEPT !.vencidas = @ + 1]
  /\ llamada' = [llamada EXCEPT ![l].fase = "devuelta", ![l].ok = FALSE]
  /\ canal' = [i \in DOMAIN canal |-> IF canal[i].done = l THEN [canal[i] EXCEPT !.done = Nadie] ELSE canal[i]]
  /\ bucle' = [bucle EXCEPT !.esperan = @ \ {l}]
  /\ UNCHANGED <<hw, avisos, estado, senales, cache>>

\* The worker: an operation that went well is followed by GetState.
GetState(l) ==
  /\ llamada[l].fase = "devuelta" /\ llamada[l].ok
  /\ llamada' = [llamada EXCEPT ![l].fase = "llega", ![l].dato = estado]
  /\ UNCHANGED <<hw, avisos, canal, bucle, estado, senales, cache, cuenta>>

Rechazada(l) ==
  /\ llamada[l].fase = "devuelta" /\ ~llamada[l].ok
  /\ llamada' = [llamada EXCEPT ![l] = Libre]
  /\ UNCHANGED <<hw, avisos, canal, bucle, estado, senales, cache, cuenta>>

\* update, from the worker of a lane and from the subscriber.
Llega(l) ==
  /\ llamada[l].fase = "llega"
  /\ cache' = llamada[l].dato
  /\ llamada' = [llamada EXCEPT ![l] = Libre]
  /\ UNCHANGED <<hw, avisos, canal, bucle, estado, senales, cuenta>>

StateChanged ==
  /\ senales # <<>>
  /\ Cruzan \/ \A l \in Lineas : llamada[l].fase # "llega"
  /\ cache' = Head(senales)
  /\ senales' = Tail(senales)
  /\ UNCHANGED <<hw, avisos, canal, bucle, estado, llamada, cuenta>>

Init ==
  /\ hw = [d \in Dominios |-> 0] /\ avisos = {}
  /\ canal = <<[dom |-> "all", done |-> Nadie]>> /\ bucle = Quieto
  /\ estado = [d \in Dominios |-> SinLeer]
  /\ llamada = [l \in Lineas |-> Libre]
  /\ senales = <<>> /\ cache = estado /\ cuenta = [pedidas |-> 0, vencidas |-> 0, fallos |-> 0]

Next ==
  \/ \E d \in Dominios : Cambiar(d)
  \/ \E d \in Dominios : Vigilar(d)
  \/ Recibir
  \/ Agrupar
  \/ \E d \in Dominios : Leer(d, hw[d])
  \/ \E d \in Dominios : Leer(d, Fallo)
  \/ Escribir
  \/ Emitir
  \/ Contestar
  \/ \E l \in Lineas : \E dom \in Carriles[l] : Pedir(l, dom)
  \/ \E l \in Lineas : Entrar(l)
  \/ \E l \in Lineas, cambia \in BOOLEAN, ok \in BOOLEAN : Hacer(l, cambia, ok)
  \/ \E l \in Lineas : Avisar(l)
  \/ \E l \in Lineas : Vencer(l)
  \/ \E l \in Lineas : GetState(l)
  \/ \E l \in Lineas : Rechazada(l)
  \/ \E l \in Lineas : Llega(l)
  \/ StateChanged

Spec == Init /\ [][Next]_vars

(***************************************************************************)
(* Properties.                                                             *)
(***************************************************************************)
\* An operation answered as done is seen in the state of the service.
Vista == \A l \in Lineas : llamada[l].fase = "devuelta" /\ llamada[l].ok =>
           \A d \in De(llamada[l].dom) : estado[d] = Fallo \/ estado[d] >= llamada[l].hecho[d]

\* Nobody is left waiting for a reading that will not come.
NadieEsperaEnVano == \A l \in Lineas : llamada[l].fase = "espera" =>
  l \in bucle.esperan \/ \E i \in DOMAIN canal : canal[i].done = l

\* With nothing on its way, the service shows the hardware as it is.
SinNovedad == avisos = {} /\ canal = <<>> /\ bucle.fase = "espera"
              /\ \A l \in Lineas : llamada[l].fase = "libre"
EstadoAlDia == SinNovedad => \A d \in Dominios : estado[d] \in {hw[d], Fallo}

\* And the client shows what the service does.
CacheAlDia == SinNovedad /\ senales = <<>> => cache = estado

ServicioEnOrden == Vista /\ NadieEsperaEnVano /\ EstadoAlDia
=============================================================================
