--------------------------- MODULE Notifications ---------------------------
(***************************************************************************)
(* Notifications: the D-Bus server on its own thread (bookos-comp,         *)
(* notificaciones.rs), the channel to the loop, the queue and the toasts   *)
(* the shell keeps (bookos-shell, notificaciones.rs, toast.rs, lib.rs), the*)
(* card of the bell and the box to reply.                                  *)
(*                                                                         *)
(* The compositor sleeps with a toast on the screen: what wakes it is a    *)
(* timer set for the moment each one begins to leave.  Time is what may    *)
(* happen to a toast: it begins to leave (Vence) and it is over (Acaba).   *)
(***************************************************************************)
EXTENDS Naturals, SequencesExt

CONSTANTS Ids,          \* bound: the identifiers that are given out, 1..MaxId
          Maximo,       \* how many the queue keeps
          ALaVista,     \* how many toasts are shown at once
          MaxBus,       \* bound: messages waiting in the channel
          Nada

Captura == 0            \* the identifier the desktop uses for its own

VARIABLES siguiente, bus,             \* the server and the channel
          lista, toasts, emergente, silencio,   \* the shell
          despierto, avisadas         \* the loop will draw; told they are closed

vars == <<siguiente, bus, lista, toasts, emergente, silencio, despierto, avisadas>>

\* the popups that matter: the card of the bell, the box of a reply, any other
Tarjeta(l, i) == [tipo |-> "notificaciones", copia |-> l, seleccionada |-> i]
Caja(i) == [tipo |-> "respuesta", id |-> i]
Otra == [tipo |-> "otra"]
EsTarjeta(e) == e # Nada /\ e.tipo = "notificaciones"

IdsDe(s) == {s[k].id : k \in DOMAIN s}
(* Those of s that are of T, in their order: SelectSeq, written as the     *)
(* function the proofs unfold.                                             *)
Elegidas(s, T) ==
  LET f[i \in 0..Len(s)] ==
        IF i = 0 THEN <<>> ELSE IF s[i] \in T THEN Append(f[i - 1], s[i]) ELSE f[i - 1]
  IN f[Len(s)]
Quietos(ts) == Elegidas(ts, {t \in ToSet(ts) : t.fase = "quieto"})
Menor(a, b) == IF a < b THEN a ELSE b

-----------------------------------------------------------------------------
(* The server: it answers on its own thread and sends to the loop.         *)

(* replaces_id is the application's word: it need not be one that is alive.*)
Notify ==
  /\ Len(bus) < MaxBus
  /\ \E critica \in BOOLEAN, rep \in Ids \cup {0} :
       /\ rep = 0 => siguiente \in Ids
       /\ rep < siguiente
       /\ bus' = Append(bus, [tipo |-> "nueva", critica |-> critica,
                              id |-> IF rep # 0 THEN rep ELSE siguiente])
       /\ siguiente' = IF rep # 0 THEN siguiente ELSE siguiente + 1
  /\ UNCHANGED <<lista, toasts, emergente, silencio, despierto, avisadas>>

CloseNotification ==
  /\ Len(bus) < MaxBus
  /\ \E i \in Ids :
       i < siguiente /\ bus' = Append(bus, [tipo |-> "cerrar", critica |-> FALSE, id |-> i])
  /\ UNCHANGED <<siguiente, lista, toasts, emergente, silencio, despierto, avisadas>>

-----------------------------------------------------------------------------
(* The queue.                                                              *)

GuardadaEncima(l, i) == SubSeq(<<i>> \o l, 1, Menor(Len(l) + 1, Maximo))        \* a slip

(* The same identifier is replaced in its place; a new one goes on top and *)
(* the oldest falls off.                                                   *)
Guardada(l, i) ==
  IF i \in ToSet(l) THEN l ELSE SubSeq(<<i>> \o l, 1, Menor(Len(l) + 1, Maximo))

Sin(l, i) == Elegidas(l, ToSet(l) \ {i})

(* sincronizar_notificaciones: the card keeps a copy and the row that was  *)
(* chosen stays chosen by its place.                                       *)
Sincronizada(e, l) ==
  IF EsTarjeta(e)
  THEN Tarjeta(l, IF e.seleccionada > Len(l) THEN 0 ELSE e.seleccionada)
  ELSE e

-----------------------------------------------------------------------------
(* The stack of toasts.                                                    *)

(* The one that does not fit starts to leave.                              *)
Recortada(ts) ==
  LET sobra == {k \in DOMAIN ts : /\ ts[k].fase = "quieto"
                                  /\ Len(Quietos(SubSeq(ts, 1, k))) = ALaVista + 1}
  IN  [k \in DOMAIN ts |-> IF k \in sobra THEN [ts[k] EXCEPT !.fase = "saliendo"] ELSE ts[k]]

Puesta(ts, i) ==
  LET aviso == [id |-> i, fase |-> "quieto", hora |-> FALSE]
  IN  IF i \in IdsDe(ts)
      THEN [k \in DOMAIN ts |-> IF ts[k].id = i THEN aviso ELSE ts[k]]
      ELSE <<aviso>> \o ts

Descartado(ts, i) ==
  [k \in DOMAIN ts |->
     IF ts[k].id = i /\ ts[k].fase = "quieto" THEN [ts[k] EXCEPT !.fase = "saliendo"] ELSE ts[k]]

(* A popup opens: every toast leaves.  What is read is left out.           *)
TodosFuera(ts) ==
  [k \in DOMAIN ts |-> IF ts[k].fase = "quieto" THEN [ts[k] EXCEPT !.fase = "saliendo"] ELSE ts[k]]

SinDespertar(ts) == ts                                                       \* a slip

(* A timer for the moment each toast that is left begins to leave.         *)
DespertarParaLaSalida(ts) == [k \in DOMAIN ts |-> [ts[k] EXCEPT !.hora = TRUE]]

Notificar(i) ==
  /\ lista' = Guardada(lista, i)
  /\ emergente' = Sincronizada(emergente, lista')
  /\ avisadas' = avisadas \ {i}
  /\ despierto' = TRUE

(* Silence, or a popup that is open, keeps the toast back, not the entry   *)
(* of the queue; a critical one goes through.                              *)
Pila(i, critica) ==
  IF critica \/ ~(silencio \/ emergente # Nada) THEN Recortada(Puesta(toasts, i)) ELSE toasts

RecibirNueva ==
  /\ bus # <<>> /\ Head(bus).tipo = "nueva"
  /\ bus' = Tail(bus)
  /\ Notificar(Head(bus).id)
  /\ toasts' = DespertarParaLaSalida(Pila(Head(bus).id, Head(bus).critica))
  /\ UNCHANGED <<siguiente, silencio>>

(* The application withdraws its own: the queue loses it and the close is  *)
(* confirmed whether it was there or not; its toast is left as it is.      *)
RecibirCerrar ==
  /\ bus # <<>> /\ Head(bus).tipo = "cerrar"
  /\ bus' = Tail(bus)
  /\ lista' = Sin(lista, Head(bus).id)
  /\ toasts' = DespertarParaLaSalida(toasts)
  /\ emergente' = Sincronizada(emergente, lista')
  /\ avisadas' = avisadas \cup {Head(bus).id}
  /\ despierto' = (despierto \/ lista' # lista)
  /\ UNCHANGED <<siguiente, silencio>>

(* The desktop's own, after a capture or on plugging the charger: nobody   *)
(* sets a timer for it.                                                    *)
NotificarCaptura ==
  /\ Notificar(Captura) /\ toasts' = Pila(Captura, FALSE)
  /\ UNCHANGED <<siguiente, bus, silencio>>

-----------------------------------------------------------------------------
(* Time and frames.                                                        *)

Vence ==
  \E k \in DOMAIN toasts :
    /\ toasts[k].fase = "quieto"
    /\ toasts' = [toasts EXCEPT ![k].fase = "saliendo"]
    /\ despierto' = (despierto \/ toasts[k].hora)
    /\ UNCHANGED <<siguiente, bus, lista, emergente, silencio, avisadas>>

Acaba ==
  \E k \in DOMAIN toasts :
    /\ toasts[k].fase = "saliendo"
    /\ toasts' = [toasts EXCEPT ![k].fase = "ido"]
    /\ UNCHANGED <<siguiente, bus, lista, emergente, silencio, despierto, avisadas>>

(* A frame takes away those that are over, and asks for another one while  *)
(* some toast is leaving.                                                  *)
Frame ==
  /\ despierto
  /\ toasts' = Elegidas(toasts, {t \in ToSet(toasts) : t.fase # "ido"})
  /\ despierto' = (\E k \in DOMAIN toasts' : toasts'[k].fase = "saliendo")
  /\ UNCHANGED <<siguiente, bus, lista, emergente, silencio, avisadas>>

(* The clock of the panel redraws once a minute.                           *)
Reloj ==
  /\ ~despierto /\ despierto' = TRUE
  /\ UNCHANGED <<siguiente, bus, lista, toasts, emergente, silencio, avisadas>>

-----------------------------------------------------------------------------
(* Popups and the user.                                                    *)

Abrir(e, ts) ==
  /\ emergente' = e /\ toasts' = TodosFuera(ts) /\ despierto' = TRUE

AbrirTarjeta ==
  /\ ~EsTarjeta(emergente) /\ Abrir(Tarjeta(lista, 0), toasts)
  /\ UNCHANGED <<siguiente, bus, lista, silencio, avisadas>>

AbrirOtra ==
  /\ emergente = Nada /\ Abrir(Otra, toasts)
  /\ UNCHANGED <<siguiente, bus, lista, silencio, avisadas>>

CerrarEmergente ==
  /\ emergente # Nada /\ emergente' = Nada /\ despierto' = TRUE
  /\ UNCHANGED <<siguiente, bus, lista, toasts, silencio, avisadas>>

(* «No molestar», from the card or from Settings; it also runs out.        *)
NoMolestar ==
  /\ silencio' = ~silencio
  /\ UNCHANGED <<siguiente, bus, lista, toasts, emergente, despierto, avisadas>>

RetirarCallando(i, e) ==                                                     \* a slip
  /\ lista' = Sin(lista, i) /\ emergente' = Sincronizada(e, lista') /\ avisadas' = avisadas

(* Accion::CerrarNotificacion and the actions that end in it: out of the   *)
(* queue, and NotificationClosed only if it was there.                     *)
Retirar(i, e) ==
  /\ lista' = Sin(lista, i)
  /\ emergente' = Sincronizada(e, lista')
  /\ avisadas' = IF i \in ToSet(lista) THEN avisadas \cup {i} ELSE avisadas

DeDelante(ts) == IF Quietos(ts) = <<>> THEN Nada ELSE Quietos(ts)[1].id

(* The body of the toast in front: it goes, and the notification stays.    *)
PulsarCuerpo ==
  /\ DeDelante(toasts) # Nada
  /\ toasts' = Descartado(toasts, DeDelante(toasts)) /\ despierto' = TRUE
  /\ UNCHANGED <<siguiente, bus, lista, emergente, silencio, avisadas>>

(* Its ✕, or one of its actions, which closes the notification.            *)
PulsarAccion ==
  /\ DeDelante(toasts) # Nada
  /\ toasts' = Descartado(toasts, DeDelante(toasts)) /\ despierto' = TRUE
  /\ Retirar(DeDelante(toasts), emergente)
  /\ UNCHANGED <<siguiente, bus, silencio>>

(* «Responder»: the box, if the notification is still in the queue.        *)
PulsarResponder ==
  /\ DeDelante(toasts) # Nada
  /\ IF DeDelante(toasts) \in ToSet(lista)
     THEN Abrir(Caja(DeDelante(toasts)), toasts)
     ELSE toasts' = Descartado(toasts, DeDelante(toasts)) /\ despierto' = TRUE /\ UNCHANGED emergente
  /\ UNCHANGED <<siguiente, bus, lista, silencio, avisadas>>

EnviarRespuesta ==
  /\ emergente # Nada /\ emergente.tipo = "respuesta"
  /\ Retirar(emergente.id, Nada) /\ despierto' = TRUE
  /\ UNCHANGED <<siguiente, bus, toasts, silencio>>

(* The rows of the card: the arrows choose one, a click or Enter closes it *)
(* or acts on it, which closes it too.                                     *)
Flecha ==
  /\ EsTarjeta(emergente)
  /\ \E i \in DOMAIN emergente.copia : emergente' = Tarjeta(emergente.copia, i)
  /\ despierto' = TRUE
  /\ UNCHANGED <<siguiente, bus, lista, toasts, silencio, avisadas>>

IntroEnFila ==
  /\ EsTarjeta(emergente) /\ emergente.seleccionada \in DOMAIN emergente.copia
  /\ Retirar(emergente.copia[emergente.seleccionada], emergente) /\ despierto' = TRUE
  /\ UNCHANGED <<siguiente, bus, toasts, silencio>>

PulsarFila ==
  /\ EsTarjeta(emergente)
  /\ \E k \in DOMAIN emergente.copia : Retirar(emergente.copia[k], emergente)
  /\ despierto' = TRUE
  /\ UNCHANGED <<siguiente, bus, toasts, silencio>>

Borrar ==
  /\ EsTarjeta(emergente)
  /\ lista' = <<>> /\ emergente' = Sincronizada(emergente, <<>>)
  /\ avisadas' = avisadas \cup ToSet(lista) /\ despierto' = TRUE
  /\ UNCHANGED <<siguiente, bus, toasts, silencio>>

-----------------------------------------------------------------------------
Init ==
  /\ siguiente = 1 /\ bus = <<>>
  /\ lista = <<>> /\ toasts = <<>> /\ emergente = Nada /\ silencio = FALSE
  /\ despierto = FALSE /\ avisadas = {}

Next ==
  \/ Notify \/ CloseNotification \/ RecibirNueva \/ RecibirCerrar \/ NotificarCaptura
  \/ Vence \/ Acaba \/ Frame \/ Reloj
  \/ AbrirTarjeta \/ AbrirOtra \/ CerrarEmergente \/ NoMolestar
  \/ PulsarCuerpo \/ PulsarAccion \/ PulsarResponder \/ EnviarRespuesta
  \/ Flecha \/ IntroEnFila \/ PulsarFila \/ Borrar

Spec == Init /\ [][Next]_vars

-----------------------------------------------------------------------------
(* What is shown and what is kept agree: one entry per identifier, the cap *)
(* respected, the open card showing the queue as it is, and nothing in the *)
(* queue that its application has been told is closed.                     *)
ColaFiel ==
  /\ IsInjective(lista)
  /\ Len(lista) <= Maximo
  /\ EsTarjeta(emergente) => emergente.copia = lista
  /\ ToSet(lista) \cap avisadas = {}

(* The stack: one toast per notification, no more than ALaVista that are   *)
(* not leaving, and a toast that came by the bus and is leaving has a      *)
(* frame on its way: it is not left on a screen nobody draws.              *)
PilaEnMarcha ==
  /\ \A j, k \in DOMAIN toasts : toasts[j].id = toasts[k].id => j = k
  /\ Len(Quietos(toasts)) <= ALaVista
  /\ \A k \in DOMAIN toasts : toasts[k].fase = "saliendo" /\ toasts[k].id # Captura => despierto

(* A notification leaves the queue with its application told, or pushed    *)
(* off the end by a new one.                                               *)
PasoContado ==
  \A k \in DOMAIN lista :
    lista[k] \notin ToSet(lista') =>
      \/ lista[k] \in avisadas'
      \/ k = Len(lista) /\ Len(lista) = Maximo /\ Len(lista') = Maximo
CierreContado == [][PasoContado]_vars

(* A toast that can be pressed is of a notification that its application   *)
(* has not been told is closed (notificaciones.rs:149).                    *)
AvisoRetirado == \A k \in DOMAIN toasts : toasts[k].fase = "quieto" => toasts[k].id \notin avisadas

(* Every toast goes by itself, the desktop's own like any other            *)
(* (backend/mod.rs:1460).                                                  *)
SeVaSolo == \A k \in DOMAIN toasts : toasts[k].fase = "saliendo" => despierto

=============================================================================
