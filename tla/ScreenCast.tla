------------------------------ MODULE ScreenCast ------------------------------
(***************************************************************************)
(* Sharing a screen.  Three threads that share nothing but channels:       *)
(* zbus's executor, where CreateSession, Start, Request.Close and          *)
(* Session.Close interleave at their awaits; the compositor, which asks    *)
(* the user, keeps the emissions and makes the frames; and the PipeWire    *)
(* thread, which owns the video nodes.  Start waits on two promises: the   *)
(* user's answer and the identifier of the node.  A promise whose other    *)
(* end is dropped says no.                                                 *)
(***************************************************************************)
EXTENDS Naturals, Sequences, FiniteSets

CONSTANTS
    Sesiones,
    Nadie,
    Dibujadas   \* sessions whose output is drawn: the others watch a still desktop

ASSUME NadieAssumption == Nadie \notin Sesiones
ASSUME DibujadasAssumption == Dibujadas \subseteq Sesiones

VARIABLES
    \* xdg-desktop-portal and zbus's executor
    sesiones,        \* Estado.sesiones: sessions that are open
    cerradas,        \* Session.Close was called
    start,           \* where each Start is
    resultado,       \* its response code
    solicitud,       \* Request objects on the bus
    cancelada,       \* Request.Close was called
    respuesta,       \* the promise of the user's answer
    nodo,            \* the promise of the node's identifier
    avisos,          \* the channel to the compositor
    \* the compositor
    consentimiento,  \* BookosComp.consentimiento
    tarjeta,         \* the session of the card on screen
    hilo,            \* Emisiones.emisor and its thread: "sin", "vivo", "caido"
    activas,         \* Emisiones.activas
    pendientes,      \* Emisiones.pendientes
    ordenes,         \* the channel to the PipeWire thread
    \* the PipeWire thread
    nodos,           \* "no", "conectando" or "vivo"
    enNodo,          \* nodes with a frame that nobody took yet
    reciclado        \* frames on their way back

portal == <<sesiones, cerradas, start, resultado, solicitud, cancelada>>
promesas == <<respuesta, nodo>>
escritorio == <<consentimiento, tarjeta>>
emisiones == <<hilo, activas, pendientes>>
pw == <<nodos, enNodo, reciclado>>
vars == <<sesiones, cerradas, start, resultado, solicitud, cancelada, respuesta,
          nodo, avisos, consentimiento, tarjeta, hilo, activas, pendientes,
          ordenes, nodos, enNodo, reciclado>>

Avisos == [que : {"consentir", "cerrar", "cancelar"}, sesion : Sesiones]
Ordenes == [que : {"abrir", "marco", "cerrar"}, sesion : Sesiones]
Aviso(q, s) == [que |-> q, sesion |-> s]
Orden(q, s) == [que |-> q, sesion |-> s]
Cola(c, q, s) == \E i \in DOMAIN c : c[i].que = q /\ c[i].sesion = s

Promesa == {"nadie", "espera", "dada", "soltada"}

TypeOK ==
    /\ sesiones \subseteq Sesiones /\ cerradas \subseteq Sesiones
    /\ start \in [Sesiones -> {"no", "publica", "espera", "nodo", "retira", "fin"}]
    /\ resultado \in [Sesiones -> {"ninguno", "correcto", "cancelado", "fallo"}]
    /\ solicitud \subseteq Sesiones /\ cancelada \subseteq Sesiones
    /\ respuesta \in [Sesiones -> Promesa] /\ nodo \in [Sesiones -> Promesa]
    /\ avisos \in Seq(Avisos)
    /\ consentimiento \in Sesiones \cup {Nadie}
    /\ tarjeta \in Sesiones \cup {Nadie}
    /\ hilo \in {"sin", "vivo", "caido"}
    /\ activas \subseteq Sesiones /\ pendientes \subseteq activas
    /\ ordenes \in Seq(Ordenes)
    /\ nodos \in [Sesiones -> {"no", "conectando", "vivo"}]
    /\ enNodo \subseteq {s \in Sesiones : nodos[s] # "no"}
    /\ reciclado \subseteq Sesiones

Init ==
    /\ sesiones = {} /\ cerradas = {}
    /\ start = [s \in Sesiones |-> "no"]
    /\ resultado = [s \in Sesiones |-> "ninguno"]
    /\ solicitud = {} /\ cancelada = {}
    /\ respuesta = [s \in Sesiones |-> "nadie"]
    /\ nodo = [s \in Sesiones |-> "nadie"]
    /\ avisos = <<>>
    /\ consentimiento = Nadie /\ tarjeta = Nadie
    /\ hilo = "sin" /\ activas = {} /\ pendientes = {}
    /\ ordenes = <<>>
    /\ nodos = [s \in Sesiones |-> "no"] /\ enNodo = {} /\ reciclado = {}

-------------------------------------------------------------------------------
(* Promises.  An emissary is dropped once, and delivering consumes it.     *)

Suelta(p, s) == [p EXCEPT ![s] = IF @ = "espera" THEN "soltada" ELSE @]
Resuelta(p, s) == p[s] \in {"dada", "soltada"}

-------------------------------------------------------------------------------
(* zbus's executor.                                                        *)

\* create_session, and the portal hands out a path once.
CreateSession(s) ==
    /\ s \notin sesiones \cup cerradas
    /\ sesiones' = sesiones \cup {s}
    /\ UNCHANGED <<cerradas, start, resultado, solicitud, cancelada, avisos, ordenes>>
    /\ UNCHANGED promesas /\ UNCHANGED escritorio /\ UNCHANGED emisiones
    /\ UNCHANGED pw

\* start, until it awaits the publication of its Request.  The portal starts a
\* session once, and it may be closed already.
Start(s) ==
    /\ start[s] = "no" /\ s \in sesiones \cup cerradas
    /\ IF s \in sesiones
       THEN start' = [start EXCEPT ![s] = "publica"] /\ UNCHANGED resultado
       ELSE /\ start' = [start EXCEPT ![s] = "fin"]
            /\ resultado' = [resultado EXCEPT ![s] = "fallo"]
    /\ UNCHANGED <<sesiones, cerradas, solicitud, cancelada, avisos, ordenes>>
    /\ UNCHANGED promesas /\ UNCHANGED escritorio /\ UNCHANGED emisiones
    /\ UNCHANGED pw

\* ... the Request is published: the user is asked.
StartPregunta(s) ==
    /\ start[s] = "publica"
    /\ start' = [start EXCEPT ![s] = "espera"]
    /\ solicitud' = solicitud \cup {s}
    /\ respuesta' = [respuesta EXCEPT ![s] = "espera"]
    /\ nodo' = [nodo EXCEPT ![s] = "espera"]
    /\ avisos' = Append(avisos, Aviso("consentir", s))
    /\ UNCHANGED <<sesiones, cerradas, resultado, cancelada, ordenes>>
    /\ UNCHANGED escritorio /\ UNCHANGED emisiones /\ UNCHANGED pw

\* ... or it could not be published.
StartNoPublica(s) ==
    /\ start[s] = "publica"
    /\ start' = [start EXCEPT ![s] = "fin"]
    /\ resultado' = [resultado EXCEPT ![s] = "fallo"]
    /\ UNCHANGED <<sesiones, cerradas, solicitud, cancelada, avisos, ordenes>>
    /\ UNCHANGED promesas /\ UNCHANGED escritorio /\ UNCHANGED emisiones
    /\ UNCHANGED pw

\* What Start makes of the user's answer.
TrasRespuesta(s) == s \notin cancelada /\ respuesta[s] = "dada"

StartRespondida(s) ==
    /\ start[s] = "espera" /\ Resuelta(respuesta, s)
    /\ IF TrasRespuesta(s)
       THEN start' = [start EXCEPT ![s] = "nodo"] /\ UNCHANGED resultado
       ELSE /\ start' = [start EXCEPT ![s] = "retira"]
            /\ resultado' = [resultado EXCEPT ![s] = "cancelado"]
    /\ UNCHANGED <<sesiones, cerradas, solicitud, cancelada, avisos, ordenes>>
    /\ UNCHANGED promesas /\ UNCHANGED escritorio /\ UNCHANGED emisiones
    /\ UNCHANGED pw

\* ... and of the node's identifier.
Concedida(s) == nodo[s] = "dada" /\ s \notin cancelada
AvisosTrasNodoCallado(s) == avisos \* a slip: the emission of a node that failed is kept
AvisosTrasNodo(s) ==
    IF Concedida(s) THEN avisos ELSE Append(avisos, Aviso("cerrar", s))

StartNodo(s) ==
    /\ start[s] = "nodo" /\ Resuelta(nodo, s)
    /\ start' = [start EXCEPT ![s] = "retira"]
    /\ resultado' = [resultado EXCEPT ![s] =
                        IF Concedida(s) THEN "correcto"
                        ELSE IF nodo[s] = "dada" THEN "cancelado" ELSE "fallo"]
    /\ avisos' = AvisosTrasNodo(s)
    /\ UNCHANGED <<sesiones, cerradas, solicitud, cancelada, ordenes>>
    /\ UNCHANGED promesas /\ UNCHANGED escritorio /\ UNCHANGED emisiones
    /\ UNCHANGED pw

\* ... and the Request is removed.
StartRetira(s) ==
    /\ start[s] = "retira"
    /\ start' = [start EXCEPT ![s] = "fin"]
    /\ solicitud' = solicitud \ {s}
    /\ UNCHANGED <<sesiones, cerradas, resultado, cancelada, avisos, ordenes>>
    /\ UNCHANGED promesas /\ UNCHANGED escritorio /\ UNCHANGED emisiones
    /\ UNCHANGED pw

\* Request.Close.
CierraSolicitud(s) ==
    /\ s \in solicitud
    /\ cancelada' = cancelada \cup {s} /\ solicitud' = solicitud \ {s}
    /\ avisos' = Append(avisos, Aviso("cancelar", s))
    /\ UNCHANGED <<sesiones, cerradas, start, resultado, ordenes>>
    /\ UNCHANGED promesas /\ UNCHANGED escritorio /\ UNCHANGED emisiones
    /\ UNCHANGED pw

\* Session.Close: the application ends the call.
CierraSesion(s) ==
    /\ s \in sesiones
    /\ sesiones' = sesiones \ {s} /\ cerradas' = cerradas \cup {s}
    /\ avisos' = Append(avisos, Aviso("cerrar", s))
    /\ UNCHANGED <<start, resultado, solicitud, cancelada, ordenes>>
    /\ UNCHANGED promesas /\ UNCHANGED escritorio /\ UNCHANGED emisiones
    /\ UNCHANGED pw

-------------------------------------------------------------------------------
(* The compositor.                                                         *)

\* Emisor::enviar: an order to a thread that is gone is lost.
Envia(q, s) == IF hilo = "vivo" THEN Append(ordenes, Orden(q, s)) ELSE ordenes

\* Emisiones::quitar.
QuitarConPendiente(s) == \* a slip: the barrier of a frame that will not come back stays
    /\ activas' = activas \ {s} /\ UNCHANGED <<pendientes, hilo>>
    /\ ordenes' = Envia("cerrar", s)
QuitarCallando(s) == \* a slip: the thread is not told
    /\ activas' = activas \ {s} /\ pendientes' = pendientes \ {s}
    /\ UNCHANGED <<ordenes, hilo>>
Quitar(s) ==
    /\ activas' = activas \ {s} /\ pendientes' = pendientes \ {s}
    /\ ordenes' = Envia("cerrar", s)
    /\ UNCHANGED hilo

\* ShellHost::cerrar_emergente.
CierraTarjetaNunca == UNCHANGED tarjeta \* a slip: the popover is left on screen
CierraTarjeta == tarjeta' = Nadie

Niega(s) == respuesta' = Suelta(respuesta, s) /\ nodo' = Suelta(nodo, s)

\* consentir: one dialog at a time.
Ocupado == consentimiento # Nadie

Consentir(s) ==
    /\ avisos # <<>> /\ Head(avisos) = Aviso("consentir", s)
    /\ avisos' = Tail(avisos)
    /\ \/ /\ ~Ocupado
          /\ consentimiento' = s /\ tarjeta' = s
          /\ UNCHANGED promesas
       \/ \* busy, or no output to show
          /\ Niega(s)
          /\ UNCHANGED escritorio
    /\ UNCHANGED ordenes
    /\ UNCHANGED portal /\ UNCHANGED emisiones /\ UNCHANGED pw

\* Aviso::Cerrar.
Cerrar(s) ==
    /\ avisos # <<>> /\ Head(avisos) = Aviso("cerrar", s)
    /\ avisos' = Tail(avisos)
    /\ Quitar(s)
    /\ UNCHANGED promesas /\ UNCHANGED escritorio
    /\ UNCHANGED portal /\ UNCHANGED pw

\* cancelar.
RetiraTarjetaNunca(s) == FALSE \* a slip: the card outlives its request
RetiraTarjeta(s) == consentimiento = s

Cancelar(s) ==
    /\ avisos # <<>> /\ Head(avisos) = Aviso("cancelar", s)
    /\ avisos' = Tail(avisos)
    /\ IF RetiraTarjeta(s)
       THEN consentimiento' = Nadie /\ CierraTarjeta /\ Niega(s)
       ELSE UNCHANGED promesas /\ UNCHANGED escritorio
    /\ Quitar(s)
    /\ UNCHANGED portal /\ UNCHANGED pw

\* responder: yes to one of the screens.  The thread starts with the first yes;
\* whether the crate drops what is sent to a thread that is gone is its own.
Acepta(s) ==
    /\ tarjeta = s /\ consentimiento = s
    /\ consentimiento' = Nadie /\ CierraTarjeta
    /\ hilo' = IF hilo = "sin" THEN "vivo" ELSE hilo
    /\ ordenes' = IF hilo = "caido" THEN ordenes ELSE Append(ordenes, Orden("abrir", s))
    /\ \/ UNCHANGED nodo
       \/ hilo = "caido" /\ nodo' = Suelta(nodo, s)
    /\ activas' = activas \cup {s} /\ UNCHANGED pendientes
    /\ respuesta' = [respuesta EXCEPT ![s] = "dada"]
    /\ UNCHANGED avisos /\ UNCHANGED portal /\ UNCHANGED pw

\* ... no, a screen that is not in the list, or the thread cannot be started.
Rechaza(s) ==
    /\ tarjeta = s /\ consentimiento = s
    /\ consentimiento' = Nadie /\ CierraTarjeta
    /\ Niega(s)
    /\ UNCHANGED <<avisos, ordenes>>
    /\ UNCHANGED portal /\ UNCHANGED emisiones /\ UNCHANGED pw

\* A click outside, another popover, the lock, a shell that panics.
TarjetaSeCierra ==
    /\ tarjeta # Nadie
    /\ tarjeta' = Nadie
    /\ UNCHANGED <<consentimiento, avisos, ordenes>>
    /\ UNCHANGED promesas /\ UNCHANGED portal /\ UNCHANGED emisiones
    /\ UNCHANGED pw

\* denegar_si_se_cerro, before the loop sleeps.
AbandonadaNunca == FALSE \* a slip: the safety net is not there
Abandonada == consentimiento # Nadie /\ tarjeta # consentimiento

DenegarSiSeCerro ==
    /\ Abandonada
    /\ consentimiento' = Nadie
    /\ Niega(consentimiento)
    /\ UNCHANGED <<tarjeta, avisos, ordenes>>
    /\ UNCHANGED portal /\ UNCHANGED emisiones /\ UNCHANGED pw

\* The output was drawn: recoger, and a frame for whoever it is due to.
LibresSiempre(s) == TRUE \* a slip: the barrier of the pending frame is gone
Libres(s) == s \notin pendientes \ reciclado

Emitir(s) ==
    /\ s \in activas \cap Dibujadas /\ Libres(s)
    /\ pendientes' = (pendientes \ reciclado) \cup {s} /\ reciclado' = {}
    /\ ordenes' = Envia("marco", s)
    /\ UNCHANGED <<hilo, activas, nodos, enNodo, avisos>>
    /\ UNCHANGED promesas /\ UNCHANGED portal /\ UNCHANGED escritorio

\* ... or the output changed its size: the emission is cut, and Session.Closed.
EmitirCorta(s) ==
    /\ s \in activas \cap Dibujadas /\ Libres(s)
    /\ activas' = activas \ {s} /\ pendientes' = (pendientes \ reciclado) \ {s}
    /\ reciclado' = {}
    /\ ordenes' = Envia("cerrar", s)
    /\ UNCHANGED <<hilo, nodos, enNodo, avisos>>
    /\ UNCHANGED promesas /\ UNCHANGED portal /\ UNCHANGED escritorio

-------------------------------------------------------------------------------
(* The PipeWire thread.                                                    *)

EsOrden(q, s) == hilo = "vivo" /\ ordenes # <<>> /\ Head(ordenes) = Orden(q, s)

\* abrir; the stream may not be created or connected.
Abrir(s) ==
    /\ EsOrden("abrir", s)
    /\ ordenes' = Tail(ordenes)
    /\ \/ nodos' = [nodos EXCEPT ![s] = "conectando"] /\ UNCHANGED nodo
       \/ nodo' = Suelta(nodo, s) /\ UNCHANGED nodos
    /\ UNCHANGED <<avisos, respuesta, enNodo, reciclado>>
    /\ UNCHANGED portal /\ UNCHANGED escritorio /\ UNCHANGED emisiones

\* Orden::Marco.
Marco(s) ==
    /\ EsOrden("marco", s)
    /\ ordenes' = Tail(ordenes)
    /\ IF nodos[s] = "no"
       THEN reciclado' = reciclado \cup {s} /\ UNCHANGED enNodo
       ELSE /\ enNodo' = enNodo \cup {s}
            /\ reciclado' = IF s \in enNodo THEN reciclado \cup {s} ELSE reciclado
    /\ UNCHANGED <<avisos, nodos>>
    /\ UNCHANGED promesas /\ UNCHANGED portal /\ UNCHANGED escritorio
    /\ UNCHANGED emisiones

\* The node goes, with its listener, its frame and the promise it may hold.
FueraConOyente(s) == \* a slip: disconnected, but its listener survives
    /\ nodos' = [nodos EXCEPT ![s] = "no"] /\ enNodo' = enNodo \ {s}
    /\ UNCHANGED nodo
Fuera(s) ==
    /\ nodos' = [nodos EXCEPT ![s] = "no"] /\ enNodo' = enNodo \ {s}
    /\ nodo' = IF nodos[s] = "no" THEN nodo ELSE Suelta(nodo, s)

\* Orden::Cerrar.
CerrarNodo(s) ==
    /\ EsOrden("cerrar", s)
    /\ ordenes' = Tail(ordenes)
    /\ Fuera(s)
    /\ UNCHANGED <<avisos, respuesta, reciclado>>
    /\ UNCHANGED portal /\ UNCHANGED escritorio /\ UNCHANGED emisiones

\* state_changed: PipeWire gave the node its identifier,
NodoConecta(s) ==
    /\ nodos[s] = "conectando"
    /\ nodos' = [nodos EXCEPT ![s] = "vivo"]
    /\ nodo' = [nodo EXCEPT ![s] = IF @ = "espera" THEN "dada" ELSE @]
    /\ UNCHANGED <<avisos, ordenes, respuesta, enNodo, reciclado>>
    /\ UNCHANGED portal /\ UNCHANGED escritorio /\ UNCHANGED emisiones

\* or an error; nobody tells the compositor.
NodoFalla(s) ==
    /\ nodos[s] # "no"
    /\ Fuera(s)
    /\ UNCHANGED <<avisos, ordenes, respuesta, reciclado>>
    /\ UNCHANGED portal /\ UNCHANGED escritorio /\ UNCHANGED emisiones

\* process: the frame is copied, or there is no buffer for it.
Procesa(s) ==
    /\ nodos[s] = "vivo" /\ s \in enNodo
    /\ enNodo' = enNodo \ {s} /\ reciclado' = reciclado \cup {s}
    /\ UNCHANGED <<avisos, ordenes, nodos>>
    /\ UNCHANGED promesas /\ UNCHANGED portal /\ UNCHANGED escritorio
    /\ UNCHANGED emisiones

\* bucle returns: no PipeWire.  Its nodes go; of what was in its channel the
\* crate may drop the promises or keep them.
HiloCae ==
    /\ hilo = "vivo"
    /\ hilo' = "caido"
    /\ LET suyos == {s \in Sesiones : nodos[s] # "no"}
           encola == {s \in Sesiones : Cola(ordenes, "abrir", s)} IN
       \E sueltos \in {suyos, suyos \cup encola} :
           nodo' = [s \in Sesiones |-> IF s \in sueltos THEN Suelta(nodo, s)[s] ELSE nodo[s]]
    /\ ordenes' = <<>>
    /\ nodos' = [s \in Sesiones |-> "no"] /\ enNodo' = {}
    /\ UNCHANGED <<avisos, respuesta, activas, pendientes, reciclado>>
    /\ UNCHANGED portal /\ UNCHANGED escritorio

-------------------------------------------------------------------------------
Portal(s) == StartPregunta(s) \/ StartNoPublica(s) \/ StartRespondida(s)
             \/ StartNodo(s) \/ StartRetira(s)
Aplicacion(s) == CreateSession(s) \/ Start(s) \/ CierraSolicitud(s) \/ CierraSesion(s)
Bucle(s) == Consentir(s) \/ Cerrar(s) \/ Cancelar(s)
UsuarioDice(s) == Acepta(s) \/ Rechaza(s)
Dibuja(s) == Emitir(s) \/ EmitirCorta(s)
HiloAtiende(s) == Abrir(s) \/ Marco(s) \/ CerrarNodo(s)
PipeWire(s) == NodoConecta(s) \/ NodoFalla(s) \/ Procesa(s)

Next ==
    \/ \E s \in Sesiones : Portal(s) \/ Aplicacion(s) \/ Bucle(s) \/ UsuarioDice(s)
                           \/ Dibuja(s) \/ HiloAtiende(s) \/ PipeWire(s)
    \/ TarjetaSeCierra \/ DenegarSiSeCerro \/ HiloCae

Spec == Init /\ [][Next]_vars

Conecta(s) == nodos[s] = "conectando" /\ (NodoConecta(s) \/ NodoFalla(s))

\* Every thread runs, and PipeWire connects a node or refuses it.  Nobody has to
\* answer a card.
Equidad ==
    /\ \A s \in Sesiones : WF_vars(Portal(s)) /\ WF_vars(Conecta(s))
    /\ WF_vars(\E s \in Sesiones : Bucle(s))
    /\ WF_vars(DenegarSiSeCerro)
    /\ WF_vars(\E s \in Sesiones : HiloAtiende(s))
SpecViva == Spec /\ Equidad

-------------------------------------------------------------------------------
(* What sharing a screen promises.                                         *)

\* "Every path answers or drops" (the comment of Emisario): a promise somebody
\* awaits has its other end in a channel, in the dialog or in a node that is
\* connecting.  With the PipeWire thread gone the order's is the crate's.
PromesaEnManos ==
    \A s \in Sesiones :
        LET pregunta == Cola(avisos, "consentir", s) \/ consentimiento = s IN
        /\ respuesta[s] = "espera" => pregunta
        /\ nodo[s] = "espera" => \/ pregunta \/ Cola(ordenes, "abrir", s)
                                 \/ nodos[s] = "conectando" \/ hilo = "caido"

\* A card on screen always asks for somebody who still waits: responder ignores
\* the buttons of any other, and they would do nothing for ever.
TarjetaViva ==
    tarjeta # Nadie => consentimiento = tarjeta /\ respuesta[tarjeta] = "espera"

\* A session has one frame on its way at most, and while it has one tocan knows:
\* a consumer that stalls does not fill the unbounded channel (pendientes).
Marcos(s) == {i \in DOMAIN ordenes : ordenes[i] = Orden("marco", s)}
UnMarco ==
    \A s \in Sesiones :
        LET cuantos == Cardinality(Marcos(s)) + (IF s \in enNodo THEN 1 ELSE 0)
                       + (IF s \in reciclado THEN 1 ELSE 0) IN
        /\ cuantos <= 1
        /\ cuantos = 1 /\ s \in activas => s \in pendientes

\* A node is open, or about to be, only for a screen that is shared, unless the
\* order that closes it is behind: what quitar removes, the thread closes.
NodoConEmision ==
    \A s \in Sesiones \ activas :
        /\ nodos[s] # "no" => Cola(ordenes, "cerrar", s)
        /\ \A i \in DOMAIN ordenes : ordenes[i] = Orden("abrir", s) =>
               \E j \in DOMAIN ordenes : j > i /\ ordenes[j] = Orden("cerrar", s)

\* Closing the Request takes the dialog and the emission away, whether it meets
\* the question in the channel, the card on screen or the user's yes.
CanceladaRetira ==
    \A s \in cancelada : ~Cola(avisos, "cancelar", s) =>
        s \notin activas /\ consentimiento # s /\ ~Cola(avisos, "consentir", s)

\* A Start that did not answer "correct" leaves nothing shared behind it, once
\* the compositor has read what it was sent.
RechazadaNoComparte ==
    \A s \in Sesiones :
        /\ resultado[s] \in {"cancelado", "fallo"}
        /\ ~Cola(avisos, "cancelar", s) /\ ~Cola(avisos, "cerrar", s)
        => s \notin activas /\ consentimiento # s

\* A question always has somebody who can answer it, on screen or in a channel.
PreguntaEnManos == PromesaEnManos /\ TarjetaViva
\* What is shared: within its types, one frame at a time, a node per emission.
ComparteConMedida == TypeOK /\ UnMarco /\ NodoConEmision
\* What was cancelled or refused is not shared.
SoloLoConcedido == CanceladaRetira /\ RechazadaNoComparte

\* Sharing in order: every question has who answers it, what is shared is measured,
\* and nobody shares what was not granted (portal.rs, emision.rs and pw.rs together).
SesionEnOrden == PreguntaEnManos /\ ComparteConMedida /\ SoloLoConcedido

\* No Start hangs: it answers, or its card is waiting for the user, or the order
\* it waits for is held by the channel of a PipeWire thread that is gone.
StartTermina(s) ==
    start[s] \in {"publica", "espera", "nodo", "retira"} ~>
        \/ start[s] = "fin"
        \/ tarjeta = s
        \/ hilo = "caido" /\ nodo[s] = "espera"

\* A cancelled request ends with no card, no emission and no node, for good.
CanceladaSeApaga(s) ==
    s \in cancelada ~> [](tarjeta # s /\ s \notin activas /\ nodos[s] = "no")

\* Both, of one session: no two differ with the same output drawn, so what one is
\* promised all are.
Una == CHOOSE s \in Sesiones : TRUE
UnaAcaba == StartTermina(Una) /\ CanceladaSeApaga(Una)

\* "It is where Close arrives when the application ends the call" (the comment of
\* create_session): a session that was closed is not shared once the compositor
\* has read the notice.  It fails when the close meets the permission card, or
\* the question: the notice finds no emission, and the yes comes later.
SesionCerradaCorta ==
    \A s \in cerradas : ~Cola(avisos, "cerrar", s) => s \notin activas
===============================================================================
