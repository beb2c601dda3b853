--------------------------------- MODULE Idle ---------------------------------
(***************************************************************************)
(* What the compositor does on its own when nobody touches the machine:    *)
(* the warning that dims the panel, the automatic lock, the screen that    *)
(* goes dark ten seconds into the lock, the automatic suspend, and who may *)
(* hold them back (idle inhibitors, "keep awake").  Every alarm is a       *)
(* one-shot calloop timer that checks again when it expires; input does    *)
(* not rearm the lock alarm.  Time advances in units, and never past a     *)
(* timer that is due; it stands still while the machine sleeps, as Instant *)
(* does.                                                                   *)
(***************************************************************************)
EXTENDS Integers, TLC

CONSTANTS
    Superficies,  \* surfaces whose clients may inhibit
    Plazos,       \* values of bloqueo_inactividad and suspension_inactividad
    Techo,        \* bound: elapsed times are not told apart beyond it
    AvisoMax,     \* AVISO (15 s), in units
    PlazoDpms,    \* 10 s, in units
    Sordera       \* the 2 s after apagar_dpms, in units

ASSUME PlazosAssumption ==
    /\ Techo \in Nat /\ Plazos \subseteq 0..Techo
    /\ AvisoMax \in Nat
    /\ PlazoDpms \in 0..Techo /\ Sordera \in 0..Techo

Ninguna == -1     \* the Option<RegistrationToken> is None

VARIABLES
    e,            \* the compositor's state, below
    \* outside the compositor
    vivas,        \* surfaces that are alive
    objetos,      \* inhibitor objects that are alive (their client is)
    activa,       \* the TTY of this session is in front
    dormido,      \* the machine sleeps
    pedida,       \* systemctl suspend on its way: "no", "usuario" or "alarma"
    aviso,        \* PrepareForSleep(false) not read yet
    \* history
    hace,         \* time since the last lock
    avisado,      \* the warning was tried and nobody has touched anything since
    fallo,        \* KMS refused to go dark, and nobody has touched anything
    vuelta,       \* came back to a locked TTY, and nobody has touched anything
    sordaAlAbrir  \* unlocked while deaf, and not woken since

fuera == <<vivas, objetos, activa, dormido, pedida, aviso>>
historia == <<hace, avisado, fallo, vuelta, sordaAlAbrir>>
vars == <<e, vivas, objetos, activa, dormido, pedida, aviso, hace, avisado,
          fallo, vuelta, sordaAlAbrir>>

Alarma == Ninguna..Techo

Estado == [
    bloqueado      : BOOLEAN,  \* shell.esta_bloqueado()
    ocio           : 0..Techo, \* last_input.elapsed()
    plazo          : Plazos,   \* bloqueo_inactividad
    suspension     : Plazos,   \* suspension_inactividad
    inhibidores    : SUBSET Superficies,
    mantener       : BOOLEAN,  \* MANTENER_DESPIERTO
    tickBloqueo    : Alarma,
    alarma         : Alarma,   \* atenuacion.alarma
    tickSuspension : Alarma,
    tickDpms       : Alarma,
    encendido      : BOOLEAN,  \* dpms_encendido
    sordo          : 0..Techo, \* until dpms_sordo_hasta
    atenuada       : {"no", "inactividad", "bateria"}]

TypeOK ==
    /\ e \in Estado
    /\ vivas \subseteq Superficies /\ objetos \subseteq Superficies
    /\ {activa, dormido, aviso, avisado, fallo, vuelta, sordaAlAbrir} \subseteq BOOLEAN
    /\ pedida \in {"no", "usuario", "alarma"}
    /\ hace \in 0..Techo

-------------------------------------------------------------------------------
(* The functions that program, on the state they are given.                *)

RestaSinTope(a, b) == a - b                   \* a slip: it does not saturate
Resta(a, b) == IF a > b THEN a - b ELSE 0     \* saturating_sub
AvisoDe(plazo) == IF AvisoMax < plazo \div 2 THEN AvisoMax ELSE plazo \div 2

\* atenuacion::programar.
Programar(s) == [s EXCEPT !.alarma =
    IF s.plazo = 0 \/ s.inhibidores # {} \/ s.mantener \/ s.atenuada # "no" \/ s.bloqueado
    THEN Ninguna
    ELSE Resta(s.plazo - AvisoDe(s.plazo), s.ocio)]

ProgramarBloqueoEntero(s, viv) == \* a slip: the age of the last input is forgotten
    LET p == Programar([s EXCEPT !.inhibidores = @ \cap viv]) IN
    [p EXCEPT !.tickBloqueo =
        IF p.plazo = 0 \/ p.inhibidores # {} \/ p.mantener \/ p.bloqueado
        THEN Ninguna ELSE p.plazo]
\* programar_bloqueo_inactividad, with the surfaces alive at that moment.
ProgramarBloqueo(s, viv) ==
    LET p == Programar([s EXCEPT !.inhibidores = @ \cap viv]) IN
    [p EXCEPT !.tickBloqueo =
        IF p.plazo = 0 \/ p.inhibidores # {} \/ p.mantener \/ p.bloqueado
        THEN Ninguna
        ELSE Resta(p.plazo, p.ocio)]

\* programar_suspension_inactividad.
ProgramarSuspension(s, viv) ==
    LET p == [s EXCEPT !.inhibidores = @ \cap viv] IN
    [p EXCEPT !.tickSuspension =
        IF p.suspension = 0 \/ p.inhibidores # {} \/ p.mantener \/ ~p.bloqueado
        THEN Ninguna
        ELSE p.suspension]

ProgramarAmbas(s, viv) == ProgramarSuspension(ProgramarBloqueo(s, viv), viv)

\* programar_dpms_bloqueo.
ProgramarDpms(s) ==
    [s EXCEPT !.tickDpms = IF s.bloqueado THEN PlazoDpms ELSE Ninguna]

DespertarSinProgramar(s) == \* a slip: whoever only looked leaves the lock lit
    IF s.sordo > 0 THEN s ELSE [s EXCEPT !.encendido = TRUE]
\* despertar_dpms; turning the outputs on only marks them as pending, and does
\* not fail.
Despertar(s) ==
    IF s.sordo > 0 THEN s
    ELSE LET p == [s EXCEPT !.encendido = TRUE] IN
         IF s.bloqueado THEN ProgramarDpms(p) ELSE p

\* apagar_dpms; DrmCompositor::clear may fail.
Apagar(s, puede) == [s EXCEPT !.tickDpms = Ninguna,
                              !.encendido = @ /\ ~puede,
                              !.sordo = Sordera]

\* atenuar; without a backlight, or already at the floor, it lowers nothing.
Atenuar(s, motivo, baja) ==
    IF s.atenuada # "no" \/ ~s.encendido \/ ~baja THEN s
    ELSE [s EXCEPT !.atenuada = motivo]

\* restaurar, and olvidar, which differs only in the level it leaves.
RestaurarSinProgramar(s) == [s EXCEPT !.atenuada = "no"] \* a slip
Restaurar(s) ==
    IF s.atenuada = "no" THEN s ELSE Programar([s EXCEPT !.atenuada = "no"])

\* bloquear, as far as the alarms go.
Bloquear(s, viv) ==
    IF s.bloqueado THEN s
    ELSE ProgramarSuspension(
             ProgramarDpms([s EXCEPT !.bloqueado = TRUE, !.tickBloqueo = Ninguna]),
             viv)

\* Accion::Desbloquear, as far as the alarms go.
DesbloquearADeshora(s, viv) == \* a slip: the suspend alarm is left running
    Despertar(ProgramarBloqueo([s EXCEPT !.bloqueado = FALSE, !.ocio = 0], viv))
Desbloquear(s, viv) ==
    Despertar(ProgramarBloqueo([s EXCEPT !.tickSuspension = Ninguna,
                                         !.bloqueado = FALSE,
                                         !.ocio = 0], viv))

TocarSinAlarma(s, viv) == \* a slip: the suspend alarm is not started again
    LET t == [s EXCEPT !.ocio = 0] IN
    Despertar(IF t.atenuada = "inactividad" THEN Restaurar(t) ELSE t)
\* What input::handle does before it looks at the event.
Tocar(s, viv) ==
    LET t == [s EXCEPT !.ocio = 0]
        a == IF t.atenuada = "inactividad" THEN Restaurar(t) ELSE t
        d == Despertar(a) IN
    IF d.bloqueado THEN ProgramarSuspension(d, viv) ELSE d

-------------------------------------------------------------------------------
Init ==
    \E p \in Plazos, sus \in Plazos :
        LET s == [bloqueado |-> FALSE, ocio |-> 0, plazo |-> p, suspension |-> sus,
                  inhibidores |-> {}, mantener |-> FALSE, tickBloqueo |-> Ninguna,
                  alarma |-> Ninguna, tickSuspension |-> Ninguna,
                  tickDpms |-> Ninguna, encendido |-> TRUE, sordo |-> 0,
                  atenuada |-> "no"] IN
        /\ e = ProgramarBloqueo(s, {})
        /\ vivas = {} /\ objetos = {} /\ activa = TRUE /\ dormido = FALSE
        /\ pedida = "no" /\ aviso = FALSE
        /\ hace = 0 /\ avisado = FALSE /\ fallo = FALSE /\ vuelta = FALSE
        /\ sordaAlAbrir = FALSE

\* The history after somebody touched something: what a deaf compositor did not
\* attend to stays as it was.
Atendida ==
    /\ avisado' = FALSE
    /\ IF e.sordo = 0 THEN fallo' = FALSE /\ vuelta' = FALSE /\ sordaAlAbrir' = FALSE
       ELSE UNCHANGED <<fallo, vuelta, sordaAlAbrir>>

\* The history of a lock, if it is one.
Echado ==
    IF e.bloqueado THEN UNCHANGED <<hace, fallo, vuelta>>
    ELSE hace' = 0 /\ fallo' = FALSE /\ vuelta' = FALSE

-------------------------------------------------------------------------------
(* Input, and what the user asks for with it.                              *)

Delante == activa /\ ~dormido

Entrada ==
    /\ Delante
    /\ e' = Tocar(e, vivas)
    /\ Atendida
    /\ UNCHANGED hace /\ UNCHANGED fuera

\* Meta+L, or Bloquear in the power dialog.
EntradaBloquea ==
    /\ Delante /\ ~e.bloqueado
    /\ e' = Bloquear(Tocar(e, vivas), vivas)
    /\ Echado /\ avisado' = FALSE
    /\ UNCHANGED sordaAlAbrir /\ UNCHANGED fuera

\* EnergiaConfirmada(Suspender | Hibernar): lock, dark and deaf, suspend.
EntradaDuerme ==
    /\ Delante /\ ~e.bloqueado
    /\ \E puede \in BOOLEAN :
           e' = Apagar(Bloquear(Tocar(e, vivas), vivas), puede)
    /\ pedida' = "usuario"
    /\ hace' = 0 /\ avisado' = FALSE /\ fallo' = TRUE /\ vuelta' = FALSE
    /\ UNCHANGED <<sordaAlAbrir, vivas, objetos, activa, dormido, aviso>>

\* Suspender in the lock screen's menu.
EntradaSuspende ==
    /\ Delante /\ e.bloqueado
    /\ e' = Tocar(e, vivas)
    /\ pedida' = "usuario"
    /\ Atendida
    /\ UNCHANGED <<hace, vivas, objetos, activa, dormido, aviso>>

\* The "keep awake" tile, in a session that is not locked.
EntradaMantener ==
    /\ Delante /\ ~e.bloqueado
    /\ e' = ProgramarAmbas([Tocar(e, vivas) EXCEPT !.mantener = ~@], vivas)
    /\ Atendida
    /\ UNCHANGED hace /\ UNCHANGED fuera

\* A brightness key: olvidar.
EntradaBrillo ==
    /\ Delante
    /\ e' = Restaurar(Tocar(e, vivas))
    /\ Atendida
    /\ UNCHANGED hace /\ UNCHANGED fuera

\* Lock.tla grants the exit; a fingerprint is not input.
Desbloquea ==
    /\ ~dormido /\ e.bloqueado
    /\ e' = Desbloquear(e, vivas)
    /\ avisado' = FALSE /\ sordaAlAbrir' = (e.sordo > 0)
    /\ UNCHANGED <<hace, fallo, vuelta>> /\ UNCHANGED fuera

-------------------------------------------------------------------------------
(* The alarms.                                                             *)

Vencida(s, viv) == [s EXCEPT !.inhibidores = @ \cap viv]

Retenido(s) == s.inhibidores # {} \/ s.mantener

AlVencerBloqueo(s, viv) ==
    LET t == [Vencida(s, viv) EXCEPT !.tickBloqueo = Ninguna] IN
    IF t.bloqueado \/ Retenido(t) THEN t
    ELSE IF t.ocio >= t.plazo THEN Bloquear(t, viv) ELSE ProgramarBloqueo(t, viv)

VenceBloqueo ==
    /\ ~dormido /\ e.tickBloqueo = 0
    /\ e' = AlVencerBloqueo(e, vivas)
    /\ IF e'.bloqueado THEN Echado ELSE UNCHANGED <<hace, fallo, vuelta>>
    /\ UNCHANGED <<avisado, sordaAlAbrir>> /\ UNCHANGED fuera

\* The warning; it does not look for dead inhibitors.
VenceAtenuacion ==
    /\ ~dormido /\ e.alarma = 0
    /\ LET t == [e EXCEPT !.alarma = Ninguna] IN
       IF Retenido(t) \/ t.bloqueado THEN e' = t /\ UNCHANGED avisado
       ELSE IF t.ocio >= t.plazo - AvisoDe(t.plazo)
            THEN /\ \E baja \in BOOLEAN : e' = Atenuar(t, "inactividad", baja)
                 /\ avisado' = TRUE
            ELSE e' = Programar(t) /\ UNCHANGED avisado
    /\ UNCHANGED <<hace, fallo, vuelta, sordaAlAbrir>> /\ UNCHANGED fuera

VenceSuspension ==
    /\ ~dormido /\ e.tickSuspension = 0
    /\ LET t == [Vencida(e, vivas) EXCEPT !.tickSuspension = Ninguna] IN
       /\ e' = t
       /\ pedida' = IF t.bloqueado /\ ~Retenido(t) THEN "alarma" ELSE pedida
    /\ UNCHANGED <<vivas, objetos, activa, dormido, aviso>> /\ UNCHANGED historia

AlVencerDpmsSinMirar(s) == TRUE \* a slip: whoever unlocked is left in the dark
AlVencerDpms(s) == s.bloqueado

\* The outputs go dark, unless KMS refuses; it is not tried again.
VenceDpms ==
    /\ ~dormido /\ e.tickDpms = 0
    /\ \E puede \in BOOLEAN :
           /\ e' = [e EXCEPT !.tickDpms = Ninguna,
                             !.encendido = @ /\ ~(AlVencerDpms(e) /\ puede)]
           /\ fallo' = (e.bloqueado /\ e'.encendido)
    /\ UNCHANGED <<hace, avisado, vuelta, sordaAlAbrir>> /\ UNCHANGED fuera

Baja(a) == IF a > 0 THEN a - 1 ELSE a
Sube(a) == IF a < Techo THEN a + 1 ELSE a

\* One unit of time; the loop serves a timer that is due before that.
Tic ==
    /\ ~dormido
    /\ 0 \notin {e.tickBloqueo, e.alarma, e.tickSuspension, e.tickDpms}
    /\ e' = [e EXCEPT !.ocio = Sube(@), !.sordo = Baja(@),
                      !.tickBloqueo = Baja(@), !.alarma = Baja(@),
                      !.tickSuspension = Baja(@), !.tickDpms = Baja(@)]
    /\ hace' = Sube(hace)
    /\ UNCHANGED <<avisado, fallo, vuelta, sordaAlAbrir>> /\ UNCHANGED fuera

-------------------------------------------------------------------------------
(* Clients, settings, hardware, the other TTYs and logind.                 *)

\* IdleInhibitHandler::inhibit.
Inhibe(x) ==
    /\ ~dormido /\ x \notin objetos
    /\ x \in vivas \/ x \notin e.inhibidores     \* object ids are not reused
    /\ vivas' = vivas \cup {x} /\ objetos' = objetos \cup {x}
    /\ e' = LET t == Vencida(e, vivas) IN
            IF x \in t.inhibidores THEN t
            ELSE ProgramarAmbas([t EXCEPT !.inhibidores = @ \cup {x}], vivas')
    /\ UNCHANGED <<activa, dormido, pedida, aviso>> /\ UNCHANGED historia

\* IdleInhibitHandler::uninhibit, with its surface alive or not.
Libera(x) ==
    /\ ~dormido /\ x \in objetos
    /\ objetos' = objetos \ {x}
    /\ LET t == [e EXCEPT !.inhibidores = (@ \cap vivas) \ {x}]
           u == IF t.inhibidores = {} THEN [t EXCEPT !.ocio = 0] ELSE t IN
       e' = ProgramarAmbas(u, vivas)
    /\ UNCHANGED <<vivas, activa, dormido, pedida, aviso>> /\ UNCHANGED historia

\* A client destroys the surface and keeps the inhibitor for now.
DestruyeSuperficie(x) ==
    /\ ~dormido /\ x \in vivas
    /\ vivas' = vivas \ {x}
    /\ UNCHANGED <<e, objetos, activa, dormido, pedida, aviso>> /\ UNCHANGED historia

\* A client goes without a Destroy request: smithay calls nobody.
MuereCliente(x) ==
    /\ ~dormido /\ x \in objetos
    /\ vivas' = vivas \ {x} /\ objetos' = objetos \ {x}
    /\ UNCHANGED <<e, activa, dormido, pedida, aviso>> /\ UNCHANGED historia

\* ajustes: the lockscreen section changed.
Ajustes ==
    /\ ~dormido
    /\ \E p \in Plazos, sus \in Plazos :
           /\ <<p, sus>> # <<e.plazo, e.suspension>>
           /\ e' = ProgramarAmbas([e EXCEPT !.plazo = p, !.suspension = sus], vivas)
    /\ UNCHANGED fuera /\ UNCHANGED historia

\* atenuacion::bateria: low, or fed again.
Bateria ==
    /\ ~dormido
    /\ IF e.atenuada = "bateria" THEN e' = Restaurar(e)
       ELSE \E baja \in BOOLEAN : e' = Atenuar(e, "bateria", baja)
    /\ UNCHANGED fuera /\ UNCHANGED historia

PausaSesion ==
    /\ Delante
    /\ activa' = FALSE
    /\ UNCHANGED <<e, vivas, objetos, dormido, pedida, aviso>> /\ UNCHANGED historia

\* ActivateSession: the barrier before KMS, and KMS lights the outputs.
ReactivaSesion ==
    /\ ~activa /\ ~dormido
    /\ activa' = TRUE
    /\ e' = [Bloquear(e, vivas) EXCEPT !.encendido = TRUE]
    /\ IF e.bloqueado THEN vuelta' = TRUE /\ UNCHANGED <<hace, fallo>>
       ELSE hace' = 0 /\ fallo' = FALSE /\ vuelta' = FALSE
    /\ UNCHANGED <<avisado, sordaAlAbrir, vivas, objetos, dormido, pedida, aviso>>

\* logind suspends because it was asked to, or for the lid; or it does not.
Duerme ==
    /\ ~dormido
    /\ dormido' = TRUE /\ pedida' = "no"
    /\ UNCHANGED <<e, vivas, objetos, activa, aviso>> /\ UNCHANGED historia

NoDuerme ==
    /\ ~dormido /\ pedida # "no"
    /\ pedida' = "no"
    /\ UNCHANGED <<e, vivas, objetos, activa, dormido, aviso>> /\ UNCHANGED historia

Despierta ==
    /\ dormido
    /\ dormido' = FALSE /\ aviso' = TRUE
    /\ UNCHANGED <<e, vivas, objetos, activa, pedida>> /\ UNCHANGED historia

\* escuchar_reanudacion: its message reaches the loop.
LeeAviso ==
    /\ ~dormido /\ aviso
    /\ aviso' = FALSE
    /\ e' = Despertar([e EXCEPT !.sordo = 0])
    /\ fallo' = FALSE /\ vuelta' = FALSE /\ sordaAlAbrir' = FALSE
    /\ UNCHANGED <<hace, avisado, vivas, objetos, activa, dormido, pedida>>

-------------------------------------------------------------------------------
Usuario == Entrada \/ EntradaBloquea \/ EntradaDuerme \/ EntradaSuspende
           \/ EntradaMantener \/ EntradaBrillo \/ Desbloquea
Vence == VenceBloqueo \/ VenceAtenuacion \/ VenceSuspension \/ VenceDpms
Cliente == \E x \in Superficies :
               Inhibe(x) \/ Libera(x) \/ DestruyeSuperficie(x) \/ MuereCliente(x)
Sistema == Ajustes \/ Bateria \/ PausaSesion \/ ReactivaSesion
           \/ Duerme \/ NoDuerme \/ Despierta \/ LeeAviso

Next == Usuario \/ Vence \/ Tic \/ Cliente \/ Sistema

Spec == Init /\ [][Next]_vars

\* Time passes and the loop serves its timers; nobody has to touch anything.
SpecViva == Spec /\ WF_vars(Tic) /\ WF_vars(Vence)

-------------------------------------------------------------------------------
(* No alarm runs against what should hold it back: the lock alarm in a     *)
(* locked session, the suspend alarm in an open one, either of them with   *)
(* an inhibitor in the list, with "keep awake", or switched off.           *)
AlarmasVigentes ==
    /\ e.tickBloqueo # Ninguna =>
           ~e.bloqueado /\ ~Retenido(e) /\ e.plazo > 0
    /\ e.tickSuspension # Ninguna =>
           e.bloqueado /\ ~Retenido(e) /\ e.suspension > 0
    /\ e.alarma # Ninguna => ~Retenido(e) /\ e.plazo > 0

(* The session is never left open past its time: while nothing holds the   *)
(* lock back its alarm is running, and it expires no later than the last   *)
(* input plus the configured time, although input never rearms it.         *)
BloqueoATiempo ==
    ~e.bloqueado /\ ~Retenido(e) /\ e.plazo > 0 =>
        e.tickBloqueo \in 0..Resta(e.plazo, e.ocio)

(* The lock does not come out of the blue: while its alarm runs and the    *)
(* panel is not dimmed, the warning is on its way in time, or was tried,   *)
(* or the alarm will expire early and program both again.                  *)
AvisoPrevio ==
    e.tickBloqueo # Ninguna /\ e.atenuada = "no" =>
        \/ e.alarma \in 0..Resta(e.plazo - AvisoDe(e.plazo), e.ocio)
        \/ avisado
        \/ e.tickBloqueo + e.ocio <= e.plazo - AvisoDe(e.plazo)

(* The lock alarm: in its type, held back when it must be, on time and     *)
(* announced (programar_bloqueo_inactividad, atenuacion::programar).       *)
BloqueoPuntual == TypeOK /\ AlarmasVigentes /\ BloqueoATiempo /\ AvisoPrevio

(* An open session has a lit screen.  The one exception is a session       *)
(* unlocked within the two deaf seconds after apagar_dpms, until somebody  *)
(* touches something.                                                      *)
PantallaDeQuienUsa == ~e.bloqueado /\ ~e.encendido => sordaAlAbrir

(* A lit lock screen has its ten seconds running.  The exceptions: KMS     *)
(* refused to go dark, or the session came back locked from another TTY;   *)
(* both last until somebody touches something.                             *)
BloqueoSeApaga ==
    e.bloqueado /\ e.encendido /\ e.tickDpms = Ninguna => fallo \/ vuelta

(* The outputs: lit for whoever uses them, dark over a lock nobody looks at *)
(* (programar_dpms_bloqueo, despertar_dpms).                               *)
PantallaJusta == PantallaDeQuienUsa /\ BloqueoSeApaga

(* Both: what the machine does on its own comes when it should and to      *)
(* nobody who is there.                                                    *)
AlarmasEnOrden == BloqueoPuntual /\ PantallaJusta

(* The machine is put to sleep by the alarm only after the whole time, of  *)
(* lock and of quiet, with no live inhibitor: every event that should      *)
(* start the count again does, although the alarm does not look at the     *)
(* clock when it expires.                                                  *)
SuspensionMerecida ==
    [][pedida' = "alarma" /\ pedida # "alarma" =>
           /\ e.bloqueado /\ ~e.mantener
           /\ e.inhibidores \cap vivas = {}
           /\ e.ocio >= e.suspension /\ hace >= e.suspension]_vars

(* "Once the last inhibitor is released the time starts again"             *)
(* (backend/mod.rs, programar_suspension_inactividad): a locked session    *)
(* whose last inhibitor is gone gets its suspend alarm back.               *)
InhibidorLiberado ==
    e.bloqueado /\ e.suspension > 0 /\ ~e.mantener
    /\ objetos = {} /\ e.inhibidores # {}
        ~> \/ e.tickSuspension # Ninguna
           \/ ~e.bloqueado \/ e.suspension = 0 \/ e.mantener \/ objetos # {}

(* The clients are interchangeable.                                        *)
Simetria == Permutations(Superficies)
===============================================================================
