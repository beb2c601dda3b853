--------------------------- MODULE SessionRecovery ---------------------------
(***************************************************************************)
(* One BookOS login as bookos-session supervises it: the compositor that   *)
(* locks, unlocks and may die at any instruction, the marker file that     *)
(* says whether restarting it needs no authentication, the recovery helper *)
(* (bookos-recovery.py) with the private KWin it runs its window in, and   *)
(* the window itself.  Each of them is a process: they interleave freely   *)
(* and any of them may die between two of its steps.                       *)
(***************************************************************************)
EXTENDS Naturals

CONSTANTS
    Otras,        \* desktops sessions() can find installed (Plasma, GNOME)
    MaxArranques, \* bound: compositors started in one login
    MaxCierres    \* bound: times one compositor is locked

ASSUME OtrasAssumption ==
    Otras \cap {"ninguna", "vacia", "retry", "login"} = {}
ASSUME BoundsAssumption == MaxArranques \in Nat /\ MaxCierres \in Nat

VARIABLES
    \* bookos-session
    sup,          \* where the supervisor's loop is
    senal,        \* TERM, INT or HUP arrived while bash waits for python
    protegida,    \* the helper was called with --locked
    arranques,    \* compositors started
    \* the compositor
    comp,         \* "no" or "vivo"
    paso,         \* "libre", or halfway through bloquear or Desbloquear
    candado,      \* the lock screen is up
    cierres,      \* times bloquear was entered in this compositor
    codigo,       \* its exit code, once it ended
    marca,        \* BOOKOS_SESSION_LOCK_FILE exists
    \* the recovery helper
    fase,         \* where recover and prompt are
    kwin,         \* the private KWin: "no" or "vivo"
    ui,           \* the recovery window's process
    listo,        \* the ready file exists
    eleccion,     \* the choice file: "ninguna" (absent), "vacia", or an option
    \* history
    cerrada,      \* this desktop was asked to lock and has not opened since
    concedido,    \* the compositor got the yes that opens it
    pulsada       \* what the user picked since the last crash

cvars == <<comp, paso, candado, cierres, codigo, marca, cerrada, concedido>>
rvars == <<fase, kwin, ui, listo, eleccion, pulsada>>
svars == <<sup, senal, protegida, arranques>>
vars  == <<sup, senal, protegida, arranques, comp, paso, candado, cierres,
           codigo, marca, fase, kwin, ui, listo, eleccion, cerrada, concedido,
           pulsada>>

Opcion == {"retry", "login"} \cup Otras

Cuentas == /\ arranques \in 0..MaxArranques
           /\ cierres \in 0..MaxCierres
           /\ codigo \in {0, 77, 101}

TipoSesion ==
    /\ sup \in {"arranca", "corre", "recupera", "fin"}
    /\ comp \in {"no", "vivo"}
    /\ paso \in {"libre", "cerrando", "abriendo"}
    /\ {senal, protegida, candado, marca, cerrada, concedido} \subseteq BOOLEAN

TipoAyudante ==
    /\ fase \in {"nada", "inicio", "espera", "lista", "terminando", "matando",
                 "decide", "tty", "otra"}
    /\ kwin \in {"no", "vivo"}
    /\ ui \in {"no", "viva", "escribe"}
    /\ listo \in BOOLEAN
    /\ eleccion \in {"ninguna", "vacia"} \cup Opcion
    /\ pulsada \in {"ninguna"} \cup Opcion

TypeOK == Cuentas /\ TipoSesion /\ TipoAyudante

Init ==
    /\ sup = "arranca" /\ senal = FALSE /\ protegida = FALSE /\ arranques = 0
    /\ comp = "no" /\ paso = "libre" /\ candado = FALSE /\ cierres = 0
    /\ codigo = 0 /\ marca = FALSE
    /\ fase = "nada" /\ kwin = "no" /\ ui = "no" /\ listo = FALSE
    /\ eleccion = "ninguna"
    /\ cerrada = FALSE /\ concedido = FALSE /\ pulsada = "ninguna"

------------------------------------------------------------------------------
(* The compositor.  Locking and unlocking take two steps each, because the *)
(* process may die between the marker and the screen.                      *)

MuereConSenal(c) == comp' = "no" /\ codigo' = 128 + c \* a slip
Muere(c) == comp' = "no" /\ codigo' = c

\* marcar_bloqueo_sesion(true): the permit goes before the screen locks, and
\* a permit that cannot be removed ends the process with EX_NOPERM.
QuitaPermisoTarde == /\ paso' = "cerrando" \* a slip: not before the lock
                     /\ UNCHANGED <<marca, comp, codigo>>
QuitaPermiso ==
    \/ marca' = FALSE /\ paso' = "cerrando" /\ UNCHANGED <<comp, codigo>>
    \/ marca /\ Muere(77) /\ UNCHANGED <<marca, paso>>

\* bloquear, up to and including the marker.
Bloquea ==
    /\ comp = "vivo" /\ paso = "libre" /\ ~candado
    /\ cierres < MaxCierres
    /\ QuitaPermiso
    /\ cierres' = cierres + 1
    /\ cerrada' = TRUE /\ concedido' = FALSE
    /\ UNCHANGED <<candado>> /\ UNCHANGED svars /\ UNCHANGED rvars

\* bloquear, the rest: shell.bloquear.
EchaCandado ==
    /\ comp = "vivo" /\ paso = "cerrando"
    /\ candado' = TRUE /\ paso' = "libre"
    /\ UNCHANGED <<comp, cierres, codigo, marca, cerrada, concedido>>
    /\ UNCHANGED svars /\ UNCHANGED rvars

\* A conversation of this lock said yes (Lock.tla) and Desbloquear writes the
\* marker back; a write that fails is only warned about.
Autentica ==
    /\ comp = "vivo" /\ paso = "libre" /\ candado
    /\ concedido' = TRUE
    /\ marca' \in {marca, TRUE}
    /\ paso' = "abriendo"
    /\ UNCHANGED <<comp, candado, cierres, codigo, cerrada>>
    /\ UNCHANGED svars /\ UNCHANGED rvars

\* Desbloquear, the rest: shell.desbloquear.
SueltaCandado ==
    /\ comp = "vivo" /\ paso = "abriendo"
    /\ candado' = FALSE /\ paso' = "libre"
    /\ cerrada' = FALSE /\ concedido' = FALSE
    /\ UNCHANGED <<comp, cierres, codigo, marca>>
    /\ UNCHANGED svars /\ UNCHANGED rvars

\* loop_signal.stop: logging out, powering off, or the emergency exit, which
\* works on a locked screen too.
Sale ==
    /\ comp = "vivo" /\ paso = "libre"
    /\ Muere(0)
    /\ UNCHANGED <<paso, candado, cierres, marca, cerrada, concedido>>
    /\ UNCHANGED svars /\ UNCHANGED rvars

\* A panic, a signal, a lost GPU: between any two steps.
Cae ==
    /\ comp = "vivo"
    /\ Muere(101)
    /\ UNCHANGED <<paso, candado, cierres, marca, cerrada, concedido>>
    /\ UNCHANGED svars /\ UNCHANGED rvars

------------------------------------------------------------------------------
(* bookos-session.                                                         *)

\* The top of the loop: the marker, then a new compositor, unlocked.  The
\* redirection may fail and leaves whatever was there.
Arranca ==
    /\ sup = "arranca"
    /\ arranques < MaxArranques
    /\ sup' = "corre" /\ arranques' = arranques + 1
    /\ marca' \in {marca, TRUE}
    /\ comp' = "vivo" /\ paso' = "libre" /\ candado' = FALSE
    /\ cierres' = 0 /\ codigo' = 0
    /\ cerrada' = FALSE /\ concedido' = FALSE
    /\ UNCHANGED <<senal, protegida>> /\ UNCHANGED rvars

ProtegidaSinCodigo == ~marca     \* a slip: only the marker decides
Protegida == codigo = 77 \/ ~marca

\* wait "$comp" returned.  Code 0 is a normal logout; anything else runs the
\* helper, if it and python3 are there.
Evalua ==
    /\ sup = "corre" /\ comp = "no"
    /\ \/ codigo = 0 /\ sup' = "fin" /\ UNCHANGED <<protegida, fase, pulsada>>
       \/ codigo # 0 /\ sup' = "fin" /\ UNCHANGED <<protegida, fase, pulsada>>
       \/ /\ codigo # 0
          /\ sup' = "recupera" /\ fase' = "inicio"
          /\ protegida' = Protegida
          /\ pulsada' = "ninguna"
    /\ UNCHANGED <<senal, arranques, kwin, ui, listo, eleccion>>
    /\ UNCHANGED cvars

\* finalizar.  Bash runs the trap at once while it waits for the compositor,
\* and only after python returns while it waits for the helper.
Senal ==
    /\ \/ /\ sup \in {"arranca", "corre"}
          /\ sup' = "fin" /\ comp' = "no" /\ UNCHANGED senal
       \/ /\ sup = "recupera" /\ ~senal
          /\ senal' = TRUE /\ UNCHANGED <<sup, comp>>
    /\ UNCHANGED <<protegida, arranques, paso, candado, cierres, codigo, marca,
                   cerrada, concedido>>
    /\ UNCHANGED rvars

\* The helper returned r to the loop.
Vuelve(r) ==
    /\ fase' = "nada"
    /\ sup' = IF r = 10 /\ ~senal THEN "arranca" ELSE "fin"

------------------------------------------------------------------------------
(* bookos-recovery.py: prompt and recover.                                 *)

Ofrecidas == IF protegida THEN {"login"} ELSE Opcion

\* recover, once prompt gave it a choice.  A desktop that is no longer
\* installed falls through to the login manager.
Responde(e) ==
    \/ e = "retry" /\ ~protegida /\ Vuelve(10)
    \/ e \in Otras /\ ~protegida /\ fase' = "otra" /\ UNCHANGED sup
    \/ (e # "retry" \/ protegida) /\ Vuelve(0)

Ayudante == UNCHANGED <<senal, protegida, arranques>> /\ UNCHANGED cvars

\* A fresh temporary directory: no ready file and no choice file.
DirectorioUsado == UNCHANGED <<listo, eleccion>> \* a slip: a fixed directory
DirectorioNuevo == listo' = FALSE /\ eleccion' = "ninguna"

\* Popen of KWin, which starts the window in it; or no KWin in this system.
AbreKwin ==
    /\ fase = "inicio"
    /\ \/ /\ fase' = "espera" /\ kwin' = "vivo" /\ ui' \in {"no", "viva"}
          /\ DirectorioNuevo
       \/ fase' = "tty" /\ UNCHANGED <<kwin, ui, listo, eleccion>>
    /\ UNCHANGED <<sup, pulsada>> /\ Ayudante

\* The polling loop saw the ready file, or KWin gone, or ran into the
\* deadline; then wait, or nothing, or terminate.
VeVentana == /\ fase = "espera" /\ listo /\ fase' = "lista"
VeKwinMuerto == /\ fase = "espera" /\ kwin = "no" /\ ~listo /\ fase' = "decide"
Plazo == /\ fase = "espera" /\ kwin = "vivo" /\ ~listo /\ fase' = "terminando"

\* wait(timeout=5) ran out: kill.
PlazoTerminarSinMatar == \* a slip: wait() with no timeout
    /\ fase = "terminando" /\ kwin = "no" /\ fase' = "matando"
PlazoTerminar ==
    /\ fase = "terminando" /\ kwin = "vivo" /\ fase' = "matando"

EsperaAcabadaSinMirar == fase \in {"lista", "matando"} \* a slip: no wait
EsperaAcabada == fase \in {"lista", "terminando", "matando"} /\ kwin = "no"
DejaDeEsperar == EsperaAcabada /\ fase' = "decide"

PromptAvanza ==
    /\ VeVentana \/ VeKwinMuerto \/ Plazo \/ PlazoTerminar \/ DejaDeEsperar
    /\ UNCHANGED <<sup, kwin, ui, listo, eleccion, pulsada>> /\ Ayudante

\* The choice file if there is one, the terminal otherwise.  The directory
\* goes, and what a window still alive would write in it is lost.
Decide ==
    /\ fase = "decide"
    /\ ui' = "no"
    /\ IF eleccion # "ninguna" THEN Responde(eleccion)
       ELSE fase' = "tty" /\ UNCHANGED sup
    /\ UNCHANGED <<kwin, listo, eleccion, pulsada>> /\ Ayudante

\* The text prompt: an option, or no terminal or nonsense, which is "login".
Tty ==
    /\ fase = "tty"
    /\ \/ \E o \in Ofrecidas : Responde(o) /\ pulsada' = o
       \/ Responde("login") /\ UNCHANGED pulsada
    /\ UNCHANGED <<kwin, ui, listo, eleccion>> /\ Ayudante

\* The other desktop ended, well or badly.
OtraAcaba ==
    /\ fase = "otra" /\ Vuelve(0)
    /\ UNCHANGED <<kwin, ui, listo, eleccion, pulsada>> /\ Ayudante

\* The helper itself is killed, at any of its steps; what it started lives on.
AyudanteMuere ==
    /\ sup = "recupera" /\ Vuelve(143)
    /\ UNCHANGED <<kwin, ui, listo, eleccion, pulsada>> /\ Ayudante

------------------------------------------------------------------------------
(* The recovery window and its KWin, two processes the helper only sees    *)
(* through poll, the ready file and the choice file.                       *)

Directorio == fase \in {"espera", "lista", "terminando", "matando", "decide"}

VentanaLista ==
    /\ Directorio /\ ui = "viva" /\ kwin = "vivo" /\ ~listo
    /\ listo' = TRUE
    /\ UNCHANGED <<fase, kwin, ui, eleccion, pulsada>> /\ UNCHANGED svars /\ UNCHANGED cvars

\* choose, first half: the user clicked and write_text created the file.
Pulsa ==
    /\ Directorio /\ ui = "viva" /\ kwin = "vivo" /\ listo
    /\ pulsada' \in Ofrecidas
    /\ eleccion' = "vacia" /\ ui' = "escribe"
    /\ UNCHANGED <<fase, kwin, listo>> /\ UNCHANGED svars /\ UNCHANGED cvars

\* choose, second half: the text is in the file and the window quits.
Escribe ==
    /\ Directorio /\ ui = "escribe"
    /\ eleccion' = pulsada /\ ui' = "no"
    /\ UNCHANGED <<fase, kwin, listo, pulsada>> /\ UNCHANGED svars /\ UNCHANGED cvars

\* The window is closed without a choice, or its process dies.
VentanaAcaba ==
    /\ ui # "no" /\ ui' = "no"
    /\ UNCHANGED <<fase, kwin, listo, eleccion, pulsada>> /\ UNCHANGED svars /\ UNCHANGED cvars

\* KWin goes: with its session (--exit-with-session), told to, or by itself.
KwinAcaba ==
    /\ kwin = "vivo" /\ kwin' = "no"
    /\ UNCHANGED <<fase, ui, listo, eleccion, pulsada>> /\ UNCHANGED svars /\ UNCHANGED cvars

------------------------------------------------------------------------------
Compositor == Bloquea \/ EchaCandado \/ Autentica \/ SueltaCandado \/ Sale \/ Cae
Supervisor == Arranca \/ Evalua \/ Senal
Recuperacion == AbreKwin \/ PromptAvanza \/ Decide \/ Tty \/ OtraAcaba \/ AyudanteMuere
Ventana == VentanaLista \/ Pulsa \/ Escribe \/ VentanaAcaba \/ KwinAcaba

Next == Compositor \/ Supervisor \/ Recuperacion \/ Ventana

Spec == Init /\ [][Next]_vars

(***************************************************************************)
(* Fairness.  bash and python run; a KWin told to go, or whose session     *)
(* ended, goes; and the user answers the prompt in front of them, or the   *)
(* terminal gives end of file.  Nothing is assumed of a KWin that never    *)
(* shows its window, nor of the compositor or of the other desktop.        *)
(***************************************************************************)
Equidad ==
    /\ WF_vars(Evalua) /\ WF_vars(AbreKwin) /\ WF_vars(PromptAvanza)
    /\ WF_vars(Decide) /\ WF_vars(Tty)
    /\ WF_vars(Pulsa) /\ WF_vars(Escribe)
    /\ WF_vars(fase = "lista" /\ ui = "no" /\ KwinAcaba)
    /\ WF_vars(fase = "matando" /\ KwinAcaba)

SpecViva == Spec /\ Equidad

------------------------------------------------------------------------------
(* Once a lock was asked for, no instruction at which the compositor may   *)
(* die leaves a permit behind: the marker is gone, or the exit code says   *)
(* that it could not be removed (keybinds.rs, marcar_bloqueo_sesion).      *)
SinPermiso ==
    sup = "corre" /\ cerrada /\ ~concedido =>
        ~marca \/ (comp = "no" /\ codigo = 77)

(* The GPU has one owner at a time: the compositor, the private KWin, or   *)
(* the other desktop ("it exits before the selected desktop starts",       *)
(* README).                                                                *)
UnSoloDueno ==
    /\ ~(comp = "vivo" /\ kwin = "vivo")
    /\ ~(comp = "vivo" /\ fase = "otra")
    /\ ~(kwin = "vivo" /\ fase = "otra")

(* A second compositor starts only because the user asked for it after the *)
(* last crash: no loop of automatic retries, no choice left over from an   *)
(* earlier prompt, none half written (README, Session recovery).           *)
ReintentoPedido ==
    [][arranques > 0 /\ arranques' # arranques => pulsada = "retry"]_vars

(* What the session promises across crashes, restarts and desktops: a      *)
(* closed door opens only by authenticating at it.                         *)
Acceso == IF sup = "fin" THEN "entrada"
          ELSE IF fase = "otra" THEN "abierta"
          ELSE IF cerrada THEN "cerrada" ELSE "abierta"
Autenticado == concedido /\ fase # "otra" /\ sup # "fin"

Frontera == INSTANCE SessionBoundary WITH acceso <- Acceso,
                                          autenticado <- Autenticado
FronteraRespetada == Frontera!Spec

(* A crash never leaves the user in front of nothing: the helper gives up  *)
(* on a KWin that shows no window or does not die, and ends in a choice.   *)
RecuperacionTermina == sup = "recupera" ~> (sup # "recupera" \/ fase = "otra")

------------------------------------------------------------------------------
(* What the boundary rests on, part by part.                               *)
PuertaVista ==
    comp = "vivo" => /\ sup = "corre" /\ codigo = 0
                     /\ cerrada = (candado \/ paso # "libre")
                     /\ concedido = (paso = "abriendo")
                     /\ paso = "cerrando" => ~candado
AyudaAvisada ==
    /\ sup = "recupera" /\ cerrada /\ ~concedido => protegida
    /\ sup = "arranca" /\ cerrada => concedido
    /\ (sup = "recupera") = (fase # "nada")
    /\ fase = "otra" => ~protegida
    /\ concedido => cerrada
KwinDentro ==
    kwin = "vivo" => \/ sup = "fin"
                     \/ fase \in {"espera", "lista", "terminando", "matando"}
Fronterizo == PuertaVista /\ AyudaAvisada /\ KwinDentro

(* What a retry rests on: the choice the helper reads is the last one the  *)
(* user made, and the loop starts again only on a retry.                   *)
EleccionPulsada ==
    /\ Directorio /\ eleccion \notin {"ninguna", "vacia"} => eleccion = pulsada
    /\ sup = "arranca" /\ arranques > 0 => pulsada = "retry"
==============================================================================
