--------------------------------- MODULE Lock ----------------------------------
(***************************************************************************)
(* The screen lock of bookos-comp: the password and the fingerprint are    *)
(* checked by PAM in worker threads, and calloop timers of the compositor  *)
(* poll for their verdicts.  `bloqueo_generacion' ties every poller and    *)
(* every timer to the lock it was made for; the process-wide flag OCUPADO  *)
(* lets one conversation at a time own the fingerprint reader.             *)
(*                                                                         *)
(* Time is kept only where the code compares instants: whether the delay   *)
(* of the last failed password has elapsed (`vencido'), whether the 3 s    *)
(* after a rejected finger have (`huella_espera'), and whether a           *)
(* fingerprint worker is older than HUELLA_AGOTADA (`tarde').              *)
(***************************************************************************)
EXTENDS Integers, FiniteSets

CONSTANTS
    Obreros,            \* identities for the worker threads alive at one time
    Nadie,              \* Option::None where a worker is expected
    HayLector,          \* whether a reader with enrolled fingers is attached
    HilosFallan,        \* whether a thread may fail to spawn, or unwind
    PuedeReventar,      \* whether the shell may panic
    MaxGeneracion,      \* bound on the generation that may still be locked
    MaxEscrito,         \* bound on the characters typed
    MaxReanudaciones,   \* bound on the resumes counted within one lock
    FallosMax           \* where the failure counter saturates (u32::MAX)

ASSUME NadieAssumption == Nadie \notin Obreros
ASSUME BooleanAssumption ==
    /\ HayLector \in BOOLEAN
    /\ HilosFallan \in BOOLEAN
    /\ PuedeReventar \in BOOLEAN
ASSUME BoundAssumption ==
    /\ MaxGeneracion \in Nat
    /\ MaxEscrito \in Nat
    /\ MaxReanudaciones \in Nat
    /\ FallosMax \in Nat /\ FallosMax >= 3

VARIABLES
    bloqueada,      \* the shell keeps a lock screen (Shell::bloqueo is Some)
    muerto,         \* ShellHost::dead, set when the shell panics
    proceso,        \* "vivo", or "salida77" once the compositor gave up
    marca,          \* the session file: "desbloqueada" or "ausente"
    bloqueo,        \* state.bloqueo
    generacion,     \* state.bloqueo_generacion
    obreros,        \* the worker threads
    ocupado,        \* OCUPADO
    sondeosClave,   \* password pollers, by the generation they captured
    sondeosHuella,  \* fingerprint pollers, by what they captured
    temporizadores, \* retry timers, by the generation they captured
    vencido,        \* the delay of the last counted failure has elapsed
    visto,          \* the state the lock screen shows for the password
    mensaje,        \* the fingerprint message the lock screen shows
    ajuste,         \* bloqueo_huella as the settings file has it now
    sueno           \* where the machine is between PrepareForSleep signals

vars == <<bloqueada, muerto, proceso, marca, bloqueo, generacion, obreros, ocupado,
          sondeosClave, sondeosHuella, temporizadores, vencido, visto, mensaje,
          ajuste, sueno>>

--------------------------------------------------------------------------------
(* Data *)

\* Bloqueo::default().  `escrito' is how many characters are held,
\* `reintentar' whether reintentar_desde is Some, and `huella_espera' whether
\* huella_reintentar is still in the future.
BloqueoDefecto ==
    [escrito |-> 0, comprobando |-> Nadie, huella |-> Nadie,
     huella_espera |-> FALSE, huella_sin_lector |-> FALSE,
     huella_reanudaciones |-> 0, fallo |-> FALSE, fallos |-> 0,
     reintentar |-> FALSE]

Bloqueo ==
    [escrito : 0..MaxEscrito, comprobando : Obreros \cup {Nadie},
     huella : Obreros \cup {Nadie}, huella_espera : BOOLEAN,
     huella_sin_lector : BOOLEAN, huella_reanudaciones : Nat,
     fallo : BOOLEAN, fallos : 0..FallosMax, reintentar : BOOLEAN]

\* What a thread ends up sending.  The compositor cannot tell "agotado" (nobody
\* touched the reader for 15 s), "sinlector" and "dormido" (fprintd let go of
\* the reader to sleep) apart: PAM answers the same for the three.  "ninguno"
\* is a thread that ended without sending.
Respuestas == {"correcto", "rechazado", "agotado", "sinlector", "dormido", "ninguno"}

\* A thread is asking PAM, has sent its verdict but not dropped its guard yet,
\* or is over.
Obrero ==
    [clase : {"clave", "huella"}, gen : Nat, fase : {"pregunta", "dicho", "fin"},
     respuesta : Respuestas, secreto : 0..MaxEscrito, tarde : BOOLEAN,
     cortado : BOOLEAN]

Parado == [clase |-> "clave", gen |-> 0, fase |-> "fin", respuesta |-> "ninguno",
           secreto |-> 0, tarde |-> FALSE, cortado |-> FALSE]

\* The threads of lanzar and huella as they start.
HiloClave ==
    [clase |-> "clave", gen |-> generacion, fase |-> "pregunta", respuesta |-> "ninguno",
     secreto |-> bloqueo.escrito, tarde |-> FALSE, cortado |-> FALSE]
HiloHuella(gen) ==
    [clase |-> "huella", gen |-> gen, fase |-> "pregunta", respuesta |-> "ninguno",
     secreto |-> 0, tarde |-> FALSE, cortado |-> sueno = "durmiendo"]

\* A slip for Veredicto: a thread that sent nothing passes for a match.
VeredictoOptimista(w) ==
    IF obreros[w].fase = "pregunta" THEN "pendiente"
    ELSE IF obreros[w].respuesta \in {"correcto", "ninguno"} THEN "Correcto"
    ELSE IF obreros[w].respuesta = "rechazado" THEN "Rechazado"
    ELSE "NoDisponible"

\* Comprobacion::resultado, on the worker the receiver belongs to.
Veredicto(w) ==
    IF obreros[w].fase = "pregunta" THEN "pendiente"
    ELSE IF obreros[w].respuesta = "correcto" THEN "Correcto"
    ELSE IF obreros[w].respuesta \in {"rechazado", "ninguno"} THEN "Rechazado"
    ELSE "NoDisponible"

\* The seconds a failure holds the next attempt back.
DemoraReintento(fallos) ==
    IF fallos < 3 THEN 0
    ELSE LET doble == <<1, 2, 4, 8, 16, 32>>[1 + (IF fallos - 3 < 5 THEN fallos - 3 ELSE 5)]
         IN IF doble < 30 THEN doble ELSE 30

\* What the lock screen says about the fingerprint.
Mensajes == {"callada", "nodisponible", "coloca", "nocoincide", "rechazada"}

EstaBloqueado == bloqueada /\ ~muerto

\* The state refrescar_bloqueo hands to the lock screen.
Visible(b, v) ==
    IF b.comprobando # Nadie THEN "comprobando"
    ELSE IF b.reintentar /\ ~v THEN "espera"
    ELSE IF b.fallo THEN "fallo"
    ELSE "escribiendo"

\* A thread identity nothing refers to any more.
Libre(w, b) == obreros[w].fase = "fin" /\ w # b.comprobando /\ w # b.huella

\* Groups of variables that most actions leave alone together.
Barra == <<bloqueada, muerto, marca, generacion>>
Fuentes == <<sondeosClave, sondeosHuella, temporizadores>>
Trabajo == <<obreros, ocupado>>
Entorno == <<ajuste, sueno, proceso>>

--------------------------------------------------------------------------------
(* Fingerprint: comprobar_huella, on the lock state b it is called with *)

QuiereHuella(b, echada) ==
    /\ echada
    /\ ajuste
    /\ ~b.huella_sin_lector
    /\ b.huella = Nadie
    /\ ~b.huella_espera

\* A slip for SensorLibre: the previous value of the flag is not looked at.
SensorLibreSiempre == TRUE

\* What the swap of OCUPADO finds.
SensorLibre == ~ocupado

\* Comprobacion::huella: take OCUPADO, spawn the thread, show the prompt and
\* insert a poller that captures the generation and the resume counter.  While
\* another conversation owns the reader it answers None.
ComprobarHuella(b, echada, gen, sondeos, aviso) ==
    \/ /\ ~QuiereHuella(b, echada)
       /\ bloqueo' = b
       /\ sondeosHuella' = sondeos
       /\ mensaje' = aviso
       /\ UNCHANGED <<obreros, ocupado>>
    \/ /\ QuiereHuella(b, echada)
       /\ ~SensorLibre \/ HilosFallan
       /\ bloqueo' = b
       /\ sondeosHuella' = sondeos
       /\ mensaje' = "nodisponible"
       /\ UNCHANGED <<obreros, ocupado>>
    \/ /\ QuiereHuella(b, echada)
       /\ SensorLibre
       /\ ocupado' = TRUE
       /\ \E w \in Obreros :
            /\ Libre(w, b)
            /\ bloqueo' = [b EXCEPT !.huella = w]
            /\ obreros' = [obreros EXCEPT ![w] = HiloHuella(gen)]
       /\ sondeosHuella' = sondeos
            \cup {[gen |-> gen, reanudaciones |-> b.huella_reanudaciones]}
       /\ mensaje' = "coloca"

--------------------------------------------------------------------------------
(* Locking and unlocking *)

\* marcar_bloqueo_sesion.  Writing the permit back may fail, which only means
\* that a later crash goes to the login screen.
MarcarBloqueada == marca' = "ausente"
MarcarLibre == marca' \in {marca, "desbloqueada"}

\* bloquear: the recovery permit goes before anything else.  A panic inside
\* shell.bloquear leaves the shell dead and nothing locked.
Bloquear ==
    /\ ~EstaBloqueado
    /\ generacion < MaxGeneracion
    /\ MarcarBloqueada
    /\ generacion' = generacion + 1
    /\ \/ /\ bloqueada' = TRUE
          /\ visto' = "escribiendo"
          /\ UNCHANGED muerto
          /\ ComprobarHuella(bloqueo, ~muerto, generacion + 1, sondeosHuella, "callada")
       \/ /\ PuedeReventar
          /\ muerto' = TRUE
          /\ UNCHANGED <<bloqueada, visto>>
          /\ ComprobarHuella(bloqueo, FALSE, generacion + 1, sondeosHuella, mensaje)
    /\ UNCHANGED <<sondeosClave, temporizadores, vencido, Entorno>>

\* bloquear when the permit cannot be removed: exit(77).
BloquearSinProteger ==
    /\ ~EstaBloqueado
    /\ marca = "desbloqueada"
    /\ proceso' = "salida77"
    /\ UNCHANGED <<Barra, bloqueo, Trabajo, Fuentes, vencido, visto, mensaje, ajuste, sueno>>

\* A slip for TrasSalir: the typed text is forgotten, the rest is kept.
TrasSalirSinReiniciar == [bloqueo EXCEPT !.escrito = 0]
TrasSalir == BloqueoDefecto

\* Accion::Desbloquear.
Desbloquear ==
    /\ generacion' = generacion + 1
    /\ MarcarLibre
    /\ bloqueo' = TrasSalir
    /\ bloqueada' = FALSE
    /\ visto' = "escribiendo"
    /\ mensaje' = "callada"
    /\ UNCHANGED <<muerto, Trabajo, temporizadores, vencido, Entorno>>

--------------------------------------------------------------------------------
(* Keys, while input.rs finds the session locked *)

\* An edit of the field is taken only while nothing is being checked.
EditableSiempre == EstaBloqueado \* a slip for Editable
Editable == EstaBloqueado /\ bloqueo.comprobando = Nadie

Editar(b) ==
    /\ Editable
    /\ bloqueo' = b
    /\ visto' = Visible(b, vencido)
    /\ UNCHANGED <<Barra, Trabajo, Fuentes, vencido, mensaje, Entorno>>

BloqueoEscribir ==
    /\ bloqueo.escrito < MaxEscrito
    /\ Editar([bloqueo EXCEPT !.fallo = FALSE, !.escrito = @ + 1])

BloqueoBorrar ==
    Editar([bloqueo EXCEPT !.fallo = FALSE, !.escrito = IF @ = 0 THEN 0 ELSE @ - 1])

BloqueoLimpiar == Editar([bloqueo EXCEPT !.fallo = FALSE, !.escrito = 0])

\* comprobar_bloqueo (Enter) does nothing while an attempt is under way or the
\* field is empty.
Comprobable == Editable /\ bloqueo.escrito > 0

\* Whether reintentar_desde lies in the future: then only the countdown is
\* repainted.
Retenido == bloqueo.reintentar /\ ~vencido

ComprobarRetenido ==
    /\ Comprobable /\ Retenido
    /\ visto' = Visible(bloqueo, vencido)
    /\ UNCHANGED <<Barra, bloqueo, Trabajo, Fuentes, vencido, mensaje, Entorno>>

\* Comprobacion::lanzar, a thread with a copy of what is typed, and
\* recoger_comprobacion, a poller that captures the generation.
LanzarComprobacion ==
    /\ Comprobable /\ ~Retenido
    /\ \E w \in Obreros :
         /\ Libre(w, bloqueo)
         /\ obreros' = [obreros EXCEPT ![w] = HiloClave]
         /\ bloqueo' = [bloqueo EXCEPT !.reintentar = FALSE, !.comprobando = w]
    /\ sondeosClave' = sondeosClave \cup {generacion}
    /\ visto' = Visible(bloqueo', vencido)
    /\ UNCHANGED <<Barra, ocupado, sondeosHuella, temporizadores, vencido, mensaje, Entorno>>

\* The thread cannot be spawned: what was typed is forgotten, as on a failure.
ComprobarSinHilo ==
    /\ Comprobable /\ ~Retenido
    /\ HilosFallan
    /\ bloqueo' = [bloqueo EXCEPT !.reintentar = FALSE, !.escrito = 0, !.fallo = TRUE]
    /\ visto' = Visible(bloqueo', vencido)
    /\ UNCHANGED <<Barra, Trabajo, Fuentes, vencido, mensaje, Entorno>>

\* F9.
BloqueoHuella ==
    /\ EstaBloqueado
    /\ ComprobarHuella(bloqueo, TRUE, generacion, sondeosHuella, mensaje)
    /\ UNCHANGED <<Barra, sondeosClave, temporizadores, vencido, visto, Entorno>>

--------------------------------------------------------------------------------
(* Pollers and timers of the event loop *)

\* A poller of an earlier lock, or one whose worker is gone, drops itself.
ClaveCaduca(g) == g # generacion \/ bloqueo.comprobando = Nadie

\* A slip for SondeoClaveCaduco: the poller gives up while PAM is thinking.
SondeoClaveImpaciente(g) ==
    /\ ~ClaveCaduca(g) => Veredicto(bloqueo.comprobando) = "pendiente"
    /\ sondeosClave' = sondeosClave \ {g}
    /\ UNCHANGED <<Barra, bloqueo, Trabajo, sondeosHuella, temporizadores, vencido,
                   visto, mensaje, Entorno>>

SondeoClaveCaduco(g) ==
    /\ ClaveCaduca(g)
    /\ sondeosClave' = sondeosClave \ {g}
    /\ UNCHANGED <<Barra, bloqueo, Trabajo, sondeosHuella, temporizadores, vencido,
                   visto, mensaje, Entorno>>

\* calloop fires timers by deadline: the retry timer of this lock is due before
\* any attempt it held back can start, hence before that attempt's poller.
ClaveResuelta(g) ==
    /\ ~ClaveCaduca(g)
    /\ Veredicto(bloqueo.comprobando) # "pendiente"
    /\ g \notin temporizadores

SondeoClaveAcierta(g) ==
    /\ ClaveResuelta(g)
    /\ Veredicto(bloqueo.comprobando) = "Correcto"
    /\ Desbloquear
    /\ sondeosClave' = sondeosClave \ {g}
    /\ UNCHANGED sondeosHuella

\* saturating_add
SumaFalloSinTope(fallos) == fallos + 1 \* a slip for SumaFallo
SumaFallo(fallos) == IF fallos < FallosMax THEN fallos + 1 ELSE FallosMax

SondeoClaveFalla(g) ==
    LET fallos == SumaFallo(bloqueo.fallos)
        demora == DemoraReintento(fallos) > 0
    IN  /\ ClaveResuelta(g)
        /\ Veredicto(bloqueo.comprobando) # "Correcto"
        /\ bloqueo' = [bloqueo EXCEPT !.comprobando = Nadie, !.escrito = 0, !.fallo = TRUE,
                                      !.fallos = fallos, !.reintentar = @ \/ demora]
        /\ vencido' = (vencido /\ ~demora)
        /\ temporizadores' = temporizadores \cup (IF demora THEN {g} ELSE {})
        /\ sondeosClave' = sondeosClave \ {g}
        /\ visto' = Visible(bloqueo', vencido')
        /\ UNCHANGED <<Barra, Trabajo, sondeosHuella, mensaje, Entorno>>

\* Whether a retry timer belongs to the lock that is up.
TemporizadorDeCualquiera(g) == TRUE \* a slip for TemporizadorVigente
TemporizadorVigente(g) == g = generacion

LevantaDemoraCallada == \* a slip for LevantaDemora: nothing is repainted
    /\ bloqueo' = [bloqueo EXCEPT !.reintentar = FALSE]
    /\ UNCHANGED visto
LevantaDemora ==
    /\ bloqueo' = [bloqueo EXCEPT !.reintentar = FALSE]
    /\ visto' = Visible(bloqueo', vencido)

\* The retry timer lifts the delay it was set for, unless its lock is over.
TemporizadorReintento(g) ==
    /\ g \in temporizadores
    /\ g = generacion => vencido
    /\ temporizadores' = temporizadores \ {g}
    /\ IF TemporizadorVigente(g) THEN LevantaDemora ELSE UNCHANGED <<bloqueo, visto>>
    /\ UNCHANGED <<Barra, Trabajo, sondeosClave, sondeosHuella, vencido, mensaje, Entorno>>

HuellaCaduca(s) == s.gen # generacion \/ bloqueo.huella = Nadie

SondeoHuellaCaduco(s) ==
    /\ HuellaCaduca(s)
    /\ sondeosHuella' = sondeosHuella \ {s}
    /\ UNCHANGED <<Barra, bloqueo, Trabajo, sondeosClave, temporizadores, vencido,
                   visto, mensaje, Entorno>>

HuellaDice(s, veredicto) == ~HuellaCaduca(s) /\ Veredicto(bloqueo.huella) = veredicto

\* dedo_no_casa: PAM reported a finger that does not match and keeps waiting.
SondeoHuellaAviso(s) ==
    /\ HuellaDice(s, "pendiente")
    /\ mensaje' = "nocoincide"
    /\ UNCHANGED <<Barra, bloqueo, Trabajo, Fuentes, vencido, visto, Entorno>>

SondeoHuellaAcierta(s) ==
    /\ HuellaDice(s, "Correcto")
    /\ Desbloquear
    /\ sondeosHuella' = sondeosHuella \ {s}
    /\ UNCHANGED sondeosClave

\* A "not available" is a wait that ran out, or one that a suspend cut, when
\* the conversation is older than HUELLA_AGOTADA or the machine has resumed
\* since; otherwise there is no reader and the lock stops asking for one.
FueEsperaPorTiempo(s) == obreros[bloqueo.huella].tarde \* a slip for FueEspera
FueEspera(s) ==
    \/ obreros[bloqueo.huella].tarde
    \/ s.reanudaciones # bloqueo.huella_reanudaciones

SondeoHuellaRenueva(s) ==
    /\ HuellaDice(s, "NoDisponible")
    /\ FueEspera(s)
    /\ ComprobarHuella([bloqueo EXCEPT !.huella = Nadie], EstaBloqueado, generacion,
                       sondeosHuella \ {s}, mensaje)
    /\ UNCHANGED <<Barra, sondeosClave, temporizadores, vencido, visto, Entorno>>

\* The conversation is over and another one has to be asked for.
CierraHuellaCallada(s, b, aviso) == \* a slip for CierraHuella: no new message
    /\ bloqueo' = b
    /\ sondeosHuella' = sondeosHuella \ {s}
    /\ UNCHANGED <<Barra, Trabajo, sondeosClave, temporizadores, vencido, visto, mensaje,
                   Entorno>>
CierraHuella(s, b, aviso) ==
    /\ bloqueo' = b
    /\ sondeosHuella' = sondeosHuella \ {s}
    /\ mensaje' = aviso
    /\ UNCHANGED <<Barra, Trabajo, sondeosClave, temporizadores, vencido, visto, Entorno>>

SondeoHuellaSinLector(s) ==
    /\ HuellaDice(s, "NoDisponible")
    /\ ~FueEspera(s)
    /\ CierraHuella(s, [bloqueo EXCEPT !.huella = Nadie, !.huella_sin_lector = TRUE],
                    "callada")

SondeoHuellaRechaza(s) ==
    /\ HuellaDice(s, "Rechazado")
    /\ CierraHuella(s, [bloqueo EXCEPT !.huella = Nadie, !.huella_espera = TRUE],
                    "rechazada")

\* What reanudar_huella leaves in the lock before it asks again.
ReanudadoSinReponer == [bloqueo EXCEPT !.huella_reanudaciones = @ + 1] \* a slip
Reanudado ==
    [bloqueo EXCEPT !.huella_reanudaciones = @ + 1, !.huella_sin_lector = FALSE]

\* reanudar_huella, when the message of the resume thread reaches the loop.
ReanudarHuella ==
    /\ sueno = "avisando"
    /\ sueno' = "despierto"
    /\ ComprobarHuella(Reanudado, EstaBloqueado, generacion, sondeosHuella, mensaje)
    /\ UNCHANGED <<Barra, sondeosClave, temporizadores, vencido, visto, ajuste, proceso>>

\* A panic of the shell, in any call the compositor makes into it.
Revienta ==
    /\ PuedeReventar
    /\ ~muerto
    /\ muerto' = TRUE
    /\ UNCHANGED <<bloqueada, marca, generacion, bloqueo, Trabajo, Fuentes, vencido, visto,
                   mensaje, Entorno>>

--------------------------------------------------------------------------------
(* Worker threads, time and the outside world: nothing of the event loop moves *)

Bucle == <<Barra, bloqueo, Fuentes, visto, mensaje, proceso>>

\* autenticar: the verdict is sent and the thread ends.  Without PAM there is a
\* "not available", which the poller treats as any other refusal.
ContestaClave(w, r) ==
    /\ obreros[w].clase = "clave" /\ obreros[w].fase = "pregunta"
    /\ r \in {"correcto", "rechazado", "sinlector"}
    /\ obreros' = [obreros EXCEPT ![w].fase = "fin", ![w].respuesta = r]
    /\ UNCHANGED <<Bucle, ocupado, vencido, ajuste, sueno>>

\* The fingerprint thread sends its verdict while it still owns the reader.
ContestaHuella(w, r) ==
    /\ obreros[w].clase = "huella" /\ obreros[w].fase = "pregunta"
    /\ \/ r = "rechazado"
       \/ r = "correcto" /\ HayLector
       \/ r = "agotado" /\ HayLector /\ obreros[w].tarde
       \/ r = "sinlector" /\ ~HayLector
       \/ r = "dormido" /\ obreros[w].cortado
    /\ obreros' = [obreros EXCEPT ![w].fase = "dicho", ![w].respuesta = r]
    /\ UNCHANGED <<Bucle, ocupado, vencido, ajuste, sueno>>

\* Liberar::drop, as the closure of the thread ends.
LiberaSensor(w) ==
    /\ obreros[w].clase = "huella" /\ obreros[w].fase = "dicho"
    /\ obreros' = [obreros EXCEPT ![w].fase = "fin"]
    /\ ocupado' = FALSE
    /\ UNCHANGED <<Bucle, vencido, ajuste, sueno>>

\* A thread that unwinds sends nothing; its guard is dropped all the same.
MuereObrero(w) ==
    /\ HilosFallan
    /\ obreros[w].fase = "pregunta"
    /\ obreros' = [obreros EXCEPT ![w].fase = "fin"]
    /\ ocupado' = (ocupado /\ obreros[w].clase = "clave")
    /\ UNCHANGED <<Bucle, vencido, ajuste, sueno>>

\* Seven seconds of a fingerprint conversation.
PasaHuellaAgotada(w) ==
    /\ obreros[w].clase = "huella" /\ ~obreros[w].tarde
    /\ obreros[w].fase = "pregunta" \/ w = bloqueo.huella
    /\ obreros' = [obreros EXCEPT ![w].tarde = TRUE]
    /\ UNCHANGED <<Bucle, ocupado, vencido, ajuste, sueno>>

VenceDemora ==
    /\ ~vencido
    /\ vencido' = TRUE
    /\ UNCHANGED <<Bucle, Trabajo, ajuste, sueno>>

VenceEsperaHuella ==
    /\ bloqueo.huella_espera
    /\ bloqueo' = [bloqueo EXCEPT !.huella_espera = FALSE]
    /\ UNCHANGED <<Barra, Trabajo, Fuentes, vencido, visto, mensaje, Entorno>>

\* Settings rewrites the file that Config::cargar reads on every call.
CambiaAjuste ==
    /\ ajuste' = ~ajuste
    /\ UNCHANGED <<Bucle, Trabajo, vencido, sueno>>

\* PrepareForSleep(true): fprintd lets go of the reader.
Dormir ==
    /\ sueno = "despierto"
    /\ bloqueo.huella_reanudaciones < MaxReanudaciones
    /\ sueno' = "durmiendo"
    /\ obreros' = [w \in Obreros |-> [obreros[w] EXCEPT !.cortado = @ \/
                     (obreros[w].clase = "huella" /\ obreros[w].fase = "pregunta")]]
    /\ UNCHANGED <<Bucle, ocupado, vencido, ajuste>>

\* PrepareForSleep(false), on its way to the event loop.
Despertar ==
    /\ sueno = "durmiendo"
    /\ sueno' = "avisando"
    /\ UNCHANGED <<Bucle, Trabajo, vencido, ajuste>>

--------------------------------------------------------------------------------
(* Specification *)

Init ==
    /\ bloqueada = FALSE
    /\ muerto = FALSE
    /\ proceso = "vivo"
    /\ marca = "desbloqueada"
    /\ bloqueo = BloqueoDefecto
    /\ generacion = 0
    /\ obreros = [w \in Obreros |-> Parado]
    /\ ocupado = FALSE
    /\ sondeosClave = {}
    /\ sondeosHuella = {}
    /\ temporizadores = {}
    /\ vencido = TRUE
    /\ visto = "escribiendo"
    /\ mensaje = "callada"
    /\ ajuste \in BOOLEAN
    /\ sueno = "despierto"

Teclas ==
    \/ BloqueoEscribir \/ BloqueoBorrar \/ BloqueoLimpiar
    \/ ComprobarRetenido \/ LanzarComprobacion \/ ComprobarSinHilo
    \/ BloqueoHuella

SondeoClave(g) == SondeoClaveCaduco(g) \/ SondeoClaveAcierta(g) \/ SondeoClaveFalla(g)

SondeoHuella(s) ==
    \/ SondeoHuellaCaduco(s) \/ SondeoHuellaAviso(s) \/ SondeoHuellaAcierta(s)
    \/ SondeoHuellaRenueva(s) \/ SondeoHuellaSinLector(s) \/ SondeoHuellaRechaza(s)

PasoBucle ==
    \/ Bloquear \/ BloquearSinProteger
    \/ Teclas
    \/ \E g \in sondeosClave : SondeoClave(g)
    \/ \E s \in sondeosHuella : SondeoHuella(s)
    \/ \E g \in temporizadores : TemporizadorReintento(g)
    \/ ReanudarHuella
    \/ Revienta

Contesta(w) == \E r \in Respuestas : ContestaClave(w, r) \/ ContestaHuella(w, r)

PasoExterno ==
    \/ \E w \in Obreros : Contesta(w) \/ LiberaSensor(w) \/ MuereObrero(w)
                          \/ PasaHuellaAgotada(w)
    \/ VenceDemora \/ VenceEsperaHuella \/ CambiaAjuste \/ Dormir \/ Despertar

\* After exit(77) there is no compositor left.
Terminado == proceso = "salida77" /\ UNCHANGED vars

Next == (proceso = "vivo" /\ (PasoBucle \/ PasoExterno)) \/ Terminado

Spec == Init /\ [][Next]_vars

\* The event loop keeps polling and its timers fire; PAM bounds every
\* conversation (15 s for a finger); a thread that answered runs to its end; a
\* machine that sleeps wakes up.  Nobody owes the lock a key, a finger, a
\* change of settings or a panic.
Equidad ==
    /\ \A g \in 0..(MaxGeneracion + 1) :
         /\ WF_vars(proceso = "vivo" /\ g \in sondeosClave /\ SondeoClave(g))
         /\ WF_vars(proceso = "vivo" /\ TemporizadorReintento(g))
    /\ \A w \in Obreros :
         /\ WF_vars(proceso = "vivo" /\ Contesta(w))
         /\ WF_vars(proceso = "vivo" /\ LiberaSensor(w))
    /\ WF_vars(proceso = "vivo" /\ VenceDemora)
    /\ WF_vars(proceso = "vivo" /\ Despertar)
    /\ WF_vars(proceso = "vivo" /\ ReanudarHuella)

FairSpec == Spec /\ Equidad

--------------------------------------------------------------------------------
(* Properties *)

TypeOK ==
    /\ bloqueada \in BOOLEAN
    /\ muerto \in BOOLEAN
    /\ proceso \in {"vivo", "salida77"}
    /\ marca \in {"desbloqueada", "ausente"}
    /\ bloqueo \in Bloqueo
    /\ generacion \in Nat
    /\ obreros \in [Obreros -> Obrero]
    /\ ocupado \in BOOLEAN
    /\ sondeosClave \subseteq Nat
    /\ sondeosHuella \subseteq [gen : Nat, reanudaciones : Nat]
    /\ temporizadores \subseteq Nat
    /\ vencido \in BOOLEAN
    /\ visto \in {"comprobando", "espera", "fallo", "escribiendo"}
    /\ mensaje \in Mensajes
    /\ ajuste \in BOOLEAN
    /\ sueno \in {"despierto", "durmiendo", "avisando"}

\* While the screen is locked the permit that lets the supervisor restart the
\* session without authentication is gone, whatever crashed or failed to write.
CierreSeguro == EstaBloqueado => marca = "ausente"

\* A conversation the lock waits for has a poller that will not drop itself.
\* Otherwise `comprobando' (or `huella') stays Some, every key that is guarded by
\* it is ignored, and the session cannot be opened again.
ConversacionAtendida ==
    EstaBloqueado =>
        /\ bloqueo.comprobando # Nadie => generacion \in sondeosClave
        /\ bloqueo.huella # Nadie => \E s \in sondeosHuella : s.gen = generacion

\* "Como máximo una conversación con el sensor, incluso al bloquear otra vez
\* antes de que expire el intento anterior" -- and OCUPADO is never left set by
\* a thread that is gone, which would switch the reader off until a restart.
Conversan == {w \in Obreros : obreros[w].clase = "huella" /\ obreros[w].fase # "fin"}
SensorDeUno ==
    /\ \A v, w \in Conversan : v = w
    /\ ocupado <=> Conversan # {}

\* What is being checked is what the field holds: nothing typed meanwhile gets
\* in, and nothing typed survives the verdict.
SecretoComprobado ==
    /\ bloqueo.comprobando # Nadie => bloqueo.escrito = obreros[bloqueo.comprobando].secreto
    /\ ~bloqueada => bloqueo.escrito = 0

\* What the proofs carry along to get the invariants above: nothing is pending in
\* an open session, no captured generation lies ahead, a worker stays what it was
\* spawned as while it is referred to, and a poller of this lock reads a worker of
\* this lock -- `bloqueo' is emptied when the session opens, so a conversation
\* begun under an earlier lock is never the one whose verdict is read.
Generaciones ==
    /\ \A g \in sondeosClave : g <= generacion
    /\ \A s \in sondeosHuella : s.gen <= generacion
    /\ \A w \in Obreros : obreros[w].gen <= generacion

Clases ==
    /\ bloqueo.comprobando # Nadie => obreros[bloqueo.comprobando].clase = "clave"
    /\ bloqueo.huella # Nadie => obreros[bloqueo.huella].clase = "huella"

ConversacionPropia ==
    /\ generacion \in sondeosClave /\ bloqueo.comprobando # Nadie =>
         obreros[bloqueo.comprobando].gen = generacion
    /\ \A s \in sondeosHuella : s.gen = generacion /\ bloqueo.huella # Nadie =>
         obreros[bloqueo.huella].gen = generacion

SesionAbierta ==
    ~bloqueada =>
        /\ bloqueo.escrito = 0
        /\ ~muerto => bloqueo.comprobando = Nadie /\ bloqueo.huella = Nadie

Coherencia ==
    /\ bloqueada => marca = "ausente"
    /\ ConversacionAtendida
    /\ SensorDeUno
    /\ SecretoComprobado
    /\ Generaciones
    /\ Clases
    /\ ConversacionPropia
    /\ SesionAbierta

\* The screen shows the state the lock is in.  The one lag allowed is a
\* countdown whose delay has just elapsed and whose timer is about to fire.
VistoFiel ==
    EstaBloqueado =>
        \/ visto = Visible(bloqueo, vencido)
        \/ visto = "espera" /\ vencido /\ generacion \in temporizadores

\* A reader that exists is written off (until the session is unlocked) only
\* around a suspend, and the resume puts it back.
SinLectorVeraz ==
    HayLector /\ bloqueo.huella_sin_lector => sueno # "despierto"

\* The screen and the reader tell the truth, and every variable keeps its type.
PantallaFiel == TypeOK /\ VistoFiel /\ SinLectorVeraz

\* What holds of the delay and of the two halves of the screen it moves: a
\* countdown belongs to a lock that is up and has its timer pending, a failure is
\* only remembered while locked, and from the third failure on either the delay has
\* elapsed or the barrier is still standing.
DemoraEnMarcha ==
    /\ ~muerto /\ bloqueo.reintentar => bloqueada /\ generacion \in temporizadores
    /\ ~muerto /\ bloqueo.fallo => bloqueada
    /\ bloqueo.fallos >= 3 => vencido \/ bloqueo.reintentar
    /\ VistoFiel

\* What holds of the reader.  The lock listens only when nothing tells it not to;
\* a thread of the reader gives the reason it really had; and a conversation that
\* a suspend cut is either known to the resume counter or the machine has not
\* resumed yet -- no poller of this lock has counted a resume that did not happen.
RespuestaVeraz ==
    \A w \in Obreros : obreros[w].clase = "huella" =>
        /\ obreros[w].respuesta = "agotado" => obreros[w].tarde
        /\ obreros[w].respuesta = "sinlector" => ~HayLector
        /\ obreros[w].respuesta = "dormido" => obreros[w].cortado

CorteContado ==
    \A s \in sondeosHuella : s.gen = generacion =>
        /\ s.reanudaciones <= bloqueo.huella_reanudaciones
        /\ bloqueo.huella # Nadie /\ s.reanudaciones = bloqueo.huella_reanudaciones
             /\ obreros[bloqueo.huella].cortado => sueno # "despierto"

LectorVeraz ==
    /\ bloqueo.huella # Nadie => ~bloqueo.huella_sin_lector /\ ~bloqueo.huella_espera
    /\ RespuestaVeraz
    /\ CorteContado
    /\ SinLectorVeraz

\* From the third failure on, no attempt starts before the delay of the last
\* one has elapsed -- whichever of the key handler and the (possibly older)
\* timers cleared the barrier.
DemoraRespetada ==
    [][bloqueo.comprobando = Nadie /\ bloqueo'.comprobando # Nadie
            => bloqueo.fallos < 3 \/ vencido]_vars

\* When the lock stops listening to the reader, with the fingerprint enabled,
\* the screen no longer asks for a finger.
AvisoVeraz ==
    [][bloqueo.huella # Nadie /\ bloqueo'.huella = Nadie /\ EstaBloqueado' /\ ajuste
         => mensaje' # "coloca"]_vars

\* No step goes round the delay or leaves a request for a finger behind.
PasosVeraces == DemoraRespetada /\ AvisoVeraz

\* A conversation of this lock that PAM answered with a yes.
Concede(w) ==
    /\ obreros[w].gen = generacion
    /\ obreros[w].fase # "pregunta"
    /\ obreros[w].respuesta = "correcto"
Concedido == \E w \in {bloqueo.comprobando, bloqueo.huella} \ {Nadie} : Concede(w)

\* The barrier comes down only on a grant of its own episode, never on the verdict
\* of a conversation begun under an earlier lock.
Barrera ==
    INSTANCE LockBarrier WITH
        echada <- bloqueada, episodio <- generacion, concedido <- Concedido
ImplementaBarrera == Barrera!Spec

\* An attempt always comes to an end, and the password can be typed again.
IntentoTermina ==
    bloqueo.comprobando # Nadie ~> (bloqueo.comprobando = Nadie \/ ~EstaBloqueado)

\* The countdown on the screen does not stick.
EsperaTermina == visto = "espera" ~> (visto # "espera" \/ ~EstaBloqueado)

\* A reader that was written off because of a suspend is listened to again.
LectorRecuperado ==
    HayLector /\ bloqueo.huella_sin_lector ~> ~bloqueo.huella_sin_lector

\* Attempts, countdowns and a lost reader all come to an end.
TodoTermina == IntentoTermina /\ EsperaTermina /\ LectorRecuperado

\* README: "a timeout starts a new wait instead of switching the fingerprint off".
EsperaRenovada ==
    [][\A w \in Obreros :
         /\ bloqueo.huella = w /\ bloqueo'.huella # w
         /\ obreros[w].respuesta = "agotado"
         /\ EstaBloqueado /\ EstaBloqueado' /\ ajuste
         => bloqueo'.huella # Nadie]_vars

\* For TLC: what a finished thread answered does not matter once nothing refers to
\* it, its identity is taken again with a fresh record.
Vista ==
    <<bloqueada, muerto, proceso, marca, bloqueo, generacion, ocupado, sondeosClave,
      sondeosHuella, temporizadores, vencido, visto, mensaje, ajuste, sueno,
      [w \in Obreros |-> IF Libre(w, bloqueo) THEN Parado ELSE obreros[w]]>>
================================================================================
