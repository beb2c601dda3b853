------------------------------ MODULE Brightness ------------------------------
(***************************************************************************)
(* Who sets the level of the panel: the brightness key, the slider of a    *)
(* card, the ambient light sensor with its ramp, and the dimming before a  *)
(* lock or on a low battery.  All of them ask one thread that runs busctl  *)
(* and keeps only the last request, and all of them read sysfs, which      *)
(* shows a request only after that thread has carried it out.  When the    *)
(* warning before the lock is due is the business of Idle.                 *)
(***************************************************************************)
EXTENDS Integers

CONSTANTS
    Suelo, Tope,       \* 5 and 100: the levels are those in between
    Maximo,            \* max_brightness of the device
    Umbral,            \* UMBRAL_PANTALLA
    Tolerancia,        \* 2: what a reading may differ from what was set
    DesvioMax,         \* 60
    Reparto,           \* 8: a step of the sensor's ramp is that part of the rest
    Pasos,             \* RAMPA / PASO_RAMPA
    Curva,             \* level (not clamped) for each reading of the sensor
    Teclas,            \* the steps of the key, up and down
    Automaticos,       \* what brillo_automatico_pantalla may be set to
    Cargas,            \* what cargador() may answer: "baja", "media", "bien"
    Lenta,             \* a write may take longer than MARGEN_ESCRITURA
    MaxSucesos         \* bound: events from outside

NivelesAssumption ==
    /\ Suelo \in Nat \ {0} /\ Tope \in Nat /\ Suelo <= Tope
    /\ Maximo \in Nat \ {0}
    /\ Umbral \in Nat \ {0} /\ Tolerancia \in Nat /\ DesvioMax \in Nat
    /\ Reparto \in Nat \ {0} /\ Pasos \in Nat \ {0} /\ MaxSucesos \in Nat
EntradasAssumption ==
    /\ DOMAIN Curva \subseteq Nat /\ \A l \in DOMAIN Curva : Curva[l] \in Nat
    /\ Teclas \subseteq Int
    /\ Automaticos \subseteq BOOLEAN /\ Lenta \in BOOLEAN
    /\ Cargas \subseteq {"baja", "media", "bien"}

Nada == -1           \* the Option is None

Niveles == Suelo..Tope
Luces == DOMAIN Curva
Crudos == 0..Maximo

VARIABLES
    b,         \* the compositor's state and what it shares, see Estado
    enCurso,   \* the level busctl is writing: a set of one or none
    sucesos,   \* events so far
    \* history
    pedido,    \* the last request of anybody, in the units of the device
    querido,   \* the level the user last chose
    manos,     \* the user has moved the level
    fijo,      \* since the user chose it neither sensor nor battery could set it
    restaurado \* the level a restore promised, until something else happens

historia == <<querido, manos, fijo, restaurado>>
vars == <<b, enCurso, sucesos, pedido, querido, manos, fijo, restaurado>>

SinAtenuar == [motivo |-> "no", previo |-> 0]
SinBajada == [paso |-> 0, de |-> 0, a |-> 0]
SinRampa == [nivel |-> 0, objetivo |-> 0]

Estado == [
    cola      : Crudos \cup {Nada},  \* the request the thread has not taken
    brillo    : Crudos,              \* `brightness` in sysfs
    atenuada  : [motivo : {"no", "inactividad", "bateria"}, previo : 0..Tope],
    bajada    : [paso : 0..Pasos, de : 0..Tope, a : 0..Tope], \* its ramp
    rampa     : [nivel : 0..Tope, objetivo : 0..Tope],  \* the sensor's
    elegido   : BOOLEAN,             \* elegido.pantalla
    lux       : Luces \cup {Nada},
    puesta    : (0..Tope) \cup {Nada},  \* pantalla_puesta
    desvio    : (-DesvioMax)..DesvioMax,
    aMano     : (0..Tope) \cup {Nada},
    escrito   : BOOLEAN,             \* escrito.elapsed() < MARGEN_ESCRITURA
    espera    : BOOLEAN,
    encendido : BOOLEAN]             \* dpms_encendido

TypeOK ==
    /\ b \in Estado
    /\ enCurso \subseteq Crudos
    /\ pedido \in Crudos
    /\ sucesos \in 0..MaxSucesos
    /\ querido \in 0..Tope /\ manos \in BOOLEAN /\ fijo \in BOOLEAN
    /\ restaurado \in (0..Tope) \cup {Nada}

-------------------------------------------------------------------------------
(* Levels.                                                                 *)

Abs(n) == IF n < 0 THEN -n ELSE n
Recorta(n, lo, hi) == IF n < lo THEN lo ELSE IF n > hi THEN hi ELSE n

\* The quotient of two naturals, rounded.
Redondeo(n, d) == (2 * n + d) \div (2 * d)

\* A level for the device, and back (rounded down) as read_brightness does.
Crudo(nivel) == Redondeo(Maximo * nivel, Tope)
Leido(crudo) == (crudo * Tope) \div Maximo

Solicitar(s, crudo) == [s EXCEPT !.cola = crudo]

-------------------------------------------------------------------------------
(* The automatic brightness (brillo_auto.rs).                              *)

FijarSinSoltar(s, nivel) == \* a slip: the ramp in course goes on
    [s EXCEPT !.puesta = IF @ = Nada THEN Nada ELSE nivel,
              !.aMano = nivel, !.escrito = TRUE]
FijarSinPuesta(s, nivel) == \* a slip: the level is not taken as its own
    [s EXCEPT !.rampa = SinRampa, !.aMano = nivel, !.escrito = TRUE]
Fijar(s, nivel) ==
    [s EXCEPT !.rampa = SinRampa,
              !.puesta = IF @ = Nada THEN Nada ELSE nivel,
              !.aMano = nivel,
              !.escrito = TRUE]

Reciente(s) == s.rampa # SinRampa \/ s.escrito

Desviado(s, nivel) ==
    Recorta(s.desvio + nivel - s.puesta, -DesvioMax, DesvioMax)

Aprendido(s) ==
    IF s.puesta # Nada /\ ~Reciente(s) /\ Abs(Leido(s.brillo) - s.puesta) > Tolerancia
    THEN [s EXCEPT !.desvio = Desviado(s, Leido(s.brillo))]
    ELSE s

ObjetivoSinTope(s) == Curva[s.lux] + s.desvio \* a slip
Objetivo(s) == Recorta(Curva[s.lux] + s.desvio, Suelo, Tope)

Pantalla(s) ==
    LET t == Aprendido(s) IN
    IF Abs(Objetivo(t) - Leido(t.brillo)) < Umbral
    THEN IF Reciente(t) THEN t ELSE [t EXCEPT !.puesta = Leido(t.brillo)]
    ELSE [t EXCEPT !.puesta = Objetivo(t),
                   !.rampa = [nivel |-> Leido(t.brillo), objetivo |-> Objetivo(t)]]

Evaluar(s) ==
    IF s.lux = Nada \/ ~s.encendido \/ s.atenuada # SinAtenuar \/ ~s.elegido
    THEN s ELSE Pantalla(s)

Elegir(s, auto) ==
    Evaluar([s EXCEPT !.elegido = auto,
                      !.puesta = IF auto /\ ~s.elegido THEN Nada ELSE @,
                      !.desvio = IF auto /\ ~s.elegido THEN 0 ELSE @,
                      !.rampa = IF auto THEN @ ELSE SinRampa])

Recibir(s, lux) ==
    LET t == [s EXCEPT !.lux = lux] IN
    IF s.lux # Nada /\ lux < s.lux THEN [t EXCEPT !.espera = TRUE]
    ELSE Evaluar([t EXCEPT !.espera = FALSE])

Partida(s) == IF s.aMano # Nada /\ s.escrito THEN s.aMano ELSE Leido(s.brillo)

-------------------------------------------------------------------------------
(* The dimming (atenuacion.rs).                                            *)

Fraccion(motivo) == IF motivo = "bateria" THEN 5 ELSE 3   \* in tenths

Rebaja(nivel, motivo) == Recorta(Redondeo(nivel * Fraccion(motivo), 10), Suelo, Tope)

Atenuar(s, motivo) ==
    LET previo == Leido(s.brillo)
        objetivo == Rebaja(previo, motivo)
    IN IF s.atenuada # SinAtenuar \/ ~s.encendido \/ objetivo >= previo THEN s
       ELSE Fijar([s EXCEPT !.atenuada = [motivo |-> motivo, previo |-> previo],
                            !.bajada = [paso |-> 1, de |-> previo, a |-> objetivo]],
                  objetivo)

Restaurar(s) ==
    Evaluar(Fijar(Solicitar([s EXCEPT !.atenuada = SinAtenuar, !.bajada = SinBajada],
                            Crudo(s.atenuada.previo)),
                  s.atenuada.previo))

Actividad(s) == IF s.atenuada.motivo = "inactividad" THEN Restaurar(s) ELSE s

OlvidarSinRampa(s) == [s EXCEPT !.atenuada = SinAtenuar] \* a slip: it keeps dimming
Olvidar(s) ==
    IF s.atenuada = SinAtenuar THEN s
    ELSE [s EXCEPT !.atenuada = SinAtenuar, !.bajada = SinBajada]

\* brillo_auto::tecla, which ends the dimming.
TrasTecla(s, nivel) ==
    LET t == Olvidar(s) IN
    [t EXCEPT !.rampa = SinRampa,
              !.desvio = IF t.puesta = Nada THEN @ ELSE Desviado(t, nivel),
              !.puesta = IF t.puesta = Nada THEN Nada ELSE nivel,
              !.aMano = nivel,
              !.escrito = TRUE]

\* The low battery lets go 5 points above where it dims, or on the charger.
Bateria(s, carga) ==
    IF s.atenuada.motivo = "bateria"
    THEN IF carga = "bien" THEN Restaurar(s) ELSE s
    ELSE IF carga = "baja" THEN Atenuar(s, "bateria") ELSE s

\* despertar_dpms, which does nothing in the deaf seconds after going dark.
Despertar(s) == IF s.encendido THEN s ELSE Evaluar([s EXCEPT !.encendido = TRUE])

\* What input::handle does before anything else.
Entrada(s, sordo) == IF sordo THEN Actividad(s) ELSE Despertar(Actividad(s))

-------------------------------------------------------------------------------
(* The writer's thread (retroiluminacion.rs).                              *)

EscritorLibre == b.cola = Nada /\ enCurso = {}

SinTomarEnParalelo == TRUE \* a slip: a process for each request
SinTomar == enCurso = {}

TomaLote ==
    /\ SinTomar /\ b.cola # Nada
    /\ enCurso' = enCurso \cup {b.cola}
    /\ b' = [b EXCEPT !.cola = Nada]
    /\ UNCHANGED <<sucesos, pedido>> /\ UNCHANGED historia

\* logind writes it, and sysfs shows it from then on.
Escribe ==
    \E crudo \in enCurso :
        /\ enCurso' = enCurso \ {crudo}
        /\ b' = [b EXCEPT !.brillo = crudo]
        /\ UNCHANGED <<sucesos, pedido>> /\ UNCHANGED historia

-------------------------------------------------------------------------------
(* The timers of the event loop.                                           *)

\* What a step requests becomes the last request.
Pide == pedido' = IF b'.cola # Nada THEN b'.cola ELSE pedido

Interno == UNCHANGED <<enCurso, sucesos>> /\ UNCHANGED historia /\ Pide

\* A level in between, straight to the units of the device.
CrudoDeBajada(r) ==
    Redondeo(Maximo * (r.de * Pasos + (r.a - r.de) * r.paso), Tope * Pasos)

BajaUnPaso ==
    /\ b.bajada # SinBajada
    /\ LET t == Solicitar(b, CrudoDeBajada(b.bajada)) IN
       b' = IF b.bajada.paso >= Pasos THEN [t EXCEPT !.bajada = SinBajada]
            ELSE [t EXCEPT !.bajada.paso = @ + 1]
    /\ Interno

Paso(queda) ==
    Recorta(Abs(queda) \div Reparto, 1, Tope) * (IF queda < 0 THEN -1 ELSE 1)

RampaUnPaso ==
    /\ b.rampa # SinRampa
    /\ LET nivel == b.rampa.nivel + Paso(b.rampa.objetivo - b.rampa.nivel)
           t == [Solicitar(b, Crudo(nivel)) EXCEPT !.escrito = TRUE]
       IN b' = [t EXCEPT !.rampa = IF nivel = b.rampa.objetivo THEN SinRampa
                                   ELSE [@ EXCEPT !.nivel = nivel]]
    /\ Interno

\* The light has been low for ESPERA_AL_BAJAR.
VenceEspera ==
    /\ b.espera
    /\ b' = Evaluar([b EXCEPT !.espera = FALSE])
    /\ Interno

\* MARGEN_ESCRITURA goes by: never during a ramp, which is shorter or renews
\* it, and unless Lenta never before what was requested is on the panel.
MargenPasa ==
    /\ b.escrito /\ b.bajada = SinBajada /\ b.rampa = SinRampa
    /\ Lenta \/ EscritorLibre
    /\ b' = [b EXCEPT !.escrito = FALSE]
    /\ Interno

-------------------------------------------------------------------------------
(* Events.                                                                 *)

Suceso ==
    /\ sucesos < MaxSucesos /\ sucesos' = sucesos + 1
    /\ UNCHANGED enCurso

\* The level is the user's own business.
SoloUsuario == ~b'.elegido /\ b'.atenuada.motivo # "bateria"

\* The level a restore promises; something else ends the promise.
TrasRestaurar(nivel) ==
    /\ Pide /\ restaurado' = nivel
    /\ fijo' = (fijo /\ SoloUsuario)
    /\ UNCHANGED <<querido, manos>>
OtraCosa == TrasRestaurar(Nada)

\* The pointer moves.
Mueve ==
    /\ Suceso
    /\ \E sordo \in BOOLEAN : b' = Entrada(b, sordo)
    /\ TrasRestaurar(IF b.atenuada.motivo = "inactividad" THEN b.atenuada.previo
                     ELSE Nada)

Elegido(nivel) ==
    /\ Pide /\ restaurado' = Nada
    /\ querido' = nivel /\ manos' = TRUE /\ fijo' = SoloUsuario

\* multimedia::brillo, for a key pressed or for one held down, which is a timer
\* and no input.
Brillo(paso, s) ==
    LET nuevo == Recorta(Partida(s) + paso, Suelo, Tope) IN
    /\ b' = TrasTecla(Solicitar(s, Crudo(nuevo)), nuevo)
    /\ Elegido(nuevo)

PulsaTecla(paso) ==
    /\ Suceso
    /\ \E sordo \in BOOLEAN : Brillo(paso, Entrada(b, sordo))

MantieneTecla(paso) == Suceso /\ Brillo(paso, b)

\* The slider of the card or of the control centre.
Desliza(nivel) ==
    /\ Suceso
    /\ \E sordo \in BOOLEAN : b' = Solicitar(Entrada(b, sordo), Crudo(nivel))
    /\ Elegido(nivel)

\* A key of the keyboard's own light shares `escrito` with the panel.
LuzDeTeclado ==
    /\ Suceso
    /\ \E sordo \in BOOLEAN : b' = [Entrada(b, sordo) EXCEPT !.escrito = TRUE]
    /\ OtraCosa

Elige(auto) ==
    /\ Suceso
    /\ b' = Elegir(b, auto)
    /\ OtraCosa

Lux(lux) ==
    /\ Suceso /\ lux # b.lux
    /\ b' = Recibir(b, lux)
    /\ OtraCosa

\* The warning before the lock (Idle says when), a minute or so after the last
\* request of the user.
AvisaBloqueo ==
    /\ Suceso
    /\ Lenta \/ EscritorLibre
    /\ b' = Atenuar(b, "inactividad")
    /\ OtraCosa

\* A notice of udev, about anything at all.
AvisaHardware(carga) ==
    /\ Suceso
    /\ b' = Bateria(b, carga)
    /\ TrasRestaurar(IF b' = b THEN restaurado
                     ELSE IF b.atenuada # SinAtenuar THEN b.atenuada.previo ELSE Nada)

\* The alarm of a locked screen.
ApagaPantalla ==
    /\ Suceso /\ b.encendido
    /\ b' = [b EXCEPT !.encendido = FALSE]
    /\ UNCHANGED historia /\ Pide

-------------------------------------------------------------------------------
Init ==
    /\ \E nivel \in Niveles, auto \in Automaticos :
        /\ b = [cola |-> Nada, brillo |-> Crudo(nivel), atenuada |-> SinAtenuar,
                bajada |-> SinBajada, rampa |-> SinRampa, elegido |-> auto,
                lux |-> Nada, puesta |-> Nada, desvio |-> 0, aMano |-> Nada,
                escrito |-> FALSE, espera |-> FALSE, encendido |-> TRUE]
        /\ pedido = Crudo(nivel) /\ querido = nivel /\ fijo = ~auto
    /\ enCurso = {} /\ sucesos = 0 /\ manos = FALSE /\ restaurado = Nada

Escritor == TomaLote \/ Escribe
Temporizadores == BajaUnPaso \/ RampaUnPaso \/ VenceEspera \/ MargenPasa
Usuario ==
    \/ Mueve \/ LuzDeTeclado
    \/ \E paso \in Teclas : PulsaTecla(paso) \/ MantieneTecla(paso)
    \/ \E nivel \in Niveles : Desliza(nivel)
    \/ \E auto \in Automaticos : Elige(auto)
Entorno ==
    \/ \E lux \in Luces : Lux(lux)
    \/ \E carga \in Cargas : AvisaHardware(carga)
    \/ AvisaBloqueo \/ ApagaPantalla

Next == Escritor \/ Temporizadores \/ Usuario \/ Entorno

Spec == Init /\ [][Next]_vars

-------------------------------------------------------------------------------
(* Properties.                                                             *)

SinRampas == b.bajada = SinBajada /\ b.rampa = SinRampa
Quieto == EscritorLibre /\ SinRampas

\* Of many requests in a row the last is the one that stays on the panel: no
\* request is lost while busctl runs and none is overtaken by an older one
\* (solicitar and its thread).
UltimaManda == EscritorLibre => b.brillo = pedido

\* A ramp runs only for who started it: the dimming's while the screen is
\* dimmed, the sensor's while it is chosen and nothing is dimmed, towards the
\* level the automatic brightness believes it has set.  So the two never write
\* over one another, and neither over the user's key (fijar, tecla, olvidar,
\* elegir, evaluar).
RampaConMotivo ==
    /\ b.bajada # SinBajada => b.atenuada # SinAtenuar
    /\ b.rampa # SinRampa =>
        b.elegido /\ b.atenuada = SinAtenuar /\ b.puesta = b.rampa.objetivo

\* The automatic brightness takes for the user's wish nothing the compositor
\* did on its own: if nobody has moved the level there is no offset to learn
\* (pantalla, reciente, fijar).
DesvioDelUsuario == b.desvio # 0 => manos

\* While neither the sensor nor the battery has had a say since the user chose
\* a level, the panel is at that level whenever everything is quiet and nothing
\* is dimmed, however often the warning came and went (atenuar, restaurar,
\* olvidar).
NivelDevuelto ==
    fijo /\ Quieto /\ b.atenuada = SinAtenuar => Leido(b.brillo) = querido

\* One writer, one ramp: the panel ends where the last of them wanted it.
UnSoloMando == TypeOK /\ UltimaManda /\ RampaConMotivo
\* The user's wish is neither invented nor forgotten.
DeseoDelUsuario == DesvioDelUsuario /\ NivelDevuelto

\* What is dimmed is what was last asked for, and so what comes back: the level
\* to return to is not one that is about to be overwritten (atenuar).
PrevioEsElPedido ==
    [][b.atenuada = SinAtenuar /\ b'.atenuada # SinAtenuar
       => b'.atenuada.previo = Leido(pedido)]_vars

\* Coming back has no ramp: with the light as it was, once the level of before
\* is asked for nothing asks for a darker one (restaurar, evaluar).
RestauraDeGolpe ==
    restaurado # Nada /\ b.lux # Nada /\ Objetivo(b) = restaurado
    => pedido >= Crudo(restaurado)

\* The automatic brightness wants what it had set, or what was dimmed.
AlDia ==
    /\ b.elegido /\ b.lux # Nada /\ b.puesta # Nada
    /\ Objetivo(b) = IF b.atenuada = SinAtenuar THEN b.puesta ELSE b.atenuada.previo

\* The level chosen with the key is kept: pressed with everything quiet and the
\* light as it was, the next reading of the sensor does not take the panel back
\* (tecla, pantalla).
TeclaManda ==
    [][\A paso \in Teclas :
        PulsaTecla(paso) /\ Quieto /\ AlDia => Abs(Objetivo(b') - querido') < Umbral]_vars

\* The key pressed while the low battery dims the screen ends the dimming, and
\* what it chooses rules over what there was before: the next reading of the
\* same light leaves it there (olvidar, tecla, fijar).
TeclaMandaAtenuada ==
    [][\A paso \in Teclas :
        PulsaTecla(paso) /\ Quieto /\ AlDia /\ b.atenuada # SinAtenuar
        => Abs(Objetivo(b') - querido') < Umbral]_vars

\* The panel follows the sensor: when everything is quiet and nobody has moved
\* the level, it is where the last reading wants it (recibir, evaluar).
SigueAlSensor ==
    Quieto /\ b.elegido /\ b.lux # Nada /\ ~b.espera /\ b.encendido
    /\ b.atenuada = SinAtenuar /\ ~manos
    => Abs(Objetivo(b) - Leido(b.brillo)) < Umbral

\* When sysfs already shows all that was asked for, the key starts from what is
\* on the panel (partida_tecla).
TeclaDesdeLoVisible ==
    [][\A paso \in Teclas :
        PulsaTecla(paso) /\ Quieto /\ b.atenuada = SinAtenuar
        => querido' = Recorta(Leido(b.brillo) + paso, Suelo, Tope)]_vars
===============================================================================
