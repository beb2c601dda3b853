-------------------------------- MODULE Buds --------------------------------
(***************************************************************************)
(* The control channel of the earbuds: bookos-budsd (main.rs, and the      *)
(* opening and the end of a channel in conexion.rs).  One supervisor takes *)
(* notices in order; opening a channel is a task of its own that waits,    *)
(* tries several times and only then replaces what there was; the thread   *)
(* that reads a channel tells when it falls.  BlueZ is external: a         *)
(* ConnectProfile that ran out of time may still deliver its channel.      *)
(* Battery levels are low or not; the texts of an error are left out.      *)
(***************************************************************************)
EXTENDS Naturals, Sequences, FiniteSets, SequencesExt

CONSTANTS
  Macs,        \* the earbuds
  Intentos,    \* ESPERAS.len() + 1
  Tarde,       \* whether BlueZ delivers after the limit of an attempt
  MaxTareas,   \* bound: tasks that open a channel
  MaxAvisos,   \* bound: notices not taken yet
  MaxCambios   \* bound: times the audio comes or goes

Nadie == "nadie"
SinCanal == [mac |-> Nadie, de |-> Nadie, viva |-> FALSE]

VARIABLES
  audio,       \* Connected of each device, BlueZ's
  avisos,      \* the channel of Aviso
  mirando,     \* the device whose Connected the supervisor asks after a fall
  tareas,      \* number, mac, fase ("espera", "audio", "intento") and intento
  conexion,    \* Estado.conexion: whose it is, whose channel it holds, and its reader
  conectando,
  suelto,      \* what is answered with no channel: "limpio", "conectando" or "error"
  tardias,     \* attempts that ran out of time and BlueZ may still deliver
  isla,        \* pendiente, bajaAvisada, visible, publicacion and the timers
  colgado,     \* a client closed the last channel
  recientes,   \* the devices put away not long ago
  cambios
vars == <<audio, avisos, mirando, tareas, conexion, conectando, suelto, colgado, tardias, isla,
          recientes, cambios>>

canal == <<conexion, conectando, suelto, colgado>>

Aviso(que, mac) == [que |-> que, mac |-> mac]
Avisa(que, mac) == avisos' = Append(avisos, Aviso(que, mac))
Cabe == Len(avisos) < MaxAvisos

(***************************************************************************)
(* BlueZ and the radio.                                                    *)
(***************************************************************************)
AudioCambia(m) ==
  /\ cambios < MaxCambios /\ Cabe
  /\ cambios' = cambios + 1
  /\ audio' = [audio EXCEPT ![m] = ~@]
  /\ Avisa(IF audio[m] THEN "sin" ELSE "con", m)
  /\ UNCHANGED <<mirando, tareas, canal, tardias, isla, recientes>>

\* The other side closes, or the link goes: the reader ends and says so.
Cae ==
  /\ conexion.viva /\ Cabe
  /\ conexion' = [conexion EXCEPT !.viva = FALSE]
  /\ Avisa("caido", conexion.mac)
  /\ UNCHANGED <<audio, mirando, tareas, conectando, suelto, colgado, tardias, isla, recientes, cambios>>

LlegaEstado ==
  /\ conexion.viva /\ Cabe
  /\ ~\E i \in DOMAIN avisos : avisos[i].que = "estado"
  /\ Avisa("estado", conexion.mac)
  /\ UNCHANGED <<audio, mirando, tareas, canal, tardias, isla, recientes, cambios>>

\* RECIENTE goes by.
Olvida(m) ==
  /\ m \in recientes
  /\ recientes' = recientes \ {m}
  /\ UNCHANGED <<audio, avisos, mirando, tareas, canal, tardias, isla, cambios>>

(***************************************************************************)
(* conectar.                                                               *)
(***************************************************************************)
Numeros == {t.num : t \in tareas}
Nueva(m) ==
  [num |-> CHOOSE i \in 1 .. MaxTareas : i \notin Numeros, mac |-> m, fase |-> "espera", intento |-> 0]
Sitio == Cardinality(tareas) < MaxTareas
Pasa(t, fase, n) == tareas' = (tareas \ {t}) \cup {[t EXCEPT !.fase = fase, !.intento = n]}

\* Connect, from Settings.
Connect(m) ==
  /\ Sitio
  /\ tareas' = tareas \cup {Nueva(m)}
  /\ UNCHANGED <<audio, avisos, mirando, canal, tardias, isla, recientes, cambios>>

\* Only one opens at a time: the others look again every 200 ms.
Empieza(t) ==
  /\ t.fase = "espera"
  /\ \/ /\ conexion.mac = t.mac /\ conexion.viva
        /\ tareas' = tareas \ {t}
        /\ UNCHANGED <<conexion, conectando, suelto>>
     \/ /\ ~(conexion.mac = t.mac /\ conexion.viva) /\ ~conectando
        /\ conectando' = TRUE
        /\ suelto' = "conectando"
        /\ Pasa(t, "audio", 0)
        /\ UNCHANGED conexion
  /\ UNCHANGED <<colgado, audio, avisos, mirando, tardias, isla, recientes, cambios>>

\* esperar_audio comes back in time or not, and the first attempt begins.
AudioListo(t) ==
  /\ t.fase = "audio"
  /\ Pasa(t, "intento", 1)
  /\ UNCHANGED <<audio, avisos, mirando, canal, tardias, isla, recientes, cambios>>

\* The new channel takes the place of the old one, whose thread is stopped
\* without a notice.
Abierta(t, de) ==
  /\ conexion' = [mac |-> t.mac, de |-> de, viva |-> TRUE]
  /\ conectando' = FALSE
  /\ suelto' = "limpio" /\ colgado' = FALSE
  /\ tareas' = tareas \ {t}

Abre(t) ==
  /\ t.fase = "intento" /\ audio[t.mac]
  /\ Abierta(t, t.mac)
  /\ UNCHANGED <<audio, avisos, mirando, tardias, isla, recientes, cambios>>

\* new_connection does not look at the device it is given.
AbreTarde(t, m) ==
  /\ t.fase = "intento" /\ m \in tardias /\ audio[m]
  /\ tardias' = tardias \ {m}
  /\ Abierta(t, m)
  /\ UNCHANGED <<audio, avisos, mirando, isla, recientes, cambios>>

Falla(t) ==
  /\ t.fase = "intento"
  /\ tardias' \in {tardias} \cup (IF Tarde THEN {tardias \cup {t.mac}} ELSE {})
  /\ \/ t.intento < Intentos /\ Pasa(t, "intento", t.intento + 1) /\ UNCHANGED <<conectando, suelto>>
     \/ /\ t.intento = Intentos
        /\ tareas' = tareas \ {t}
        /\ conectando' = FALSE
        /\ suelto' = "error"
  /\ UNCHANGED <<audio, avisos, mirando, conexion, colgado, isla, recientes, cambios>>

\* Delivered with nobody waiting: it is closed.
LlegaTarde(m) ==
  /\ m \in tardias /\ ~\E t \in tareas : t.fase = "intento"
  /\ tardias' = tardias \ {m}
  /\ UNCHANGED <<audio, avisos, mirando, tareas, canal, isla, recientes, cambios>>

Disconnect ==
  /\ conexion # SinCanal
  /\ conexion' = SinCanal
  /\ colgado' = TRUE
  /\ UNCHANGED <<audio, avisos, mirando, tareas, conectando, suelto, tardias, isla, recientes, cambios>>

(***************************************************************************)
(* supervisar.                                                             *)
(***************************************************************************)
Soltar(m) ==
  /\ UNCHANGED colgado
  /\ IF conexion.mac = m
     THEN conexion' = SinCanal /\ suelto' = "limpio"
     ELSE UNCHANGED <<conexion, suelto>>

Toma == avisos # <<>> /\ mirando = Nadie /\ avisos' = Tail(avisos)
Primero(que) == Head(avisos).que = que

AudioConectado ==
  /\ Toma /\ Primero("con") /\ Sitio
  /\ isla' = [isla EXCEPT !.pendiente = Head(avisos).mac, !.bajaAvisada = FALSE]
  /\ tareas' = tareas \cup {Nueva(Head(avisos).mac)}
  /\ UNCHANGED <<audio, mirando, canal, tardias, recientes, cambios>>

AudioDesconectado ==
  /\ Toma /\ Primero("sin")
  /\ Soltar(Head(avisos).mac)
  /\ recientes' = recientes \cup {Head(avisos).mac}
  /\ UNCHANGED <<audio, mirando, tareas, conectando, tardias, isla, cambios>>

\* publicar_isla: the timer that closes it closes no later publication.
Publicada(i) ==
  [i EXCEPT !.visible = TRUE, !.publicacion = @ + 1, !.relojes = @ \cup {i.publicacion + 1}]

MaxPublicaciones == 2                    \* bound

Estado(baja) ==
  /\ Toma /\ Primero("estado")
  /\ LET m == Head(avisos).mac
         suya == isla.pendiente = m
         mostrar == IF suya THEN m \notin recientes \/ baja ELSE baja /\ ~isla.bajaAvisada
         vista == [isla EXCEPT !.pendiente = IF suya THEN Nadie ELSE @, !.bajaAvisada = baja]
     IN IF conexion.mac # m THEN UNCHANGED isla
        ELSE /\ mostrar => isla.publicacion < MaxPublicaciones
             /\ isla' = IF mostrar THEN Publicada(vista) ELSE vista
  /\ UNCHANGED <<audio, mirando, tareas, canal, tardias, recientes, cambios>>

Caido ==
  /\ Toma /\ Primero("caido")
  /\ Soltar(Head(avisos).mac)
  /\ mirando' = Head(avisos).mac
  /\ UNCHANGED <<audio, tareas, conectando, tardias, isla, recientes, cambios>>

\* The audio is still there: the channel fell alone, and it is opened again.
Mirado ==
  /\ mirando # Nadie
  /\ mirando' = Nadie
  /\ IF audio[mirando]
     THEN Sitio /\ tareas' = tareas \cup {Nueva(mirando)}
     ELSE UNCHANGED tareas
  /\ UNCHANGED <<audio, avisos, canal, tardias, isla, recientes, cambios>>

(***************************************************************************)
(* The island.                                                             *)
(***************************************************************************)
Vence(n) ==
  /\ n \in isla.relojes
  /\ isla' = [isla EXCEPT !.relojes = @ \ {n},
                          !.visible = IF isla.publicacion = n THEN FALSE ELSE @]
  /\ UNCHANGED <<audio, avisos, mirando, tareas, canal, tardias, recientes, cambios>>

TocarIsla ==
  /\ isla.visible /\ isla.publicacion < MaxPublicaciones
  /\ isla' = [isla EXCEPT !.visible = FALSE, !.publicacion = @ + 1]
  /\ UNCHANGED <<audio, avisos, mirando, tareas, canal, tardias, recientes, cambios>>

\* Devices already connected when the service starts are told once.
Init ==
  /\ audio \in [Macs -> BOOLEAN]
  /\ avisos \in {s \in SetToSeqs({Aviso("con", m) : m \in {x \in Macs : audio[x]}}) : TRUE}
  /\ mirando = Nadie /\ tareas = {} /\ conexion = SinCanal
  /\ conectando = FALSE /\ suelto = "limpio" /\ colgado = FALSE /\ tardias = {}
  /\ isla = [pendiente |-> Nadie, bajaAvisada |-> FALSE, visible |-> FALSE, publicacion |-> 0, relojes |-> {}]
  /\ recientes = {} /\ cambios = 0

Next ==
  \/ \E m \in Macs : AudioCambia(m) \/ Connect(m) \/ LlegaTarde(m) \/ Olvida(m)
  \/ Cae
  \/ LlegaEstado
  \/ \E t \in tareas : Empieza(t) \/ AudioListo(t) \/ Abre(t) \/ Falla(t)
  \/ \E t \in tareas, m \in tardias : AbreTarde(t, m)
  \/ Disconnect
  \/ AudioConectado
  \/ AudioDesconectado
  \/ \E baja \in BOOLEAN : Estado(baja)
  \/ Caido
  \/ Mirado
  \/ \E n \in isla.relojes : Vence(n)
  \/ TocarIsla

Spec == Init /\ [][Next]_vars

(***************************************************************************)
(* Properties.                                                             *)
(***************************************************************************)
TypeOK ==
  /\ audio \in [Macs -> BOOLEAN]
  /\ mirando \in Macs \cup {Nadie} /\ conexion.mac \in Macs \cup {Nadie}
  /\ Cardinality(tareas) <= MaxTareas /\ Cardinality(Numeros) = Cardinality(tareas)
  /\ {conectando, colgado} \subseteq BOOLEAN /\ suelto \in {"limpio", "conectando", "error"}
  /\ tardias \subseteq Macs /\ recientes \subseteq Macs

Abriendo == {t \in tareas : t.fase # "espera"}

\* Exactly one task opens while conectando says so: two ConnectProfile would
\* tread on the pending descriptor, and none would leave every client waiting.
UnaAbriendo == Cardinality(Abriendo) = IF conectando THEN 1 ELSE 0

\* A channel whose reader has ended has its notice on the way.
CaidaSabida == conexion # SinCanal /\ ~conexion.viva => Contains(avisos, Aviso("caido", conexion.mac))

Quieto == avisos = <<>> /\ mirando = Nadie /\ tareas = {}

\* Earbuds with their audio end with their channel, or with the reason why not: it could not
\* be opened, or a client closed it.
CanalOMotivo ==
  Quieto => \A m \in Macs : audio[m] => (conexion.mac = m /\ conexion.viva) \/ suelto = "error" \/ colgado

\* What is on the island has a timer that will close it.
IslaSeCierra == isla.visible => isla.publicacion \in isla.relojes

BudsEnOrden == UnaAbriendo /\ CaidaSabida /\ CanalOMotivo /\ IslaSeCierra

\* The channel kept for some earbuds is theirs.
CanalDelSuyo == conexion.de = conexion.mac

\* A notice of a fall is about the channel there is.
CaidaDelCanal ==
  avisos # <<>> /\ Primero("caido") /\ mirando = Nadie =>
    ~(conexion.mac = Head(avisos).mac /\ conexion.viva)
=============================================================================
