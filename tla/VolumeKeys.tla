----------------------------- MODULE VolumeKeys -----------------------------
(***************************************************************************)
(* The volume keys, from the key to the loudspeaker and back: the press    *)
(* and its repetition (multimedia.rs), the lane that gathers the steps     *)
(* that wait (Lane of bookos-system), the worker that applies them, the    *)
(* click that sounds when the key is let go, and the notice with the level *)
(* that is left (osd.rs).  The loop sleeps: what takes an old notice off   *)
(* the screen is a wake-up somebody programmed.  The mixer is external.    *)
(***************************************************************************)
EXTENDS Integers, Sequences, FiniteSets

CONSTANTS
  Tope,        \* the level of the mixer at 100 %
  Arranque,    \* the level it starts with
  Niveles,     \* levels the slider and the applications put
  Pulsar,      \* the step of a press
  Mantener,    \* and that of the repetition
  MaxEspera,   \* what the lane holds (64 in the code)
  MaxOps,      \* bound: operations asked for
  MaxFallos,   \* bound: operations that fail
  Deslizador,  \* whether the slider of the control centre is at hand
  Mudo         \* whether the mute key is at hand

Sentidos == {1, -1}
NoHay == [tipo |-> "nada", n |-> 0]

VARIABLES
  pulsadas,   \* volume keys held down
  repeticion, \* direction of the repetition that is armed, or 0
  chasquido,  \* libre, retenido, aplazado
  cola,       \* the lane of the sound
  enCurso,    \* what the worker is doing
  avisos,     \* operations done, waiting for the loop
  mezcla,     \* the mixer: level and mute
  cache,      \* what the compositor knows of it
  visto,      \* what it knew the last time
  tarjeta,    \* whether a card is open
  osd,        \* the notice on the screen and its age
  timers,     \* wake-ups programmed, in ticks
  hist        \* what the operations asked for come to, sounds owed, bounds
vars == <<pulsadas, repeticion, chasquido, cola, enCurso, avisos, mezcla, cache, visto,
          tarjeta, osd, timers, hist>>

SinOsd == [edad |-> -1, nivel |-> 0]
Recorta(n) == IF n < 0 THEN 0 ELSE IF n > Tope THEN Tope ELSE n

\* What the service does to the mixer: a step up also takes the mute off.
Aplicar(m, op) ==
  CASE op.tipo = "paso" -> [nivel |-> Recorta(m.nivel + op.n), mudo |-> m.mudo /\ op.n <= 0]
    [] op.tipo = "fija" -> [m EXCEPT !.nivel = op.n]
    [] op.tipo = "mudo" -> [m EXCEPT !.mudo = ~@]
    [] OTHER -> m

(***************************************************************************)
(* Lane::push.                                                             *)
(***************************************************************************)
Cortada(s) == SubSeq(s, 1, Len(s) - 1)
Ultima(s) == IF s = <<>> THEN NoHay ELSE s[Len(s)]

\* Two values for the slider in a row: the new one is the one that counts.
SinRepetir(s, op) == IF op.tipo = "fija" /\ Ultima(s).tipo = "fija" THEN Cortada(s) ELSE s
\* Two steps in a row are one.
Junta(s, op) == op.tipo = "paso" /\ Ultima(s).tipo = "paso"
Base(s, op) == IF Junta(s, op) THEN Cortada(s) ELSE SinRepetir(s, op)
Cabe(s, op) == Len(Base(s, op)) < MaxEspera
\* SLIP: a step is added to the last one that waits, whatever came after it.
EncolarAlgunPaso(s, op) ==
  LET pasos == {i \in DOMAIN s : s[i].tipo = "paso"}
      i == CHOOSE i \in pasos : \A j \in pasos : j <= i
  IN IF op.tipo = "paso" /\ pasos # {} THEN [s EXCEPT ![i].n = @ + op.n]
     ELSE IF Cabe(s, op) THEN Append(Base(s, op), op) ELSE s

\* A sum of steps is at most the whole range.
Acota(n) == IF n < -Tope THEN -Tope ELSE IF n > Tope THEN Tope ELSE n
Encolar(s, op) ==
  IF ~Cabe(s, op) THEN s
  ELSE Append(Base(s, op), IF Junta(s, op) THEN [op EXCEPT !.n = Acota(@ + Ultima(s).n)] ELSE op)

Pide(op) ==
  /\ hist.ops < MaxOps
  /\ cola' = Encolar(cola, op)
  /\ hist' = [hist EXCEPT !.ops = @ + 1, !.debido = Aplicar(@, op),
                          !.roto = @ \/ ~Cabe(cola, op)]

(***************************************************************************)
(* The keys: input::tecla cuts the repetition and lets the click go.       *)
(***************************************************************************)
Soltado(c) == IF c = "libre" THEN "libre" ELSE "aplazado"

Pulsa(s) ==
  /\ s \notin pulsadas
  /\ pulsadas' = pulsadas \cup {s}
  /\ Pide([tipo |-> "paso", n |-> s * Pulsar])
  /\ chasquido' = "retenido" /\ repeticion' = s
  /\ UNCHANGED <<enCurso, avisos, mezcla, cache, visto, tarjeta, osd, timers>>

Suelta(s) ==
  /\ s \in pulsadas
  /\ pulsadas' = pulsadas \ {s}
  /\ chasquido' = Soltado(chasquido) /\ repeticion' = 0
  /\ UNCHANGED <<cola, enCurso, avisos, mezcla, cache, visto, tarjeta, osd, timers, hist>>

\* Another key, whichever it is.
OtraTecla ==
  /\ repeticion # 0 \/ chasquido # "libre"
  /\ chasquido' = Soltado(chasquido) /\ repeticion' = 0
  /\ UNCHANGED <<pulsadas, cola, enCurso, avisos, mezcla, cache, visto, tarjeta, osd, timers, hist>>

Silenciar ==
  /\ Mudo
  /\ Pide([tipo |-> "mudo", n |-> 0])
  /\ chasquido' = Soltado(chasquido) /\ repeticion' = 0
  /\ UNCHANGED <<pulsadas, enCurso, avisos, mezcla, cache, visto, tarjeta, osd, timers>>

\* The timer of the repetition.
Repetir ==
  /\ repeticion # 0
  /\ Pide([tipo |-> "paso", n |-> repeticion * Mantener])
  /\ UNCHANGED <<pulsadas, repeticion, chasquido, enCurso, avisos, mezcla, cache, visto, tarjeta, osd, timers>>

Deslizar(n) ==
  /\ Deslizador /\ tarjeta
  /\ Pide([tipo |-> "fija", n |-> n])
  /\ UNCHANGED <<pulsadas, repeticion, chasquido, enCurso, avisos, mezcla, cache, visto, tarjeta, osd, timers>>

AbrirTarjeta ==
  /\ Deslizador
  /\ tarjeta' = ~tarjeta
  /\ UNCHANGED <<pulsadas, repeticion, chasquido, cola, enCurso, avisos, mezcla, cache, visto, osd, timers, hist>>

(***************************************************************************)
(* The worker of the lane.                                                 *)
(***************************************************************************)
Tomar ==
  /\ enCurso = NoHay /\ cola # <<>>
  /\ enCurso' = Head(cola) /\ cola' = Tail(cola)
  /\ UNCHANGED <<pulsadas, repeticion, chasquido, avisos, mezcla, cache, visto, tarjeta, osd, timers, hist>>

Hecha(ok) ==
  /\ enCurso # NoHay
  /\ ok \/ hist.fallos < MaxFallos
  /\ mezcla' = IF ok THEN Aplicar(mezcla, enCurso) ELSE mezcla
  /\ cache' = IF ok THEN mezcla' ELSE cache
  /\ avisos' = Append(avisos, [op |-> enCurso.tipo, ok |-> ok])
  /\ enCurso' = NoHay
  /\ hist' = IF ok THEN hist ELSE [hist EXCEPT !.fallos = @ + 1, !.roto = TRUE]
  /\ UNCHANGED <<pulsadas, repeticion, chasquido, cola, visto, tarjeta, osd, timers>>

\* Another application moves the volume, and the service says so.
Ajena(n) ==
  /\ cola = <<>> /\ enCurso = NoHay /\ n # mezcla.nivel /\ hist.ops < MaxOps
  /\ mezcla' = [mezcla EXCEPT !.nivel = n] /\ cache' = mezcla'
  /\ hist' = [hist EXCEPT !.ops = @ + 1, !.debido.nivel = n]
  /\ UNCHANGED <<pulsadas, repeticion, chasquido, cola, enCurso, avisos, visto, tarjeta, osd, timers>>

(***************************************************************************)
(* recibir_sistema: the loop takes all that is done.                       *)
(***************************************************************************)
Pasos(s) == \E i \in DOMAIN s : s[i].op = "paso" /\ s[i].ok
Vistosos == SelectSeq(avisos, LAMBDA a : ~a.ok \/ a.op # "fija")
DeFuera == Vistosos = <<>> /\ ~tarjeta /\ visto # cache
Ensena == Vistosos # <<>> \/ DeFuera
Texto == Tope + 1
Suelto == Tope + 2      \* shown by somebody else: a desktop changed
Mostrado == [edad |-> 0, nivel |-> IF Vistosos # <<>> /\ ~Vistosos[Len(Vistosos)].ok THEN Texto
                                   ELSE IF cache.mudo THEN 0 ELSE cache.nivel]

\* With nobody holding a key a step sounds at once, and if not, later.
Oido == hist' = [hist EXCEPT !.suena = IF Pasos(avisos) THEN chasquido # "libre" ELSE @]

\* SLIP: the notice of what changed from outside programmes no wake-up.
RecibirSinDespertar ==
  /\ avisos # <<>> \/ visto # cache
  /\ Oido
  /\ avisos' = <<>> /\ visto' = cache
  /\ osd' = IF Ensena THEN Mostrado ELSE osd
  /\ timers' = IF Vistosos # <<>> THEN timers \cup {1} ELSE timers
  /\ UNCHANGED <<pulsadas, repeticion, chasquido, cola, enCurso, mezcla, cache, tarjeta>>

Recibir ==
  /\ avisos # <<>> \/ visto # cache
  /\ Oido
  /\ avisos' = <<>> /\ visto' = cache
  /\ osd' = IF Ensena THEN Mostrado ELSE osd
  /\ timers' = IF Ensena THEN timers \cup {1} ELSE timers
  /\ UNCHANGED <<pulsadas, repeticion, chasquido, cola, enCurso, mezcla, cache, tarjeta>>

\* 60 ms after the last one: the click.
Sonar ==
  /\ chasquido = "aplazado"
  /\ chasquido' = "libre"
  /\ hist' = [hist EXCEPT !.suena = FALSE]
  /\ UNCHANGED <<pulsadas, repeticion, cola, enCurso, avisos, mezcla, cache, visto, tarjeta, osd, timers>>

(***************************************************************************)
(* The notice: still for a tick, then it leaves, if somebody paints.       *)
(***************************************************************************)
AvisoSuelto ==
  /\ osd' = [edad |-> 0, nivel |-> Suelto]
  /\ UNCHANGED <<pulsadas, repeticion, chasquido, cola, enCurso, avisos, mezcla, cache, visto, tarjeta, timers, hist>>

Saliendo == osd.edad = 1
Tick ==
  /\ osd.edad >= 0
  /\ timers' = {t - 1 : t \in timers \ {0}}
  /\ osd' = IF Saliendo THEN (IF 0 \in timers THEN SinOsd ELSE [osd EXCEPT !.edad = 2])
            ELSE IF osd.edad = 0 THEN [osd EXCEPT !.edad = 1] ELSE osd
  /\ UNCHANGED <<pulsadas, repeticion, chasquido, cola, enCurso, avisos, mezcla, cache, visto, tarjeta, hist>>

Init ==
  /\ pulsadas = {} /\ repeticion = 0 /\ chasquido = "libre"
  /\ cola = <<>> /\ enCurso = NoHay /\ avisos = <<>>
  /\ mezcla = [nivel |-> Arranque, mudo |-> FALSE] /\ cache = mezcla /\ visto = mezcla
  /\ tarjeta = FALSE /\ osd = SinOsd /\ timers = {}
  /\ hist = [ops |-> 0, fallos |-> 0, debido |-> mezcla, roto |-> FALSE, suena |-> FALSE]

Next ==
  \/ \E s \in Sentidos : Pulsa(s)
  \/ \E s \in Sentidos : Suelta(s)
  \/ OtraTecla
  \/ Silenciar
  \/ Repetir
  \/ \E n \in Niveles : Deslizar(n)
  \/ AbrirTarjeta
  \/ Tomar
  \/ \E ok \in BOOLEAN : Hecha(ok)
  \/ \E n \in Niveles : Ajena(n)
  \/ Recibir
  \/ Sonar
  \/ AvisoSuelto
  \/ Tick

Spec == Init /\ [][Next]_vars
(***************************************************************************)
(* Properties.                                                             *)
(***************************************************************************)
\* With nothing left to do, the level is the one the keys, one by one, ask.
Parada == cola = <<>> /\ enCurso = NoHay
NivelFiel == Parada /\ ~hist.roto => mezcla.nivel = hist.debido.nivel
SilencioFiel == Parada /\ ~hist.roto => mezcla.mudo = hist.debido.mudo

\* While the key repeats nothing sounds, and when it is let go something does.
Callado == repeticion # 0 => chasquido = "retenido"
SuenaAlFinal == Parada /\ avisos = <<>> /\ chasquido = "libre" => ~hist.suena

\* No notice of the volume is left on a screen nobody paints.
AvisoSeVa == osd.edad = 2 => osd.nivel = Suelto

VolumenEnOrden == NivelFiel /\ Callado /\ SuenaAlFinal /\ AvisoSeVa
=============================================================================
