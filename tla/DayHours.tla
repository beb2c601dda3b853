------------------------------ MODULE DayHours ------------------------------
(***************************************************************************)
(* The stretch of the day that the automatic theme and the night light     *)
(* share (bookos-shell/src/tema.rs): a minute is a number below Dia, and   *)
(* the stretch goes from its first edge to the minute before the second,   *)
(* across midnight when the second comes first.                            *)
(***************************************************************************)
EXTENDS Integers

CONSTANT Dia    \* minutes of a day
Minutos == 0..(Dia - 1)

EnTramo(desde, hasta, ahora) ==
  \/ desde < hasta /\ desde <= ahora /\ ahora < hasta
  \/ hasta < desde /\ (desde <= ahora \/ ahora < hasta)

\* Minutes to the next of the two edges, never zero: on an edge, to the other.
Falta(objetivo, ahora) == IF objetivo > ahora THEN objetivo - ahora ELSE objetivo + Dia - ahora
MinutosAlBorde(desde, hasta, ahora) ==
  IF Falta(desde, ahora) < Falta(hasta, ahora) THEN Falta(desde, ahora) ELSE Falta(hasta, ahora)

\* The clock, minutos later.
Despues(ahora, minutos) == IF ahora + minutos >= Dia THEN ahora + minutos - Dia ELSE ahora + minutos

\* An alarm at the next edge: its timer counts from the second the minute is at,
\* and never less than seventy seconds.
SinAlarma == Dia + 1
Alarmas(desde, hasta, ahora) ==
  IF desde = hasta THEN {SinAlarma}
  ELSE LET falta == MinutosAlBorde(desde, hasta, ahora) IN IF falta = 1 THEN {1, 2} ELSE {falta}
Corre(alarma) == IF alarma = SinAlarma THEN alarma ELSE alarma - 1

\* With the two edges a minute apart the floor lets the second one go by.
Rezaga(alarma, desde, hasta, ahora) ==
  alarma = 1 /\ EnTramo(desde, hasta, ahora) # EnTramo(desde, hasta, Despues(ahora, Dia - 1))
\* An alarm that will not miss the next edge by more than that minute.
Puntual(alarma, desde, hasta, ahora) ==
  IF desde = hasta THEN alarma = SinAlarma
  ELSE \/ alarma <= MinutosAlBorde(desde, hasta, ahora)
       \/ alarma = 2 /\ MinutosAlBorde(desde, hasta, ahora) = 1
=============================================================================
