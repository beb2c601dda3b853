---------------------------- MODULE BudsProtocol ----------------------------
(***************************************************************************)
(* bookos-budsd's protocolo.rs, in its two halves.  What the thread of a   *)
(* channel reads: the socket gives the bytes in pieces, and the frames are *)
(* cut from what has been gathered so far.  A frame is                     *)
(* [som][size][..][id]..[eom], the old kind with one byte of size and the  *)
(* new one with two; what does not begin a frame is thrown away.  Bytes    *)
(* are scaled down: Som, SomViejo and the small numbers that are sizes,    *)
(* identifiers or data.  The sums of the frames are not checked by the     *)
(* code, and are data here.                                                *)
(*                                                                         *)
(* And what the service keeps of some earbuds, in memory and on disk       *)
(* (aplicar, the preferences), with the calls of main.rs that change       *)
(* them.  The thread of the channel and the service both load the whole    *)
(* file of preferences, change a field and save it.  The earbuds are       *)
(* external: they obey the last order of noise control, and report their   *)
(* state, whole or in part, with whatever they have at that moment.  The   *)
(* equaliser and the lock of the touchpad go the way of the noise control; *)
(* serial and firmware, the way of the fit test.                           *)
(***************************************************************************)
EXTENDS Naturals, Sequences, SequencesExt

CONSTANTS
  Som, SomViejo, \* the two bytes that begin a frame
  Flujos,        \* the streams the earbuds may send
  Modos,         \* the modes of noise control
  Estuches,      \* the charges of the case; 0 is "not known"
  MaxTramas,     \* bound: reports on their way
  DosEscriben    \* whether the thread may save while the service is at it

SinPrueba == 255
Nada == [anc |-> 0, estuche |-> 0]

VARIABLES
  \* the bytes
  flujo,     \* the whole stream
  queda,     \* what the socket has not given yet
  buf,
  leidas,    \* the frames read so far: identifier and data
  \* the state
  buds,      \* the earbuds: the mode they are in
  tramas,    \* the reports that have not been applied
  estado,    \* BudsStatus: anc, estuche, guardada, prueba and mac
  disco,     \* the file of preferences
  lector,    \* what the thread has loaded and is about to save
  servicio,  \* what the service has loaded and is about to save
  canal
bytes == <<flujo, queda, buf, leidas>>
estados == <<buds, tramas, estado, disco, lector, servicio, canal>>
vars == <<bytes, estados>>

(***************************************************************************)
(* The bytes.                                                              *)
(***************************************************************************)
Empieza(b) == b \in {Som, SomViejo}

\* Length of the frame that begins s: size counts identifier, data and sum.
Talla(s) == IF s[1] = SomViejo THEN s[3] ELSE s[2] + 4 * (s[3] % 4)
Largo(s) == Talla(s) + 4

Entera(s) == Len(s) >= 4 /\ Len(s) >= Largo(s)

Datos(s) ==
  LET n == IF Talla(s) < 3 THEN 0 ELSE Talla(s) - 3
  IN [id |-> s[4], datos |-> SubSeq(s, 5, 4 + n)]

Desde(s) == LET P == {i \in DOMAIN s : Empieza(s[i])}
            IN IF P = {} THEN <<>>
               ELSE SubSeq(s, CHOOSE i \in P : \A j \in P : i <= j, Len(s))

\* parse_packets: the frames of s and what is left of it for the next piece.
ParsePackets(s) ==
  LET p[i \in 1..(Len(s) + 1)] ==   \* those from its i-th byte on
        LET d == Desde(SubSeq(s, i, Len(s)))
        IN IF d = <<>> \/ ~Entera(d) THEN [hechas |-> <<>>, resto |-> d]
           ELSE LET r == p[Len(s) + 1 - Len(d) + Largo(d)]
                IN [hechas |-> <<Datos(d)>> \o r.hechas, resto |-> r.resto]
  IN p[1]

\* SLIP: a piece that completed a frame takes what was left with it.
RecvSinResto(n) ==
  /\ n \in 1 .. Len(queda)
  /\ LET r == ParsePackets(buf \o SubSeq(queda, 1, n))
     IN leidas' = leidas \o r.hechas /\ buf' = IF r.hechas = <<>> THEN r.resto ELSE <<>>
  /\ queda' = SubSeq(queda, n + 1, Len(queda))
  /\ UNCHANGED flujo

\* recv gives any number of the bytes there are.
Recv(n) ==
  /\ n \in 1 .. Len(queda)
  /\ LET r == ParsePackets(buf \o SubSeq(queda, 1, n))
     IN leidas' = leidas \o r.hechas /\ buf' = r.resto
  /\ queda' = SubSeq(queda, n + 1, Len(queda))
  /\ UNCHANGED flujo

InitLectura ==
  /\ flujo \in Flujos
  /\ queda = flujo /\ buf = <<>> /\ leidas = <<>>

(***************************************************************************)
(* The state.                                                              *)
(***************************************************************************)
Desconocido == [anc |-> 0, estuche |-> 0, guardada |-> FALSE, prueba |-> SinPrueba, mac |-> FALSE]

Libre == lector = <<>> /\ servicio = <<>>

(***************************************************************************)
(* The earbuds.                                                            *)
(***************************************************************************)
Informa(que, valor) ==
  /\ canal /\ Len(tramas) < MaxTramas
  /\ tramas' = Append(tramas, [que |-> que, anc |-> buds, valor |-> valor])
  /\ UNCHANGED <<buds, estado, disco, lector, servicio, canal>>

(***************************************************************************)
(* The thread: aplicar and poner_estuche.                                  *)
(***************************************************************************)
Puesto(s, valor) ==
  IF valor = 0 THEN s ELSE [s EXCEPT !.guardada = FALSE, !.estuche = valor]

\* The basic report brings the batteries; the whole one replaces everything
\* but what it does not bring: test, identity and the last charge of the case.
Aplicada(s, t) ==
  CASE t.que = "prueba" -> [s EXCEPT !.prueba = t.valor]
    [] t.que = "basico" -> Puesto(s, t.valor)
    [] t.que = "extendido" ->
         Puesto([s EXCEPT !.anc = t.anc], t.valor)

Cambia(s, t) == Aplicada(s, t).estuche # s.estuche

Leer ==
  /\ canal /\ tramas # <<>> /\ lector = <<>>
  /\ estado' = Aplicada(estado, Head(tramas))
  /\ tramas' = Tail(tramas)
  /\ IF Cambia(estado, Head(tramas)) /\ estado.mac
     THEN (DosEscriben \/ servicio = <<>>) /\ lector' = <<disco>>
     ELSE UNCHANGED lector
  /\ UNCHANGED <<buds, disco, servicio, canal>>

GuardarLector ==
  /\ lector # <<>>
  /\ disco' = [lector[1] EXCEPT !.estuche = estado.estuche]
  /\ lector' = <<>>
  /\ UNCHANGED <<buds, tramas, estado, servicio, canal>>

(***************************************************************************)
(* The service.                                                            *)
(***************************************************************************)
\* set_anc: the order goes out, the state changes under its lock, which the
\* thread holds until it has saved, and then, without it, the file.
SetAnc(modo) ==
  /\ canal /\ servicio = <<>> /\ lector = <<>>
  /\ buds' = modo
  /\ estado' = [estado EXCEPT !.anc = modo]
  /\ servicio' = <<[disco EXCEPT !.anc = modo]>>
  /\ UNCHANGED <<tramas, disco, lector, canal>>

GuardarServicio ==
  /\ servicio # <<>>
  /\ disco' = servicio[1]
  /\ servicio' = <<>>
  /\ UNCHANGED <<buds, tramas, estado, lector, canal>>

FitTestStart ==
  /\ canal /\ lector = <<>>
  /\ estado' = [estado EXCEPT !.prueba = SinPrueba]
  /\ UNCHANGED <<buds, tramas, disco, lector, servicio, canal>>

\* Conexion::iniciar puts back what was saved: they forget it between uses.
Iniciar ==
  /\ ~canal /\ Libre
  /\ canal' = TRUE
  /\ buds' = disco.anc
  /\ estado' = [Desconocido EXCEPT !.anc = disco.anc, !.estuche = disco.estuche,
                                   !.guardada = disco.estuche > 0, !.mac = TRUE]
  /\ UNCHANGED <<tramas, disco, lector, servicio>>

\* The drop waits for the thread; the earbuds go back to their own mode.
Cerrar ==
  /\ canal /\ lector = <<>>
  /\ canal' = FALSE
  /\ buds' = 0
  /\ tramas' = <<>>
  /\ estado' = Desconocido
  /\ UNCHANGED <<disco, lector, servicio>>

InitEstado ==
  /\ buds = 0 /\ tramas = <<>> /\ estado = Desconocido
  /\ disco = Nada /\ lector = <<>> /\ servicio = <<>> /\ canal = FALSE

NextEstado ==
  \/ \E v \in Estuches : Informa("basico", v) \/ Informa("extendido", v)
  \/ \E v \in {0, 1} : Informa("prueba", v)
  \/ Leer
  \/ GuardarLector
  \/ \E modo \in Modos : SetAnc(modo)
  \/ GuardarServicio
  \/ FitTestStart
  \/ Iniciar
  \/ Cerrar

Init == InitLectura /\ InitEstado
Next ==
  \/ (\E n \in DOMAIN queda : Recv(n)) /\ UNCHANGED estados
  \/ NextEstado /\ UNCHANGED bytes

Spec == Init /\ [][Next]_vars

(***************************************************************************)
(* Properties.                                                             *)
(***************************************************************************)
\* What some earbuds reported of their case and was shown is on disk for the
\* next time, and nothing that a report leaves out is lost with it.
EstucheRecordado ==
  canal /\ lector = <<>> /\ servicio = <<>> => estado.estuche = disco.estuche

\* No report brings the card back to a case that is not known.
PasoRecuerda == canal /\ canal' => estado.estuche = 0 \/ estado'.estuche # 0
Recuerda == [][PasoRecuerda]_vars

\* With no report on its way, the earbuds, the card and the file agree.
PreferenciaFiel == canal /\ Libre => disco.anc = buds

\* The frames do not depend on how the socket cut the stream, and no byte of
\* a frame under way is thrown away.
CorteIndiferente ==
  LET todo == ParsePackets(flujo)
  IN /\ IsPrefix(leidas, todo.hechas)
     /\ leidas \o ParsePackets(buf \o queda).hechas = todo.hechas
     /\ buf # <<>> => Empieza(buf[1]) /\ ~Entera(buf)
=============================================================================
