--------------------------- MODULE ScreenCastProofs ---------------------------
(***************************************************************************)
(* Theorems about ScreenCast, for any sessions and any of them drawn: its  *)
(* inductive invariant, and SesionEnOrden from it.  The channels are       *)
(* sequences of any length; what the proofs need of them are the lemmas of *)
(* the second part, and what a step does to them those of the third.       *)
(***************************************************************************)
EXTENDS ScreenCast, TLAPS, FiniteSetTheorems

-------------------------------------------------------------------------------
(* The inductive invariant.  What a channel holds is told by four          *)
(* questions: is the message of a session in it, is it there once, is one  *)
(* kind always before another, and does one always follow another.         *)

Unica(c, q, s) == \A i, j \in DOMAIN c :
    c[i].que = q /\ c[i].sesion = s /\ c[j].que = q /\ c[j].sesion = s => i = j
Antes(c, p, q, s) == \A i, j \in DOMAIN c :
    c[i].que = p /\ c[i].sesion = s /\ c[j].que = q /\ c[j].sesion = s => i < j
Seguida(c, p, q, s) == \A i \in DOMAIN c :
    c[i].que = p /\ c[i].sesion = s =>
        \E j \in DOMAIN c : i < j /\ c[j].que = q /\ c[j].sesion = s

\* A question is asked once, for a Start that waits, and nobody asks it again.
Preguntas ==
    \A s \in Sesiones :
        /\ Cola(avisos, "consentir", s) => respuesta[s] = "espera" /\ consentimiento # s
        /\ consentimiento = s => respuesta[s] = "espera"
        /\ Unica(avisos, "consentir", s)
        /\ respuesta[s] = "espera" => start[s] = "espera"
        /\ start[s] \in {"no", "publica"} =>
               respuesta[s] = "nadie" /\ s \notin solicitud /\ s \notin cancelada
        /\ resultado[s] # "ninguno" => start[s] \in {"retira", "fin"}
        /\ Cola(avisos, "cancelar", s) => s \in cancelada
        /\ Antes(avisos, "consentir", "cancelar", s)

\* Whatever an emission has anywhere comes from a yes, and there is one yes.
Concedidas ==
    \A s \in Sesiones :
        \/ s \in activas \/ s \in enNodo \/ s \in reciclado \/ nodos[s] # "no"
        \/ Cola(ordenes, "abrir", s) \/ Cola(ordenes, "marco", s)
        => respuesta[s] = "dada"

\* The frame of a session is in one place, and pendientes knows of it.
UnLugar ==
    \A s \in Sesiones :
        /\ Unica(ordenes, "marco", s)
        /\ Cola(ordenes, "marco", s) => s \notin enNodo /\ s \notin reciclado
        /\ s \in enNodo => s \notin reciclado
        /\ s \in activas /\ (Cola(ordenes, "marco", s) \/ s \in enNodo \/ s \in reciclado)
               => s \in pendientes

\* Behind what is not shared any more comes the order that closes it; a thread
\* that is not there has nothing.
CierreDetras ==
    /\ \A s \in Sesiones : s \notin activas =>
           /\ nodos[s] # "no" => Cola(ordenes, "cerrar", s)
           /\ Seguida(ordenes, "abrir", "cerrar", s)
    /\ hilo # "vivo" => ordenes = <<>> /\ \A s \in Sesiones : nodos[s] = "no"

Inductivo ==
    /\ TypeOK /\ PromesaEnManos /\ TarjetaViva
    /\ Preguntas /\ Concedidas /\ UnLugar /\ CierreDetras
    /\ CanceladaRetira /\ RechazadaNoComparte
-------------------------------------------------------------------------------
(* Channels.                                                               *)

\* What is in a channel after one more message.
LEMMA Entra ==
  ASSUME NEW M, NEW c \in Seq(M), NEW m \in M, NEW q, NEW s
  PROVE  /\ Append(c, m) \in Seq(M)
         /\ Cola(Append(c, m), q, s) <=> Cola(c, q, s) \/ (m.que = q /\ m.sesion = s)
<1> DEFINE n == Len(c)  d == Append(c, m)
<1>1. /\ d \in Seq(M) /\ DOMAIN c = 1..n /\ DOMAIN d = 1..(n + 1) /\ n \in Nat
      /\ d[n + 1] = m /\ \A i \in 1..n : d[i] = c[i]
  OBVIOUS
<1> HIDE DEF d, n
<1>2. Cola(d, q, s) <=> Cola(c, q, s) \/ (m.que = q /\ m.sesion = s)
  <2>1. ASSUME Cola(d, q, s), ~Cola(c, q, s) PROVE m.que = q /\ m.sesion = s
    BY <1>1, <2>1 DEF Cola
  <2>2. Cola(c, q, s) => Cola(d, q, s)
    BY <1>1 DEF Cola
  <2>3. m.que = q /\ m.sesion = s => Cola(d, q, s)
    BY <1>1 DEF Cola
  <2> QED
    BY <2>1, <2>2, <2>3
<1> QED
  BY <1>1, <1>2 DEF d

\* One message is still one after another that is not it, or is its first.
LEMMA EntraUna ==
  ASSUME NEW M, NEW c \in Seq(M), NEW m \in M, NEW q, NEW s, Unica(c, q, s),
         Cola(c, q, s) => ~(m.que = q /\ m.sesion = s)
  PROVE  Unica(Append(c, m), q, s)
<1> DEFINE n == Len(c)  d == Append(c, m)
<1>1. /\ DOMAIN c = 1..n /\ DOMAIN d = 1..(n + 1) /\ n \in Nat
      /\ d[n + 1] = m /\ \A i \in 1..n : d[i] = c[i]
  OBVIOUS
<1> HIDE DEF d, n
<1> SUFFICES ASSUME NEW i \in DOMAIN d, NEW j \in DOMAIN d, d[i].que = q, d[i].sesion = s,
                    d[j].que = q, d[j].sesion = s
             PROVE  i = j
  BY DEF Unica, d
<1>2. CASE i \in 1..n /\ j \in 1..n
  BY <1>1, <1>2 DEF Unica
<1>3. CASE i = n + 1 /\ j \in 1..n
  BY <1>1, <1>3 DEF Cola
<1>4. CASE j = n + 1 /\ i \in 1..n
  BY <1>1, <1>4 DEF Cola
<1> QED
  BY <1>1, <1>2, <1>3, <1>4

\* Order is kept by what comes last, unless it should have come before.
LEMMA EntraDetras ==
  ASSUME NEW M, NEW c \in Seq(M), NEW m \in M, NEW p, NEW q, NEW s, p # q, Antes(c, p, q, s),
         Cola(c, q, s) => ~(m.que = p /\ m.sesion = s)
  PROVE  Antes(Append(c, m), p, q, s)
<1> DEFINE n == Len(c)  d == Append(c, m)
<1>1. /\ DOMAIN c = 1..n /\ DOMAIN d = 1..(n + 1) /\ n \in Nat
      /\ d[n + 1] = m /\ \A i \in 1..n : d[i] = c[i]
  OBVIOUS
<1> HIDE DEF d, n
<1> SUFFICES ASSUME NEW i \in DOMAIN d, NEW j \in DOMAIN d, d[i].que = p, d[i].sesion = s,
                    d[j].que = q, d[j].sesion = s
             PROVE  i < j
  BY DEF Antes, d
<1>2. CASE i \in 1..n /\ j \in 1..n
  BY <1>1, <1>2 DEF Antes
<1>3. CASE i = n + 1 /\ j \in 1..n
  BY <1>1, <1>3 DEF Cola
<1>4. CASE j = n + 1 /\ i \in 1..n
  BY <1>1, <1>4
<1> QED
  BY <1>1, <1>2, <1>3, <1>4

\* What is followed still is, and what closes follows all there was.
LEMMA EntraSeguida ==
  ASSUME NEW M, NEW c \in Seq(M), NEW m \in M, NEW p, NEW q, NEW s, p # q,
         \/ m.que = q /\ m.sesion = s
         \/ Seguida(c, p, q, s) /\ ~(m.que = p /\ m.sesion = s)
  PROVE  Seguida(Append(c, m), p, q, s)
<1> DEFINE n == Len(c)  d == Append(c, m)
<1>1. /\ DOMAIN c = 1..n /\ DOMAIN d = 1..(n + 1) /\ n \in Nat
      /\ d[n + 1] = m /\ \A i \in 1..n : d[i] = c[i]
  OBVIOUS
<1> HIDE DEF d, n
<1> SUFFICES ASSUME NEW i \in DOMAIN d, d[i].que = p, d[i].sesion = s
             PROVE  \E j \in DOMAIN d : i < j /\ d[j].que = q /\ d[j].sesion = s
  BY DEF Seguida, d
<1>2. CASE m.que = q /\ m.sesion = s
  <2>1. i # n + 1
    BY <1>1, <1>2
  <2> QED
    BY <1>1, <1>2, <2>1
<1>3. CASE Seguida(c, p, q, s) /\ ~(m.que = p /\ m.sesion = s)
  <2>1. i \in 1..n
    BY <1>1, <1>3
  <2>2. PICK j \in 1..n : i < j /\ c[j].que = q /\ c[j].sesion = s
    BY <1>1, <1>3, <2>1 DEF Seguida
  <2> QED
    BY <1>1, <2>2
<1> QED
  BY <1>2, <1>3

\* A channel is its head and its tail.
LEMMA Cabeza ==
  ASSUME NEW M, NEW c \in Seq(M), c # <<>>
  PROVE  /\ Tail(c) \in Seq(M) /\ Len(c) \in Nat /\ Len(c) >= 1 /\ Head(c) \in M
         /\ DOMAIN c = 1..Len(c) /\ DOMAIN Tail(c) = 1..(Len(c) - 1)
         /\ c[1] = Head(c) /\ \A i \in 1..(Len(c) - 1) : Tail(c)[i] = c[i + 1]
OBVIOUS

LEMMA Sale ==
  ASSUME NEW M, NEW c \in Seq(M), c # <<>>, NEW q, NEW s
  PROVE  Cola(c, q, s) <=> Cola(Tail(c), q, s) \/ (Head(c).que = q /\ Head(c).sesion = s)
<1> DEFINE n == Len(c) - 1  d == Tail(c)  m == Head(c)
<1>1. /\ DOMAIN c = 1..(n + 1) /\ DOMAIN d = 1..n /\ n \in Nat
      /\ c[1] = m /\ \A i \in 1..n : d[i] = c[i + 1]
  BY Cabeza
<1> HIDE DEF d, n, m
<1>2. ASSUME Cola(c, q, s), ~(m.que = q /\ m.sesion = s) PROVE Cola(d, q, s)
  <2>1. PICK i \in 1..(n + 1) : c[i].que = q /\ c[i].sesion = s
    BY <1>1, <1>2 DEF Cola
  <2>2. i # 1
    BY <1>1, <1>2, <2>1
  <2>3. i - 1 \in 1..n /\ d[i - 1] = c[i]
    BY <1>1, <2>1, <2>2
  <2> QED
    BY <1>1, <2>1, <2>3 DEF Cola
<1>3. ASSUME Cola(d, q, s) PROVE Cola(c, q, s)
  <2>1. PICK i \in 1..n : d[i].que = q /\ d[i].sesion = s
    BY <1>1, <1>3 DEF Cola
  <2>2. i + 1 \in 1..(n + 1) /\ d[i] = c[i + 1]
    BY <1>1
  <2> QED
    BY <1>1, <2>1, <2>2 DEF Cola
<1>4. m.que = q /\ m.sesion = s => Cola(c, q, s)
  BY <1>1 DEF Cola
<1> QED
  BY <1>2, <1>3, <1>4 DEF d, m

LEMMA SaleUna ==
  ASSUME NEW M, NEW c \in Seq(M), c # <<>>, NEW q, NEW s, Unica(c, q, s)
  PROVE  /\ Unica(Tail(c), q, s)
         /\ Head(c).que = q /\ Head(c).sesion = s => ~Cola(Tail(c), q, s)
<1> DEFINE n == Len(c) - 1  d == Tail(c)  m == Head(c)
<1>1. /\ DOMAIN c = 1..(n + 1) /\ DOMAIN d = 1..n /\ n \in Nat
      /\ c[1] = m /\ \A i \in 1..n : d[i] = c[i + 1]
  BY Cabeza
<1> HIDE DEF d, n, m
<1>2. Unica(d, q, s)
  <2> SUFFICES ASSUME NEW i \in 1..n, NEW j \in 1..n, d[i].que = q, d[i].sesion = s,
                      d[j].que = q, d[j].sesion = s
               PROVE  i = j
    BY <1>1 DEF Unica
  <2>1. i + 1 \in 1..(n + 1) /\ j + 1 \in 1..(n + 1) /\ d[i] = c[i + 1] /\ d[j] = c[j + 1]
    BY <1>1
  <2>2. i + 1 = j + 1
    BY <1>1, <2>1 DEF Unica
  <2> QED
    BY <2>2
<1>3. ASSUME m.que = q, m.sesion = s, Cola(d, q, s) PROVE FALSE
  <2>1. PICK i \in 1..n : d[i].que = q /\ d[i].sesion = s
    BY <1>1, <1>3 DEF Cola
  <2>2. i + 1 \in 1..(n + 1) /\ 1 \in 1..(n + 1) /\ d[i] = c[i + 1]
    BY <1>1
  <2>3. i + 1 = 1
    BY <1>1, <1>3, <2>1, <2>2 DEF Unica
  <2> QED
    BY <2>3
<1> QED
  BY <1>2, <1>3 DEF d, m

LEMMA SaleDetras ==
  ASSUME NEW M, NEW c \in Seq(M), c # <<>>, NEW p, NEW q, NEW s, Antes(c, p, q, s)
  PROVE  /\ Antes(Tail(c), p, q, s)
         /\ Head(c).que = q /\ Head(c).sesion = s => ~Cola(Tail(c), p, s)
<1> DEFINE n == Len(c) - 1  d == Tail(c)  m == Head(c)
<1>1. /\ DOMAIN c = 1..(n + 1) /\ DOMAIN d = 1..n /\ n \in Nat
      /\ c[1] = m /\ \A i \in 1..n : d[i] = c[i + 1]
  BY Cabeza
<1> HIDE DEF d, n, m
<1>2. Antes(d, p, q, s)
  <2> SUFFICES ASSUME NEW i \in 1..n, NEW j \in 1..n, d[i].que = p, d[i].sesion = s,
                      d[j].que = q, d[j].sesion = s
               PROVE  i < j
    BY <1>1 DEF Antes
  <2>1. i + 1 \in 1..(n + 1) /\ j + 1 \in 1..(n + 1) /\ d[i] = c[i + 1] /\ d[j] = c[j + 1]
    BY <1>1
  <2>2. i + 1 < j + 1
    BY <1>1, <2>1 DEF Antes
  <2> QED
    BY <2>2
<1>3. ASSUME m.que = q, m.sesion = s, Cola(d, p, s) PROVE FALSE
  <2>1. PICK i \in 1..n : d[i].que = p /\ d[i].sesion = s
    BY <1>1, <1>3 DEF Cola
  <2>2. i + 1 \in 1..(n + 1) /\ 1 \in 1..(n + 1) /\ d[i] = c[i + 1]
    BY <1>1
  <2>3. i + 1 < 1
    BY <1>1, <1>3, <2>1, <2>2 DEF Antes
  <2> QED
    BY <2>3
<1> QED
  BY <1>2, <1>3 DEF d, m

LEMMA SaleSeguida ==
  ASSUME NEW M, NEW c \in Seq(M), c # <<>>, NEW p, NEW q, NEW s, Seguida(c, p, q, s)
  PROVE  /\ Seguida(Tail(c), p, q, s)
         /\ Head(c).que = p /\ Head(c).sesion = s => Cola(Tail(c), q, s)
<1> DEFINE n == Len(c) - 1  d == Tail(c)  m == Head(c)
<1>1. /\ DOMAIN c = 1..(n + 1) /\ DOMAIN d = 1..n /\ n \in Nat
      /\ c[1] = m /\ \A i \in 1..n : d[i] = c[i + 1]
  BY Cabeza
<1> HIDE DEF d, n, m
<1>2. ASSUME NEW i \in 1..(n + 1), c[i].que = p, c[i].sesion = s
      PROVE  \E j \in 1..n : i <= j /\ d[j].que = q /\ d[j].sesion = s
  <2>1. PICK j \in 1..(n + 1) : i < j /\ c[j].que = q /\ c[j].sesion = s
    BY <1>1, <1>2 DEF Seguida
  <2>2. j - 1 \in 1..n /\ d[j - 1] = c[j] /\ i <= j - 1
    BY <1>1, <2>1
  <2> QED
    BY <2>1, <2>2
<1>3. Seguida(d, p, q, s)
  <2> SUFFICES ASSUME NEW i \in 1..n, d[i].que = p, d[i].sesion = s
               PROVE  \E j \in 1..n : i < j /\ d[j].que = q /\ d[j].sesion = s
    BY <1>1 DEF Seguida
  <2>1. i + 1 \in 1..(n + 1) /\ c[i + 1].que = p /\ c[i + 1].sesion = s
    BY <1>1
  <2>2. PICK j \in 1..n : i + 1 <= j /\ d[j].que = q /\ d[j].sesion = s
    BY <1>2, <2>1
  <2> QED
    BY <2>2
<1>4. m.que = p /\ m.sesion = s => Cola(d, q, s)
  <2> SUFFICES ASSUME m.que = p, m.sesion = s PROVE Cola(d, q, s)
    OBVIOUS
  <2>1. 1 \in 1..(n + 1) /\ c[1].que = p /\ c[1].sesion = s
    BY <1>1
  <2>2. PICK j \in 1..n : 1 <= j /\ d[j].que = q /\ d[j].sesion = s
    BY <1>2, <2>1
  <2> QED
    BY <1>1, <2>2 DEF Cola
<1> QED
  BY <1>3, <1>4 DEF d, m
-------------------------------------------------------------------------------
(* What each step does to a channel, for the questions of one session.     *)

LEMMA UnMensaje ==
  ASSUME NEW q, NEW s
  PROVE  Aviso(q, s).que = q /\ Aviso(q, s).sesion = s /\ Orden(q, s).que = q /\ Orden(q, s).sesion = s
BY DEF Aviso, Orden

LEMMA AvisoNuevo ==
  ASSUME TypeOK, NEW p \in {"consentir", "cerrar", "cancelar"}, NEW r \in Sesiones,
         avisos' = Append(avisos, Aviso(p, r)), NEW s
  PROVE  /\ avisos' \in Seq(Avisos)
         /\ \A q : Cola(avisos', q, s) <=> Cola(avisos, q, s) \/ (q = p /\ s = r)
         /\ Unica(avisos, "consentir", s)
            /\ (Cola(avisos, "consentir", s) => ~(p = "consentir" /\ s = r))
            => Unica(avisos', "consentir", s)
         /\ Antes(avisos, "consentir", "cancelar", s)
            /\ (Cola(avisos, "cancelar", s) => ~(p = "consentir" /\ s = r))
            => Antes(avisos', "consentir", "cancelar", s)
<1> DEFINE m == Aviso(p, r)
<1>1. m \in Avisos /\ m.que = p /\ m.sesion = r /\ avisos \in Seq(Avisos)
  BY DEF Aviso, Avisos, TypeOK
<1> HIDE DEF m
<1>2. /\ Append(avisos, m) \in Seq(Avisos)
      /\ \A q : Cola(Append(avisos, m), q, s) <=> Cola(avisos, q, s) \/ (q = p /\ s = r)
  <2>1. Append(avisos, m) \in Seq(Avisos)
    BY <1>1
  <2>2. ASSUME NEW q PROVE Cola(Append(avisos, m), q, s) <=> Cola(avisos, q, s) \/ (q = p /\ s = r)
    BY <1>1, Entra
  <2> QED
    BY <2>1, <2>2
<1>3. ASSUME Unica(avisos, "consentir", s), Cola(avisos, "consentir", s) => ~(p = "consentir" /\ s = r)
      PROVE  Unica(Append(avisos, m), "consentir", s)
  BY <1>1, <1>3, EntraUna
<1>4. ASSUME Antes(avisos, "consentir", "cancelar", s), Cola(avisos, "cancelar", s) => ~(p = "consentir" /\ s = r)
      PROVE  Antes(Append(avisos, m), "consentir", "cancelar", s)
  BY <1>1, <1>4, EntraDetras
<1>5. avisos' = Append(avisos, m)
  BY DEF m
<1> QED
  BY <1>2, <1>3, <1>4, <1>5

LEMMA AvisoLeido ==
  ASSUME TypeOK, NEW p, NEW r, avisos # <<>>, Head(avisos) = Aviso(p, r), avisos' = Tail(avisos), NEW s
  PROVE  /\ avisos' \in Seq(Avisos)
         /\ \A q : Cola(avisos, q, s) <=> Cola(avisos', q, s) \/ (q = p /\ s = r)
         /\ Unica(avisos, "consentir", s) =>
              /\ Unica(avisos', "consentir", s)
              /\ p = "consentir" /\ s = r => ~Cola(avisos', "consentir", s)
         /\ Antes(avisos, "consentir", "cancelar", s) =>
              /\ Antes(avisos', "consentir", "cancelar", s)
              /\ p = "cancelar" /\ s = r => ~Cola(avisos', "consentir", s)
<1>1. avisos \in Seq(Avisos) /\ Head(avisos).que = p /\ Head(avisos).sesion = r
  BY UnMensaje DEF TypeOK
<1>2. Tail(avisos) \in Seq(Avisos)
  BY <1>1, Cabeza
<1>3. ASSUME NEW q PROVE Cola(avisos, q, s) <=> Cola(Tail(avisos), q, s) \/ (q = p /\ s = r)
  BY <1>1, Sale
<1>4. ASSUME Unica(avisos, "consentir", s)
      PROVE  /\ Unica(Tail(avisos), "consentir", s)
             /\ p = "consentir" /\ s = r => ~Cola(Tail(avisos), "consentir", s)
  BY <1>1, <1>4, SaleUna
<1>5. ASSUME Antes(avisos, "consentir", "cancelar", s)
      PROVE  /\ Antes(Tail(avisos), "consentir", "cancelar", s)
             /\ p = "cancelar" /\ s = r => ~Cola(Tail(avisos), "consentir", s)
  BY <1>1, <1>5, SaleDetras
<1> QED
  BY <1>2, <1>3, <1>4, <1>5

LEMMA OrdenNueva ==
  ASSUME TypeOK, NEW p \in {"abrir", "marco", "cerrar"}, NEW r \in Sesiones,
         ordenes' = Append(ordenes, Orden(p, r)), NEW s
  PROVE  /\ ordenes' \in Seq(Ordenes)
         /\ \A q : Cola(ordenes', q, s) <=> Cola(ordenes, q, s) \/ (q = p /\ s = r)
         /\ Unica(ordenes, "marco", s) /\ (Cola(ordenes, "marco", s) => ~(p = "marco" /\ s = r))
            => Unica(ordenes', "marco", s)
         /\ Seguida(ordenes, "abrir", "cerrar", s) /\ ~(p = "abrir" /\ s = r)
            => Seguida(ordenes', "abrir", "cerrar", s)
         /\ p = "cerrar" /\ s = r => Seguida(ordenes', "abrir", "cerrar", s)
<1> DEFINE m == Orden(p, r)
<1>1. m \in Ordenes /\ m.que = p /\ m.sesion = r /\ ordenes \in Seq(Ordenes)
  BY DEF Orden, Ordenes, TypeOK
<1> HIDE DEF m
<1>2. /\ Append(ordenes, m) \in Seq(Ordenes)
      /\ \A q : Cola(Append(ordenes, m), q, s) <=> Cola(ordenes, q, s) \/ (q = p /\ s = r)
  <2>1. Append(ordenes, m) \in Seq(Ordenes)
    BY <1>1
  <2>2. ASSUME NEW q PROVE Cola(Append(ordenes, m), q, s) <=> Cola(ordenes, q, s) \/ (q = p /\ s = r)
    BY <1>1, Entra
  <2> QED
    BY <2>1, <2>2
<1>3. ASSUME Unica(ordenes, "marco", s), Cola(ordenes, "marco", s) => ~(p = "marco" /\ s = r)
      PROVE  Unica(Append(ordenes, m), "marco", s)
  BY <1>1, <1>3, EntraUna
<1>4. ASSUME Seguida(ordenes, "abrir", "cerrar", s), ~(p = "abrir" /\ s = r)
      PROVE  Seguida(Append(ordenes, m), "abrir", "cerrar", s)
  BY <1>1, <1>4, EntraSeguida
<1>5. ASSUME p = "cerrar", s = r PROVE Seguida(Append(ordenes, m), "abrir", "cerrar", s)
  BY <1>1, <1>5, EntraSeguida
<1>6. ordenes' = Append(ordenes, m)
  BY DEF m
<1> QED
  BY <1>2, <1>3, <1>4, <1>5, <1>6

LEMMA OrdenAtendida ==
  ASSUME TypeOK, NEW p, NEW r, EsOrden(p, r), ordenes' = Tail(ordenes), NEW s
  PROVE  /\ ordenes' \in Seq(Ordenes)
         /\ \A q : Cola(ordenes, q, s) <=> Cola(ordenes', q, s) \/ (q = p /\ s = r)
         /\ Unica(ordenes, "marco", s) =>
              /\ Unica(ordenes', "marco", s)
              /\ p = "marco" /\ s = r => ~Cola(ordenes', "marco", s)
         /\ Seguida(ordenes, "abrir", "cerrar", s) =>
              /\ Seguida(ordenes', "abrir", "cerrar", s)
              /\ p = "abrir" /\ s = r => Cola(ordenes', "cerrar", s)
<1>1. ordenes \in Seq(Ordenes) /\ Head(ordenes).que = p /\ Head(ordenes).sesion = r /\ ordenes # <<>>
  BY UnMensaje DEF TypeOK, EsOrden
<1>2. Tail(ordenes) \in Seq(Ordenes)
  BY <1>1, Cabeza
<1>3. ASSUME NEW q PROVE Cola(ordenes, q, s) <=> Cola(Tail(ordenes), q, s) \/ (q = p /\ s = r)
  BY <1>1, Sale
<1>4. ASSUME Unica(ordenes, "marco", s)
      PROVE  /\ Unica(Tail(ordenes), "marco", s)
             /\ p = "marco" /\ s = r => ~Cola(Tail(ordenes), "marco", s)
  BY <1>1, <1>4, SaleUna
<1>5. ASSUME Seguida(ordenes, "abrir", "cerrar", s)
      PROVE  /\ Seguida(Tail(ordenes), "abrir", "cerrar", s)
             /\ p = "abrir" /\ s = r => Cola(Tail(ordenes), "cerrar", s)
  BY <1>1, <1>5, SaleSeguida
<1> QED
  BY <1>2, <1>3, <1>4, <1>5

\* An empty channel.
LEMMA Vacia ==
  ASSUME NEW q, NEW p, NEW s
  PROVE  ~Cola(<<>>, q, s) /\ Unica(<<>>, q, s) /\ Antes(<<>>, p, q, s) /\ Seguida(<<>>, p, q, s)
BY DEF Cola, Unica, Antes, Seguida

-------------------------------------------------------------------------------
(* What each step keeps: a lemma for each part of the invariant, and in it *)
(* a step for each action that touches what the part is about.             *)

\* The types.
LEMMA TipoPaso == Inductivo /\ [Next]_vars => TypeOK'
<1> SUFFICES ASSUME Inductivo, [Next]_vars PROVE TypeOK'
  OBVIOUS
<1>1. TypeOK
  BY DEF Inductivo
<1>2. ASSUME UNCHANGED vars PROVE TypeOK'
  BY <1>1, <1>2 DEF TypeOK, vars
<1>3. ASSUME NEW r \in Sesiones, CreateSession(r) PROVE TypeOK'
  BY <1>1, <1>3
     DEF CreateSession, TypeOK, portal, promesas, escritorio, emisiones, pw
<1>4. ASSUME NEW r \in Sesiones, Start(r) PROVE TypeOK'
  BY <1>1, <1>4
     DEF Start, TypeOK, portal, promesas, escritorio, emisiones, pw
<1>5. ASSUME NEW r \in Sesiones, StartPregunta(r) PROVE TypeOK'
  BY <1>1, <1>5, AvisoNuevo
     DEF StartPregunta, TypeOK, Promesa, portal, promesas, escritorio, emisiones, pw
<1>6. ASSUME NEW r \in Sesiones, StartNoPublica(r) PROVE TypeOK'
  BY <1>1, <1>6
     DEF StartNoPublica, TypeOK, portal, promesas, escritorio, emisiones, pw
<1>7. ASSUME NEW r \in Sesiones, StartRespondida(r) PROVE TypeOK'
  BY <1>1, <1>7
     DEF StartRespondida, TrasRespuesta, Resuelta, TypeOK, portal, promesas, escritorio,
         emisiones, pw
<1>8. ASSUME NEW r \in Sesiones, StartNodo(r) PROVE TypeOK'
  BY <1>1, <1>8, AvisoNuevo
     DEF StartNodo, AvisosTrasNodo, Concedida, Resuelta, TypeOK, portal, promesas,
         escritorio, emisiones, pw
<1>9. ASSUME NEW r \in Sesiones, StartRetira(r) PROVE TypeOK'
  BY <1>1, <1>9
     DEF StartRetira, TypeOK, portal, promesas, escritorio, emisiones, pw
<1>10. ASSUME NEW r \in Sesiones, CierraSolicitud(r) PROVE TypeOK'
  BY <1>1, <1>10, AvisoNuevo
     DEF CierraSolicitud, TypeOK, portal, promesas, escritorio, emisiones, pw
<1>11. ASSUME NEW r \in Sesiones, CierraSesion(r) PROVE TypeOK'
  BY <1>1, <1>11, AvisoNuevo
     DEF CierraSesion, TypeOK, portal, promesas, escritorio, emisiones, pw
<1>12. ASSUME NEW r \in Sesiones, Consentir(r) PROVE TypeOK'
  BY <1>1, <1>12, AvisoLeido, NadieAssumption
     DEF Consentir, Niega, Suelta, Ocupado, TypeOK, Promesa, portal, promesas, escritorio,
         emisiones, pw
<1>13. ASSUME NEW r \in Sesiones, Cerrar(r) PROVE TypeOK'
  BY <1>1, <1>13, AvisoLeido, OrdenNueva
     DEF Cerrar, Quitar, Envia, TypeOK, portal, promesas, escritorio, emisiones, pw
<1>14. ASSUME NEW r \in Sesiones, Cancelar(r) PROVE TypeOK'
  <2>1. avisos' \in Seq(Avisos) /\ ordenes' \in Seq(Ordenes)
    BY <1>1, <1>14, AvisoLeido, OrdenNueva DEF Cancelar, Quitar, Envia, TypeOK
  <2>2. respuesta' \in {respuesta, Suelta(respuesta, r)} /\ nodo' \in {nodo, Suelta(nodo, r)}
    BY <1>14 DEF Cancelar, Niega, promesas
  <2>3. respuesta' \in [Sesiones -> Promesa] /\ nodo' \in [Sesiones -> Promesa]
    BY <1>1, <2>2 DEF Suelta, TypeOK, Promesa
  <2>4. consentimiento' \in Sesiones \cup {Nadie} /\ tarjeta' \in Sesiones \cup {Nadie}
    BY <1>1, <1>14 DEF Cancelar, CierraTarjeta, TypeOK, escritorio
  <2> QED
    BY <1>1, <1>14, <2>1, <2>3, <2>4 DEF Cancelar, Quitar, TypeOK, portal, pw
<1>15. ASSUME NEW r \in Sesiones, Acepta(r) PROVE TypeOK'
  BY <1>1, <1>15, OrdenNueva, NadieAssumption
     DEF Acepta, CierraTarjeta, Suelta, TypeOK, Promesa, portal, promesas, escritorio,
         emisiones, pw
<1>16. ASSUME NEW r \in Sesiones, Rechaza(r) PROVE TypeOK'
  BY <1>1, <1>16, NadieAssumption
     DEF Rechaza, CierraTarjeta, Niega, Suelta, TypeOK, Promesa, portal, promesas,
         escritorio, emisiones, pw
<1>17. ASSUME NEW r \in Sesiones, Emitir(r) PROVE TypeOK'
  BY <1>1, <1>17, OrdenNueva
     DEF Emitir, Libres, Envia, TypeOK, portal, promesas, escritorio, emisiones, pw
<1>18. ASSUME NEW r \in Sesiones, EmitirCorta(r) PROVE TypeOK'
  BY <1>1, <1>18, OrdenNueva
     DEF EmitirCorta, Libres, Envia, TypeOK, portal, promesas, escritorio, emisiones, pw
<1>19. ASSUME NEW r \in Sesiones, Abrir(r) PROVE TypeOK'
  BY <1>1, <1>19, OrdenAtendida
     DEF Abrir, Suelta, EsOrden, TypeOK, Promesa, portal, promesas, escritorio, emisiones,
         pw
<1>20. ASSUME NEW r \in Sesiones, Marco(r) PROVE TypeOK'
  BY <1>1, <1>20, OrdenAtendida
     DEF Marco, EsOrden, TypeOK, portal, promesas, escritorio, emisiones, pw
<1>21. ASSUME NEW r \in Sesiones, CerrarNodo(r) PROVE TypeOK'
  BY <1>1, <1>21, OrdenAtendida
     DEF CerrarNodo, Fuera, Suelta, EsOrden, TypeOK, Promesa, portal, promesas, escritorio,
         emisiones, pw
<1>22. ASSUME NEW r \in Sesiones, NodoConecta(r) PROVE TypeOK'
  BY <1>1, <1>22
     DEF NodoConecta, TypeOK, Promesa, portal, promesas, escritorio, emisiones, pw
<1>23. ASSUME NEW r \in Sesiones, NodoFalla(r) PROVE TypeOK'
  BY <1>1, <1>23
     DEF NodoFalla, Fuera, Suelta, TypeOK, Promesa, portal, promesas, escritorio, emisiones,
         pw
<1>24. ASSUME NEW r \in Sesiones, Procesa(r) PROVE TypeOK'
  BY <1>1, <1>24
     DEF Procesa, TypeOK, portal, promesas, escritorio, emisiones, pw
<1>25. CASE TarjetaSeCierra
  BY <1>1, <1>25
     DEF TarjetaSeCierra, TypeOK, portal, promesas, escritorio, emisiones, pw
<1>26. CASE DenegarSiSeCerro
  BY <1>1, <1>26, NadieAssumption
     DEF DenegarSiSeCerro, Abandonada, Niega, Suelta, TypeOK, Promesa, portal, promesas,
         escritorio, emisiones, pw
<1>27. CASE HiloCae
  BY <1>1, <1>27, Vacia
     DEF HiloCae, Suelta, TypeOK, Promesa, portal, promesas, escritorio, emisiones, pw
<1> QED
  BY <1>2, <1>3, <1>4, <1>5, <1>6, <1>7, <1>8, <1>9, <1>10, <1>11, <1>12, <1>13, <1>14, <1>15,
    <1>16, <1>17, <1>18, <1>19, <1>20, <1>21, <1>22, <1>23, <1>24, <1>25, <1>26, <1>27
     DEF Next, Portal, Aplicacion, Bucle, UsuarioDice, Dibuja, HiloAtiende, PipeWire, vars

\* Who waits is waited on: a promise is handed over, fulfilled or dropped, never lost.
LEMMA PromesaPaso == Inductivo /\ [Next]_vars => PromesaEnManos'
<1> SUFFICES ASSUME Inductivo, [Next]_vars PROVE PromesaEnManos'
  OBVIOUS
<1>1. TypeOK /\ PromesaEnManos
  BY DEF Inductivo
<1>2. ASSUME UNCHANGED <<respuesta, nodo, avisos, consentimiento, ordenes, nodos, hilo>> PROVE PromesaEnManos'
  BY <1>1, <1>2 DEF PromesaEnManos, TypeOK
<1>3. ASSUME NEW r \in Sesiones,
             \/ CreateSession(r) \/ Start(r) \/ StartNoPublica(r) \/ StartRespondida(r)
             \/ StartRetira(r) \/ Procesa(r)
      PROVE  PromesaEnManos'
  BY <1>2, <1>3
     DEF CreateSession, Start, StartNoPublica, StartRespondida, StartRetira, Procesa,
         portal, promesas, escritorio, emisiones, pw
<1>4. ASSUME NEW r \in Sesiones, StartPregunta(r) PROVE PromesaEnManos'
  BY <1>1, <1>4, AvisoNuevo
     DEF StartPregunta, PromesaEnManos, TypeOK, portal, promesas, escritorio, emisiones, pw
<1>5. ASSUME NEW r \in Sesiones, StartNodo(r) PROVE PromesaEnManos'
  BY <1>1, <1>5, AvisoNuevo
     DEF StartNodo, AvisosTrasNodo, Concedida, Resuelta, PromesaEnManos, TypeOK, portal,
         promesas, escritorio, emisiones, pw
<1>6. ASSUME NEW r \in Sesiones, CierraSolicitud(r) PROVE PromesaEnManos'
  BY <1>1, <1>6, AvisoNuevo
     DEF CierraSolicitud, PromesaEnManos, TypeOK, portal, promesas, escritorio, emisiones,
         pw
<1>7. ASSUME NEW r \in Sesiones, CierraSesion(r) PROVE PromesaEnManos'
  BY <1>1, <1>7, AvisoNuevo
     DEF CierraSesion, PromesaEnManos, TypeOK, portal, promesas, escritorio, emisiones, pw
<1>8. ASSUME NEW r \in Sesiones, Consentir(r) PROVE PromesaEnManos'
  BY <1>1, <1>8, AvisoLeido, NadieAssumption
     DEF Consentir, Niega, Suelta, Ocupado, PromesaEnManos, TypeOK, portal, promesas,
         escritorio, emisiones, pw
<1>9. ASSUME NEW r \in Sesiones, Cerrar(r) PROVE PromesaEnManos'
  <2>1. UNCHANGED <<respuesta, nodo, consentimiento, nodos, hilo>>
    BY <1>9 DEF Cerrar, Quitar, promesas, escritorio, pw
  <2>2. \A s : Cola(avisos, "consentir", s) => Cola(avisos', "consentir", s)
    BY <1>1, <1>9, AvisoLeido DEF Cerrar
  <2>3. \A s : Cola(ordenes, "abrir", s) => Cola(ordenes', "abrir", s)
    BY <1>1, <1>9, OrdenNueva DEF Cerrar, Quitar, Envia
  <2> QED
    BY <1>1, <2>1, <2>2, <2>3 DEF PromesaEnManos
<1>10. ASSUME NEW r \in Sesiones, Cancelar(r) PROVE PromesaEnManos'
  <2>1. /\ UNCHANGED <<nodos, hilo>>
        /\ IF consentimiento = r
           THEN /\ respuesta' = Suelta(respuesta, r) /\ nodo' = Suelta(nodo, r)
           ELSE UNCHANGED <<respuesta, nodo, consentimiento>>
    BY <1>10 DEF Cancelar, Quitar, RetiraTarjeta, Niega, promesas, escritorio, pw
  <2>2. \A s : Cola(avisos, "consentir", s) => Cola(avisos', "consentir", s)
    BY <1>1, <1>10, AvisoLeido DEF Cancelar
  <2>3. \A s : Cola(ordenes, "abrir", s) => Cola(ordenes', "abrir", s)
    BY <1>1, <1>10, OrdenNueva DEF Cancelar, Quitar, Envia
  <2> QED
    BY <1>1, <2>1, <2>2, <2>3 DEF PromesaEnManos, Suelta, TypeOK
<1>11. ASSUME NEW r \in Sesiones, Acepta(r) PROVE PromesaEnManos'
  BY <1>1, <1>11, OrdenNueva, NadieAssumption
     DEF Acepta, CierraTarjeta, Suelta, PromesaEnManos, TypeOK, portal, promesas,
         escritorio, emisiones, pw
<1>12. ASSUME NEW r \in Sesiones, Rechaza(r) PROVE PromesaEnManos'
  BY <1>1, <1>12, NadieAssumption
     DEF Rechaza, CierraTarjeta, Niega, Suelta, PromesaEnManos, TypeOK, portal, promesas,
         escritorio, emisiones, pw
<1>13. ASSUME NEW r \in Sesiones, Emitir(r) PROVE PromesaEnManos'
  BY <1>1, <1>13, OrdenNueva
     DEF Emitir, Libres, Envia, PromesaEnManos, TypeOK, portal, promesas, escritorio,
         emisiones, pw
<1>14. ASSUME NEW r \in Sesiones, EmitirCorta(r) PROVE PromesaEnManos'
  BY <1>1, <1>14, OrdenNueva
     DEF EmitirCorta, Libres, Envia, PromesaEnManos, TypeOK, portal, promesas, escritorio,
         emisiones, pw
<1>15. ASSUME NEW r \in Sesiones, Abrir(r) PROVE PromesaEnManos'
  <2>1. UNCHANGED <<respuesta, avisos, consentimiento, hilo>>
    BY <1>15 DEF Abrir, escritorio, emisiones
  <2>2. /\ \A s \in Sesiones \ {r} : nodo'[s] = nodo[s] /\ nodos'[s] = nodos[s]
        /\ nodo'[r] # "espera" \/ nodos'[r] = "conectando"
    BY <1>1, <1>15 DEF Abrir, Suelta, TypeOK
  <2>3. \A s : Cola(ordenes, "abrir", s) => Cola(ordenes', "abrir", s) \/ s = r
    BY <1>1, <1>15, OrdenAtendida DEF Abrir
  <2> QED
    BY <1>1, <2>1, <2>2, <2>3 DEF PromesaEnManos
<1>16. ASSUME NEW r \in Sesiones, Marco(r) PROVE PromesaEnManos'
  <2>1. UNCHANGED <<respuesta, nodo, avisos, consentimiento, nodos, hilo>>
    BY <1>16 DEF Marco, promesas, escritorio, emisiones
  <2>2. \A s : Cola(ordenes, "abrir", s) => Cola(ordenes', "abrir", s)
    BY <1>1, <1>16, OrdenAtendida DEF Marco
  <2> QED
    BY <1>1, <2>1, <2>2 DEF PromesaEnManos
<1>17. ASSUME NEW r \in Sesiones, CerrarNodo(r) PROVE PromesaEnManos'
  BY <1>1, <1>17, OrdenAtendida
     DEF CerrarNodo, Fuera, Suelta, EsOrden, PromesaEnManos, TypeOK, portal, promesas,
         escritorio, emisiones, pw
<1>18. ASSUME NEW r \in Sesiones, NodoConecta(r) PROVE PromesaEnManos'
  BY <1>1, <1>18
     DEF NodoConecta, PromesaEnManos, TypeOK, portal, promesas, escritorio, emisiones, pw
<1>19. ASSUME NEW r \in Sesiones, NodoFalla(r) PROVE PromesaEnManos'
  BY <1>1, <1>19
     DEF NodoFalla, Fuera, Suelta, PromesaEnManos, TypeOK, portal, promesas, escritorio,
         emisiones, pw
<1>20. CASE DenegarSiSeCerro
  BY <1>1, <1>20, NadieAssumption
     DEF DenegarSiSeCerro, Abandonada, Niega, Suelta, PromesaEnManos, TypeOK, portal,
         promesas, escritorio, emisiones, pw
<1>21. CASE HiloCae
  BY <1>1, <1>21, Vacia
     DEF HiloCae, Suelta, PromesaEnManos, TypeOK, portal, promesas, escritorio, emisiones,
         pw
<1>22. CASE TarjetaSeCierra
  BY <1>2, <1>22
     DEF TarjetaSeCierra, portal, promesas, escritorio, emisiones, pw
<1> QED
  BY <1>2, <1>3, <1>4, <1>5, <1>6, <1>7, <1>8, <1>9, <1>10, <1>11, <1>12, <1>13, <1>14, <1>15,
    <1>16, <1>17, <1>18, <1>19, <1>20, <1>21, <1>22
     DEF Next, Portal, Aplicacion, Bucle, UsuarioDice, Dibuja, HiloAtiende, PipeWire, vars

\* The card goes with its question.
LEMMA TarjetaPaso == Inductivo /\ [Next]_vars => TarjetaViva'
<1> SUFFICES ASSUME Inductivo, [Next]_vars PROVE TarjetaViva'
  OBVIOUS
<1>1. TypeOK /\ TarjetaViva /\ Preguntas
  BY DEF Inductivo
<1>2. ASSUME UNCHANGED <<tarjeta, consentimiento, respuesta>> PROVE TarjetaViva'
  BY <1>1, <1>2 DEF TarjetaViva, TypeOK
<1>3. ASSUME NEW r \in Sesiones,
             \/ CreateSession(r) \/ Start(r) \/ StartNoPublica(r) \/ StartRespondida(r)
             \/ StartNodo(r) \/ StartRetira(r) \/ CierraSolicitud(r) \/ CierraSesion(r)
             \/ Cerrar(r) \/ Emitir(r) \/ EmitirCorta(r) \/ Abrir(r) \/ Marco(r)
             \/ CerrarNodo(r) \/ NodoConecta(r) \/ NodoFalla(r) \/ Procesa(r)
      PROVE  TarjetaViva'
  BY <1>2, <1>3
     DEF CreateSession, Start, StartNoPublica, StartRespondida, StartNodo, StartRetira,
         CierraSolicitud, CierraSesion, Cerrar, Emitir, EmitirCorta, Abrir, Marco,
         CerrarNodo, NodoConecta, NodoFalla, Procesa, portal, promesas, escritorio,
         emisiones, pw
<1>4. ASSUME NEW r \in Sesiones, StartPregunta(r) PROVE TarjetaViva'
  BY <1>1, <1>4
     DEF StartPregunta, TarjetaViva, Preguntas, TypeOK, portal, promesas, escritorio,
         emisiones, pw
<1>5. ASSUME NEW r \in Sesiones, Consentir(r) PROVE TarjetaViva'
  BY <1>1, <1>5, AvisoLeido, NadieAssumption
     DEF Consentir, Niega, Suelta, Ocupado, TarjetaViva, Preguntas, TypeOK, portal,
         promesas, escritorio, emisiones, pw
<1>6. ASSUME NEW r \in Sesiones, Cancelar(r) PROVE TarjetaViva'
  BY <1>1, <1>6, NadieAssumption
     DEF Cancelar, Quitar, RetiraTarjeta, CierraTarjeta, Niega, Suelta, TarjetaViva, TypeOK,
         portal, promesas, escritorio, emisiones, pw
<1>7. ASSUME NEW r \in Sesiones, Acepta(r) PROVE TarjetaViva'
  BY <1>1, <1>7, NadieAssumption
     DEF Acepta, CierraTarjeta, Suelta, TarjetaViva, Preguntas, TypeOK, portal, promesas,
         escritorio, emisiones, pw
<1>8. ASSUME NEW r \in Sesiones, Rechaza(r) PROVE TarjetaViva'
  BY <1>1, <1>8, NadieAssumption
     DEF Rechaza, CierraTarjeta, Niega, Suelta, TarjetaViva, Preguntas, TypeOK, portal,
         promesas, escritorio, emisiones, pw
<1>9. CASE TarjetaSeCierra
  BY <1>1, <1>9
     DEF TarjetaSeCierra, TarjetaViva, Preguntas, TypeOK, portal, promesas, escritorio,
         emisiones, pw
<1>10. CASE DenegarSiSeCerro
  BY <1>1, <1>10, NadieAssumption
     DEF DenegarSiSeCerro, Abandonada, Niega, Suelta, TarjetaViva, Preguntas, TypeOK,
         portal, promesas, escritorio, emisiones, pw
<1>11. CASE HiloCae
  BY <1>2, <1>11
     DEF HiloCae, portal, promesas, escritorio, emisiones, pw
<1> QED
  BY <1>2, <1>3, <1>4, <1>5, <1>6, <1>7, <1>8, <1>9, <1>10, <1>11
     DEF Next, Portal, Aplicacion, Bucle, UsuarioDice, Dibuja, HiloAtiende, PipeWire, vars

\* One question per Start, and none after its answer.
LEMMA PreguntasPaso == Inductivo /\ [Next]_vars => Preguntas'
<1> SUFFICES ASSUME Inductivo, [Next]_vars PROVE Preguntas'
  OBVIOUS
<1>1. TypeOK /\ Preguntas /\ TarjetaViva
  BY DEF Inductivo
<1>2. ASSUME UNCHANGED <<avisos, consentimiento, respuesta, start, solicitud, cancelada, resultado>> PROVE Preguntas'
  BY <1>1, <1>2 DEF Preguntas, TypeOK
<1>3. ASSUME NEW r \in Sesiones,
             \/ CreateSession(r) \/ Emitir(r) \/ EmitirCorta(r) \/ Abrir(r) \/ Marco(r)
             \/ CerrarNodo(r) \/ NodoConecta(r) \/ NodoFalla(r) \/ Procesa(r)
      PROVE  Preguntas'
  BY <1>2, <1>3
     DEF CreateSession, Emitir, EmitirCorta, Abrir, Marco, CerrarNodo, NodoConecta,
         NodoFalla, Procesa, portal, promesas, escritorio, emisiones, pw
<1>4. ASSUME NEW r \in Sesiones, Start(r) PROVE Preguntas'
  BY <1>1, <1>4
     DEF Start, Preguntas, TarjetaViva, TypeOK, portal, promesas, escritorio, emisiones, pw
<1>5. ASSUME NEW r \in Sesiones, StartPregunta(r) PROVE Preguntas'
  BY <1>1, <1>5, AvisoNuevo
     DEF StartPregunta, Preguntas, TarjetaViva, TypeOK, portal, promesas, escritorio,
         emisiones, pw
<1>6. ASSUME NEW r \in Sesiones, StartNoPublica(r) PROVE Preguntas'
  BY <1>1, <1>6
     DEF StartNoPublica, Preguntas, TarjetaViva, TypeOK, portal, promesas, escritorio,
         emisiones, pw
<1>7. ASSUME NEW r \in Sesiones, StartRespondida(r) PROVE Preguntas'
  BY <1>1, <1>7
     DEF StartRespondida, TrasRespuesta, Resuelta, Preguntas, TarjetaViva, TypeOK, portal,
         promesas, escritorio, emisiones, pw
<1>8. ASSUME NEW r \in Sesiones, StartNodo(r) PROVE Preguntas'
  BY <1>1, <1>8, AvisoNuevo
     DEF StartNodo, AvisosTrasNodo, Concedida, Resuelta, Preguntas, TarjetaViva, TypeOK,
         portal, promesas, escritorio, emisiones, pw
<1>9. ASSUME NEW r \in Sesiones, StartRetira(r) PROVE Preguntas'
  BY <1>1, <1>9
     DEF StartRetira, Preguntas, TarjetaViva, TypeOK, portal, promesas, escritorio,
         emisiones, pw
<1>10. ASSUME NEW r \in Sesiones, CierraSolicitud(r) PROVE Preguntas'
  BY <1>1, <1>10, AvisoNuevo
     DEF CierraSolicitud, Preguntas, TarjetaViva, TypeOK, portal, promesas, escritorio,
         emisiones, pw
<1>11. ASSUME NEW r \in Sesiones, CierraSesion(r) PROVE Preguntas'
  BY <1>1, <1>11, AvisoNuevo
     DEF CierraSesion, Preguntas, TarjetaViva, TypeOK, portal, promesas, escritorio,
         emisiones, pw
<1>12. ASSUME NEW r \in Sesiones, Consentir(r) PROVE Preguntas'
  BY <1>1, <1>12, AvisoLeido, NadieAssumption
     DEF Consentir, Niega, Suelta, Ocupado, Preguntas, TarjetaViva, TypeOK, portal,
         promesas, escritorio, emisiones, pw
<1>13. ASSUME NEW r \in Sesiones, Cerrar(r) PROVE Preguntas'
  BY <1>1, <1>13, AvisoLeido
     DEF Cerrar, Quitar, Preguntas, TarjetaViva, TypeOK, portal, promesas, escritorio,
         emisiones, pw
<1>14. ASSUME NEW r \in Sesiones, Cancelar(r) PROVE Preguntas'
  BY <1>1, <1>14, AvisoLeido, NadieAssumption
     DEF Cancelar, Quitar, RetiraTarjeta, CierraTarjeta, Niega, Suelta, Preguntas,
         TarjetaViva, TypeOK, portal, promesas, escritorio, emisiones, pw
<1>15. ASSUME NEW r \in Sesiones, Acepta(r) PROVE Preguntas'
  BY <1>1, <1>15, NadieAssumption
     DEF Acepta, CierraTarjeta, Suelta, Preguntas, TarjetaViva, TypeOK, portal, promesas,
         escritorio, emisiones, pw
<1>16. ASSUME NEW r \in Sesiones, Rechaza(r) PROVE Preguntas'
  BY <1>1, <1>16, NadieAssumption
     DEF Rechaza, CierraTarjeta, Niega, Suelta, Preguntas, TarjetaViva, TypeOK, portal,
         promesas, escritorio, emisiones, pw
<1>17. CASE DenegarSiSeCerro
  BY <1>1, <1>17, NadieAssumption
     DEF DenegarSiSeCerro, Abandonada, Niega, Suelta, Preguntas, TarjetaViva, TypeOK,
         portal, promesas, escritorio, emisiones, pw
<1>18. CASE TarjetaSeCierra
  BY <1>2, <1>18
     DEF TarjetaSeCierra, portal, promesas, escritorio, emisiones, pw
<1>19. CASE HiloCae
  BY <1>2, <1>19
     DEF HiloCae, portal, promesas, escritorio, emisiones, pw
<1> QED
  BY <1>2, <1>3, <1>4, <1>5, <1>6, <1>7, <1>8, <1>9, <1>10, <1>11, <1>12, <1>13, <1>14, <1>15,
    <1>16, <1>17, <1>18, <1>19
     DEF Next, Portal, Aplicacion, Bucle, UsuarioDice, Dibuja, HiloAtiende, PipeWire, vars

\* No emission without a yes.
LEMMA ConcedidasPaso == Inductivo /\ [Next]_vars => Concedidas'
<1> SUFFICES ASSUME Inductivo, [Next]_vars PROVE Concedidas'
  OBVIOUS
<1>1. TypeOK /\ Concedidas /\ Preguntas
  BY DEF Inductivo
<1>2. ASSUME UNCHANGED <<activas, enNodo, reciclado, nodos, ordenes, respuesta>> PROVE Concedidas'
  BY <1>1, <1>2 DEF Concedidas, TypeOK
<1>3. ASSUME NEW r \in Sesiones,
             \/ CreateSession(r) \/ Start(r) \/ StartNoPublica(r) \/ StartRespondida(r)
             \/ StartNodo(r) \/ StartRetira(r) \/ CierraSolicitud(r) \/ CierraSesion(r)
      PROVE  Concedidas'
  BY <1>2, <1>3
     DEF CreateSession, Start, StartNoPublica, StartRespondida, StartNodo, StartRetira,
         CierraSolicitud, CierraSesion, portal, promesas, escritorio, emisiones, pw
<1>4. ASSUME NEW r \in Sesiones, StartPregunta(r) PROVE Concedidas'
  BY <1>1, <1>4
     DEF StartPregunta, Concedidas, Preguntas, TypeOK, portal, promesas, escritorio,
         emisiones, pw
<1>5. ASSUME NEW r \in Sesiones, Consentir(r) PROVE Concedidas'
  BY <1>1, <1>5
     DEF Consentir, Niega, Suelta, Ocupado, Concedidas, Preguntas, TypeOK, portal, promesas,
         escritorio, emisiones, pw
<1>6. ASSUME NEW r \in Sesiones, Cerrar(r) PROVE Concedidas'
  BY <1>1, <1>6, OrdenNueva
     DEF Cerrar, Quitar, Envia, Concedidas, Preguntas, TypeOK, portal, promesas, escritorio,
         emisiones, pw
<1>7. ASSUME NEW r \in Sesiones, Cancelar(r) PROVE Concedidas'
  <2>1. /\ activas' = activas \ {r} /\ UNCHANGED pw
        /\ \A s \in Sesiones : respuesta[s] = "dada" => respuesta'[s] = "dada"
    BY <1>1, <1>7 DEF Cancelar, Quitar, Niega, Suelta, promesas, TypeOK
  <2>2. \/ /\ hilo = "vivo" /\ ordenes' = Append(ordenes, Orden("cerrar", r))
        \/ hilo # "vivo" /\ UNCHANGED ordenes
    BY <1>7 DEF Cancelar, Quitar, Envia
  <2>3. \A s : /\ Cola(ordenes', "abrir", s) => Cola(ordenes, "abrir", s)
               /\ Cola(ordenes', "marco", s) => Cola(ordenes, "marco", s)
    BY <1>1, <2>2, OrdenNueva
  <2> QED
    BY <1>1, <2>1, <2>3 DEF Concedidas, pw
<1>8. ASSUME NEW r \in Sesiones, Acepta(r) PROVE Concedidas'
  BY <1>1, <1>8, OrdenNueva
     DEF Acepta, CierraTarjeta, Suelta, Concedidas, Preguntas, TypeOK, portal, promesas,
         escritorio, emisiones, pw
<1>9. ASSUME NEW r \in Sesiones, Rechaza(r) PROVE Concedidas'
  BY <1>1, <1>9
     DEF Rechaza, CierraTarjeta, Niega, Suelta, Concedidas, Preguntas, TypeOK, portal,
         promesas, escritorio, emisiones, pw
<1>10. ASSUME NEW r \in Sesiones, Emitir(r) PROVE Concedidas'
  BY <1>1, <1>10, OrdenNueva
     DEF Emitir, Libres, Envia, Concedidas, Preguntas, TypeOK, portal, promesas, escritorio,
         emisiones, pw
<1>11. ASSUME NEW r \in Sesiones, EmitirCorta(r) PROVE Concedidas'
  BY <1>1, <1>11, OrdenNueva
     DEF EmitirCorta, Libres, Envia, Concedidas, Preguntas, TypeOK, portal, promesas,
         escritorio, emisiones, pw
<1>12. ASSUME NEW r \in Sesiones, Abrir(r) PROVE Concedidas'
  <2>1. /\ \A s : Cola(ordenes', "abrir", s) => Cola(ordenes, "abrir", s)
        /\ \A s : Cola(ordenes', "marco", s) => Cola(ordenes, "marco", s)
        /\ Cola(ordenes, "abrir", r)
    BY <1>1, <1>12, OrdenAtendida DEF Abrir
  <2>2. /\ UNCHANGED <<activas, enNodo, reciclado, respuesta>>
        /\ \A s \in Sesiones \ {r} : nodos'[s] = nodos[s]
    BY <1>1, <1>12 DEF Abrir, TypeOK, emisiones
  <2> QED
    BY <1>1, <2>1, <2>2 DEF Concedidas
<1>13. ASSUME NEW r \in Sesiones, Marco(r) PROVE Concedidas'
  <2>1. /\ \A s : Cola(ordenes', "abrir", s) => Cola(ordenes, "abrir", s)
        /\ \A s : Cola(ordenes', "marco", s) => Cola(ordenes, "marco", s)
        /\ Cola(ordenes, "marco", r)
    BY <1>1, <1>13, OrdenAtendida DEF Marco
  <2>2. /\ UNCHANGED <<activas, nodos, respuesta>>
        /\ enNodo' \subseteq enNodo \cup {r} /\ reciclado' \subseteq reciclado \cup {r}
    BY <1>13 DEF Marco, emisiones, promesas
  <2> QED
    BY <1>1, <2>1, <2>2 DEF Concedidas
<1>14. ASSUME NEW r \in Sesiones, CerrarNodo(r) PROVE Concedidas'
  <2>1. /\ \A s : Cola(ordenes', "abrir", s) => Cola(ordenes, "abrir", s)
        /\ \A s : Cola(ordenes', "marco", s) => Cola(ordenes, "marco", s)
    BY <1>1, <1>14, OrdenAtendida DEF CerrarNodo
  <2>2. /\ UNCHANGED <<activas, reciclado, respuesta>> /\ enNodo' \subseteq enNodo
        /\ \A s \in Sesiones : nodos'[s] \in {"no", nodos[s]}
    BY <1>1, <1>14 DEF CerrarNodo, Fuera, TypeOK, emisiones
  <2> QED
    BY <1>1, <2>1, <2>2 DEF Concedidas
<1>15. ASSUME NEW r \in Sesiones, NodoConecta(r) PROVE Concedidas'
  BY <1>1, <1>15
     DEF NodoConecta, Concedidas, Preguntas, TypeOK, portal, promesas, escritorio,
         emisiones, pw
<1>16. ASSUME NEW r \in Sesiones, NodoFalla(r) PROVE Concedidas'
  BY <1>1, <1>16
     DEF NodoFalla, Fuera, Suelta, Concedidas, Preguntas, TypeOK, portal, promesas,
         escritorio, emisiones, pw
<1>17. ASSUME NEW r \in Sesiones, Procesa(r) PROVE Concedidas'
  BY <1>1, <1>17
     DEF Procesa, Concedidas, Preguntas, TypeOK, portal, promesas, escritorio, emisiones, pw
<1>18. CASE DenegarSiSeCerro
  BY <1>1, <1>18
     DEF DenegarSiSeCerro, Abandonada, Niega, Suelta, Concedidas, Preguntas, TypeOK, portal,
         promesas, escritorio, emisiones, pw
<1>19. CASE HiloCae
  BY <1>1, <1>19, Vacia
     DEF HiloCae, Suelta, Concedidas, Preguntas, TypeOK, portal, promesas, escritorio,
         emisiones, pw
<1>20. CASE TarjetaSeCierra
  BY <1>2, <1>20
     DEF TarjetaSeCierra, portal, promesas, escritorio, emisiones, pw
<1> QED
  BY <1>2, <1>3, <1>4, <1>5, <1>6, <1>7, <1>8, <1>9, <1>10, <1>11, <1>12, <1>13, <1>14, <1>15,
    <1>16, <1>17, <1>18, <1>19, <1>20
     DEF Next, Portal, Aplicacion, Bucle, UsuarioDice, Dibuja, HiloAtiende, PipeWire, vars

\* A frame goes from the channel to its node and back, and pendientes waits for it.
LEMMA UnLugarPaso == Inductivo /\ [Next]_vars => UnLugar'
<1> SUFFICES ASSUME Inductivo, [Next]_vars PROVE UnLugar'
  OBVIOUS
<1>1. TypeOK /\ UnLugar /\ Concedidas /\ Preguntas
  BY DEF Inductivo
<1>2. ASSUME UNCHANGED <<ordenes, enNodo, reciclado, activas, pendientes>> PROVE UnLugar'
  BY <1>1, <1>2 DEF UnLugar, TypeOK
<1>3. ASSUME NEW r \in Sesiones,
             \/ CreateSession(r) \/ Start(r) \/ StartPregunta(r) \/ StartNoPublica(r)
             \/ StartRespondida(r) \/ StartNodo(r) \/ StartRetira(r) \/ CierraSolicitud(r)
             \/ CierraSesion(r) \/ Consentir(r) \/ Rechaza(r) \/ NodoConecta(r)
      PROVE  UnLugar'
  BY <1>2, <1>3
     DEF CreateSession, Start, StartPregunta, StartNoPublica, StartRespondida, StartNodo,
         StartRetira, CierraSolicitud, CierraSesion, Consentir, Rechaza, NodoConecta,
         portal, promesas, escritorio, emisiones, pw
<1>4. ASSUME NEW r \in Sesiones, Cerrar(r) PROVE UnLugar'
  BY <1>1, <1>4, OrdenNueva
     DEF Cerrar, Quitar, Envia, UnLugar, Concedidas, Preguntas, TypeOK, portal, promesas,
         escritorio, emisiones, pw
<1>5. ASSUME NEW r \in Sesiones, Cancelar(r) PROVE UnLugar'
  BY <1>1, <1>5, OrdenNueva
     DEF Cancelar, Quitar, Envia, RetiraTarjeta, CierraTarjeta, Niega, Suelta, UnLugar,
         TypeOK, portal, promesas, escritorio, emisiones, pw
<1>6. ASSUME NEW r \in Sesiones, Acepta(r) PROVE UnLugar'
  BY <1>1, <1>6, OrdenNueva
     DEF Acepta, CierraTarjeta, Suelta, UnLugar, Concedidas, Preguntas, TypeOK, portal,
         promesas, escritorio, emisiones, pw
<1>7. ASSUME NEW r \in Sesiones, Emitir(r) PROVE UnLugar'
  BY <1>1, <1>7, OrdenNueva
     DEF Emitir, Libres, Envia, UnLugar, Concedidas, Preguntas, TypeOK, portal, promesas,
         escritorio, emisiones, pw
<1>8. ASSUME NEW r \in Sesiones, EmitirCorta(r) PROVE UnLugar'
  BY <1>1, <1>8, OrdenNueva
     DEF EmitirCorta, Libres, Envia, UnLugar, Concedidas, Preguntas, TypeOK, portal,
         promesas, escritorio, emisiones, pw
<1>9. ASSUME NEW r \in Sesiones, Abrir(r) PROVE UnLugar'
  BY <1>1, <1>9, OrdenAtendida
     DEF Abrir, Suelta, EsOrden, UnLugar, Concedidas, Preguntas, TypeOK, portal, promesas,
         escritorio, emisiones, pw
<1>10. ASSUME NEW r \in Sesiones, Marco(r) PROVE UnLugar'
  BY <1>1, <1>10, OrdenAtendida
     DEF Marco, EsOrden, UnLugar, Concedidas, Preguntas, TypeOK, portal, promesas,
         escritorio, emisiones, pw
<1>11. ASSUME NEW r \in Sesiones, CerrarNodo(r) PROVE UnLugar'
  BY <1>1, <1>11, OrdenAtendida
     DEF CerrarNodo, Fuera, Suelta, EsOrden, UnLugar, Concedidas, Preguntas, TypeOK, portal,
         promesas, escritorio, emisiones, pw
<1>12. ASSUME NEW r \in Sesiones, NodoFalla(r) PROVE UnLugar'
  BY <1>1, <1>12
     DEF NodoFalla, Fuera, Suelta, UnLugar, Concedidas, Preguntas, TypeOK, portal, promesas,
         escritorio, emisiones, pw
<1>13. ASSUME NEW r \in Sesiones, Procesa(r) PROVE UnLugar'
  BY <1>1, <1>13
     DEF Procesa, UnLugar, Concedidas, Preguntas, TypeOK, portal, promesas, escritorio,
         emisiones, pw
<1>14. CASE HiloCae
  BY <1>1, <1>14, Vacia
     DEF HiloCae, Suelta, UnLugar, Concedidas, Preguntas, TypeOK, portal, promesas,
         escritorio, emisiones, pw
<1>15. CASE TarjetaSeCierra
  BY <1>2, <1>15
     DEF TarjetaSeCierra, portal, promesas, escritorio, emisiones, pw
<1>16. CASE DenegarSiSeCerro
  BY <1>2, <1>16
     DEF DenegarSiSeCerro, portal, promesas, escritorio, emisiones, pw
<1> QED
  BY <1>2, <1>3, <1>4, <1>5, <1>6, <1>7, <1>8, <1>9, <1>10, <1>11, <1>12, <1>13, <1>14, <1>15,
    <1>16
     DEF Next, Portal, Aplicacion, Bucle, UsuarioDice, Dibuja, HiloAtiende, PipeWire, vars

\* Whoever takes an emission away sends the order that closes its node.
LEMMA CierrePaso == Inductivo /\ [Next]_vars => CierreDetras'
<1> SUFFICES ASSUME Inductivo, [Next]_vars PROVE CierreDetras'
  OBVIOUS
<1>1. TypeOK /\ CierreDetras
  BY DEF Inductivo
<1>2. ASSUME UNCHANGED <<activas, nodos, ordenes, hilo>> PROVE CierreDetras'
  BY <1>1, <1>2 DEF CierreDetras, TypeOK
<1>3. ASSUME NEW r \in Sesiones,
             \/ CreateSession(r) \/ Start(r) \/ StartPregunta(r) \/ StartNoPublica(r)
             \/ StartRespondida(r) \/ StartNodo(r) \/ StartRetira(r) \/ CierraSolicitud(r)
             \/ CierraSesion(r) \/ Consentir(r) \/ Rechaza(r) \/ Procesa(r)
      PROVE  CierreDetras'
  BY <1>2, <1>3
     DEF CreateSession, Start, StartPregunta, StartNoPublica, StartRespondida, StartNodo,
         StartRetira, CierraSolicitud, CierraSesion, Consentir, Rechaza, Procesa, portal,
         promesas, escritorio, emisiones, pw
<1>4. ASSUME NEW r \in Sesiones, Cerrar(r) PROVE CierreDetras'
  <2>1. activas' = activas \ {r} /\ UNCHANGED <<hilo, nodos>>
    BY <1>4 DEF Cerrar, Quitar, pw
  <2>2. \/ /\ hilo = "vivo" /\ ordenes' = Append(ordenes, Orden("cerrar", r))
        \/ hilo # "vivo" /\ UNCHANGED ordenes
    BY <1>4 DEF Cerrar, Quitar, Envia
  <2>3. \A s : /\ Cola(ordenes, "cerrar", s) => Cola(ordenes', "cerrar", s)
               /\ Seguida(ordenes, "abrir", "cerrar", s) => Seguida(ordenes', "abrir", "cerrar", s)
    BY <1>1, <2>2, OrdenNueva
  <2>4. CASE hilo = "vivo"
    <3>1. Cola(ordenes', "cerrar", r) /\ Seguida(ordenes', "abrir", "cerrar", r)
      BY <1>1, <2>2, <2>4, OrdenNueva
    <3> QED
      BY <1>1, <2>1, <2>3, <2>4, <3>1 DEF CierreDetras
  <2>5. CASE hilo # "vivo"
    BY <1>1, <2>1, <2>2, <2>5, Vacia DEF CierreDetras
  <2> QED
    BY <2>4, <2>5
<1>5. ASSUME NEW r \in Sesiones, Cancelar(r) PROVE CierreDetras'
  <2>1. activas' = activas \ {r} /\ UNCHANGED <<hilo, nodos>>
    BY <1>5 DEF Cancelar, Quitar, pw
  <2>2. \/ /\ hilo = "vivo" /\ ordenes' = Append(ordenes, Orden("cerrar", r))
        \/ hilo # "vivo" /\ UNCHANGED ordenes
    BY <1>5 DEF Cancelar, Quitar, Envia
  <2>3. \A s : /\ Cola(ordenes, "cerrar", s) => Cola(ordenes', "cerrar", s)
               /\ Seguida(ordenes, "abrir", "cerrar", s) => Seguida(ordenes', "abrir", "cerrar", s)
    BY <1>1, <2>2, OrdenNueva
  <2>4. CASE hilo = "vivo"
    <3>1. Cola(ordenes', "cerrar", r) /\ Seguida(ordenes', "abrir", "cerrar", r)
      BY <1>1, <2>2, <2>4, OrdenNueva
    <3> QED
      BY <1>1, <2>1, <2>3, <2>4, <3>1 DEF CierreDetras
  <2>5. CASE hilo # "vivo"
    BY <1>1, <2>1, <2>2, <2>5, Vacia DEF CierreDetras
  <2> QED
    BY <2>4, <2>5
<1>6. ASSUME NEW r \in Sesiones, Acepta(r) PROVE CierreDetras'
  BY <1>1, <1>6, OrdenNueva
     DEF Acepta, CierraTarjeta, Suelta, CierreDetras, TypeOK, portal, promesas, escritorio,
         emisiones, pw
<1>7. ASSUME NEW r \in Sesiones, Emitir(r) PROVE CierreDetras'
  BY <1>1, <1>7, OrdenNueva
     DEF Emitir, Libres, Envia, CierreDetras, TypeOK, portal, promesas, escritorio,
         emisiones, pw
<1>8. ASSUME NEW r \in Sesiones, EmitirCorta(r) PROVE CierreDetras'
  <2>1. activas' = activas \ {r} /\ UNCHANGED <<hilo, nodos>>
    BY <1>8 DEF EmitirCorta, pw
  <2>2. \/ /\ hilo = "vivo" /\ ordenes' = Append(ordenes, Orden("cerrar", r))
        \/ hilo # "vivo" /\ UNCHANGED ordenes
    BY <1>8 DEF EmitirCorta, Envia
  <2>3. \A s : /\ Cola(ordenes, "cerrar", s) => Cola(ordenes', "cerrar", s)
               /\ Seguida(ordenes, "abrir", "cerrar", s) => Seguida(ordenes', "abrir", "cerrar", s)
    BY <1>1, <2>2, OrdenNueva
  <2>4. CASE hilo = "vivo"
    <3>1. Cola(ordenes', "cerrar", r) /\ Seguida(ordenes', "abrir", "cerrar", r)
      BY <1>1, <2>2, <2>4, OrdenNueva
    <3> QED
      BY <1>1, <2>1, <2>3, <2>4, <3>1 DEF CierreDetras
  <2>5. CASE hilo # "vivo"
    BY <1>1, <2>1, <2>2, <2>5, Vacia DEF CierreDetras
  <2> QED
    BY <2>4, <2>5
<1>9. ASSUME NEW r \in Sesiones, Abrir(r) PROVE CierreDetras'
  BY <1>1, <1>9, OrdenAtendida
     DEF Abrir, Suelta, EsOrden, CierreDetras, TypeOK, portal, promesas, escritorio,
         emisiones, pw
<1>10. ASSUME NEW r \in Sesiones, Marco(r) PROVE CierreDetras'
  BY <1>1, <1>10, OrdenAtendida
     DEF Marco, EsOrden, CierreDetras, TypeOK, portal, promesas, escritorio, emisiones, pw
<1>11. ASSUME NEW r \in Sesiones, CerrarNodo(r) PROVE CierreDetras'
  BY <1>1, <1>11, OrdenAtendida
     DEF CerrarNodo, Fuera, Suelta, EsOrden, CierreDetras, TypeOK, portal, promesas,
         escritorio, emisiones, pw
<1>12. ASSUME NEW r \in Sesiones, NodoConecta(r) PROVE CierreDetras'
  BY <1>1, <1>12
     DEF NodoConecta, CierreDetras, TypeOK, portal, promesas, escritorio, emisiones, pw
<1>13. ASSUME NEW r \in Sesiones, NodoFalla(r) PROVE CierreDetras'
  BY <1>1, <1>13
     DEF NodoFalla, Fuera, Suelta, CierreDetras, TypeOK, portal, promesas, escritorio,
         emisiones, pw
<1>14. CASE HiloCae
  BY <1>1, <1>14, Vacia
     DEF HiloCae, Suelta, CierreDetras, TypeOK, portal, promesas, escritorio, emisiones, pw
<1>15. CASE TarjetaSeCierra
  BY <1>2, <1>15
     DEF TarjetaSeCierra, portal, promesas, escritorio, emisiones, pw
<1>16. CASE DenegarSiSeCerro
  BY <1>2, <1>16
     DEF DenegarSiSeCerro, portal, promesas, escritorio, emisiones, pw
<1> QED
  BY <1>2, <1>3, <1>4, <1>5, <1>6, <1>7, <1>8, <1>9, <1>10, <1>11, <1>12, <1>13, <1>14, <1>15,
    <1>16
     DEF Next, Portal, Aplicacion, Bucle, UsuarioDice, Dibuja, HiloAtiende, PipeWire, vars

\* A cancel takes away what it finds, and finds what was asked before it.
LEMMA CanceladaPaso == Inductivo /\ [Next]_vars => CanceladaRetira'
<1> SUFFICES ASSUME Inductivo, [Next]_vars PROVE CanceladaRetira'
  OBVIOUS
<1>1. TypeOK /\ CanceladaRetira /\ Preguntas
  BY DEF Inductivo
<1>2. ASSUME UNCHANGED <<cancelada, avisos, activas, consentimiento>> PROVE CanceladaRetira'
  BY <1>1, <1>2 DEF CanceladaRetira, TypeOK
<1>3. ASSUME NEW r \in Sesiones,
             \/ CreateSession(r) \/ Start(r) \/ StartNoPublica(r) \/ StartRespondida(r)
             \/ StartRetira(r) \/ Emitir(r) \/ Abrir(r) \/ Marco(r) \/ CerrarNodo(r)
             \/ NodoConecta(r) \/ NodoFalla(r) \/ Procesa(r)
      PROVE  CanceladaRetira'
  BY <1>2, <1>3
     DEF CreateSession, Start, StartNoPublica, StartRespondida, StartRetira, Emitir, Abrir,
         Marco, CerrarNodo, NodoConecta, NodoFalla, Procesa, portal, promesas, escritorio,
         emisiones, pw
<1>4. ASSUME NEW r \in Sesiones, StartPregunta(r) PROVE CanceladaRetira'
  BY <1>1, <1>4, AvisoNuevo
     DEF StartPregunta, CanceladaRetira, Preguntas, TypeOK, portal, promesas, escritorio,
         emisiones, pw
<1>5. ASSUME NEW r \in Sesiones, StartNodo(r) PROVE CanceladaRetira'
  BY <1>1, <1>5, AvisoNuevo
     DEF StartNodo, AvisosTrasNodo, Concedida, Resuelta, CanceladaRetira, Preguntas, TypeOK,
         portal, promesas, escritorio, emisiones, pw
<1>6. ASSUME NEW r \in Sesiones, CierraSolicitud(r) PROVE CanceladaRetira'
  BY <1>1, <1>6, AvisoNuevo
     DEF CierraSolicitud, CanceladaRetira, Preguntas, TypeOK, portal, promesas, escritorio,
         emisiones, pw
<1>7. ASSUME NEW r \in Sesiones, CierraSesion(r) PROVE CanceladaRetira'
  BY <1>1, <1>7, AvisoNuevo
     DEF CierraSesion, CanceladaRetira, Preguntas, TypeOK, portal, promesas, escritorio,
         emisiones, pw
<1>8. ASSUME NEW r \in Sesiones, Consentir(r) PROVE CanceladaRetira'
  BY <1>1, <1>8, AvisoLeido, NadieAssumption
     DEF Consentir, Niega, Suelta, Ocupado, CanceladaRetira, Preguntas, TypeOK, portal,
         promesas, escritorio, emisiones, pw
<1>9. ASSUME NEW r \in Sesiones, Cerrar(r) PROVE CanceladaRetira'
  BY <1>1, <1>9, AvisoLeido
     DEF Cerrar, Quitar, CanceladaRetira, Preguntas, TypeOK, portal, promesas, escritorio,
         emisiones, pw
<1>10. ASSUME NEW r \in Sesiones, Cancelar(r) PROVE CanceladaRetira'
  <2> SUFFICES ASSUME NEW s \in Sesiones, s \in cancelada', ~Cola(avisos', "cancelar", s)
               PROVE  s \notin activas' /\ consentimiento' # s /\ ~Cola(avisos', "consentir", s)
    BY <1>1, <1>10 DEF CanceladaRetira, Cancelar, portal, TypeOK
  <2>1. /\ activas' = activas \ {r} /\ cancelada' = cancelada
        /\ consentimiento' = IF consentimiento = r THEN Nadie ELSE consentimiento
    BY <1>10 DEF Cancelar, Quitar, RetiraTarjeta, escritorio, portal
  <2>2. /\ Cola(avisos, "cancelar", s) => s = r
        /\ Cola(avisos', "consentir", s) => Cola(avisos, "consentir", s) /\ s # r
    BY <1>1, <1>10, AvisoLeido DEF Cancelar, Preguntas
  <2> QED
    BY <1>1, <2>1, <2>2, NadieAssumption DEF CanceladaRetira
<1>11. ASSUME NEW r \in Sesiones, Acepta(r) PROVE CanceladaRetira'
  BY <1>1, <1>11, NadieAssumption
     DEF Acepta, CierraTarjeta, Suelta, CanceladaRetira, Preguntas, TypeOK, portal,
         promesas, escritorio, emisiones, pw
<1>12. ASSUME NEW r \in Sesiones, Rechaza(r) PROVE CanceladaRetira'
  BY <1>1, <1>12, NadieAssumption
     DEF Rechaza, CierraTarjeta, Niega, Suelta, CanceladaRetira, Preguntas, TypeOK, portal,
         promesas, escritorio, emisiones, pw
<1>13. ASSUME NEW r \in Sesiones, EmitirCorta(r) PROVE CanceladaRetira'
  BY <1>1, <1>13
     DEF EmitirCorta, Libres, CanceladaRetira, Preguntas, TypeOK, portal, promesas,
         escritorio, emisiones, pw
<1>14. CASE DenegarSiSeCerro
  BY <1>1, <1>14, NadieAssumption
     DEF DenegarSiSeCerro, Abandonada, Niega, Suelta, CanceladaRetira, Preguntas, TypeOK,
         portal, promesas, escritorio, emisiones, pw
<1>15. CASE TarjetaSeCierra
  BY <1>2, <1>15
     DEF TarjetaSeCierra, portal, promesas, escritorio, emisiones, pw
<1>16. CASE HiloCae
  BY <1>2, <1>16
     DEF HiloCae, portal, promesas, escritorio, emisiones, pw
<1> QED
  BY <1>2, <1>3, <1>4, <1>5, <1>6, <1>7, <1>8, <1>9, <1>10, <1>11, <1>12, <1>13, <1>14, <1>15,
    <1>16
     DEF Next, Portal, Aplicacion, Bucle, UsuarioDice, Dibuja, HiloAtiende, PipeWire, vars

\* A Start that says no has nothing shared, or has sent who takes it away.
LEMMA RechazadaPaso == Inductivo /\ [Next]_vars => RechazadaNoComparte'
<1> SUFFICES ASSUME Inductivo, [Next]_vars PROVE RechazadaNoComparte'
  OBVIOUS
<1>1. TypeOK /\ RechazadaNoComparte /\ Preguntas /\ Concedidas /\ CanceladaRetira
  BY DEF Inductivo
<1>2. ASSUME UNCHANGED <<resultado, avisos, activas, consentimiento>> PROVE RechazadaNoComparte'
  BY <1>1, <1>2 DEF RechazadaNoComparte, TypeOK
<1>3. ASSUME NEW r \in Sesiones,
             \/ CreateSession(r) \/ StartRetira(r) \/ Emitir(r) \/ Abrir(r) \/ Marco(r)
             \/ CerrarNodo(r) \/ NodoConecta(r) \/ NodoFalla(r) \/ Procesa(r)
      PROVE  RechazadaNoComparte'
  BY <1>2, <1>3
     DEF CreateSession, StartRetira, Emitir, Abrir, Marco, CerrarNodo, NodoConecta,
         NodoFalla, Procesa, portal, promesas, escritorio, emisiones, pw
<1>4. ASSUME NEW r \in Sesiones, Start(r) PROVE RechazadaNoComparte'
  BY <1>1, <1>4
     DEF Start, RechazadaNoComparte, Preguntas, Concedidas, CanceladaRetira, TypeOK, portal,
         promesas, escritorio, emisiones, pw
<1>5. ASSUME NEW r \in Sesiones, StartPregunta(r) PROVE RechazadaNoComparte'
  BY <1>1, <1>5, AvisoNuevo
     DEF StartPregunta, RechazadaNoComparte, Preguntas, Concedidas, CanceladaRetira, TypeOK,
         portal, promesas, escritorio, emisiones, pw
<1>6. ASSUME NEW r \in Sesiones, StartNoPublica(r) PROVE RechazadaNoComparte'
  BY <1>1, <1>6
     DEF StartNoPublica, RechazadaNoComparte, Preguntas, Concedidas, CanceladaRetira,
         TypeOK, portal, promesas, escritorio, emisiones, pw
<1>7. ASSUME NEW r \in Sesiones, StartRespondida(r) PROVE RechazadaNoComparte'
  BY <1>1, <1>7
     DEF StartRespondida, TrasRespuesta, Resuelta, RechazadaNoComparte, Preguntas,
         Concedidas, CanceladaRetira, TypeOK, portal, promesas, escritorio, emisiones, pw
<1>8. ASSUME NEW r \in Sesiones, StartNodo(r) PROVE RechazadaNoComparte'
  <2>1. /\ \A s : Cola(avisos, "cancelar", s) => Cola(avisos', "cancelar", s)
        /\ \A s : Cola(avisos, "cerrar", s) => Cola(avisos', "cerrar", s)
        /\ ~Concedida(r) => Cola(avisos', "cerrar", r)
    BY <1>1, <1>8, AvisoNuevo DEF StartNodo, AvisosTrasNodo
  <2>2. /\ activas' = activas /\ consentimiento' = consentimiento
        /\ resultado' \in [Sesiones -> {"ninguno", "correcto", "cancelado", "fallo"}]
        /\ \A s \in Sesiones \ {r} : resultado'[s] = resultado[s]
        /\ resultado'[r] # "correcto" => ~Concedida(r)
    BY <1>1, <1>8 DEF StartNodo, Concedida, TypeOK, escritorio, emisiones
  <2> QED
    BY <1>1, <2>1, <2>2 DEF RechazadaNoComparte
<1>9. ASSUME NEW r \in Sesiones, CierraSolicitud(r) PROVE RechazadaNoComparte'
  BY <1>1, <1>9, AvisoNuevo
     DEF CierraSolicitud, RechazadaNoComparte, Preguntas, Concedidas, CanceladaRetira,
         TypeOK, portal, promesas, escritorio, emisiones, pw
<1>10. ASSUME NEW r \in Sesiones, CierraSesion(r) PROVE RechazadaNoComparte'
  BY <1>1, <1>10, AvisoNuevo
     DEF CierraSesion, RechazadaNoComparte, Preguntas, Concedidas, CanceladaRetira, TypeOK,
         portal, promesas, escritorio, emisiones, pw
<1>11. ASSUME NEW r \in Sesiones, Consentir(r) PROVE RechazadaNoComparte'
  BY <1>1, <1>11, AvisoLeido, NadieAssumption
     DEF Consentir, Niega, Suelta, Ocupado, RechazadaNoComparte, Preguntas, Concedidas,
         CanceladaRetira, TypeOK, portal, promesas, escritorio, emisiones, pw
<1>12. ASSUME NEW r \in Sesiones, Cerrar(r) PROVE RechazadaNoComparte'
  BY <1>1, <1>12, AvisoLeido
     DEF Cerrar, Quitar, RechazadaNoComparte, Preguntas, Concedidas, CanceladaRetira,
         TypeOK, portal, promesas, escritorio, emisiones, pw
<1>13. ASSUME NEW r \in Sesiones, Cancelar(r) PROVE RechazadaNoComparte'
  <2>1. /\ activas' = activas \ {r} /\ resultado' = resultado
        /\ consentimiento' = IF consentimiento = r THEN Nadie ELSE consentimiento
    BY <1>13 DEF Cancelar, Quitar, RetiraTarjeta, escritorio, portal
  <2>2. avisos # <<>> /\ Head(avisos) = Aviso("cancelar", r) /\ avisos' = Tail(avisos)
    BY <1>13 DEF Cancelar
  <2>3. ASSUME NEW s
        PROVE  /\ Cola(avisos, "cancelar", s) => Cola(avisos', "cancelar", s) \/ s = r
               /\ Cola(avisos, "cerrar", s) => Cola(avisos', "cerrar", s)
    <3>1. \A q : Cola(avisos, q, s) <=> Cola(avisos', q, s) \/ (q = "cancelar" /\ s = r)
      BY <1>1, <2>2, AvisoLeido
    <3> QED
      BY <3>1
  <2> QED
    BY <1>1, <2>1, <2>3, NadieAssumption DEF RechazadaNoComparte
<1>14. ASSUME NEW r \in Sesiones, Acepta(r) PROVE RechazadaNoComparte'
  BY <1>1, <1>14, NadieAssumption
     DEF Acepta, CierraTarjeta, Suelta, RechazadaNoComparte, Preguntas, Concedidas,
         CanceladaRetira, TypeOK, portal, promesas, escritorio, emisiones, pw
<1>15. ASSUME NEW r \in Sesiones, Rechaza(r) PROVE RechazadaNoComparte'
  BY <1>1, <1>15, NadieAssumption
     DEF Rechaza, CierraTarjeta, Niega, Suelta, RechazadaNoComparte, Preguntas, Concedidas,
         CanceladaRetira, TypeOK, portal, promesas, escritorio, emisiones, pw
<1>16. ASSUME NEW r \in Sesiones, EmitirCorta(r) PROVE RechazadaNoComparte'
  BY <1>1, <1>16
     DEF EmitirCorta, Libres, RechazadaNoComparte, Preguntas, Concedidas, CanceladaRetira,
         TypeOK, portal, promesas, escritorio, emisiones, pw
<1>17. CASE DenegarSiSeCerro
  BY <1>1, <1>17, NadieAssumption
     DEF DenegarSiSeCerro, Abandonada, Niega, Suelta, RechazadaNoComparte, Preguntas,
         Concedidas, CanceladaRetira, TypeOK, portal, promesas, escritorio, emisiones, pw
<1>18. CASE TarjetaSeCierra
  BY <1>2, <1>18
     DEF TarjetaSeCierra, portal, promesas, escritorio, emisiones, pw
<1>19. CASE HiloCae
  BY <1>2, <1>19
     DEF HiloCae, portal, promesas, escritorio, emisiones, pw
<1> QED
  BY <1>2, <1>3, <1>4, <1>5, <1>6, <1>7, <1>8, <1>9, <1>10, <1>11, <1>12, <1>13, <1>14, <1>15,
    <1>16, <1>17, <1>18, <1>19
     DEF Next, Portal, Aplicacion, Bucle, UsuarioDice, Dibuja, HiloAtiende, PipeWire, vars

-------------------------------------------------------------------------------
(* What follows.                                                           *)

\* Types, channels and the six parts, together, hold at the start and after every step.
THEOREM InductivoCorrect == Spec => []Inductivo
<1>1. Init => Inductivo
  <2> SUFFICES ASSUME Init PROVE Inductivo
    OBVIOUS
  <2>1. TypeOK
    BY DEF Init, TypeOK, Promesa, Avisos, Ordenes
  <2>2. PromesaEnManos /\ TarjetaViva
    BY DEF Init, PromesaEnManos, TarjetaViva
  <2>3. \A q, p, s : /\ ~Cola(avisos, q, s) /\ Unica(avisos, q, s) /\ Antes(avisos, p, q, s)
                     /\ ~Cola(ordenes, q, s) /\ Unica(ordenes, q, s) /\ Seguida(ordenes, p, q, s)
    BY Vacia DEF Init
  <2>4. Preguntas /\ Concedidas
    BY <2>3, NadieAssumption DEF Init, Preguntas, Concedidas
  <2>5. UnLugar /\ CierreDetras
    BY <2>3 DEF Init, UnLugar, CierreDetras
  <2>6. CanceladaRetira /\ RechazadaNoComparte
    BY DEF Init, CanceladaRetira, RechazadaNoComparte
  <2> QED
    BY <2>1, <2>2, <2>4, <2>5, <2>6 DEF Inductivo
<1>2. Inductivo /\ [Next]_vars => Inductivo'
  BY TipoPaso, PromesaPaso, TarjetaPaso, PreguntasPaso, ConcedidasPaso, UnLugarPaso, CierrePaso,
     CanceladaPaso, RechazadaPaso DEF Inductivo
<1> QED
  BY <1>1, <1>2, PTL DEF Spec

\* A record of the channel is known by its two fields.
LEMMA EsMensaje ==
  ASSUME TypeOK, NEW i \in DOMAIN ordenes, NEW q, NEW s
  PROVE  ordenes[i] = Orden(q, s) <=> ordenes[i].que = q /\ ordenes[i].sesion = s
<1>1. ordenes[i] \in Ordenes
  BY DEF TypeOK
<1> QED
  BY <1>1 DEF Ordenes, Orden

\* One place for the frame is one frame.
LEMMA UnLugarUnMarco == TypeOK /\ UnLugar => UnMarco
<1> SUFFICES ASSUME TypeOK, UnLugar, NEW s \in Sesiones
             PROVE  LET cuantos == Cardinality(Marcos(s)) + (IF s \in enNodo THEN 1 ELSE 0)
                                   + (IF s \in reciclado THEN 1 ELSE 0)
                    IN  cuantos <= 1 /\ (cuantos = 1 /\ s \in activas => s \in pendientes)
  BY DEF UnMarco
<1>1. CASE Cola(ordenes, "marco", s)
  <2>1. PICK i \in DOMAIN ordenes : ordenes[i].que = "marco" /\ ordenes[i].sesion = s
    BY <1>1 DEF Cola
  <2>2. Marcos(s) = {i}
    BY <2>1, EsMensaje DEF Marcos, UnLugar, Unica
  <2>3. Cardinality(Marcos(s)) = 1
    BY <2>2, FS_Singleton
  <2> QED
    BY <1>1, <2>3 DEF UnLugar
<1>2. CASE ~Cola(ordenes, "marco", s)
  <2>1. Marcos(s) = {}
    BY <1>2, EsMensaje DEF Marcos, Cola
  <2>2. Cardinality(Marcos(s)) = 0
    BY <2>1, FS_EmptySet
  <2> QED
    BY <2>2 DEF UnLugar
<1> QED
  BY <1>1, <1>2

LEMMA CierreConEmision == TypeOK /\ CierreDetras => NodoConEmision
<1> SUFFICES ASSUME TypeOK, CierreDetras, NEW s \in Sesiones \ activas
             PROVE  /\ nodos[s] # "no" => Cola(ordenes, "cerrar", s)
                    /\ \A i \in DOMAIN ordenes : ordenes[i] = Orden("abrir", s) =>
                           \E j \in DOMAIN ordenes : j > i /\ ordenes[j] = Orden("cerrar", s)
  BY DEF NodoConEmision
<1>1. ASSUME NEW i \in DOMAIN ordenes, ordenes[i] = Orden("abrir", s)
      PROVE  \E j \in DOMAIN ordenes : j > i /\ ordenes[j] = Orden("cerrar", s)
  <2>1. PICK j \in DOMAIN ordenes : i < j /\ ordenes[j].que = "cerrar" /\ ordenes[j].sesion = s
    BY <1>1, UnMensaje DEF CierreDetras, Seguida
  <2>2. i \in Nat /\ j \in Nat
    BY DEF TypeOK
  <2> QED
    BY <2>1, <2>2, EsMensaje
<1> QED
  BY <1>1 DEF CierreDetras

\* For any number of sessions, any of them drawn: every question has who answers it, a
\* card asks for somebody who waits, a session has one frame on its way, a node an
\* emission or its end behind it, and nothing is shared after a no or a cancel
\* (portal.rs, emision.rs and pw.rs together).
THEOREM SesionEnOrdenCorrect == Spec => []SesionEnOrden
<1>1. Inductivo => SesionEnOrden
  BY UnLugarUnMarco, CierreConEmision
     DEF Inductivo, SesionEnOrden, PreguntaEnManos, ComparteConMedida, SoloLoConcedido
<1> QED
  BY <1>1, InductivoCorrect, PTL
===============================================================================
