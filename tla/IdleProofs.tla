----------------------------- MODULE IdleProofs -----------------------------
(***************************************************************************)
(* The alarms of an idle machine, for any settings, units and clients.     *)
(* Orden is inductive; the parts of it that the run checks, and what the   *)
(* suspend alarm may do when it expires, follow.  Every function that      *)
(* programs an alarm has a lemma that says which fields it writes; every   *)
(* action has one that says it keeps Orden.                                *)
(***************************************************************************)
EXTENDS Idle, TLAPS

\* What holds of the compositor's state s beside its types, part by part: nothing
\* runs against what holds it back, the lock is on time and announced, the suspend
\* counts the whole time, and the outputs are as they should be.  AvisoPrevio is
\* strengthened (a warning was tried with at most that much left on the lock's
\* alarm): that is what a touch, which forgets the warning, needs.
BloqueoVigente(s) ==
    s.tickBloqueo # Ninguna => ~s.bloqueado /\ ~Retenido(s) /\ s.plazo > 0
SuspensionVigente(s) ==
    s.tickSuspension # Ninguna => s.bloqueado /\ ~Retenido(s) /\ s.suspension > 0
AvisoVigente(s) == s.alarma # Ninguna => ~Retenido(s) /\ s.plazo > 0

ATiempo(s) ==
    ~s.bloqueado /\ ~Retenido(s) /\ s.plazo > 0 =>
        s.tickBloqueo \in 0..Resta(s.plazo, s.ocio)

Anunciado(s, avisada) ==
    s.tickBloqueo # Ninguna /\ s.atenuada = "no" =>
        \/ s.alarma \in 0..Resta(s.plazo - AvisoDe(s.plazo), s.ocio)
        \/ avisada /\ s.tickBloqueo <= s.plazo - AvisoDe(s.plazo)
        \/ s.tickBloqueo + s.ocio <= s.plazo - AvisoDe(s.plazo)

Contada(s, desde) ==
    s.tickSuspension # Ninguna =>
        /\ s.tickSuspension + s.ocio >= s.suspension
        /\ s.tickSuspension + desde >= s.suspension

Encendida(s, sorda) == ~s.bloqueado /\ ~s.encendido => sorda
Apagandose(s, excusa) ==
    s.bloqueado /\ s.encendido /\ s.tickDpms = Ninguna => excusa

Alarmas(s, desde, avisada) ==
    /\ BloqueoVigente(s) /\ SuspensionVigente(s) /\ AvisoVigente(s)
    /\ ATiempo(s) /\ Anunciado(s, avisada) /\ Contada(s, desde)
Pantalla(s, sorda, excusa) == Encendida(s, sorda) /\ Apagandose(s, excusa)

\* The inductive invariant.
Orden ==
    /\ TypeOK
    /\ Alarmas(e, hace, avisado)
    /\ Pantalla(e, sordaAlAbrir, fallo \/ vuelta)

--------------------------------------------------------------------------------
(* Numbers *)

LEMMA AvisoAcotado ==
  ASSUME NEW plazo \in Plazos
  PROVE  /\ plazo \in 0..Techo /\ AvisoDe(plazo) \in 0..plazo
         /\ AvisoDe(plazo) <= plazo - AvisoDe(plazo)
  <1>1. plazo \in Nat /\ plazo \in 0..Techo /\ AvisoMax \in Nat
    BY PlazosAssumption
  <1>2. plazo \div 2 \in Nat /\ 2 * (plazo \div 2) <= plazo
    BY <1>1
  <1> QED
    BY <1>1, <1>2 DEF AvisoDe

LEMMA RestaAcotada ==
  ASSUME NEW a \in Int, NEW b \in Nat
  PROVE  /\ Resta(a, b) \in Nat
         /\ a >= 0 => Resta(a, b) \in 0..a
         /\ Resta(a, b) > 0 => a > b /\ Resta(a, b) = a - b
  BY DEF Resta

LEMMA RestaHasta ==
  ASSUME NEW n \in Nat, NEW a \in 0..n, NEW b \in Nat
  PROVE  Resta(a, b) \in 0..n
  BY DEF Resta

LEMMA RestaCrece ==
  ASSUME NEW a \in Int, NEW b \in Nat, NEW c \in Nat, c <= b
  PROVE  Resta(a, b) <= Resta(a, c)
  BY DEF Resta

\* The fields of a state, typed.
LEMMA CamposBool ==
  ASSUME NEW s \in Estado
  PROVE  /\ s.bloqueado \in BOOLEAN /\ s.mantener \in BOOLEAN /\ s.encendido \in BOOLEAN
         /\ s.inhibidores \in SUBSET Superficies
         /\ s.atenuada \in {"no", "inactividad", "bateria"}
  BY DEF Estado

LEMMA CamposNum ==
  ASSUME NEW s \in Estado
  PROVE  /\ s.ocio \in 0..Techo /\ s.sordo \in 0..Techo
         /\ s.plazo \in Plazos /\ s.suspension \in Plazos
         /\ s.tickBloqueo \in Alarma /\ s.alarma \in Alarma
         /\ s.tickSuspension \in Alarma /\ s.tickDpms \in Alarma
  BY DEF Estado

LEMMA Campos ==
  ASSUME NEW s \in Estado
  PROVE  /\ Techo \in Nat
         /\ s.ocio \in 0..Techo /\ s.ocio \in Nat /\ s.sordo \in Nat
         /\ s.plazo \in 0..Techo /\ s.plazo \in Nat
         /\ s.suspension \in 0..Techo /\ s.suspension \in Nat
         /\ s.tickBloqueo \in -1..Techo /\ s.alarma \in -1..Techo
         /\ s.tickSuspension \in -1..Techo /\ s.tickDpms \in -1..Techo
  <1>1. Techo \in Nat /\ Plazos \subseteq 0..Techo
    BY PlazosAssumption
  <1>2. Alarma = -1..Techo
    BY DEF Alarma, Ninguna
  <1>3. s.ocio \in 0..Techo /\ s.sordo \in 0..Techo
        /\ s.plazo \in 0..Techo /\ s.suspension \in 0..Techo
    BY <1>1, CamposNum
  <1>4. s.ocio \in Nat /\ s.sordo \in Nat /\ s.plazo \in Nat /\ s.suspension \in Nat
    BY <1>1, <1>3
  <1>5. /\ s.tickBloqueo \in -1..Techo /\ s.alarma \in -1..Techo
        /\ s.tickSuspension \in -1..Techo /\ s.tickDpms \in -1..Techo
    BY <1>2, CamposNum
  <1> QED
    BY <1>1, <1>3, <1>4, <1>5

LEMMA NumerosAlarma ==
  /\ Ninguna \in Alarma /\ Ninguna \in Int /\ Ninguna # 0 /\ Ninguna < 0
  /\ 0..Techo \subseteq Alarma /\ Plazos \subseteq Alarma
  /\ PlazoDpms \in Alarma /\ PlazoDpms # Ninguna
  /\ Sordera \in 0..Techo
  BY PlazosAssumption DEF Alarma, Ninguna

--------------------------------------------------------------------------------
(* The functions that program *)

\* What the functions that program alarms leave alone.
Mismos(s, p) ==
    /\ p.bloqueado = s.bloqueado /\ p.ocio = s.ocio /\ p.plazo = s.plazo
    /\ p.suspension = s.suspension /\ p.mantener = s.mantener
    /\ p.encendido = s.encendido /\ p.sordo = s.sordo /\ p.atenuada = s.atenuada

\* atenuacion::programar writes the warning alarm, and only that.
LEMMA ProgramarCampos ==
  ASSUME NEW s \in Estado
  PROVE  /\ Programar(s) \in Estado
         /\ Mismos(s, Programar(s))
         /\ Programar(s).inhibidores = s.inhibidores
         /\ Programar(s).tickBloqueo = s.tickBloqueo
         /\ Programar(s).tickSuspension = s.tickSuspension
         /\ Programar(s).tickDpms = s.tickDpms
         /\ Programar(s).alarma =
              IF s.plazo = 0 \/ Retenido(s) \/ s.atenuada # "no" \/ s.bloqueado
              THEN Ninguna ELSE Resta(s.plazo - AvisoDe(s.plazo), s.ocio)
  <1> DEFINE a == IF s.plazo = 0 \/ s.inhibidores # {} \/ s.mantener
                     \/ s.atenuada # "no" \/ s.bloqueado
                  THEN Ninguna ELSE Resta(s.plazo - AvisoDe(s.plazo), s.ocio)
  <1>1. a \in Alarma
    <2>1. /\ s.plazo \in Plazos /\ s.plazo \in 0..Techo /\ s.ocio \in Nat /\ Techo \in Nat
      BY Campos, CamposNum
    <2>2. AvisoDe(s.plazo) \in 0..s.plazo
      BY <2>1, AvisoAcotado
    <2> DEFINE d == s.plazo - AvisoDe(s.plazo)
    <2>3. d \in 0..Techo
      BY <2>1, <2>2
    <2> HIDE DEF d
    <2>4. Resta(d, s.ocio) \in 0..Techo
      BY <2>1, <2>3, RestaHasta
    <2> QED
      BY <2>4, NumerosAlarma DEF d
  <1>2. Programar(s) = [s EXCEPT !.alarma = a]
    BY DEF Programar
  <1>3. a = IF s.plazo = 0 \/ Retenido(s) \/ s.atenuada # "no" \/ s.bloqueado
            THEN Ninguna ELSE Resta(s.plazo - AvisoDe(s.plazo), s.ocio)
    BY DEF Retenido
  <1> HIDE DEF a
  <1> QED
    BY <1>1, <1>2, <1>3 DEF Estado, Mismos

\* Without what holds it back the warning is on its way in time.
LEMMA ProgramarAnuncia ==
  ASSUME NEW s \in Estado, NEW p \in Estado, NEW avisada, p.alarma = Programar(s).alarma,
         p.ocio = s.ocio, p.plazo = s.plazo, p.atenuada = s.atenuada,
         p.tickBloqueo # Ninguna => ~s.bloqueado /\ ~Retenido(s) /\ s.plazo > 0
  PROVE  Anunciado(p, avisada)
  <1> SUFFICES ASSUME p.tickBloqueo # Ninguna, p.atenuada = "no"
               PROVE  p.alarma \in 0..Resta(p.plazo - AvisoDe(p.plazo), p.ocio)
    BY DEF Anunciado
  <1>1. p.alarma = Resta(p.plazo - AvisoDe(p.plazo), p.ocio)
    <2>1. /\ ~(s.plazo = 0 \/ Retenido(s) \/ s.atenuada # "no" \/ s.bloqueado)
      BY Campos
    <2>2. Programar(s).alarma =
              IF s.plazo = 0 \/ Retenido(s) \/ s.atenuada # "no" \/ s.bloqueado
              THEN Ninguna ELSE Resta(s.plazo - AvisoDe(s.plazo), s.ocio)
      BY ProgramarCampos
    <2> QED
      BY <2>1, <2>2
  <1>2. p.plazo \in Plazos /\ p.plazo \in Int /\ p.ocio \in Nat
    BY Campos, CamposNum
  <1>3. p.plazo - AvisoDe(p.plazo) \in Int
    BY <1>2, AvisoAcotado
  <1>4. Resta(p.plazo - AvisoDe(p.plazo), p.ocio) \in Nat
    BY <1>2, <1>3, RestaAcotada
  <1> QED
    BY <1>1, <1>4

\* programar_bloqueo_inactividad looks for dead surfaces and writes two alarms.
LEMMA ProgramarBloqueoCampos ==
  ASSUME NEW s \in Estado, NEW viv, NEW p, p = ProgramarBloqueo(s, viv)
  PROVE  /\ p \in Estado
         /\ Mismos(s, p)
         /\ p.inhibidores = s.inhibidores \cap viv
         /\ p.tickSuspension = s.tickSuspension
         /\ p.tickDpms = s.tickDpms
         /\ BloqueoVigente(p) /\ AvisoVigente(p) /\ ATiempo(p)
         /\ Anunciado(p, FALSE)
  <1> DEFINE c == [s EXCEPT !.inhibidores = @ \cap viv]
             q == Programar(c)
             a == IF q.plazo = 0 \/ q.inhibidores # {} \/ q.mantener \/ q.bloqueado
                  THEN Ninguna ELSE Resta(q.plazo, q.ocio)
  <1>1. c \in Estado /\ Mismos(s, c) /\ c.inhibidores = s.inhibidores \cap viv
        /\ c.tickBloqueo = s.tickBloqueo /\ c.tickSuspension = s.tickSuspension
        /\ c.tickDpms = s.tickDpms
    BY DEF Estado, Mismos
  <1> HIDE DEF c
  <1>2. /\ q \in Estado /\ Mismos(c, q) /\ q.inhibidores = c.inhibidores
        /\ q.tickSuspension = c.tickSuspension /\ q.tickDpms = c.tickDpms
        /\ q.alarma = IF c.plazo = 0 \/ Retenido(c) \/ c.atenuada # "no" \/ c.bloqueado
                      THEN Ninguna ELSE Resta(c.plazo - AvisoDe(c.plazo), c.ocio)
    BY <1>1, ProgramarCampos
  <1>3. p = [q EXCEPT !.tickBloqueo = a]
    BY DEF ProgramarBloqueo, c
  <1>4. /\ q.plazo \in 0..Techo /\ q.ocio \in Nat /\ Techo \in Nat
        /\ Resta(q.plazo, q.ocio) \in 0..Techo
    <2>1. q.plazo \in 0..Techo /\ q.ocio \in Nat /\ Techo \in Nat
      BY <1>2, Campos
    <2>2. Resta(q.plazo, q.ocio) \in 0..Techo
      BY <2>1, RestaHasta
    <2> QED
      BY <2>1, <2>2
  <1>5. a \in Alarma
    BY <1>4, NumerosAlarma
  <1>6. a # Ninguna => ~q.bloqueado /\ ~Retenido(q) /\ q.plazo > 0
    BY <1>4 DEF Retenido
  <1>7. ~q.bloqueado /\ ~Retenido(q) /\ q.plazo > 0 => a = Resta(q.plazo, q.ocio)
    BY <1>4 DEF Retenido
  <1> HIDE DEF a, q
  <1>8. /\ p \in Estado /\ Mismos(q, p) /\ p.inhibidores = q.inhibidores
        /\ p.tickSuspension = q.tickSuspension /\ p.tickDpms = q.tickDpms
        /\ p.alarma = q.alarma /\ p.tickBloqueo = a
    BY <1>2, <1>3, <1>5 DEF Estado, Mismos
  <1>9. Retenido(p) = Retenido(q) /\ Retenido(q) = Retenido(c)
    BY <1>2, <1>8 DEF Retenido, Mismos
  <1>10. BloqueoVigente(p)
    BY <1>6, <1>8, <1>9 DEF BloqueoVigente, Mismos
  <1>11. AvisoVigente(p)
    <2>1. c.plazo \in 0..Techo /\ Techo \in Nat
      BY <1>1, Campos
    <2> QED
      BY <1>2, <1>8, <1>9, <2>1 DEF AvisoVigente, Mismos
  <1>12. ATiempo(p)
    <2>1. ~p.bloqueado /\ ~Retenido(p) /\ p.plazo > 0
            => p.tickBloqueo = Resta(p.plazo, p.ocio)
      BY <1>7, <1>8, <1>9 DEF Mismos
    <2>2. Resta(p.plazo, p.ocio) \in Nat
      BY <1>4, <1>8 DEF Mismos
    <2> QED
      BY <2>1, <2>2 DEF ATiempo
  <1>13. Anunciado(p, FALSE)
    <2>1. p.tickBloqueo # Ninguna => ~c.bloqueado /\ ~Retenido(c) /\ c.plazo > 0
      BY <1>2, <1>6, <1>8, <1>9 DEF Mismos
    <2>2. p.alarma = Programar(c).alarma
      BY <1>8 DEF q
    <2>3. p.ocio = c.ocio /\ p.plazo = c.plazo /\ p.atenuada = c.atenuada
      BY <1>2, <1>8 DEF Mismos
    <2> QED
      BY <1>1, <1>8, <2>1, <2>2, <2>3, ProgramarAnuncia
  <1> QED
    BY <1>1, <1>2, <1>8, <1>10, <1>11, <1>12, <1>13 DEF Mismos

\* programar_suspension_inactividad starts the count again, or stops it.
LEMMA ProgramarSuspensionCampos ==
  ASSUME NEW s \in Estado, NEW viv, NEW p, p = ProgramarSuspension(s, viv)
  PROVE  /\ p \in Estado
         /\ Mismos(s, p)
         /\ p.inhibidores = s.inhibidores \cap viv
         /\ p.tickBloqueo = s.tickBloqueo
         /\ p.alarma = s.alarma
         /\ p.tickDpms = s.tickDpms
         /\ SuspensionVigente(p)
         /\ \A desde \in Nat : Contada(p, desde)
  <1> DEFINE c == [s EXCEPT !.inhibidores = @ \cap viv]
             a == IF c.suspension = 0 \/ c.inhibidores # {} \/ c.mantener \/ ~c.bloqueado
                  THEN Ninguna ELSE c.suspension
  <1>1. /\ c \in Estado /\ Mismos(s, c) /\ c.inhibidores = s.inhibidores \cap viv
        /\ c.tickBloqueo = s.tickBloqueo /\ c.alarma = s.alarma
        /\ c.tickDpms = s.tickDpms
    BY DEF Estado, Mismos
  <1>2. p = [c EXCEPT !.tickSuspension = a]
    BY DEF ProgramarSuspension
  <1> HIDE DEF c
  <1>3. c.suspension \in Plazos /\ c.suspension \in Nat /\ c.ocio \in Nat
    BY <1>1, Campos, CamposNum
  <1>4. a \in Alarma
    BY <1>3, NumerosAlarma
  <1>5. a # Ninguna => a = c.suspension /\ c.bloqueado /\ ~Retenido(c) /\ c.suspension > 0
    BY <1>3 DEF Retenido
  <1> HIDE DEF a
  <1>6. /\ p \in Estado /\ Mismos(c, p) /\ p.inhibidores = c.inhibidores
        /\ p.tickBloqueo = c.tickBloqueo /\ p.alarma = c.alarma
        /\ p.tickDpms = c.tickDpms /\ p.tickSuspension = a
    BY <1>1, <1>2, <1>4 DEF Estado, Mismos
  <1>7. SuspensionVigente(p)
    BY <1>5, <1>6 DEF SuspensionVigente, Retenido, Mismos
  <1>8. \A desde \in Nat : Contada(p, desde)
    BY <1>3, <1>5, <1>6 DEF Contada, Mismos
  <1> QED
    BY <1>1, <1>6, <1>7, <1>8 DEF Mismos

--------------------------------------------------------------------------------
(* What the functions keep *)

\* The alarms do not depend on the outputs.
Iguales(s, p) ==
    /\ p.bloqueado = s.bloqueado /\ p.ocio = s.ocio /\ p.plazo = s.plazo
    /\ p.suspension = s.suspension /\ p.mantener = s.mantener
    /\ p.inhibidores = s.inhibidores /\ p.atenuada = s.atenuada
    /\ p.tickBloqueo = s.tickBloqueo /\ p.alarma = s.alarma
    /\ p.tickSuspension = s.tickSuspension

LEMMA AlarmasIguales ==
  ASSUME NEW s, NEW p, NEW desde, NEW avisada, Iguales(s, p), Alarmas(s, desde, avisada)
  PROVE  Alarmas(p, desde, avisada)
  BY DEF Iguales, Alarmas, BloqueoVigente, SuspensionVigente, AvisoVigente, ATiempo,
         Anunciado, Contada, Retenido

\* Nor the outputs on the alarms.
LEMMA PantallaMisma ==
  ASSUME NEW s, NEW p, NEW sorda, NEW excusa, Mismos(s, p), p.tickDpms = s.tickDpms,
         Pantalla(s, sorda, excusa)
  PROVE  Pantalla(p, sorda, excusa)
  BY DEF Mismos, Pantalla, Encendida, Apagandose

\* A warning that was tried, or not, is one when nothing says so.
LEMMA AvisadaSobra ==
  ASSUME NEW s, NEW avisada, Anunciado(s, FALSE)
  PROVE  Anunciado(s, avisada)
  BY DEF Anunciado

\* programar gives the warning back its time and disturbs nothing else.
LEMMA ProgramarBien ==
  ASSUME NEW s \in Estado, NEW desde, NEW avisada, NEW p, p = Programar(s),
         BloqueoVigente(s), SuspensionVigente(s), ATiempo(s), Contada(s, desde)
  PROVE  p \in Estado /\ Mismos(s, p) /\ p.tickDpms = s.tickDpms
         /\ Alarmas(p, desde, avisada)
  <1>1. /\ p \in Estado /\ Mismos(s, p) /\ p.inhibidores = s.inhibidores
        /\ p.tickBloqueo = s.tickBloqueo /\ p.tickSuspension = s.tickSuspension
        /\ p.tickDpms = s.tickDpms /\ p.alarma = Programar(s).alarma
    BY ProgramarCampos
  <1>2. p.alarma = IF s.plazo = 0 \/ Retenido(s) \/ s.atenuada # "no" \/ s.bloqueado
                   THEN Ninguna ELSE Resta(s.plazo - AvisoDe(s.plazo), s.ocio)
    BY <1>1, ProgramarCampos
  <1>3. Retenido(p) = Retenido(s)
    BY <1>1 DEF Retenido, Mismos
  <1>4. BloqueoVigente(p) /\ SuspensionVigente(p) /\ ATiempo(p) /\ Contada(p, desde)
    BY <1>1, <1>3 DEF BloqueoVigente, SuspensionVigente, ATiempo, Contada, Mismos
  <1>5. AvisoVigente(p)
    <2>1. s.plazo \in Nat
      BY Campos
    <2> QED
      BY <1>1, <1>2, <1>3, <2>1 DEF AvisoVigente, Mismos
  <1>6. Anunciado(p, avisada)
    <2>1. p.tickBloqueo # Ninguna => ~s.bloqueado /\ ~Retenido(s) /\ s.plazo > 0
      BY <1>1 DEF BloqueoVigente
    <2>2. p.ocio = s.ocio /\ p.plazo = s.plazo /\ p.atenuada = s.atenuada
      BY <1>1 DEF Mismos
    <2> QED
      BY <1>1, <2>1, <2>2, ProgramarAnuncia
  <1> QED
    BY <1>1, <1>4, <1>5, <1>6 DEF Alarmas

\* restaurar and olvidar: the warning that was shown is programmed again.
LEMMA RestaurarBien ==
  ASSUME NEW s \in Estado, NEW desde, NEW avisada, NEW p, p = Restaurar(s),
         Alarmas(s, desde, avisada)
  PROVE  /\ p \in Estado /\ Alarmas(p, desde, avisada)
         /\ p.bloqueado = s.bloqueado /\ p.encendido = s.encendido
         /\ p.sordo = s.sordo /\ p.tickDpms = s.tickDpms /\ p.mantener = s.mantener
  <1>1. CASE s.atenuada = "no"
    BY <1>1 DEF Restaurar
  <1>2. CASE s.atenuada # "no"
    <2> DEFINE c == [s EXCEPT !.atenuada = "no"]
    <2>1. /\ c \in Estado /\ c.inhibidores = s.inhibidores
          /\ c.tickBloqueo = s.tickBloqueo /\ c.tickSuspension = s.tickSuspension
          /\ c.tickDpms = s.tickDpms /\ c.bloqueado = s.bloqueado
          /\ c.encendido = s.encendido /\ c.sordo = s.sordo /\ c.ocio = s.ocio
          /\ c.plazo = s.plazo /\ c.suspension = s.suspension
          /\ c.mantener = s.mantener
      BY DEF Estado
    <2>2. p = Programar(c)
      BY <1>2 DEF Restaurar
    <2> HIDE DEF c
    <2>3. BloqueoVigente(c) /\ SuspensionVigente(c) /\ ATiempo(c) /\ Contada(c, desde)
      BY <2>1 DEF Alarmas, BloqueoVigente, SuspensionVigente, ATiempo, Contada, Retenido
    <2>4. /\ p \in Estado /\ Mismos(c, p) /\ p.tickDpms = c.tickDpms
          /\ Alarmas(p, desde, avisada)
      BY <2>1, <2>2, <2>3, ProgramarBien
    <2> QED
      BY <2>1, <2>4 DEF Mismos
  <1> QED
    BY <1>1, <1>2

\* despertar_dpms, unless the compositor is deaf: whoever is there has light, and
\* a lock has its ten seconds again.
LEMMA DespertarBien ==
  ASSUME NEW s \in Estado, NEW sorda, NEW excusa, NEW p, p = Despertar(s),
         s.sordo > 0 => Pantalla(s, sorda, excusa)
  PROVE  /\ p \in Estado /\ Iguales(s, p) /\ p.sordo = s.sordo
         /\ Pantalla(p, s.sordo > 0 /\ sorda, s.sordo > 0 /\ excusa)
  <1>1. CASE s.sordo > 0
    <2>1. p = s
      BY <1>1 DEF Despertar
    <2> QED
      BY <1>1, <2>1 DEF Iguales, Pantalla, Encendida, Apagandose
  <1>2. CASE ~(s.sordo > 0)
    <2> DEFINE c == [s EXCEPT !.encendido = TRUE]
    <2>1. /\ c \in Estado /\ Iguales(s, c) /\ c.sordo = s.sordo /\ c.encendido = TRUE
      BY DEF Estado, Iguales
    <2>2. p = IF s.bloqueado THEN ProgramarDpms(c) ELSE c
      BY <1>2 DEF Despertar
    <2> HIDE DEF c
    <2>3. CASE s.bloqueado
      <3>1. p = [c EXCEPT !.tickDpms = PlazoDpms]
        BY <2>1, <2>2, <2>3 DEF ProgramarDpms, Iguales
      <3>2. /\ p \in Estado /\ Iguales(c, p) /\ p.sordo = c.sordo
            /\ p.tickDpms = PlazoDpms
        BY <2>1, <3>1, NumerosAlarma DEF Estado, Iguales
      <3>3. p.bloqueado /\ p.tickDpms # Ninguna
        BY <2>1, <2>3, <3>2, NumerosAlarma DEF Iguales
      <3> QED
        BY <2>1, <3>2, <3>3 DEF Iguales, Pantalla, Encendida, Apagandose
    <2>4. CASE ~s.bloqueado
      BY <2>1, <2>2, <2>4 DEF Iguales, Pantalla, Encendida, Apagandose
    <2> QED
      BY <2>3, <2>4
  <1> QED
    BY <1>1, <1>2

\* Both programming functions together: everything is programmed afresh.
LEMMA ProgramarAmbasBien ==
  ASSUME NEW s \in Estado, NEW viv, NEW p, p = ProgramarAmbas(s, viv)
  PROVE  /\ p \in Estado /\ Mismos(s, p) /\ p.tickDpms = s.tickDpms
         /\ \A desde \in Nat : \A avisada \in BOOLEAN : Alarmas(p, desde, avisada)
  <1> DEFINE q == ProgramarBloqueo(s, viv)
  <1>1. /\ q \in Estado /\ Mismos(s, q) /\ q.inhibidores = s.inhibidores \cap viv
        /\ q.tickDpms = s.tickDpms
        /\ BloqueoVigente(q) /\ AvisoVigente(q) /\ ATiempo(q) /\ Anunciado(q, FALSE)
    BY ProgramarBloqueoCampos
  <1>2. p = ProgramarSuspension(q, viv)
    BY DEF ProgramarAmbas
  <1> HIDE DEF q
  <1>3. /\ p \in Estado /\ Mismos(q, p) /\ p.inhibidores = q.inhibidores \cap viv
        /\ p.tickBloqueo = q.tickBloqueo /\ p.alarma = q.alarma
        /\ p.tickDpms = q.tickDpms
        /\ SuspensionVigente(p) /\ \A desde \in Nat : Contada(p, desde)
    BY <1>1, <1>2, ProgramarSuspensionCampos
  <1>4. p.inhibidores = q.inhibidores
    BY <1>1, <1>3
  <1>5. Retenido(p) = Retenido(q)
    BY <1>3, <1>4 DEF Retenido, Mismos
  <1>6. BloqueoVigente(p) /\ AvisoVigente(p) /\ ATiempo(p)
    BY <1>1, <1>3, <1>5 DEF BloqueoVigente, AvisoVigente, ATiempo, Mismos
  <1>7. Anunciado(p, FALSE)
    BY <1>1, <1>3 DEF Anunciado, Mismos
  <1>8. \A avisada \in BOOLEAN : Anunciado(p, avisada)
    BY <1>7, AvisadaSobra
  <1> QED
    BY <1>1, <1>3, <1>6, <1>8 DEF Alarmas, Mismos

\* bloquear: the lock's alarm is gone, the suspend counts from now, and the
\* outputs have their ten seconds.
LEMMA BloquearBien ==
  ASSUME NEW s \in Estado, NEW viv, NEW p, p = Bloquear(s, viv),
         ~s.bloqueado, AvisoVigente(s)
  PROVE  /\ p \in Estado /\ p.bloqueado = TRUE /\ p.tickDpms # Ninguna
         /\ \A desde \in Nat : \A avisada \in BOOLEAN : Alarmas(p, desde, avisada)
  <1> DEFINE b == [s EXCEPT !.bloqueado = TRUE, !.tickBloqueo = Ninguna]
             q == [b EXCEPT !.tickDpms = PlazoDpms]
  <1>1. /\ b \in Estado /\ b.bloqueado = TRUE /\ b.tickBloqueo = Ninguna
        /\ b.alarma = s.alarma /\ b.inhibidores = s.inhibidores
        /\ b.mantener = s.mantener /\ b.plazo = s.plazo
    BY NumerosAlarma DEF Estado
  <1>2. p = ProgramarSuspension(ProgramarDpms(b), viv)
    BY DEF Bloquear
  <1>3. ProgramarDpms(b) = q
    BY <1>1 DEF ProgramarDpms
  <1> HIDE DEF b
  <1>4. /\ q \in Estado /\ q.bloqueado = TRUE /\ q.tickBloqueo = Ninguna
        /\ q.alarma = b.alarma /\ q.inhibidores = b.inhibidores
        /\ q.mantener = b.mantener /\ q.plazo = b.plazo /\ q.tickDpms = PlazoDpms
    BY <1>1, NumerosAlarma DEF Estado
  <1> HIDE DEF q
  <1>5. /\ p \in Estado /\ Mismos(q, p) /\ p.inhibidores = q.inhibidores \cap viv
        /\ p.tickBloqueo = q.tickBloqueo /\ p.alarma = q.alarma
        /\ p.tickDpms = q.tickDpms
        /\ SuspensionVigente(p) /\ \A desde \in Nat : Contada(p, desde)
    BY <1>2, <1>3, <1>4, ProgramarSuspensionCampos
  <1>6. p.bloqueado = TRUE /\ p.tickBloqueo = Ninguna /\ p.tickDpms # Ninguna
    BY <1>4, <1>5, NumerosAlarma DEF Mismos
  <1>7. BloqueoVigente(p) /\ ATiempo(p) /\ \A avisada \in BOOLEAN : Anunciado(p, avisada)
    BY <1>6 DEF BloqueoVigente, ATiempo, Anunciado
  <1>8. AvisoVigente(p)
    <2>1. Retenido(p) => Retenido(s)
      BY <1>1, <1>4, <1>5 DEF Retenido, Mismos
    <2> QED
      BY <1>1, <1>4, <1>5, <2>1 DEF AvisoVigente, Mismos
  <1> QED
    BY <1>5, <1>6, <1>7, <1>8 DEF Alarmas

\* A dark or lit lock, with its ten seconds running.
LEMMA PantallaBloqueada ==
  ASSUME NEW p, p.bloqueado = TRUE, p.tickDpms # Ninguna, NEW sorda, NEW excusa
  PROVE  Pantalla(p, sorda, excusa)
  BY DEF Pantalla, Encendida, Apagandose

\* bloquear, called from wherever: in a locked session it does nothing.
LEMMA BloquearSiempre ==
  ASSUME NEW s \in Estado, NEW viv, NEW p, p = Bloquear(s, viv),
         NEW desde \in Nat, NEW d \in Nat, NEW avisada \in BOOLEAN, NEW sorda, NEW excusa,
         NEW x,
         Alarmas(s, desde, avisada), Pantalla(s, sorda, excusa),
         s.bloqueado => d = desde /\ x = excusa
  PROVE  p \in Estado /\ p.bloqueado = TRUE
         /\ Alarmas(p, d, avisada) /\ Pantalla(p, sorda, x)
  <1>0. s.bloqueado \in BOOLEAN
    BY CamposBool
  <1>1. CASE s.bloqueado
    <2>1. p = s
      BY <1>1 DEF Bloquear
    <2> QED
      BY <1>0, <1>1, <2>1
  <1>2. CASE ~s.bloqueado
    BY <1>2, BloquearBien, PantallaBloqueada DEF Alarmas
  <1> QED
    BY <1>1, <1>2

\* Accion::Desbloquear: the lock's alarm runs again, and there is light unless the
\* compositor was deaf.
LEMMA DesbloquearBien ==
  ASSUME NEW s \in Estado, NEW viv, NEW p, p = Desbloquear(s, viv)
  PROVE  /\ p \in Estado
         /\ \A desde \in Nat : Alarmas(p, desde, FALSE)
         /\ \A excusa \in BOOLEAN : Pantalla(p, s.sordo > 0, excusa)
  <1> DEFINE b == [s EXCEPT !.tickSuspension = Ninguna, !.bloqueado = FALSE, !.ocio = 0]
             q == ProgramarBloqueo(b, viv)
  <1>1. /\ b \in Estado /\ b.bloqueado = FALSE /\ b.tickSuspension = Ninguna
        /\ b.sordo = s.sordo
    <2>1. 0 \in 0..Techo /\ Ninguna \in Alarma
      BY PlazosAssumption, NumerosAlarma
    <2> QED
      BY <2>1 DEF Estado
  <1>2. p = Despertar(q)
    BY DEF Desbloquear
  <1> HIDE DEF b
  <1>3. /\ q \in Estado /\ Mismos(b, q) /\ q.tickSuspension = b.tickSuspension
        /\ BloqueoVigente(q) /\ AvisoVigente(q) /\ ATiempo(q) /\ Anunciado(q, FALSE)
    BY <1>1, ProgramarBloqueoCampos
  <1> HIDE DEF q
  <1>4. q.bloqueado = FALSE /\ q.tickSuspension = Ninguna /\ q.sordo = s.sordo
    BY <1>1, <1>3 DEF Mismos
  <1>5. \A desde \in Nat : Alarmas(q, desde, FALSE)
    BY <1>3, <1>4 DEF Alarmas, SuspensionVigente, Contada
  <1>6. \A excusa \in BOOLEAN : Pantalla(q, TRUE, excusa)
    BY <1>4 DEF Pantalla, Encendida, Apagandose
  <1>7. /\ p \in Estado /\ Iguales(q, p)
        /\ Pantalla(p, q.sordo > 0 /\ TRUE, q.sordo > 0 /\ FALSE)
    BY <1>2, <1>3, <1>6, DespertarBien
  <1>8. p.bloqueado = FALSE
    BY <1>4, <1>7 DEF Iguales
  <1>9. \A excusa \in BOOLEAN : Pantalla(p, s.sordo > 0, excusa)
    BY <1>4, <1>7, <1>8 DEF Pantalla, Encendida, Apagandose
  <1> QED
    BY <1>5, <1>7, <1>9, AlarmasIguales

\* input::handle: a touch forgets the warning and the time that passed.
LEMMA TocarBien ==
  ASSUME NEW s \in Estado, NEW viv, NEW p, p = Tocar(s, viv),
         NEW desde \in Nat, NEW avisada, NEW sorda, NEW excusa,
         Alarmas(s, desde, avisada), Pantalla(s, sorda, excusa)
  PROVE  /\ p \in Estado /\ p.bloqueado = s.bloqueado
         /\ Alarmas(p, desde, FALSE)
         /\ Pantalla(p, s.sordo > 0 /\ sorda, s.sordo > 0 /\ excusa)
  <1> DEFINE t == [s EXCEPT !.ocio = 0]
             a == IF t.atenuada = "inactividad" THEN Restaurar(t) ELSE t
             d == Despertar(a)
  <1>0. s.bloqueado \in BOOLEAN
    BY CamposBool
  <1>1. /\ t \in Estado /\ t.ocio = 0 /\ t.bloqueado = s.bloqueado /\ t.plazo = s.plazo
        /\ t.suspension = s.suspension /\ t.mantener = s.mantener
        /\ t.inhibidores = s.inhibidores /\ t.atenuada = s.atenuada
        /\ t.tickBloqueo = s.tickBloqueo /\ t.alarma = s.alarma
        /\ t.tickSuspension = s.tickSuspension /\ t.encendido = s.encendido
        /\ t.sordo = s.sordo /\ t.tickDpms = s.tickDpms
    <2>1. 0 \in 0..Techo
      BY PlazosAssumption
    <2> QED
      BY <2>1 DEF Estado
  <1>p. p = IF d.bloqueado THEN ProgramarSuspension(d, viv) ELSE d
    BY DEF Tocar
  <1> HIDE DEF t
  <1>2. BloqueoVigente(t) /\ SuspensionVigente(t) /\ AvisoVigente(t)
    BY <1>1 DEF Alarmas, BloqueoVigente, SuspensionVigente, AvisoVigente, Retenido
  <1>3. /\ s.plazo \in Nat /\ s.ocio \in Nat /\ AvisoDe(s.plazo) \in 0..s.plazo
        /\ AvisoDe(s.plazo) <= s.plazo - AvisoDe(s.plazo)
    BY Campos, CamposNum, AvisoAcotado
  <1>4. ATiempo(t)
    <2>1. Resta(s.plazo, s.ocio) <= Resta(s.plazo, 0)
          /\ Resta(s.plazo, s.ocio) \in Nat /\ Resta(s.plazo, 0) \in Nat
      BY <1>3 DEF Resta
    <2>2. 0..Resta(s.plazo, s.ocio) \subseteq 0..Resta(t.plazo, t.ocio)
      BY <1>1, <2>1
    <2> QED
      BY <1>1, <2>2 DEF Alarmas, ATiempo, Retenido
  <1>5. Anunciado(t, FALSE)
    <2> DEFINE m == s.plazo - AvisoDe(s.plazo)
    <2>1. m \in Nat
      BY <1>3
    <2>2. \A n \in Nat : /\ Resta(n, s.ocio) <= Resta(n, 0)
                         /\ Resta(n, s.ocio) \in Nat /\ Resta(n, 0) \in Nat
      BY <1>3 DEF Resta
    <2>3. 0..Resta(m, s.ocio) \subseteq 0..Resta(m, 0)
      <3> HIDE DEF m
      <3>1. /\ Resta(m, s.ocio) <= Resta(m, 0)
            /\ Resta(m, s.ocio) \in Nat /\ Resta(m, 0) \in Nat
        BY <2>1, <2>2
      <3> QED
        BY <3>1
    <2>4. s.tickBloqueo \in Int
      BY Campos
    <2>5. s.tickBloqueo # Ninguna /\ s.atenuada = "no" =>
             \/ s.alarma \in 0..Resta(m, s.ocio)
             \/ s.tickBloqueo <= m
             \/ s.tickBloqueo + s.ocio <= m
      BY DEF Alarmas, Anunciado
    <2> HIDE DEF m
    <2>6. s.tickBloqueo # Ninguna /\ s.atenuada = "no" =>
             \/ s.alarma \in 0..Resta(m, 0)
             \/ s.tickBloqueo + 0 <= m
      BY <1>3, <2>1, <2>3, <2>4, <2>5
    <2> QED
      BY <1>1, <2>6 DEF Anunciado, m
  <1>6. ~t.bloqueado => Contada(t, desde)
    BY <1>2 DEF SuspensionVigente, Contada
  <1>7. Pantalla(t, sorda, excusa)
    BY <1>1 DEF Pantalla, Encendida, Apagandose
  <1>8. /\ a \in Estado /\ a.bloqueado = t.bloqueado /\ a.sordo = t.sordo
        /\ BloqueoVigente(a) /\ AvisoVigente(a) /\ ATiempo(a) /\ Anunciado(a, FALSE)
        /\ SuspensionVigente(a)
        /\ ~t.bloqueado => Contada(a, desde)
        /\ Pantalla(a, sorda, excusa)
    <2>1. CASE t.atenuada # "inactividad"
      BY <1>1, <1>2, <1>4, <1>5, <1>6, <1>7, <2>1
    <2>2. CASE t.atenuada = "inactividad"
      <3> DEFINE c == [t EXCEPT !.atenuada = "no"]
                 h == [c EXCEPT !.tickSuspension = Ninguna]
      <3>1. a = Programar(c)
        BY <2>2 DEF Restaurar
      <3>2. /\ c \in Estado /\ c.inhibidores = t.inhibidores
            /\ c.tickBloqueo = t.tickBloqueo /\ c.tickSuspension = t.tickSuspension
            /\ c.tickDpms = t.tickDpms /\ c.bloqueado = t.bloqueado
            /\ c.encendido = t.encendido /\ c.sordo = t.sordo /\ c.ocio = t.ocio
            /\ c.plazo = t.plazo /\ c.suspension = t.suspension
            /\ c.mantener = t.mantener
        BY <1>1 DEF Estado
      <3> HIDE DEF c, a
      <3>3. BloqueoVigente(c) /\ SuspensionVigente(c) /\ ATiempo(c)
        BY <1>2, <1>4, <3>2 DEF BloqueoVigente, SuspensionVigente, ATiempo, Retenido
      <3>4. /\ a \in Estado /\ Mismos(c, a) /\ a.inhibidores = c.inhibidores
            /\ a.tickBloqueo = c.tickBloqueo /\ a.tickSuspension = c.tickSuspension
            /\ a.tickDpms = c.tickDpms /\ a.alarma = Programar(c).alarma
        BY <3>1, <3>2, ProgramarCampos
      <3>5. a.alarma = IF c.plazo = 0 \/ Retenido(c) \/ c.atenuada # "no" \/ c.bloqueado
                       THEN Ninguna ELSE Resta(c.plazo - AvisoDe(c.plazo), c.ocio)
        BY <3>1, <3>2, ProgramarCampos
      <3>6. c.plazo \in Nat
        BY <3>2, Campos
      <3>7. BloqueoVigente(a) /\ SuspensionVigente(a) /\ ATiempo(a) /\ AvisoVigente(a)
        BY <3>3, <3>4, <3>5, <3>6
           DEF BloqueoVigente, SuspensionVigente, ATiempo, AvisoVigente, Retenido, Mismos
      <3>8. Anunciado(a, FALSE)
        <4>1. a.tickBloqueo # Ninguna => ~c.bloqueado /\ ~Retenido(c) /\ c.plazo > 0
          BY <3>3, <3>4 DEF BloqueoVigente
        <4>2. a.ocio = c.ocio /\ a.plazo = c.plazo /\ a.atenuada = c.atenuada
          BY <3>4 DEF Mismos
        <4> QED
          BY <3>2, <3>4, <4>1, <4>2, ProgramarAnuncia
      <3>9. ~t.bloqueado => Contada(a, desde)
        BY <1>6, <3>2, <3>4 DEF Contada, Mismos
      <3>10. Pantalla(a, sorda, excusa)
        BY <1>7, <3>2, <3>4 DEF Pantalla, Encendida, Apagandose, Mismos
      <3> QED
        BY <3>2, <3>4, <3>7, <3>8, <3>9, <3>10 DEF Mismos
    <2> QED
      BY <2>1, <2>2
  <1> HIDE DEF a
  <1>9. /\ d \in Estado /\ Iguales(a, d)
        /\ Pantalla(d, a.sordo > 0 /\ sorda, a.sordo > 0 /\ excusa)
    BY <1>8, DespertarBien
  <1> HIDE DEF d
  <1>10. d.bloqueado = s.bloqueado /\ a.sordo = s.sordo /\ a.bloqueado = s.bloqueado
    BY <1>1, <1>8, <1>9 DEF Iguales
  <1>11. CASE s.bloqueado
    <2>1. p = ProgramarSuspension(d, viv)
      BY <1>p, <1>10, <1>11
    <2>2. /\ p \in Estado /\ Mismos(d, p) /\ p.inhibidores = d.inhibidores \cap viv
          /\ p.tickBloqueo = d.tickBloqueo /\ p.alarma = d.alarma
          /\ p.tickDpms = d.tickDpms
          /\ SuspensionVigente(p) /\ \A h \in Nat : Contada(p, h)
      BY <1>9, <2>1, ProgramarSuspensionCampos
    <2>3. p.bloqueado /\ p.tickBloqueo = Ninguna
      BY <1>8, <1>9, <1>10, <1>11, <2>2 DEF Mismos, Iguales, BloqueoVigente
    <2>4. BloqueoVigente(p) /\ ATiempo(p) /\ Anunciado(p, FALSE)
      BY <2>3 DEF BloqueoVigente, ATiempo, Anunciado
    <2>5. AvisoVigente(p)
      BY <1>8, <1>9, <2>2 DEF AvisoVigente, Retenido, Iguales, Mismos
    <2>6. Pantalla(p, s.sordo > 0 /\ sorda, s.sordo > 0 /\ excusa)
      BY <1>9, <1>10, <2>2, PantallaMisma
    <2> QED
      BY <1>10, <2>2, <2>4, <2>5, <2>6 DEF Alarmas, Mismos
  <1>12. CASE ~s.bloqueado
    <2>1. p = d
      BY <1>p, <1>10, <1>12
    <2>2. Alarmas(a, desde, FALSE)
      BY <1>1, <1>8, <1>12 DEF Alarmas
    <2>3. Alarmas(d, desde, FALSE)
      BY <1>9, <2>2, AlarmasIguales
    <2> QED
      BY <1>9, <1>10, <2>1, <2>3
  <1> QED
    BY <1>0, <1>11, <1>12

--------------------------------------------------------------------------------
(* The steps *)

\* What is outside the compositor, and what the history says, in their types.
Exterior ==
    /\ vivas \subseteq Superficies /\ objetos \subseteq Superficies
    /\ activa \in BOOLEAN /\ dormido \in BOOLEAN /\ aviso \in BOOLEAN
    /\ pedida \in {"no", "usuario", "alarma"}
Recuerdo ==
    /\ avisado \in BOOLEAN /\ fallo \in BOOLEAN /\ vuelta \in BOOLEAN
    /\ sordaAlAbrir \in BOOLEAN /\ hace \in 0..Techo

LEMMA Partes ==
  ASSUME Orden
  PROVE  /\ e \in Estado /\ Exterior /\ Recuerdo
         /\ hace \in Nat /\ Techo \in Nat /\ 0 \in 0..Techo /\ (fallo \/ vuelta) \in BOOLEAN
         /\ e.bloqueado \in BOOLEAN
         /\ Alarmas(e, hace, avisado)
         /\ Pantalla(e, sordaAlAbrir, fallo \/ vuelta)
  <1>1. Techo \in Nat /\ 0 \in 0..Techo
    BY PlazosAssumption
  <1>2. TypeOK /\ e \in Estado
    BY DEF Orden, TypeOK
  <1>3. e.bloqueado \in BOOLEAN
    BY <1>2, CamposBool
  <1>4. Exterior /\ Recuerdo /\ hace \in Nat
    BY <1>1, <1>2 DEF TypeOK, Exterior, Recuerdo
  <1>5. (fallo \/ vuelta) \in BOOLEAN
    OBVIOUS
  <1> QED
    BY <1>1, <1>2, <1>3, <1>4, <1>5 DEF Orden

LEMMA Juntas ==
  ASSUME e' \in Estado, Exterior', Recuerdo', Alarmas(e', hace', avisado'),
         Pantalla(e', sordaAlAbrir', fallo' \/ vuelta')
  PROVE  Orden'
  <1>1. TypeOK'
    BY DEF TypeOK, Exterior, Recuerdo
  <1> QED
    BY <1>1 DEF Orden

\* Less is asked of the outputs where more is excused.
LEMMA PantallaExcusada ==
  ASSUME NEW p, NEW sorda, NEW excusa, NEW sorda2, NEW excusa2,
         Pantalla(p, sorda, excusa), sorda => sorda2, excusa => excusa2
  PROVE  Pantalla(p, sorda2, excusa2)
  BY DEF Pantalla, Encendida, Apagandose

LEMMA AtendidaBien ==
  ASSUME Orden, Atendida, NEW p,
         Pantalla(p, e.sordo > 0 /\ sordaAlAbrir, e.sordo > 0 /\ (fallo \/ vuelta))
  PROVE  /\ Pantalla(p, sordaAlAbrir', fallo' \/ vuelta')
         /\ avisado' = FALSE /\ avisado' \in BOOLEAN /\ fallo' \in BOOLEAN
         /\ vuelta' \in BOOLEAN /\ sordaAlAbrir' \in BOOLEAN
  <1>0. e \in Estado /\ Recuerdo
    BY Partes
  <1>1. CASE e.sordo = 0
    <2>1. /\ avisado' = FALSE /\ fallo' = FALSE /\ vuelta' = FALSE /\ sordaAlAbrir' = FALSE
      BY <1>1 DEF Atendida
    <2>2. ~(e.sordo > 0)
      BY <1>1
    <2> QED
      BY <2>1, <2>2, PantallaExcusada
  <1>2. CASE e.sordo # 0
    <2>1. /\ avisado' = FALSE /\ fallo' = fallo /\ vuelta' = vuelta
          /\ sordaAlAbrir' = sordaAlAbrir
      BY <1>2 DEF Atendida
    <2> QED
      BY <1>0, <2>1, PantallaExcusada DEF Recuerdo
  <1> QED
    BY <1>1, <1>2

LEMMA Tocada ==
  ASSUME Orden, NEW p, p = Tocar(e, vivas)
  PROVE  /\ p \in Estado /\ p.bloqueado = e.bloqueado
         /\ Alarmas(p, hace, FALSE)
         /\ Pantalla(p, e.sordo > 0 /\ sordaAlAbrir, e.sordo > 0 /\ (fallo \/ vuelta))
  <1> DEFINE x == fallo \/ vuelta
  <1>1. /\ e \in Estado /\ hace \in Nat /\ avisado \in BOOLEAN
        /\ sordaAlAbrir \in BOOLEAN /\ x \in BOOLEAN
        /\ Alarmas(e, hace, avisado) /\ Pantalla(e, sordaAlAbrir, x)
    BY Partes DEF Recuerdo
  <1> HIDE DEF x
  <1>2. p \in Estado /\ p.bloqueado = e.bloqueado
    BY <1>1, TocarBien
  <1>3. Alarmas(p, hace, FALSE)
    BY <1>1, TocarBien
  <1>4. Pantalla(p, e.sordo > 0 /\ sordaAlAbrir, e.sordo > 0 /\ x)
    BY <1>1, TocarBien
  <1> QED
    BY <1>2, <1>3, <1>4 DEF x

LEMMA OrdenInicial ==
  ASSUME Init
  PROVE  Orden
  <1>1. PICK p \in Plazos, sus \in Plazos :
           e = ProgramarBloqueo(
                 [bloqueado |-> FALSE, ocio |-> 0, plazo |-> p, suspension |-> sus,
                  inhibidores |-> {}, mantener |-> FALSE, tickBloqueo |-> Ninguna,
                  alarma |-> Ninguna, tickSuspension |-> Ninguna,
                  tickDpms |-> Ninguna, encendido |-> TRUE, sordo |-> 0,
                  atenuada |-> "no"], {})
    BY DEF Init
  <1> DEFINE s == [bloqueado |-> FALSE, ocio |-> 0, plazo |-> p, suspension |-> sus,
                  inhibidores |-> {}, mantener |-> FALSE, tickBloqueo |-> Ninguna,
                  alarma |-> Ninguna, tickSuspension |-> Ninguna,
                  tickDpms |-> Ninguna, encendido |-> TRUE, sordo |-> 0,
                  atenuada |-> "no"]
  <1>2. Techo \in Nat /\ 0 \in 0..Techo
    BY PlazosAssumption
  <1>3. /\ s \in Estado /\ s.bloqueado = FALSE /\ s.tickSuspension = Ninguna
        /\ s.encendido = TRUE
    BY <1>2, NumerosAlarma DEF Estado
  <1>4. e = ProgramarBloqueo(s, {})
    BY <1>1
  <1> HIDE DEF s
  <1>5. /\ e \in Estado /\ Mismos(s, e) /\ e.tickSuspension = s.tickSuspension
        /\ BloqueoVigente(e) /\ AvisoVigente(e) /\ ATiempo(e) /\ Anunciado(e, FALSE)
    BY <1>3, <1>4, ProgramarBloqueoCampos
  <1>6. /\ vivas = {} /\ objetos = {} /\ activa = TRUE /\ dormido = FALSE
        /\ pedida = "no" /\ aviso = FALSE /\ hace = 0 /\ avisado = FALSE
        /\ fallo = FALSE /\ vuelta = FALSE /\ sordaAlAbrir = FALSE
    BY DEF Init
  <1>7. Alarmas(e, hace, avisado)
    BY <1>3, <1>5, <1>6 DEF Alarmas, SuspensionVigente, Contada
  <1>8. Pantalla(e, sordaAlAbrir, fallo \/ vuelta)
    BY <1>3, <1>5 DEF Mismos, Pantalla, Encendida, Apagandose
  <1>9. TypeOK
    BY <1>2, <1>5, <1>6 DEF TypeOK
  <1> QED
    BY <1>7, <1>8, <1>9 DEF Orden

LEMMA EntradaOrden ==
  ASSUME Orden, Entrada \/ EntradaSuspende
  PROVE  Orden'
  <1>1. /\ e' = Tocar(e, vivas) /\ Atendida /\ hace' = hace
        /\ vivas' = vivas /\ objetos' = objetos /\ activa' = activa
        /\ dormido' = dormido /\ aviso' = aviso /\ pedida' \in {pedida, "usuario"}
    BY DEF Entrada, EntradaSuspende, fuera
  <1>2. Exterior'
    BY <1>1, Partes DEF Exterior
  <1>3. /\ e' \in Estado /\ Alarmas(e', hace, FALSE)
        /\ Pantalla(e', sordaAlAbrir', fallo' \/ vuelta') /\ avisado' = FALSE /\ Recuerdo'
    BY <1>1, Partes, Tocada, AtendidaBien DEF Recuerdo
  <1> QED
    BY <1>1, <1>2, <1>3, Juntas

LEMMA EntradaBloqueaOrden ==
  ASSUME Orden, EntradaBloquea
  PROVE  Orden'
  <1> DEFINE t == Tocar(e, vivas)
  <1>1. /\ ~e.bloqueado /\ e' = Bloquear(t, vivas)
        /\ hace' = 0 /\ fallo' = FALSE /\ vuelta' = FALSE /\ avisado' = FALSE
        /\ sordaAlAbrir' = sordaAlAbrir /\ UNCHANGED fuera
    BY DEF EntradaBloquea, Echado
  <1>2. t \in Estado /\ ~t.bloqueado /\ AvisoVigente(t)
    BY <1>1, Tocada DEF Alarmas
  <1> HIDE DEF t
  <1>3. Exterior' /\ Recuerdo'
    BY <1>1, Partes DEF Exterior, Recuerdo, fuera
  <1>4. /\ e' \in Estado /\ e'.bloqueado = TRUE /\ e'.tickDpms # Ninguna
        /\ Alarmas(e', hace', avisado')
    BY <1>1, <1>2, BloquearBien
  <1> QED
    BY <1>3, <1>4, PantallaBloqueada, Juntas

LEMMA EntradaDuermeOrden ==
  ASSUME Orden, EntradaDuerme
  PROVE  Orden'
  <1> DEFINE t == Tocar(e, vivas)
             b == Bloquear(t, vivas)
  <1>1. PICK puede \in BOOLEAN : e' = Apagar(b, puede)
    BY DEF EntradaDuerme
  <1>2. /\ ~e.bloqueado /\ hace' = 0 /\ fallo' = TRUE /\ vuelta' = FALSE
        /\ avisado' = FALSE /\ sordaAlAbrir' = sordaAlAbrir /\ pedida' = "usuario"
        /\ UNCHANGED <<vivas, objetos, activa, dormido, aviso>>
    BY DEF EntradaDuerme
  <1>3. t \in Estado /\ ~t.bloqueado /\ AvisoVigente(t)
    BY <1>2, Tocada DEF Alarmas
  <1> HIDE DEF t
  <1>4. /\ b \in Estado /\ b.bloqueado = TRUE /\ Alarmas(b, hace', avisado')
    BY <1>2, <1>3, BloquearBien
  <1> HIDE DEF b
  <1> DEFINE l == b.encendido /\ ~puede
  <1>5. e' = [b EXCEPT !.tickDpms = Ninguna, !.encendido = l, !.sordo = Sordera]
    BY <1>1 DEF Apagar
  <1>6. l \in BOOLEAN
    OBVIOUS
  <1> HIDE DEF l
  <1>7. /\ e' \in Estado /\ Iguales(b, e') /\ e'.bloqueado = TRUE
    BY <1>4, <1>5, <1>6, NumerosAlarma DEF Estado, Iguales
  <1>8. Alarmas(e', hace', avisado')
    BY <1>4, <1>7, AlarmasIguales
  <1>9. Pantalla(e', sordaAlAbrir', fallo' \/ vuelta')
    BY <1>2, <1>7 DEF Pantalla, Encendida, Apagandose
  <1>10. Exterior' /\ Recuerdo'
    BY <1>2, Partes DEF Exterior, Recuerdo
  <1> QED
    BY <1>7, <1>8, <1>9, <1>10, Juntas

LEMMA EntradaMantenerOrden ==
  ASSUME Orden, EntradaMantener
  PROVE  Orden'
  <1> DEFINE t == Tocar(e, vivas)
             m == ~t.mantener
             c == [t EXCEPT !.mantener = m]
  <1>1. e' = ProgramarAmbas(c, vivas) /\ Atendida /\ hace' = hace /\ UNCHANGED fuera
    BY DEF EntradaMantener
  <1>2. /\ t \in Estado
        /\ Pantalla(t, e.sordo > 0 /\ sordaAlAbrir, e.sordo > 0 /\ (fallo \/ vuelta))
    BY Tocada
  <1>3. Pantalla(t, sordaAlAbrir', fallo' \/ vuelta') /\ Recuerdo'
    BY <1>1, <1>2, Partes, AtendidaBien DEF Recuerdo
  <1>4. m \in BOOLEAN
    OBVIOUS
  <1> HIDE DEF m, t
  <1>5. /\ c \in Estado /\ c.bloqueado = t.bloqueado /\ c.encendido = t.encendido
        /\ c.tickDpms = t.tickDpms
    BY <1>2, <1>4 DEF Estado
  <1>6. Pantalla(c, sordaAlAbrir', fallo' \/ vuelta')
    BY <1>3, <1>5 DEF Pantalla, Encendida, Apagandose
  <1> HIDE DEF c
  <1>7. /\ e' \in Estado /\ Mismos(c, e') /\ e'.tickDpms = c.tickDpms
        /\ \A desde \in Nat : \A avisada \in BOOLEAN : Alarmas(e', desde, avisada)
    BY <1>1, <1>5, ProgramarAmbasBien
  <1>8. Alarmas(e', hace', avisado')
    BY <1>1, <1>3, <1>7, Partes DEF Recuerdo
  <1>9. Exterior'
    BY <1>1, Partes DEF Exterior, fuera
  <1> QED
    BY <1>3, <1>6, <1>7, <1>8, <1>9, PantallaMisma, Juntas

LEMMA EntradaBrilloOrden ==
  ASSUME Orden, EntradaBrillo
  PROVE  Orden'
  <1> DEFINE t == Tocar(e, vivas)
  <1>1. e' = Restaurar(t) /\ Atendida /\ hace' = hace /\ UNCHANGED fuera
    BY DEF EntradaBrillo
  <1>2. /\ t \in Estado /\ Alarmas(t, hace, FALSE)
        /\ Pantalla(t, e.sordo > 0 /\ sordaAlAbrir, e.sordo > 0 /\ (fallo \/ vuelta))
    BY Tocada
  <1>3. Pantalla(t, sordaAlAbrir', fallo' \/ vuelta') /\ Recuerdo' /\ avisado' = FALSE
    BY <1>1, <1>2, Partes, AtendidaBien DEF Recuerdo
  <1> HIDE DEF t
  <1>a. Alarmas(t, hace', avisado')
    BY <1>1, <1>2, <1>3
  <1>4. /\ e' \in Estado /\ Alarmas(e', hace', avisado')
        /\ e'.bloqueado = t.bloqueado /\ e'.encendido = t.encendido
        /\ e'.tickDpms = t.tickDpms
    BY <1>1, <1>2, <1>a, RestaurarBien
  <1>5. Pantalla(e', sordaAlAbrir', fallo' \/ vuelta')
    BY <1>3, <1>4 DEF Pantalla, Encendida, Apagandose
  <1>6. Exterior'
    BY <1>1, Partes DEF Exterior, fuera
  <1> QED
    BY <1>3, <1>4, <1>5, <1>6, Juntas

LEMMA DesbloqueaOrden ==
  ASSUME Orden, Desbloquea
  PROVE  Orden'
  <1>1. /\ e' = Desbloquear(e, vivas) /\ avisado' = FALSE
        /\ sordaAlAbrir' = (e.sordo > 0)
        /\ hace' = hace /\ fallo' = fallo /\ vuelta' = vuelta /\ UNCHANGED fuera
    BY DEF Desbloquea
  <1>2. /\ e' \in Estado /\ \A desde \in Nat : Alarmas(e', desde, FALSE)
        /\ \A excusa \in BOOLEAN : Pantalla(e', e.sordo > 0, excusa)
    BY <1>1, Partes, DesbloquearBien
  <1>3. Alarmas(e', hace', avisado')
    BY <1>1, <1>2, Partes
  <1>4. Pantalla(e', e.sordo > 0, fallo \/ vuelta)
    BY <1>2, Partes
  <1>5. Pantalla(e', sordaAlAbrir', fallo' \/ vuelta')
    BY <1>1, <1>4, PantallaExcusada
  <1>6. Exterior'
    BY <1>1, Partes DEF Exterior, fuera
  <1>7. Recuerdo'
    <2>1. sordaAlAbrir' \in BOOLEAN
      BY <1>1
    <2> QED
      BY <1>1, <2>1, Partes DEF Recuerdo
  <1> QED
    BY <1>2, <1>3, <1>5, <1>6, <1>7, Juntas

LEMMA VenceBloqueoOrden ==
  ASSUME Orden, VenceBloqueo
  PROVE  Orden'
  <1> DEFINE v == [e EXCEPT !.inhibidores = @ \cap vivas]
             t == [v EXCEPT !.tickBloqueo = Ninguna]
  <1>0. /\ e.tickBloqueo = 0 /\ e' = AlVencerBloqueo(e, vivas) /\ avisado' = avisado
        /\ sordaAlAbrir' = sordaAlAbrir /\ UNCHANGED fuera
    BY DEF VenceBloqueo
  <1>1. /\ ~e.bloqueado /\ ~Retenido(e) /\ e.tickSuspension = Ninguna
        /\ BloqueoVigente(e) /\ AvisoVigente(e)
    BY <1>0, Partes, NumerosAlarma DEF Alarmas, BloqueoVigente, SuspensionVigente
  <1>2. e \in Estado /\ Ninguna \in Alarma /\ e.inhibidores = {} /\ ~e.mantener
    BY <1>1, Partes, NumerosAlarma DEF Retenido
  <1>3. e.inhibidores \cap vivas = {}
    BY <1>2
  <1>4. /\ v \in Estado /\ Mismos(e, v) /\ v.inhibidores = {} /\ v.alarma = e.alarma
        /\ v.tickSuspension = e.tickSuspension /\ v.tickDpms = e.tickDpms
    BY <1>2, <1>3 DEF Estado, Mismos
  <1>d. t = [Vencida(e, vivas) EXCEPT !.tickBloqueo = Ninguna]
    BY DEF Vencida
  <1> HIDE DEF v
  <1>5. /\ t \in Estado /\ Mismos(v, t) /\ t.inhibidores = {} /\ t.alarma = e.alarma
        /\ t.tickSuspension = e.tickSuspension /\ t.tickDpms = e.tickDpms
    BY <1>2, <1>4 DEF Estado, Mismos
  <1>e. e' = IF t.bloqueado \/ Retenido(t) THEN t
             ELSE IF t.ocio >= t.plazo THEN Bloquear(t, vivas) ELSE ProgramarBloqueo(t, vivas)
    BY <1>0, <1>d DEF AlVencerBloqueo
  <1> HIDE DEF t
  <1>6. ~t.bloqueado /\ ~Retenido(t) /\ Mismos(e, t)
    BY <1>1, <1>2, <1>4, <1>5 DEF Mismos, Retenido
  <1>7. AvisoVigente(t)
    BY <1>1, <1>5, <1>6 DEF AvisoVigente, Mismos
  <1>8. Exterior'
    BY <1>0, Partes DEF Exterior, fuera
  <1>9. CASE t.ocio >= t.plazo
    <2>1. e' = Bloquear(t, vivas)
      BY <1>6, <1>9, <1>e
    <2>2. /\ e' \in Estado /\ e'.bloqueado = TRUE /\ e'.tickDpms # Ninguna
          /\ \A desde \in Nat : \A avisada \in BOOLEAN : Alarmas(e', desde, avisada)
      BY <1>5, <1>6, <1>7, <2>1, BloquearBien
    <2>3. hace' = 0 /\ fallo' = FALSE /\ vuelta' = FALSE
      BY <1>1, <2>2 DEF VenceBloqueo, Echado
    <2>4. Recuerdo'
      BY <1>0, <2>3, Partes DEF Recuerdo
    <2>5. Alarmas(e', hace', avisado')
      BY <1>0, <2>2, <2>3, Partes DEF Recuerdo
    <2> QED
      BY <1>8, <2>2, <2>4, <2>5, PantallaBloqueada, Juntas
  <1>10. CASE ~(t.ocio >= t.plazo)
    <2>1. e' = ProgramarBloqueo(t, vivas)
      BY <1>6, <1>10, <1>e
    <2> DEFINE q == ProgramarBloqueo(t, vivas)
    <2>a. /\ q \in Estado /\ Mismos(t, q) /\ q.tickSuspension = t.tickSuspension
          /\ q.tickDpms = t.tickDpms
          /\ BloqueoVigente(q) /\ AvisoVigente(q) /\ ATiempo(q) /\ Anunciado(q, FALSE)
      BY <1>5, ProgramarBloqueoCampos
    <2>2. /\ e' \in Estado /\ Mismos(t, e') /\ e'.tickSuspension = t.tickSuspension
          /\ e'.tickDpms = t.tickDpms
          /\ BloqueoVigente(e') /\ AvisoVigente(e') /\ ATiempo(e') /\ Anunciado(e', FALSE)
      BY <2>1, <2>a
    <2>3. hace' = hace /\ fallo' = fallo /\ vuelta' = vuelta
      BY <1>6, <2>2 DEF VenceBloqueo, Mismos
    <2>4. Recuerdo'
      BY <1>0, <2>3, Partes DEF Recuerdo
    <2>5. SuspensionVigente(e') /\ Contada(e', hace')
      BY <1>1, <1>5, <2>2 DEF SuspensionVigente, Contada
    <2>6. Alarmas(e', hace', avisado')
      BY <2>2, <2>5, AvisadaSobra DEF Alarmas
    <2>7. Pantalla(t, sordaAlAbrir', fallo' \/ vuelta')
      BY <1>0, <1>5, <1>6, <2>3, Partes DEF Pantalla, Encendida, Apagandose, Mismos
    <2>8. Pantalla(e', sordaAlAbrir', fallo' \/ vuelta')
      BY <2>2, <2>7, PantallaMisma
    <2> QED
      BY <1>8, <2>2, <2>4, <2>6, <2>8, Juntas
  <1> QED
    BY <1>9, <1>10

\* Once the warning is due no more than its time is left on the lock's alarm.
LEMMA AvisoCumplido ==
  ASSUME NEW s \in Estado, ATiempo(s), BloqueoVigente(s), s.tickBloqueo # Ninguna,
         s.ocio >= s.plazo - AvisoDe(s.plazo)
  PROVE  s.tickBloqueo <= s.plazo - AvisoDe(s.plazo)
  <1>1. s.tickBloqueo \in 0..Resta(s.plazo, s.ocio)
    BY DEF ATiempo, BloqueoVigente
  <1>2. /\ s.plazo \in Nat /\ s.ocio \in Nat /\ AvisoDe(s.plazo) \in 0..s.plazo
        /\ AvisoDe(s.plazo) <= s.plazo - AvisoDe(s.plazo)
    BY Campos, CamposNum, AvisoAcotado
  <1> QED
    BY <1>1, <1>2 DEF Resta

LEMMA VenceAtenuacionOrden ==
  ASSUME Orden, VenceAtenuacion
  PROVE  Orden'
  <1> DEFINE t == [e EXCEPT !.alarma = Ninguna]
  <1>0. /\ e.alarma = 0 /\ hace' = hace /\ fallo' = fallo /\ vuelta' = vuelta
        /\ sordaAlAbrir' = sordaAlAbrir /\ UNCHANGED fuera
    BY DEF VenceAtenuacion
  <1>p. \/ e' = t /\ avisado' = avisado /\ (Retenido(t) \/ t.bloqueado)
        \/ /\ ~t.bloqueado /\ t.ocio >= t.plazo - AvisoDe(t.plazo)
           /\ \E baja \in BOOLEAN : e' = Atenuar(t, "inactividad", baja)
           /\ avisado' = TRUE
        \/ e' = Programar(t) /\ avisado' = avisado
    BY DEF VenceAtenuacion
  <1>1. e \in Estado /\ ~Retenido(e)
    BY <1>0, Partes, NumerosAlarma DEF Alarmas, AvisoVigente
  <1>2. /\ t \in Estado /\ Mismos(e, t) /\ t.inhibidores = e.inhibidores
        /\ t.alarma = Ninguna /\ t.tickBloqueo = e.tickBloqueo
        /\ t.tickSuspension = e.tickSuspension /\ t.tickDpms = e.tickDpms
    BY <1>1, NumerosAlarma DEF Estado, Mismos
  <1> HIDE DEF t
  <1>3. /\ BloqueoVigente(t) /\ SuspensionVigente(t) /\ ATiempo(t) /\ Contada(t, hace)
        /\ AvisoVigente(t) /\ ~Retenido(t)
    BY <1>1, <1>2, Partes
       DEF Alarmas, BloqueoVigente, SuspensionVigente, AvisoVigente, ATiempo, Contada,
           Retenido, Mismos
  <1>4. Pantalla(t, sordaAlAbrir, fallo \/ vuelta)
    BY <1>2, Partes, PantallaMisma
  <1>5. Exterior'
    BY <1>0, Partes DEF Exterior, fuera
  <1>6. Recuerdo'
    BY <1>0, <1>p, Partes DEF Recuerdo
  <1>7. SUFFICES e' \in Estado /\ Alarmas(e', hace, avisado')
                 /\ Pantalla(e', sordaAlAbrir, fallo \/ vuelta)
    BY <1>0, <1>5, <1>6, Juntas
  <1>8. CASE e' = t /\ avisado' = avisado /\ (Retenido(t) \/ t.bloqueado)
    <2>1. t.tickBloqueo = Ninguna
      BY <1>3, <1>8 DEF BloqueoVigente
    <2> QED
      BY <1>2, <1>3, <1>4, <1>8, <2>1 DEF Alarmas, Anunciado
  <1>9. CASE /\ ~t.bloqueado /\ t.ocio >= t.plazo - AvisoDe(t.plazo)
             /\ \E baja \in BOOLEAN : e' = Atenuar(t, "inactividad", baja)
             /\ avisado' = TRUE
    <2>1. t.tickBloqueo # Ninguna => t.tickBloqueo <= t.plazo - AvisoDe(t.plazo)
      BY <1>2, <1>3, <1>9, AvisoCumplido
    <2>2. CASE e' = t
      BY <1>2, <1>3, <1>4, <1>9, <2>1, <2>2 DEF Alarmas, Anunciado
    <2>3. CASE e' = [t EXCEPT !.atenuada = "inactividad"]
      <3>1. /\ e' \in Estado /\ e'.atenuada = "inactividad"
            /\ e'.bloqueado = t.bloqueado /\ e'.encendido = t.encendido
            /\ e'.tickDpms = t.tickDpms /\ e'.ocio = t.ocio /\ e'.plazo = t.plazo
            /\ e'.suspension = t.suspension /\ e'.mantener = t.mantener
            /\ e'.inhibidores = t.inhibidores /\ e'.alarma = t.alarma
            /\ e'.tickBloqueo = t.tickBloqueo /\ e'.tickSuspension = t.tickSuspension
        BY <1>2, <2>3 DEF Estado
      <3>2. Alarmas(e', hace, avisado')
        BY <1>3, <3>1
           DEF Alarmas, BloqueoVigente, SuspensionVigente, AvisoVigente, ATiempo,
               Anunciado, Contada, Retenido
      <3> QED
        BY <1>4, <3>1, <3>2 DEF Pantalla, Encendida, Apagandose
    <2> QED
      BY <1>9, <2>2, <2>3 DEF Atenuar
  <1>10. CASE e' = Programar(t) /\ avisado' = avisado
    <2>1. /\ e' \in Estado /\ Mismos(t, e') /\ e'.tickDpms = t.tickDpms
          /\ Alarmas(e', hace, avisado')
      BY <1>2, <1>3, <1>10, ProgramarBien
    <2> QED
      BY <1>4, <2>1, PantallaMisma
  <1> QED
    BY <1>p, <1>8, <1>9, <1>10

LEMMA VenceSuspensionOrden ==
  ASSUME Orden, VenceSuspension
  PROVE  Orden'
  <1> DEFINE v == [e EXCEPT !.inhibidores = @ \cap vivas]
  <1>0. /\ e.tickSuspension = 0 /\ e' = [v EXCEPT !.tickSuspension = Ninguna]
        /\ pedida' \in {"alarma", pedida}
        /\ UNCHANGED <<vivas, objetos, activa, dormido, aviso>> /\ UNCHANGED historia
    BY DEF VenceSuspension, Vencida
  <1>1. e.bloqueado /\ ~Retenido(e) /\ e.tickBloqueo = Ninguna /\ e.bloqueado = TRUE
    BY <1>0, Partes, NumerosAlarma DEF Alarmas, BloqueoVigente, SuspensionVigente
  <1>2. /\ v \in Estado /\ Mismos(e, v) /\ v.inhibidores \subseteq e.inhibidores
        /\ v.alarma = e.alarma /\ v.tickBloqueo = e.tickBloqueo /\ v.tickDpms = e.tickDpms
    BY Partes DEF Estado, Mismos
  <1> HIDE DEF v
  <1>3. /\ e' \in Estado /\ Mismos(v, e') /\ e'.inhibidores = v.inhibidores
        /\ e'.alarma = v.alarma /\ e'.tickBloqueo = v.tickBloqueo
        /\ e'.tickDpms = v.tickDpms /\ e'.tickSuspension = Ninguna
    BY <1>0, <1>2, NumerosAlarma DEF Estado, Mismos
  <1>4. ~Retenido(e') /\ e'.bloqueado /\ e'.tickBloqueo = Ninguna /\ Mismos(e, e')
        /\ e'.alarma = e.alarma /\ e'.tickDpms = e.tickDpms
    BY <1>1, <1>2, <1>3 DEF Retenido, Mismos
  <1>5. AvisoVigente(e')
    BY <1>1, <1>4, Partes DEF Alarmas, AvisoVigente, Mismos
  <1>6. Alarmas(e', hace', avisado')
    BY <1>3, <1>4, <1>5
       DEF Alarmas, BloqueoVigente, SuspensionVigente, ATiempo, Anunciado, Contada
  <1>7. Pantalla(e', sordaAlAbrir', fallo' \/ vuelta')
    BY <1>0, <1>4, Partes, PantallaMisma DEF historia
  <1>8. Exterior' /\ Recuerdo'
    BY <1>0, Partes DEF Exterior, Recuerdo, historia
  <1> QED
    BY <1>3, <1>6, <1>7, <1>8, Juntas

LEMMA VenceDpmsOrden ==
  ASSUME Orden, VenceDpms
  PROVE  Orden'
  <1>1. PICK puede \in BOOLEAN :
          /\ e' = [e EXCEPT !.tickDpms = Ninguna,
                            !.encendido = @ /\ ~(AlVencerDpms(e) /\ puede)]
          /\ fallo' = (e.bloqueado /\ e'.encendido)
    BY DEF VenceDpms
  <1>2. UNCHANGED <<hace, avisado, vuelta, sordaAlAbrir>> /\ UNCHANGED fuera
    BY DEF VenceDpms
  <1> DEFINE l == e.encendido /\ ~(AlVencerDpms(e) /\ puede)
  <1>3. e' = [e EXCEPT !.tickDpms = Ninguna, !.encendido = l]
    BY <1>1
  <1>4. l \in BOOLEAN /\ (~e.bloqueado => l = e.encendido)
    BY Partes, CamposBool DEF AlVencerDpms
  <1> HIDE DEF l
  <1>5. e' \in Estado /\ Iguales(e, e') /\ e'.encendido = l
    BY <1>3, <1>4, Partes, NumerosAlarma DEF Estado, Iguales
  <1>6. fallo' \in BOOLEAN
    BY <1>1
  <1>7. Exterior' /\ Recuerdo'
    BY <1>2, <1>6, Partes DEF Exterior, Recuerdo, fuera
  <1>8. Alarmas(e', hace', avisado')
    BY <1>2, <1>5, Partes, AlarmasIguales
  <1>9. Pantalla(e', sordaAlAbrir', fallo' \/ vuelta')
    BY <1>1, <1>2, <1>4, <1>5, Partes DEF Pantalla, Encendida, Apagandose, Iguales
  <1> QED
    BY <1>5, <1>7, <1>8, <1>9, Juntas

\* One unit of time on one number.
LEMMA UnaUnidad ==
  /\ \A a \in Alarma : /\ Baja(a) \in Alarma
                       /\ Baja(a) = Ninguna => a = Ninguna
                       /\ a = Ninguna => Baja(a) = Ninguna
                       /\ a # Ninguna /\ a # 0 => a \in Nat /\ Baja(a) = a - 1 /\ a >= 1
  /\ \A a \in 0..Techo : Baja(a) \in 0..Techo /\ Sube(a) \in 0..Techo
                         /\ Sube(a) <= a + 1 /\ (Sube(a) = a + 1 \/ Sube(a) = Techo)
  BY PlazosAssumption DEF Alarma, Ninguna, Baja, Sube

LEMMA TicOrden ==
  ASSUME Orden, Tic
  PROVE  Orden'
  <1>0. /\ 0 \notin {e.tickBloqueo, e.alarma, e.tickSuspension, e.tickDpms}
        /\ e' = [e EXCEPT !.ocio = Sube(@), !.sordo = Baja(@),
                          !.tickBloqueo = Baja(@), !.alarma = Baja(@),
                          !.tickSuspension = Baja(@), !.tickDpms = Baja(@)]
        /\ hace' = Sube(hace) /\ UNCHANGED <<avisado, fallo, vuelta, sordaAlAbrir>>
        /\ UNCHANGED fuera
    BY DEF Tic
  <1>n. /\ e.tickBloqueo \in Alarma /\ e.alarma \in Alarma /\ e.tickSuspension \in Alarma
        /\ e.tickDpms \in Alarma /\ e.ocio \in 0..Techo /\ e.sordo \in 0..Techo
        /\ hace \in 0..Techo
    BY Partes, CamposNum DEF Recuerdo
  <1>1. /\ Baja(e.tickBloqueo) \in Alarma /\ Baja(e.alarma) \in Alarma
        /\ Baja(e.tickSuspension) \in Alarma /\ Baja(e.tickDpms) \in Alarma
        /\ Sube(e.ocio) \in 0..Techo /\ Baja(e.sordo) \in 0..Techo
        /\ Sube(hace) \in 0..Techo
    BY <1>n, UnaUnidad
  <1>2. /\ e' \in Estado
        /\ e'.bloqueado = e.bloqueado /\ e'.plazo = e.plazo
        /\ e'.suspension = e.suspension /\ e'.mantener = e.mantener
        /\ e'.inhibidores = e.inhibidores /\ e'.atenuada = e.atenuada
        /\ e'.encendido = e.encendido /\ e'.ocio = Sube(e.ocio)
        /\ e'.tickBloqueo = Baja(e.tickBloqueo) /\ e'.alarma = Baja(e.alarma)
        /\ e'.tickSuspension = Baja(e.tickSuspension) /\ e'.tickDpms = Baja(e.tickDpms)
    BY <1>0, <1>1, Partes DEF Estado
  <1>3. /\ e'.tickBloqueo # Ninguna => e.tickBloqueo # Ninguna /\ e.tickBloqueo \in Nat
               /\ e.tickBloqueo >= 1 /\ e'.tickBloqueo = e.tickBloqueo - 1
        /\ e'.alarma # Ninguna => e.alarma # Ninguna /\ e.alarma \in Nat
               /\ e.alarma >= 1 /\ e'.alarma = e.alarma - 1
        /\ e'.tickSuspension # Ninguna => e.tickSuspension # Ninguna
               /\ e.tickSuspension \in Nat
               /\ e.tickSuspension >= 1 /\ e'.tickSuspension = e.tickSuspension - 1
        /\ e'.tickDpms = Ninguna => e.tickDpms = Ninguna
    BY <1>0, <1>2, <1>n, UnaUnidad
  <1>4. /\ e.ocio \in Nat /\ e'.ocio \in Nat /\ e'.ocio <= e.ocio + 1
        /\ e'.ocio = e.ocio + 1 \/ e'.ocio = Techo
        /\ hace' = hace + 1 \/ hace' = Techo
        /\ Techo \in Nat /\ hace \in Nat
        /\ e.plazo \in Plazos /\ e.plazo \in Nat /\ e.suspension \in 0..Techo
    BY <1>0, <1>2, <1>n, UnaUnidad, Partes, Campos, CamposNum
  <1>5. Retenido(e') = Retenido(e)
    BY <1>2 DEF Retenido
  <1>6. BloqueoVigente(e') /\ SuspensionVigente(e') /\ AvisoVigente(e')
    BY <1>2, <1>3, <1>5, Partes
       DEF Alarmas, BloqueoVigente, SuspensionVigente, AvisoVigente
  <1>7. \A m \in Nat : \A a \in 1..Resta(m, e.ocio) : a - 1 \in 0..Resta(m, e'.ocio)
    BY <1>4 DEF Resta
  <1>8. ATiempo(e')
    <2>1. SUFFICES ASSUME ~e.bloqueado, ~Retenido(e), e.plazo > 0
                   PROVE  e'.tickBloqueo \in 0..Resta(e.plazo, e'.ocio)
      BY <1>2, <1>5 DEF ATiempo
    <2>2. e.tickBloqueo \in 0..Resta(e.plazo, e.ocio)
      BY <2>1, Partes DEF Alarmas, ATiempo
    <2>3. e.tickBloqueo # Ninguna /\ e.tickBloqueo # 0
      BY <1>0, <2>2 DEF Ninguna
    <2>4. e'.tickBloqueo = e.tickBloqueo - 1 /\ e.tickBloqueo \in Nat /\ e.tickBloqueo >= 1
      BY <1>2, <1>n, <2>3, UnaUnidad
    <2>5. Resta(e.plazo, e.ocio) \in Nat
      BY <1>4 DEF Resta
    <2>6. e.tickBloqueo \in 1..Resta(e.plazo, e.ocio)
      BY <2>2, <2>4, <2>5
    <2> QED
      BY <1>4, <1>7, <2>4, <2>6
  <1>9. Anunciado(e', avisado')
    <2> DEFINE m == e.plazo - AvisoDe(e.plazo)
    <2>1. m \in Nat
      BY <1>4, AvisoAcotado
    <2>2. e.tickBloqueo # Ninguna /\ e.atenuada = "no" =>
             \/ e.alarma \in 0..Resta(m, e.ocio)
             \/ avisado /\ e.tickBloqueo <= m
             \/ e.tickBloqueo + e.ocio <= m
      BY Partes DEF Alarmas, Anunciado
    <2> HIDE DEF m
    <2>3. SUFFICES ASSUME e'.tickBloqueo # Ninguna, e'.atenuada = "no"
                   PROVE  \/ e'.alarma \in 0..Resta(m, e'.ocio)
                          \/ avisado /\ e'.tickBloqueo <= m
                          \/ e'.tickBloqueo + e'.ocio <= m
      BY <1>0, <1>2 DEF Anunciado, m
    <2>4. /\ e.tickBloqueo \in Nat /\ e'.tickBloqueo = e.tickBloqueo - 1
          /\ e.tickBloqueo # Ninguna /\ e.atenuada = "no"
      BY <1>2, <1>3, <2>3
    <2>5. CASE e.alarma \in 0..Resta(m, e.ocio)
      <3>1. Resta(m, e.ocio) \in Nat
        BY <1>4, <2>1 DEF Resta
      <3>2. e.alarma # Ninguna /\ e.alarma # 0
        BY <1>0, <2>5 DEF Ninguna
      <3>3. e'.alarma = e.alarma - 1 /\ e.alarma \in 1..Resta(m, e.ocio)
        BY <1>2, <1>n, <2>5, <3>1, <3>2, UnaUnidad
      <3> QED
        BY <1>7, <2>1, <3>3
    <2>6. CASE avisado /\ e.tickBloqueo <= m
      BY <2>1, <2>4, <2>6
    <2>7. CASE e.tickBloqueo + e.ocio <= m
      BY <1>4, <2>1, <2>4, <2>7
    <2> QED
      BY <2>2, <2>4, <2>5, <2>6, <2>7
  <1>10. Contada(e', hace')
    <2>1. e.tickSuspension # Ninguna =>
            /\ e.tickSuspension + e.ocio >= e.suspension
            /\ e.tickSuspension + hace >= e.suspension
      BY Partes DEF Alarmas, Contada
    <2>2. e'.tickSuspension # Ninguna =>
            /\ e'.tickSuspension + e'.ocio >= e.suspension
            /\ e'.tickSuspension + hace' >= e.suspension
      BY <1>3, <1>4, <2>1
    <2> QED
      BY <1>2, <2>2 DEF Contada
  <1>11. Pantalla(e', sordaAlAbrir', fallo' \/ vuelta')
    BY <1>0, <1>2, <1>3, Partes DEF Pantalla, Encendida, Apagandose
  <1>12. Exterior' /\ Recuerdo'
    BY <1>0, <1>1, Partes DEF Exterior, Recuerdo, fuera
  <1> QED
    BY <1>2, <1>6, <1>8, <1>9, <1>10, <1>11, <1>12, Juntas DEF Alarmas

\* Whatever programs both alarms and leaves the outputs alone.
LEMMA ProgramadoOrden ==
  ASSUME Orden, NEW s \in Estado, NEW viv, e' = ProgramarAmbas(s, viv),
         s.bloqueado = e.bloqueado, s.encendido = e.encendido, s.tickDpms = e.tickDpms,
         UNCHANGED historia, Exterior'
  PROVE  Orden'
  <1>1. /\ e' \in Estado /\ Mismos(s, e') /\ e'.tickDpms = s.tickDpms
        /\ \A desde \in Nat : \A avisada \in BOOLEAN : Alarmas(e', desde, avisada)
    BY ProgramarAmbasBien
  <1>2. Recuerdo' /\ hace' = hace /\ avisado' = avisado
    BY Partes DEF Recuerdo, historia
  <1>3. Alarmas(e', hace', avisado')
    BY <1>1, <1>2, Partes DEF Recuerdo
  <1>4. Pantalla(e', sordaAlAbrir', fallo' \/ vuelta')
    BY <1>1, Partes DEF historia, Mismos, Pantalla, Encendida, Apagandose
  <1> QED
    BY <1>1, <1>2, <1>3, <1>4, Juntas

LEMMA InhibeOrden ==
  ASSUME Orden, NEW x \in Superficies, Inhibe(x)
  PROVE  Orden'
  <1> DEFINE t == [e EXCEPT !.inhibidores = @ \cap vivas]
             n == t.inhibidores \cup {x}
             u == [t EXCEPT !.inhibidores = n]
  <1>0. /\ e' = IF x \in t.inhibidores THEN t ELSE ProgramarAmbas(u, vivas')
        /\ vivas' = vivas \cup {x} /\ objetos' = objetos \cup {x}
        /\ UNCHANGED <<activa, dormido, pedida, aviso>> /\ UNCHANGED historia
    BY DEF Inhibe, Vencida
  <1>1. Exterior' /\ Recuerdo'
    BY <1>0, Partes DEF Exterior, Recuerdo, historia
  <1>2. /\ t \in Estado /\ Mismos(e, t) /\ t.inhibidores = e.inhibidores \cap vivas
        /\ t.alarma = e.alarma /\ t.tickBloqueo = e.tickBloqueo
        /\ t.tickSuspension = e.tickSuspension /\ t.tickDpms = e.tickDpms
    BY Partes DEF Estado, Mismos
  <1> HIDE DEF t
  <1>3. CASE x \in t.inhibidores
    <2>1. e' = t /\ Retenido(e) /\ Retenido(t)
      BY <1>0, <1>2, <1>3 DEF Retenido
    <2>2. /\ t.tickBloqueo = Ninguna /\ t.tickSuspension = Ninguna /\ t.alarma = Ninguna
      BY <1>2, <2>1, Partes DEF Alarmas, BloqueoVigente, SuspensionVigente, AvisoVigente
    <2>3. Alarmas(e', hace', avisado')
      BY <2>1, <2>2
         DEF Alarmas, BloqueoVigente, SuspensionVigente, AvisoVigente, ATiempo,
             Anunciado, Contada
    <2>4. Pantalla(e', sordaAlAbrir', fallo' \/ vuelta')
      BY <1>0, <1>2, <2>1, Partes, PantallaMisma DEF historia
    <2> QED
      BY <1>1, <1>2, <2>1, <2>3, <2>4, Juntas
  <1>4. CASE x \notin t.inhibidores
    <2>1. n \in SUBSET Superficies
      BY <1>2, CamposBool
    <2> HIDE DEF n
    <2>2. /\ u \in Estado /\ u.bloqueado = t.bloqueado /\ u.encendido = t.encendido
          /\ u.tickDpms = t.tickDpms
      BY <1>2, <2>1 DEF Estado
    <2>3. e' = ProgramarAmbas(u, vivas')
      BY <1>0, <1>4
    <2> HIDE DEF u
    <2>4. u.bloqueado = e.bloqueado /\ u.encendido = e.encendido /\ u.tickDpms = e.tickDpms
      BY <1>2, <2>2 DEF Mismos
    <2> QED
      BY <1>0, <1>1, <2>2, <2>3, <2>4, ProgramadoOrden
  <1> QED
    BY <1>3, <1>4

LEMMA LiberaOrden ==
  ASSUME Orden, NEW x \in Superficies, Libera(x)
  PROVE  Orden'
  <1> DEFINE i == (e.inhibidores \cap vivas) \ {x}
             t == [e EXCEPT !.inhibidores = i]
             u == IF t.inhibidores = {} THEN [t EXCEPT !.ocio = 0] ELSE t
  <1>0. /\ e' = ProgramarAmbas(u, vivas) /\ objetos' = objetos \ {x}
        /\ UNCHANGED <<vivas, activa, dormido, pedida, aviso>> /\ UNCHANGED historia
    BY DEF Libera
  <1>1. Exterior'
    BY <1>0, Partes DEF Exterior
  <1>2. i \in SUBSET Superficies
    BY Partes, CamposBool
  <1> HIDE DEF i
  <1>3. /\ t \in Estado /\ t.bloqueado = e.bloqueado /\ t.encendido = e.encendido
        /\ t.tickDpms = e.tickDpms
    BY <1>2, Partes DEF Estado
  <1> HIDE DEF t
  <1>4. /\ u \in Estado /\ u.bloqueado = t.bloqueado /\ u.encendido = t.encendido
        /\ u.tickDpms = t.tickDpms
    BY <1>3, Partes DEF Estado
  <1> HIDE DEF u
  <1> QED
    BY <1>0, <1>1, <1>3, <1>4, ProgramadoOrden

LEMMA AjustesOrden ==
  ASSUME Orden, Ajustes
  PROVE  Orden'
  <1>1. PICK p \in Plazos, sus \in Plazos :
          e' = ProgramarAmbas([e EXCEPT !.plazo = p, !.suspension = sus], vivas)
    BY DEF Ajustes
  <1> DEFINE c == [e EXCEPT !.plazo = p, !.suspension = sus]
  <1>2. UNCHANGED fuera /\ UNCHANGED historia
    BY DEF Ajustes
  <1>3. Exterior'
    BY <1>2, Partes DEF Exterior, fuera
  <1>4. /\ c \in Estado /\ c.bloqueado = e.bloqueado /\ c.encendido = e.encendido
        /\ c.tickDpms = e.tickDpms
    BY Partes DEF Estado
  <1> HIDE DEF c
  <1> QED
    BY <1>1, <1>2, <1>3, <1>4, ProgramadoOrden DEF c

LEMMA BateriaOrden ==
  ASSUME Orden, Bateria
  PROVE  Orden'
  <1>0. UNCHANGED fuera /\ UNCHANGED historia
    BY DEF Bateria
  <1>1. Exterior' /\ Recuerdo'
    BY <1>0, Partes DEF Exterior, Recuerdo, fuera, historia
  <1>2. SUFFICES e' \in Estado /\ Alarmas(e', hace, avisado)
                 /\ Pantalla(e', sordaAlAbrir, fallo \/ vuelta)
    BY <1>0, <1>1, Juntas DEF historia
  <1>3. CASE e' = Restaurar(e)
    <2>1. /\ e' \in Estado /\ Alarmas(e', hace, avisado)
          /\ e'.bloqueado = e.bloqueado /\ e'.encendido = e.encendido
          /\ e'.tickDpms = e.tickDpms
      BY <1>3, Partes, RestaurarBien
    <2> QED
      BY <2>1, Partes DEF Pantalla, Encendida, Apagandose
  <1>4. CASE e' = e
    BY <1>4, Partes
  <1>5. CASE e' = [e EXCEPT !.atenuada = "bateria"]
    <2>1. /\ e' \in Estado /\ e'.atenuada = "bateria"
          /\ e'.bloqueado = e.bloqueado /\ e'.encendido = e.encendido
          /\ e'.tickDpms = e.tickDpms /\ e'.ocio = e.ocio /\ e'.plazo = e.plazo
          /\ e'.suspension = e.suspension /\ e'.mantener = e.mantener
          /\ e'.inhibidores = e.inhibidores /\ e'.alarma = e.alarma
          /\ e'.tickBloqueo = e.tickBloqueo /\ e'.tickSuspension = e.tickSuspension
      BY <1>5, Partes DEF Estado
    <2>2. Alarmas(e', hace, avisado)
      BY <2>1, Partes
         DEF Alarmas, BloqueoVigente, SuspensionVigente, AvisoVigente, ATiempo,
             Anunciado, Contada, Retenido
    <2> QED
      BY <2>1, <2>2, Partes DEF Pantalla, Encendida, Apagandose
  <1> QED
    BY <1>3, <1>4, <1>5 DEF Bateria, Atenuar

LEMMA ReactivaSesionOrden ==
  ASSUME Orden, ReactivaSesion
  PROVE  Orden'
  <1> DEFINE b == Bloquear(e, vivas)
  <1>0. /\ e' = [b EXCEPT !.encendido = TRUE] /\ activa' = TRUE
        /\ IF e.bloqueado THEN vuelta' = TRUE /\ UNCHANGED <<hace, fallo>>
           ELSE hace' = 0 /\ fallo' = FALSE /\ vuelta' = FALSE
        /\ UNCHANGED <<avisado, sordaAlAbrir, vivas, objetos, dormido, pedida, aviso>>
    BY DEF ReactivaSesion
  <1>1. Exterior' /\ Recuerdo'
    BY <1>0, Partes DEF Exterior, Recuerdo
  <1>2. b \in Estado /\ b.bloqueado = TRUE /\ Alarmas(b, hace', avisado')
        /\ (~e.bloqueado => b.tickDpms # Ninguna)
    <2>1. CASE e.bloqueado
      <3>1. b = e /\ hace' = hace /\ avisado' = avisado
        BY <1>0, <2>1 DEF Bloquear
      <3> HIDE DEF b
      <3> QED
        BY <2>1, <3>1, Partes
    <2>2. CASE ~e.bloqueado
      <3>1. hace' \in Nat /\ avisado' \in BOOLEAN
        BY <1>0, <2>2, Partes DEF Recuerdo
      <3> QED
        BY <2>2, <3>1, Partes, BloquearBien DEF Alarmas
    <2> QED
      BY <2>1, <2>2
  <1> HIDE DEF b
  <1>3. e' \in Estado /\ Iguales(b, e') /\ e'.tickDpms = b.tickDpms
    BY <1>0, <1>2 DEF Estado, Iguales
  <1>4. Alarmas(e', hace', avisado')
    BY <1>2, <1>3, AlarmasIguales
  <1>5. Pantalla(e', sordaAlAbrir', fallo' \/ vuelta')
    BY <1>0, <1>2, <1>3 DEF Iguales, Pantalla, Encendida, Apagandose
  <1> QED
    BY <1>1, <1>3, <1>4, <1>5, Juntas

LEMMA LeeAvisoOrden ==
  ASSUME Orden, LeeAviso
  PROVE  Orden'
  <1> DEFINE c == [e EXCEPT !.sordo = 0]
  <1>0. /\ e' = Despertar(c) /\ aviso' = FALSE
        /\ fallo' = FALSE /\ vuelta' = FALSE /\ sordaAlAbrir' = FALSE
        /\ UNCHANGED <<hace, avisado, vivas, objetos, activa, dormido, pedida>>
    BY DEF LeeAviso
  <1>1. Exterior' /\ Recuerdo'
    BY <1>0, Partes DEF Exterior, Recuerdo
  <1>2. c \in Estado /\ Iguales(e, c) /\ ~(c.sordo > 0)
    BY Partes DEF Estado, Iguales
  <1> HIDE DEF c
  <1>3. /\ e' \in Estado /\ Iguales(c, e')
        /\ Pantalla(e', c.sordo > 0 /\ FALSE, c.sordo > 0 /\ FALSE)
    BY <1>0, <1>2, DespertarBien
  <1>4. Alarmas(e', hace', avisado')
    <2>1. Alarmas(c, hace', avisado')
      BY <1>0, <1>2, Partes, AlarmasIguales
    <2> QED
      BY <1>3, <2>1, AlarmasIguales
  <1>5. Pantalla(e', sordaAlAbrir', fallo' \/ vuelta')
    BY <1>3, PantallaExcusada
  <1> QED
    BY <1>1, <1>3, <1>4, <1>5, Juntas

\* Nothing of the compositor changes.
LEMMA AjenoOrden ==
  ASSUME Orden, e' = e, UNCHANGED historia, Exterior'
  PROVE  Orden'
  <1>1. Recuerdo' /\ hace' = hace /\ avisado' = avisado
    BY Partes DEF Recuerdo, historia
  <1>2. Alarmas(e', hace', avisado') /\ Pantalla(e', sordaAlAbrir', fallo' \/ vuelta')
    BY <1>1, Partes DEF historia
  <1> QED
    BY <1>1, <1>2, Partes, Juntas

LEMMA OrdenPaso ==
  ASSUME Orden, [Next]_vars
  PROVE  Orden'
  <1>1. CASE Usuario
    BY <1>1, EntradaOrden, EntradaBloqueaOrden, EntradaDuermeOrden, EntradaMantenerOrden,
       EntradaBrilloOrden, DesbloqueaOrden DEF Usuario
  <1>2. CASE Vence
    BY <1>2, VenceBloqueoOrden, VenceAtenuacionOrden, VenceSuspensionOrden, VenceDpmsOrden
       DEF Vence
  <1>3. CASE Tic
    BY <1>3, TicOrden
  <1>4. CASE Cliente
    <2>1. PICK x \in Superficies :
            Inhibe(x) \/ Libera(x) \/ DestruyeSuperficie(x) \/ MuereCliente(x)
      BY <1>4 DEF Cliente
    <2>2. CASE DestruyeSuperficie(x) \/ MuereCliente(x)
      <3>1. e' = e /\ UNCHANGED historia /\ Exterior'
        BY <2>2, Partes DEF DestruyeSuperficie, MuereCliente, Exterior
      <3> QED
        BY <3>1, AjenoOrden
    <2> QED
      BY <2>1, <2>2, InhibeOrden, LiberaOrden
  <1>5. CASE Sistema
    <2>1. CASE PausaSesion \/ Duerme \/ NoDuerme \/ Despierta
      <3>1. e' = e /\ UNCHANGED historia /\ Exterior'
        BY <2>1, Partes DEF PausaSesion, Duerme, NoDuerme, Despierta, Exterior
      <3> QED
        BY <3>1, AjenoOrden
    <2> QED
      BY <1>5, <2>1, AjustesOrden, BateriaOrden, ReactivaSesionOrden, LeeAvisoOrden
         DEF Sistema
  <1>6. CASE UNCHANGED vars
    <2>1. e' = e /\ UNCHANGED historia /\ Exterior'
      BY <1>6, Partes DEF vars, historia, Exterior
    <2> QED
      BY <2>1, AjenoOrden
  <1> QED
    BY <1>1, <1>2, <1>3, <1>4, <1>5, <1>6 DEF Next

\* Orden holds at every step of every behaviour, for any settings and any units.
THEOREM OrdenCorrect == Spec => []Orden
  <1>1. Init => Orden
    BY OrdenInicial
  <1>2. Orden /\ [Next]_vars => Orden'
    BY OrdenPaso
  <1> QED
    BY <1>1, <1>2, PTL DEF Spec

\* Every alarm of the compositor is in order (BloqueoPuntual) and so are its outputs
\* (PantallaJusta): the part of Orden that the run checks.
THEOREM AlarmasEnOrdenCorrect == Spec => []AlarmasEnOrden
  <1>1. Orden => AlarmasEnOrden
    <2> SUFFICES ASSUME Orden PROVE AlarmasEnOrden
      OBVIOUS
    <2>1. TypeOK
      BY DEF Orden
    <2>2. AlarmasVigentes
      BY Partes
         DEF Alarmas, BloqueoVigente, SuspensionVigente, AvisoVigente, AlarmasVigentes
    <2>3. BloqueoATiempo /\ AvisoPrevio
      BY Partes DEF Alarmas, ATiempo, Anunciado, BloqueoATiempo, AvisoPrevio
    <2>4. PantallaJusta
      BY Partes
         DEF Pantalla, Encendida, Apagandose, PantallaJusta, PantallaDeQuienUsa,
             BloqueoSeApaga
    <2> QED
      BY <2>1, <2>2, <2>3, <2>4 DEF AlarmasEnOrden, BloqueoPuntual
  <1> QED
    BY <1>1, OrdenCorrect, PTL

\* Only the alarm of the suspend asks for one on its own, and when it expires the
\* whole time has passed since the lock and since the last input, with nobody
\* holding it back (vence_suspension looks at the list, not at the clock).
THEOREM SuspensionMerecidaCorrect == Spec => SuspensionMerecida
  <1> DEFINE Merecida ==
         pedida' = "alarma" /\ pedida # "alarma" =>
           /\ e.bloqueado /\ ~e.mantener
           /\ e.inhibidores \cap vivas = {}
           /\ e.ocio >= e.suspension /\ hace >= e.suspension
  <1>1. Orden /\ [Next]_vars => Merecida
    <2> SUFFICES ASSUME Orden, [Next]_vars, pedida' = "alarma", pedida # "alarma"
                 PROVE  /\ e.bloqueado /\ ~e.mantener
                        /\ e.inhibidores \cap vivas = {}
                        /\ e.ocio >= e.suspension /\ hace >= e.suspension
      OBVIOUS
    <2>1. VenceSuspension
      BY DEF Next, vars, Usuario, Vence, Cliente, Sistema, fuera,
             Entrada, EntradaBloquea, EntradaDuerme, EntradaSuspende, EntradaMantener,
             EntradaBrillo, Desbloquea, VenceBloqueo, VenceAtenuacion, VenceDpms, Tic,
             Inhibe, Libera, DestruyeSuperficie, MuereCliente, Ajustes, Bateria,
             PausaSesion, ReactivaSesion, Duerme, NoDuerme, Despierta, LeeAviso
    <2>2. e.tickSuspension = 0 /\ e.tickSuspension # Ninguna
      BY <2>1, NumerosAlarma DEF VenceSuspension
    <2>3. e.bloqueado /\ ~Retenido(e)
      BY <2>2, Partes DEF Alarmas, SuspensionVigente
    <2>4. e.ocio >= e.suspension /\ hace >= e.suspension
      <3>1. 0 + e.ocio >= e.suspension /\ 0 + hace >= e.suspension
        BY <2>2, Partes DEF Alarmas, Contada
      <3>2. e.ocio \in Nat /\ hace \in Nat /\ e.suspension \in Nat
        BY Partes, Campos
      <3> QED
        BY <3>1, <3>2
    <2> QED
      BY <2>3, <2>4 DEF Retenido
  <1>2. Spec => [][Merecida]_vars
    BY <1>1, OrdenCorrect, PTL DEF Spec
  <1> QED
    BY <1>2 DEF SuspensionMerecida
===============================================================================
