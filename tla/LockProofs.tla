------------------------------ MODULE LockProofs -------------------------------
(***************************************************************************)
(* Theorems about Lock, for any number of workers and any bounds: its       *)
(* types, its inductive invariant, and that it implements LockBarrier.      *)
(***************************************************************************)
EXTENDS Lock, TLAPS

\* The literals of the record every new thread starts from.
LEMMA ParadoType == Parado \in Obrero
  BY BoundAssumption DEF Parado, Obrero, Respuestas

LEMMA DefectoType == BloqueoDefecto \in Bloqueo
  BY BoundAssumption DEF BloqueoDefecto, Bloqueo

LEMMA CeroEscrito == 0 \in 0..MaxEscrito
  BY BoundAssumption

\* Updates of the lock state whose new values are numbers.
LEMMA EscritoType ==
  ASSUME NEW b \in Bloqueo, NEW n \in 0..MaxEscrito, NEW f \in BOOLEAN
  PROVE  /\ [b EXCEPT !.fallo = f, !.escrito = n] \in Bloqueo
         /\ [b EXCEPT !.reintentar = FALSE, !.escrito = n, !.fallo = f] \in Bloqueo
  BY DEF Bloqueo

LEMMA FalloType ==
  ASSUME NEW b \in Bloqueo, NEW n \in 0..MaxEscrito, NEW k \in 0..FallosMax,
         NEW r \in BOOLEAN
  PROVE  [b EXCEPT !.comprobando = Nadie, !.escrito = n, !.fallo = TRUE, !.fallos = k,
                   !.reintentar = r] \in Bloqueo
  BY DEF Bloqueo

LEMMA ReanudadoType ==
  ASSUME NEW b \in Bloqueo, NEW n \in Nat
  PROVE  [b EXCEPT !.huella_reanudaciones = n, !.huella_sin_lector = FALSE] \in Bloqueo
  BY DEF Bloqueo

\* comprobar_huella keeps the types of everything it writes.
LEMMA ComprobarHuellaType ==
  ASSUME TypeOK, NEW b \in Bloqueo, NEW echada, NEW gen \in Nat,
         NEW sondeos \in SUBSET [gen : Nat, reanudaciones : Nat],
         NEW aviso \in Mensajes,
         ComprobarHuella(b, echada, gen, sondeos, aviso)
  PROVE  /\ bloqueo' \in Bloqueo
         /\ obreros' \in [Obreros -> Obrero]
         /\ ocupado' \in BOOLEAN
         /\ sondeosHuella' \subseteq [gen : Nat, reanudaciones : Nat]
         /\ mensaje' \in Mensajes
  <1>1. CASE UNCHANGED <<obreros, ocupado>> /\ bloqueo' = b /\ sondeosHuella' = sondeos
             /\ mensaje' \in {aviso, "nodisponible"}
    BY <1>1 DEF TypeOK, Mensajes
  <1>2. CASE /\ ocupado' = TRUE /\ mensaje' = "coloca"
             /\ sondeosHuella' = sondeos
                  \cup {[gen |-> gen, reanudaciones |-> b.huella_reanudaciones]}
             /\ \E w \in Obreros :
                  /\ bloqueo' = [b EXCEPT !.huella = w]
                  /\ obreros' = [obreros EXCEPT ![w] = HiloHuella(gen)]
    <2> PICK w \in Obreros :
                  /\ bloqueo' = [b EXCEPT !.huella = w]
                  /\ obreros' = [obreros EXCEPT ![w] = HiloHuella(gen)]
      BY <1>2
    <2>1. bloqueo' \in Bloqueo
      BY DEF Bloqueo
    <2>2. HiloHuella(gen) \in Obrero
      <3> DEFINE c == sueno = "durmiendo"
      <3>1. c \in BOOLEAN
        OBVIOUS
      <3> HIDE DEF c
      <3>2. [clase |-> "huella", gen |-> gen, fase |-> "pregunta",
             respuesta |-> "ninguno", secreto |-> 0, tarde |-> FALSE, cortado |-> c]
              \in Obrero
        BY <3>1, BoundAssumption DEF Obrero, Respuestas
      <3> QED
        BY <3>2 DEF HiloHuella, c
    <2>3. obreros' \in [Obreros -> Obrero]
      BY <2>2 DEF TypeOK
    <2>4. [gen |-> gen, reanudaciones |-> b.huella_reanudaciones]
            \in [gen : Nat, reanudaciones : Nat]
      BY DEF Bloqueo
    <2> QED
      BY <1>2, <2>1, <2>3, <2>4 DEF Mensajes
  <1> QED
    BY <1>1, <1>2 DEF ComprobarHuella

\* Accion::Desbloquear keeps the types of everything but the pollers.
LEMMA DesbloquearType ==
  ASSUME TypeOK, Desbloquear, sondeosClave' \subseteq Nat,
         sondeosHuella' \subseteq [gen : Nat, reanudaciones : Nat]
  PROVE  TypeOK'
  <1>1. bloqueo' \in Bloqueo
    BY DefectoType DEF Desbloquear, TrasSalir
  <1>2. generacion' \in Nat
    BY DEF Desbloquear, TypeOK
  <1>3. marca' \in {"desbloqueada", "ausente"} /\ bloqueada' \in BOOLEAN
        /\ visto' = "escribiendo" /\ mensaje' \in Mensajes
    BY DEF Desbloquear, MarcarLibre, TypeOK, Mensajes
  <1>4. UNCHANGED <<muerto, obreros, ocupado, temporizadores, vencido, ajuste, sueno,
                    proceso>>
    BY DEF Desbloquear, Trabajo, Entorno
  <1> QED
    BY <1>1, <1>2, <1>3, <1>4 DEF TypeOK

\* Every variable keeps its type: what the keys, the pollers, the timers and the
\* threads write is again a lock state, a thread record, a captured generation.
THEOREM TypeCorrect == Spec => []TypeOK
<1>1. ASSUME Init PROVE TypeOK
  <2>1. bloqueo \in Bloqueo
    BY <1>1, DefectoType DEF Init
  <2>2. obreros \in [Obreros -> Obrero]
    BY <1>1, ParadoType DEF Init
  <2>3. generacion \in Nat
    BY <1>1 DEF Init
  <2> QED
    BY <1>1, <2>1, <2>2, <2>3 DEF Init, TypeOK, Mensajes
<1>2. ASSUME TypeOK, [Next]_vars PROVE TypeOK'
  <2> USE <1>2
  <2> USE DEF Barra, Fuentes, Trabajo, Entorno, Bucle
  <2>1. CASE Bloquear
    <3>1. /\ generacion' = generacion + 1 /\ marca' = "ausente"
          /\ UNCHANGED <<sondeosClave, temporizadores, vencido, Entorno>>
          /\ \/ bloqueada' = TRUE /\ visto' = "escribiendo" /\ UNCHANGED muerto
             \/ muerto' = TRUE /\ UNCHANGED <<bloqueada, visto>>
      BY <2>1 DEF Bloquear, MarcarBloqueada
    <3>2. \/ ComprobarHuella(bloqueo, ~muerto, generacion + 1, sondeosHuella, "callada")
          \/ ComprobarHuella(bloqueo, FALSE, generacion + 1, sondeosHuella, mensaje)
      BY <2>1 DEF Bloquear
    <3>3. generacion + 1 \in Nat /\ bloqueo \in Bloqueo
          /\ sondeosHuella \in SUBSET [gen : Nat, reanudaciones : Nat]
          /\ mensaje \in Mensajes
      BY DEF TypeOK
    <3>4. /\ bloqueo' \in Bloqueo
          /\ obreros' \in [Obreros -> Obrero]
          /\ ocupado' \in BOOLEAN
          /\ sondeosHuella' \subseteq [gen : Nat, reanudaciones : Nat]
          /\ mensaje' \in Mensajes
      BY <3>2, <3>3, ComprobarHuellaType DEF Mensajes
    <3> QED
      BY <3>1, <3>3, <3>4 DEF TypeOK
  <2>2. CASE BloquearSinProteger
    BY <2>2 DEF BloquearSinProteger, TypeOK
  <2>3. ASSUME NEW b \in Bloqueo, Editar(b) PROVE TypeOK'
    BY <2>3 DEF Editar, Visible, TypeOK
  <2>4. CASE BloqueoEscribir \/ BloqueoBorrar \/ BloqueoLimpiar
    <3>1. bloqueo \in Bloqueo
      BY DEF TypeOK
    <3>2. CASE BloqueoEscribir
      <4>1. [bloqueo EXCEPT !.fallo = FALSE, !.escrito = @ + 1] \in Bloqueo
        <5>1. bloqueo.escrito + 1 \in 0..MaxEscrito
          BY <3>1, <3>2, BoundAssumption DEF BloqueoEscribir, Bloqueo
        <5> QED
          BY <3>1, <5>1, EscritoType
      <4> QED
        BY <2>3, <3>2, <4>1 DEF BloqueoEscribir
    <3>3. CASE BloqueoBorrar
      <4>1. [bloqueo EXCEPT !.fallo = FALSE, !.escrito = IF @ = 0 THEN 0 ELSE @ - 1]
              \in Bloqueo
        <5>1. (IF bloqueo.escrito = 0 THEN 0 ELSE bloqueo.escrito - 1) \in 0..MaxEscrito
          BY <3>1, BoundAssumption DEF Bloqueo
        <5> QED
          BY <3>1, <5>1, EscritoType
      <4> QED
        BY <2>3, <3>3, <4>1 DEF BloqueoBorrar
    <3>4. CASE BloqueoLimpiar
      <4>1. [bloqueo EXCEPT !.fallo = FALSE, !.escrito = 0] \in Bloqueo
        BY <3>1, EscritoType, CeroEscrito
      <4> QED
        BY <2>3, <3>4, <4>1 DEF BloqueoLimpiar
    <3> QED
      BY <2>4, <3>2, <3>3, <3>4
  <2>5. CASE ComprobarRetenido
    BY <2>5 DEF ComprobarRetenido, Visible, TypeOK
  <2>6. CASE LanzarComprobacion
    <3> PICK w \in Obreros :
          /\ obreros' = [obreros EXCEPT ![w] = HiloClave]
          /\ bloqueo' = [bloqueo EXCEPT !.reintentar = FALSE, !.comprobando = w]
      BY <2>6 DEF LanzarComprobacion
    <3>1. HiloClave \in Obrero
      BY DEF HiloClave, Obrero, Respuestas, TypeOK, Bloqueo
    <3>2. obreros' \in [Obreros -> Obrero]
      BY <3>1 DEF TypeOK
    <3>3. bloqueo' \in Bloqueo
      BY DEF TypeOK, Bloqueo
    <3>4. sondeosClave' \subseteq Nat
      BY <2>6 DEF LanzarComprobacion, TypeOK
    <3> QED
      BY <2>6, <3>2, <3>3, <3>4 DEF LanzarComprobacion, Visible, TypeOK
  <2>7. CASE ComprobarSinHilo
    <3>1. bloqueo' \in Bloqueo
      BY <2>7, EscritoType, CeroEscrito DEF ComprobarSinHilo, TypeOK
    <3> QED
      BY <2>7, <3>1 DEF ComprobarSinHilo, Visible, TypeOK
  <2>8. CASE BloqueoHuella
    <3>1. bloqueo \in Bloqueo /\ generacion \in Nat
          /\ sondeosHuella \in SUBSET [gen : Nat, reanudaciones : Nat]
          /\ mensaje \in Mensajes
      BY DEF TypeOK
    <3>2. /\ bloqueo' \in Bloqueo
          /\ obreros' \in [Obreros -> Obrero]
          /\ ocupado' \in BOOLEAN
          /\ sondeosHuella' \subseteq [gen : Nat, reanudaciones : Nat]
          /\ mensaje' \in Mensajes
      BY <2>8, <3>1, ComprobarHuellaType DEF BloqueoHuella
    <3> QED
      BY <2>8, <3>2 DEF BloqueoHuella, TypeOK
  <2>9. ASSUME NEW g \in sondeosClave, SondeoClave(g) PROVE TypeOK'
    <3>1. CASE SondeoClaveCaduco(g)
      BY <3>1 DEF SondeoClaveCaduco, TypeOK
    <3>2. CASE SondeoClaveAcierta(g)
      <4>1. sondeosClave' \subseteq Nat /\ UNCHANGED sondeosHuella
        BY <3>2 DEF SondeoClaveAcierta, TypeOK
      <4> QED
        BY <3>2, <4>1, DesbloquearType DEF SondeoClaveAcierta, TypeOK
    <3>3. CASE SondeoClaveFalla(g)
      <4> DEFINE demora == DemoraReintento(SumaFallo(bloqueo.fallos)) > 0
      <4>1. demora \in BOOLEAN
        OBVIOUS
      <4> HIDE DEF demora
      <4>2. /\ bloqueo' = [bloqueo EXCEPT !.comprobando = Nadie, !.escrito = 0,
                              !.fallo = TRUE, !.fallos = SumaFallo(bloqueo.fallos),
                              !.reintentar = @ \/ demora]
            /\ vencido' = (vencido /\ ~demora)
            /\ temporizadores' = temporizadores \cup (IF demora THEN {g} ELSE {})
        BY <3>3 DEF SondeoClaveFalla, demora
      <4>3. SumaFallo(bloqueo.fallos) \in 0..FallosMax
        BY BoundAssumption DEF SumaFallo, TypeOK, Bloqueo
      <4>4. bloqueo' \in Bloqueo
        <5>1. 0 \in 0..MaxEscrito /\ bloqueo \in Bloqueo
          BY CeroEscrito DEF TypeOK
        <5>2. (bloqueo.reintentar \/ demora) \in BOOLEAN
          OBVIOUS
        <5> QED
          BY <4>2, <4>3, <5>1, <5>2, FalloType
      <4>5. vencido' \in BOOLEAN
        BY <4>2
      <4>6. temporizadores' \subseteq Nat
        BY <4>2 DEF TypeOK
      <4> QED
        BY <3>3, <4>4, <4>5, <4>6 DEF SondeoClaveFalla, Visible, TypeOK
    <3> QED
      BY <2>9, <3>1, <3>2, <3>3 DEF SondeoClave
  <2>10. ASSUME NEW s \in sondeosHuella, SondeoHuella(s) PROVE TypeOK'
    <3> s \in [gen : Nat, reanudaciones : Nat] /\ bloqueo \in Bloqueo
      BY DEF TypeOK
    <3>1. CASE SondeoHuellaCaduco(s)
      BY <3>1 DEF SondeoHuellaCaduco, TypeOK
    <3>2. CASE SondeoHuellaAviso(s)
      BY <3>2 DEF SondeoHuellaAviso, TypeOK, Mensajes
    <3>3. CASE SondeoHuellaAcierta(s)
      <4>1. sondeosHuella' \subseteq [gen : Nat, reanudaciones : Nat]
            /\ UNCHANGED sondeosClave
        BY <3>3 DEF SondeoHuellaAcierta, TypeOK
      <4> QED
        BY <3>3, <4>1, DesbloquearType DEF SondeoHuellaAcierta, TypeOK
    <3>4. CASE SondeoHuellaRenueva(s)
      <4>1. [bloqueo EXCEPT !.huella = Nadie] \in Bloqueo
        BY DEF Bloqueo
      <4>2. sondeosHuella \ {s} \in SUBSET [gen : Nat, reanudaciones : Nat]
            /\ generacion \in Nat /\ mensaje \in Mensajes
        BY DEF TypeOK
      <4>3. /\ bloqueo' \in Bloqueo
            /\ obreros' \in [Obreros -> Obrero]
            /\ ocupado' \in BOOLEAN
            /\ sondeosHuella' \subseteq [gen : Nat, reanudaciones : Nat]
            /\ mensaje' \in Mensajes
        BY <3>4, <4>1, <4>2, ComprobarHuellaType DEF SondeoHuellaRenueva
      <4> QED
        BY <3>4, <4>3 DEF SondeoHuellaRenueva, TypeOK
    <3>5. ASSUME NEW b \in Bloqueo, NEW aviso \in Mensajes, CierraHuella(s, b, aviso)
          PROVE  TypeOK'
      BY <3>5 DEF CierraHuella, TypeOK
    <3>6. CASE SondeoHuellaSinLector(s)
      <4>1. [bloqueo EXCEPT !.huella = Nadie, !.huella_sin_lector = TRUE] \in Bloqueo
        BY DEF Bloqueo
      <4> QED
        BY <3>5, <3>6, <4>1 DEF SondeoHuellaSinLector, Mensajes
    <3>7. CASE SondeoHuellaRechaza(s)
      <4>1. [bloqueo EXCEPT !.huella = Nadie, !.huella_espera = TRUE] \in Bloqueo
        BY DEF Bloqueo
      <4> QED
        BY <3>5, <3>7, <4>1 DEF SondeoHuellaRechaza, Mensajes
    <3> QED
      BY <2>10, <3>1, <3>2, <3>3, <3>4, <3>6, <3>7 DEF SondeoHuella
  <2>11. ASSUME NEW g \in temporizadores, TemporizadorReintento(g) PROVE TypeOK'
    <3>1. [bloqueo EXCEPT !.reintentar = FALSE] \in Bloqueo
      BY DEF TypeOK, Bloqueo
    <3> QED
      BY <2>11, <3>1 DEF TemporizadorReintento, LevantaDemora, Visible, TypeOK
  <2>12. CASE ReanudarHuella
    <3>1. Reanudado \in Bloqueo
      <4>1. bloqueo \in Bloqueo /\ bloqueo.huella_reanudaciones + 1 \in Nat
        BY DEF TypeOK, Bloqueo
      <4> QED
        BY <4>1, ReanudadoType DEF Reanudado
    <3>2. generacion \in Nat /\ mensaje \in Mensajes
          /\ sondeosHuella \in SUBSET [gen : Nat, reanudaciones : Nat]
      BY DEF TypeOK
    <3>3. /\ bloqueo' \in Bloqueo
          /\ obreros' \in [Obreros -> Obrero]
          /\ ocupado' \in BOOLEAN
          /\ sondeosHuella' \subseteq [gen : Nat, reanudaciones : Nat]
          /\ mensaje' \in Mensajes
      BY <2>12, <3>1, <3>2, ComprobarHuellaType DEF ReanudarHuella
    <3> QED
      BY <2>12, <3>3 DEF ReanudarHuella, TypeOK
  <2>13. CASE Revienta
    BY <2>13 DEF Revienta, TypeOK
  <2>14. ASSUME NEW w \in Obreros,
                Contesta(w) \/ LiberaSensor(w) \/ MuereObrero(w) \/ PasaHuellaAgotada(w)
         PROVE  TypeOK'
    <3> obreros[w] \in Obrero
      BY DEF TypeOK
    <3>1. CASE Contesta(w)
      <4> PICK r \in Respuestas : ContestaClave(w, r) \/ ContestaHuella(w, r)
        BY <3>1 DEF Contesta
      <4>1. \A f \in {"fin", "dicho"} :
              [obreros[w] EXCEPT !.fase = f, !.respuesta = r] \in Obrero
        BY DEF Obrero
      <4>2. \E f \in {"fin", "dicho"} :
              obreros' = [obreros EXCEPT ![w] = [obreros[w] EXCEPT !.fase = f, !.respuesta = r]]
        BY DEF ContestaClave, ContestaHuella, TypeOK
      <4>3. obreros' \in [Obreros -> Obrero]
        BY <4>1, <4>2 DEF TypeOK
      <4> QED
        BY <4>3 DEF ContestaClave, ContestaHuella, TypeOK
    <3>2. CASE LiberaSensor(w)
      BY <3>2 DEF LiberaSensor, TypeOK, Obrero
    <3>3. CASE MuereObrero(w)
      <4>1. obreros' \in [Obreros -> Obrero]
        BY <3>3 DEF MuereObrero, TypeOK, Obrero
      <4>2. ocupado' \in BOOLEAN
        BY <3>3 DEF MuereObrero
      <4> QED
        BY <3>3, <4>1, <4>2 DEF MuereObrero, TypeOK
    <3>4. CASE PasaHuellaAgotada(w)
      BY <3>4 DEF PasaHuellaAgotada, TypeOK, Obrero
    <3> QED
      BY <2>14, <3>1, <3>2, <3>3, <3>4
  <2>15. CASE VenceDemora
    BY <2>15 DEF VenceDemora, TypeOK
  <2>16. CASE VenceEsperaHuella
    BY <2>16 DEF VenceEsperaHuella, TypeOK, Bloqueo
  <2>17. CASE CambiaAjuste
    BY <2>17 DEF CambiaAjuste, TypeOK
  <2>18. CASE Dormir
    <3>1. ASSUME NEW w \in Obreros, NEW c \in BOOLEAN
          PROVE  [obreros[w] EXCEPT !.cortado = c] \in Obrero
      BY DEF TypeOK, Obrero
    <3>2. obreros' \in [Obreros -> Obrero]
      <4>1. \A w \in Obreros : (obreros[w].cortado \/
              (obreros[w].clase = "huella" /\ obreros[w].fase = "pregunta")) \in BOOLEAN
        OBVIOUS
      <4> QED
        BY <2>18, <3>1, <4>1 DEF Dormir
    <3> QED
      BY <2>18, <3>2 DEF Dormir, TypeOK
  <2>19. CASE Despertar
    BY <2>19 DEF Despertar, TypeOK
  <2>20. CASE UNCHANGED vars
    BY <2>20 DEF vars, TypeOK
  <2> QED
    BY <2>1, <2>2, <2>4, <2>5, <2>6, <2>7, <2>8, <2>9, <2>10, <2>11, <2>12, <2>13, <2>14,
       <2>15, <2>16, <2>17, <2>18, <2>19, <2>20
       DEF Next, PasoBucle, PasoExterno, Teclas, Terminado
<1> QED
  BY <1>1, <1>2, PTL DEF Spec

--------------------------------------------------------------------------------
(* The invariants of the conversations *)

\* comprobar_huella either changes nothing but the message, or takes the idle
\* reader for a new thread that nothing referred to.
LEMMA ComprobarHuellaEfecto ==
  ASSUME TypeOK, NEW b \in Bloqueo, NEW echada, NEW gen, NEW sondeos, NEW aviso,
         ComprobarHuella(b, echada, gen, sondeos, aviso)
  PROVE  \/ /\ bloqueo' = b
            /\ sondeosHuella' = sondeos
            /\ UNCHANGED <<obreros, ocupado>>
         \/ /\ echada
            /\ b.huella = Nadie
            /\ ocupado = FALSE /\ ocupado' = TRUE
            /\ \E w \in Obreros :
                 /\ obreros[w].fase = "fin" /\ w # b.comprobando
                 /\ bloqueo'.huella = w
                 /\ bloqueo'.comprobando = b.comprobando
                 /\ bloqueo'.escrito = b.escrito
                 /\ obreros' = [obreros EXCEPT ![w] = HiloHuella(gen)]
            /\ \E r : sondeosHuella' = sondeos \cup {[gen |-> gen, reanudaciones |-> r]}
  <1>1. CASE bloqueo' = b /\ sondeosHuella' = sondeos /\ UNCHANGED <<obreros, ocupado>>
    BY <1>1
  <1>2. CASE /\ QuiereHuella(b, echada) /\ SensorLibre /\ ocupado' = TRUE
             /\ \E w \in Obreros :
                  /\ Libre(w, b)
                  /\ bloqueo' = [b EXCEPT !.huella = w]
                  /\ obreros' = [obreros EXCEPT ![w] = HiloHuella(gen)]
             /\ sondeosHuella' = sondeos
                  \cup {[gen |-> gen, reanudaciones |-> b.huella_reanudaciones]}
    <2>1. echada /\ b.huella = Nadie /\ ocupado = FALSE
      BY <1>2 DEF QuiereHuella, SensorLibre, TypeOK
    <2>2. PICK w \in Obreros :
            /\ Libre(w, b)
            /\ bloqueo' = [b EXCEPT !.huella = w]
            /\ obreros' = [obreros EXCEPT ![w] = HiloHuella(gen)]
      BY <1>2
    <2>3. /\ bloqueo'.huella = w
          /\ bloqueo'.comprobando = b.comprobando
          /\ bloqueo'.escrito = b.escrito
      BY <2>2 DEF Bloqueo
    <2>4. obreros[w].fase = "fin" /\ w # b.comprobando
      BY <2>2 DEF Libre
    <2> QED
      BY <1>2, <2>1, <2>2, <2>3, <2>4
  <1> QED
    BY <1>1, <1>2 DEF ComprobarHuella

\* A call of comprobar_huella keeps the invariants, whoever makes it.
LEMMA HuellaCoherente ==
  ASSUME TypeOK, Coherencia,
         NEW b \in Bloqueo, NEW echada, NEW gen \in Nat, NEW aviso,
         NEW sondeos \in SUBSET sondeosHuella,
         ComprobarHuella(b, echada, gen, sondeos, aviso),
         b.comprobando = bloqueo.comprobando, b.escrito = bloqueo.escrito,
         b.huella \in {bloqueo.huella, Nadie},
         generacion' = gen, gen >= generacion, sondeosClave' = sondeosClave,
         muerto' \in BOOLEAN, bloqueada' \in BOOLEAN,
         muerto => muerto', bloqueada => bloqueada', echada => bloqueada',
         bloqueada' => marca' = "ausente",
         EstaBloqueado' => /\ b.comprobando # Nadie => gen \in sondeosClave
                           /\ b.huella # Nadie => \E s \in sondeos : s.gen = gen
  PROVE  Coherencia'
  <1> USE DEF Coherencia
  <1> generacion \in Nat /\ \A w \in Obreros : obreros[w].gen \in Nat
    BY DEF TypeOK, Obrero
  <1> /\ \A g \in sondeosClave : g \in Nat
      /\ \A s \in sondeosHuella : s.gen \in Nat
    BY DEF TypeOK
  <1>1. CASE /\ bloqueo' = b
             /\ sondeosHuella' = sondeos
             /\ UNCHANGED <<obreros, ocupado>>
    <2>1. ConversacionAtendida'
      BY <1>1 DEF ConversacionAtendida
    <2>2. SensorDeUno'
      BY <1>1 DEF SensorDeUno, Conversan
    <2>3. SecretoComprobado'
      BY <1>1 DEF SecretoComprobado
    <2>4. Generaciones'
      BY <1>1 DEF Generaciones
    <2>5. Clases'
      BY <1>1 DEF Clases
    <2>6. ConversacionPropia'
      BY <1>1 DEF ConversacionPropia, Generaciones
    <2>7. SesionAbierta'
      BY <1>1 DEF SesionAbierta
    <2> QED
      BY <2>1, <2>2, <2>3, <2>4, <2>5, <2>6, <2>7
  <1>2. ASSUME echada, b.huella = Nadie, ocupado = FALSE, ocupado' = TRUE,
               NEW w \in Obreros,
               obreros[w].fase = "fin", w # b.comprobando,
               bloqueo'.huella = w,
               bloqueo'.comprobando = b.comprobando,
               bloqueo'.escrito = b.escrito,
               obreros' = [obreros EXCEPT ![w] = HiloHuella(gen)],
               NEW r,
               sondeosHuella' = sondeos \cup {[gen |-> gen, reanudaciones |-> r]}
        PROVE  Coherencia'
    <2>0. /\ obreros'[w].clase = "huella" /\ obreros'[w].gen = gen
          /\ obreros'[w].fase = "pregunta"
          /\ \A v \in Obreros \ {w} : obreros'[v] = obreros[v]
      BY <1>2 DEF HiloHuella, TypeOK
    <2>c. b.comprobando \in Obreros \cup {Nadie} /\ w # Nadie
      BY NadieAssumption DEF Bloqueo
    <2>1. ConversacionAtendida'
      <3> DEFINE nuevo == [gen |-> gen, reanudaciones |-> r]
      <3>1. nuevo \in sondeosHuella' /\ nuevo.gen = generacion'
        BY <1>2
      <3> HIDE DEF nuevo
      <3>2. \E s \in sondeosHuella' : s.gen = generacion'
        BY <3>1
      <3>3. EstaBloqueado' /\ bloqueo'.comprobando # Nadie => generacion' \in sondeosClave'
        BY <1>2
      <3> QED
        BY <3>2, <3>3 DEF ConversacionAtendida
    <2>2. SensorDeUno'
      <3>1. Conversan = {}
        BY <1>2 DEF SensorDeUno
      <3>2. Conversan' = {w}
        BY <2>0, <3>1 DEF Conversan
      <3> QED
        BY <1>2, <3>2 DEF SensorDeUno
    <2>3. SecretoComprobado'
      BY <1>2, <2>0, <2>c DEF SecretoComprobado
    <2>4. Generaciones'
      BY <1>2, <2>0 DEF Generaciones
    <2>5. Clases'
      BY <1>2, <2>0, <2>c DEF Clases
    <2>6. ConversacionPropia'
      BY <1>2, <2>0, <2>c DEF ConversacionPropia, Generaciones
    <2>7. SesionAbierta'
      BY <1>2 DEF SesionAbierta
    <2> QED
      BY <2>1, <2>2, <2>3, <2>4, <2>5, <2>6, <2>7
  <1>3. CASE /\ echada
             /\ b.huella = Nadie
             /\ ocupado = FALSE /\ ocupado' = TRUE
             /\ \E w \in Obreros :
                  /\ obreros[w].fase = "fin" /\ w # b.comprobando
                  /\ bloqueo'.huella = w
                  /\ bloqueo'.comprobando = b.comprobando
                  /\ bloqueo'.escrito = b.escrito
                  /\ obreros' = [obreros EXCEPT ![w] = HiloHuella(gen)]
             /\ \E r : sondeosHuella' = sondeos \cup {[gen |-> gen, reanudaciones |-> r]}
    <2>1. PICK w \in Obreros :
                  /\ obreros[w].fase = "fin" /\ w # b.comprobando
                  /\ bloqueo'.huella = w
                  /\ bloqueo'.comprobando = b.comprobando
                  /\ bloqueo'.escrito = b.escrito
                  /\ obreros' = [obreros EXCEPT ![w] = HiloHuella(gen)]
      BY <1>3
    <2>2. PICK r : sondeosHuella' = sondeos \cup {[gen |-> gen, reanudaciones |-> r]}
      BY <1>3
    <2> QED
      BY <1>2, <1>3, <2>1, <2>2
  <1>4. \/ /\ bloqueo' = b
           /\ sondeosHuella' = sondeos
           /\ UNCHANGED <<obreros, ocupado>>
        \/ /\ echada
           /\ b.huella = Nadie
           /\ ocupado = FALSE /\ ocupado' = TRUE
           /\ \E w \in Obreros :
                /\ obreros[w].fase = "fin" /\ w # b.comprobando
                /\ bloqueo'.huella = w
                /\ bloqueo'.comprobando = b.comprobando
                /\ bloqueo'.escrito = b.escrito
                /\ obreros' = [obreros EXCEPT ![w] = HiloHuella(gen)]
           /\ \E r : sondeosHuella' = sondeos \cup {[gen |-> gen, reanudaciones |-> r]}
    BY ComprobarHuellaEfecto
  <1> QED
    BY <1>1, <1>3, <1>4

\* Accion::Desbloquear leaves nothing of the lock that ends, and puts every poller
\* that is left behind.
LEMMA DesbloquearCoherente ==
  ASSUME TypeOK, Coherencia, Desbloquear,
         sondeosClave' \subseteq sondeosClave, sondeosHuella' \subseteq sondeosHuella
  PROVE  Coherencia'
  <1> USE DEF Coherencia
  <1>1. /\ generacion \in Nat
        /\ \A w \in Obreros : obreros[w].gen \in Nat
        /\ \A g \in sondeosClave : g \in Nat
        /\ \A s \in sondeosHuella : s.gen \in Nat
    BY DEF TypeOK, Obrero
  <1>2. /\ bloqueo'.comprobando = Nadie /\ bloqueo'.huella = Nadie /\ bloqueo'.escrito = 0
        /\ bloqueada' = FALSE
        /\ generacion' = generacion + 1
        /\ obreros' = obreros /\ ocupado' = ocupado
    BY DEF Desbloquear, TrasSalir, BloqueoDefecto, Trabajo
  <1>3. ConversacionAtendida' /\ SecretoComprobado' /\ Clases' /\ SesionAbierta'
    BY <1>2 DEF ConversacionAtendida, EstaBloqueado, SecretoComprobado, Clases, SesionAbierta
  <1>4. SensorDeUno'
    BY <1>2 DEF SensorDeUno, Conversan
  <1>5. Generaciones' /\ ConversacionPropia'
    BY <1>1, <1>2 DEF Generaciones, ConversacionPropia
  <1> QED
    BY <1>2, <1>3, <1>4, <1>5

\* Any step that starts no conversation and neither locks nor unlocks: it may end
\* conversations, drop pollers, edit the field while nothing is checked.
LEMMA TranquiloCoherente ==
  ASSUME TypeOK, Coherencia,
         UNCHANGED <<bloqueada, marca, generacion>>,
         muerto' \in BOOLEAN, muerto => muerto',
         \A w \in Obreros : /\ obreros'[w].clase = obreros[w].clase
                            /\ obreros'[w].gen = obreros[w].gen
                            /\ obreros'[w].secreto = obreros[w].secreto,
         bloqueo'.comprobando \in {bloqueo.comprobando, Nadie},
         bloqueo'.huella \in {bloqueo.huella, Nadie},
         bloqueo'.comprobando # Nadie => bloqueo'.escrito = bloqueo.escrito,
         ~bloqueada => bloqueo'.escrito = 0,
         sondeosClave' \subseteq sondeosClave, sondeosHuella' \subseteq sondeosHuella,
         ConversacionAtendida', SensorDeUno'
  PROVE  Coherencia'
  <1> USE DEF Coherencia
  <1>1. bloqueo.comprobando \in Obreros \cup {Nadie} /\ bloqueo.huella \in Obreros \cup {Nadie}
    BY DEF TypeOK, Bloqueo
  <1>2. SecretoComprobado'
    BY <1>1 DEF SecretoComprobado
  <1>3. Generaciones'
    BY DEF Generaciones
  <1>4. Clases'
    BY <1>1 DEF Clases
  <1>5. ConversacionPropia'
    BY <1>1 DEF ConversacionPropia
  <1>6. SesionAbierta'
    BY DEF SesionAbierta
  <1> QED
    BY <1>2, <1>3, <1>4, <1>5, <1>6

\* The same, when the threads are left alone and both conversations go on.
LEMMA QuietoCoherente ==
  ASSUME TypeOK, Coherencia,
         UNCHANGED <<bloqueada, marca, generacion, obreros, ocupado, sondeosClave,
                     sondeosHuella>>,
         muerto' \in BOOLEAN, muerto => muerto',
         bloqueo'.comprobando = bloqueo.comprobando, bloqueo'.huella = bloqueo.huella,
         bloqueo'.comprobando # Nadie => bloqueo'.escrito = bloqueo.escrito,
         ~bloqueada => bloqueo'.escrito = 0
  PROVE  Coherencia'
  <1>1. ConversacionAtendida'
    BY DEF Coherencia, ConversacionAtendida, EstaBloqueado, TypeOK
  <1>2. SensorDeUno'
    BY DEF Coherencia, SensorDeUno, Conversan
  <1> QED
    BY <1>1, <1>2, TranquiloCoherente

\* Lanzar and its poller: the new thread holds the text that is in the field.
LEMMA LanzarCoherente ==
  ASSUME TypeOK, Coherencia, LanzarComprobacion
  PROVE  Coherencia'
  <1> USE DEF Coherencia
  <1>1. /\ EstaBloqueado /\ bloqueo.comprobando = Nadie
        /\ UNCHANGED <<bloqueada, muerto, marca, generacion, ocupado, sondeosHuella>>
        /\ sondeosClave' = sondeosClave \cup {generacion}
    BY DEF LanzarComprobacion, Comprobable, Editable, Barra
  <1>2. PICK w \in Obreros :
          /\ Libre(w, bloqueo)
          /\ obreros' = [obreros EXCEPT ![w] = HiloClave]
          /\ bloqueo' = [bloqueo EXCEPT !.reintentar = FALSE, !.comprobando = w]
    BY DEF LanzarComprobacion
  <1>3. /\ bloqueo'.comprobando = w /\ bloqueo'.huella = bloqueo.huella
        /\ bloqueo'.escrito = bloqueo.escrito
        /\ w # Nadie /\ w # bloqueo.huella /\ obreros[w].fase = "fin"
        /\ bloqueo.huella \in Obreros \cup {Nadie}
    BY <1>2, NadieAssumption DEF TypeOK, Bloqueo, Libre
  <1>4. /\ obreros'[w].clase = "clave" /\ obreros'[w].gen = generacion
        /\ obreros'[w].secreto = bloqueo.escrito
        /\ \A v \in Obreros \ {w} : obreros'[v] = obreros[v]
    BY <1>2 DEF HiloClave, TypeOK
  <1>5. generacion \in Nat /\ \A g \in sondeosClave : g \in Nat
    BY DEF TypeOK
  <1>6. ConversacionAtendida'
    BY <1>1, <1>3 DEF ConversacionAtendida
  <1>7. SensorDeUno'
    <2>1. Conversan' = Conversan
      BY <1>3, <1>4 DEF Conversan
    <2> QED
      BY <1>1, <2>1 DEF SensorDeUno
  <1>8. SecretoComprobado'
    BY <1>1, <1>3, <1>4 DEF SecretoComprobado, EstaBloqueado
  <1>9. Generaciones'
    BY <1>1, <1>4, <1>5 DEF Generaciones
  <1>10. Clases'
    BY <1>3, <1>4 DEF Clases
  <1>11. ConversacionPropia'
    BY <1>1, <1>3, <1>4 DEF ConversacionPropia
  <1>12. SesionAbierta'
    BY <1>1 DEF SesionAbierta, EstaBloqueado
  <1> QED
    BY <1>1, <1>6, <1>7, <1>8, <1>9, <1>10, <1>11, <1>12

\* A lock begins with nothing pending, because the session before it was open.
LEMMA BloquearCoherente ==
  ASSUME TypeOK, Coherencia, Bloquear
  PROVE  Coherencia'
  <1>1. /\ bloqueo \in Bloqueo /\ generacion \in Nat
        /\ sondeosHuella \in SUBSET sondeosHuella
        /\ bloqueada \in BOOLEAN /\ muerto \in BOOLEAN
    BY DEF TypeOK
  <1>2. /\ ~EstaBloqueado /\ marca' = "ausente" /\ generacion' = generacion + 1
        /\ sondeosClave' = sondeosClave
    BY DEF Bloquear, MarcarBloqueada
  <1>3. CASE /\ bloqueada' = TRUE /\ muerto' = muerto
             /\ ComprobarHuella(bloqueo, ~muerto, generacion + 1, sondeosHuella, "callada")
    <2>1. EstaBloqueado' => bloqueo.comprobando = Nadie /\ bloqueo.huella = Nadie
      BY <1>1, <1>2, <1>3 DEF EstaBloqueado, Coherencia, SesionAbierta
    <2>2. generacion + 1 \in Nat /\ generacion + 1 >= generacion
      BY <1>1
    <2> DEFINE gen == generacion + 1
    <2> HIDE DEF gen
    <2>3. gen \in Nat /\ gen >= generacion /\ generacion' = gen
          /\ ComprobarHuella(bloqueo, ~muerto, gen, sondeosHuella, "callada")
      BY <1>2, <1>3, <2>2 DEF gen
    <2> QED
      BY <1>1, <1>2, <1>3, <2>1, <2>3, HuellaCoherente
  <1>4. CASE /\ muerto' = TRUE /\ bloqueada' = bloqueada
             /\ ComprobarHuella(bloqueo, FALSE, generacion + 1, sondeosHuella, mensaje)
    <2>1. ~EstaBloqueado'
      BY <1>4 DEF EstaBloqueado
    <2>2. generacion + 1 \in Nat /\ generacion + 1 >= generacion
      BY <1>1
    <2> DEFINE gen == generacion + 1
    <2> HIDE DEF gen
    <2>3. gen \in Nat /\ gen >= generacion /\ generacion' = gen
          /\ ComprobarHuella(bloqueo, FALSE, gen, sondeosHuella, mensaje)
      BY <1>2, <1>4, <2>2 DEF gen
    <2> QED
      BY <1>1, <1>2, <1>4, <2>1, <2>3, HuellaCoherente
  <1> QED
    BY <1>3, <1>4 DEF Bloquear

\* The key handlers.
LEMMA TeclasCoherente ==
  ASSUME TypeOK, Coherencia, Teclas
  PROVE  Coherencia'
  <1> USE DEF Barra, Fuentes, Trabajo
  <1>0. /\ bloqueo \in Bloqueo /\ muerto \in BOOLEAN /\ bloqueada \in BOOLEAN
        /\ generacion \in Nat /\ sondeosHuella \in SUBSET sondeosHuella
    BY DEF TypeOK
  <1>1. ASSUME NEW b, Editar(b), b.comprobando = bloqueo.comprobando,
               b.huella = bloqueo.huella
        PROVE  Coherencia'
    <2>1. bloqueo' = b /\ bloqueo'.comprobando = Nadie /\ bloqueada
          /\ UNCHANGED <<bloqueada, muerto, marca, generacion, obreros, ocupado,
                         sondeosClave, sondeosHuella>>
      BY <1>1 DEF Editar, Editable, EstaBloqueado
    <2> QED
      BY <1>0, <1>1, <2>1, QuietoCoherente
  <1>2. CASE BloqueoEscribir
    BY <1>0, <1>1, <1>2 DEF BloqueoEscribir, Bloqueo
  <1>3. CASE BloqueoBorrar
    BY <1>0, <1>1, <1>3 DEF BloqueoBorrar, Bloqueo
  <1>4. CASE BloqueoLimpiar
    BY <1>0, <1>1, <1>4 DEF BloqueoLimpiar, Bloqueo
  <1>5. CASE ComprobarRetenido
    <2>1. ~bloqueada => bloqueo.escrito = 0
      BY DEF Coherencia, SesionAbierta
    <2>2. UNCHANGED <<bloqueo, bloqueada, muerto, marca, generacion, obreros, ocupado,
                      sondeosClave, sondeosHuella>>
      BY <1>5 DEF ComprobarRetenido
    <2> QED
      BY <1>0, <2>1, <2>2, QuietoCoherente
  <1>6. CASE ComprobarSinHilo
    <2>1. /\ bloqueo'.comprobando = bloqueo.comprobando /\ bloqueo'.huella = bloqueo.huella
          /\ bloqueo'.escrito = 0 /\ bloqueo.comprobando = Nadie
          /\ UNCHANGED <<bloqueada, muerto, marca, generacion, obreros, ocupado,
                         sondeosClave, sondeosHuella>>
      BY <1>0, <1>6 DEF ComprobarSinHilo, Comprobable, Editable, Bloqueo
    <2> QED
      BY <1>0, <2>1, QuietoCoherente
  <1>7. CASE BloqueoHuella
    <2>1. /\ EstaBloqueado
          /\ ComprobarHuella(bloqueo, TRUE, generacion, sondeosHuella, mensaje)
          /\ UNCHANGED <<bloqueada, muerto, marca, generacion, sondeosClave>>
      BY <1>7 DEF BloqueoHuella
    <2>2. /\ bloqueo.comprobando # Nadie => generacion \in sondeosClave
          /\ bloqueo.huella # Nadie => \E s \in sondeosHuella : s.gen = generacion
          /\ bloqueada => marca = "ausente"
      BY <2>1 DEF Coherencia, ConversacionAtendida
    <2>3. generacion >= generacion
      BY <1>0
    <2> QED
      BY <1>0, <2>1, <2>2, <2>3, HuellaCoherente DEF EstaBloqueado
  <1> QED
    BY <1>2, <1>3, <1>4, <1>5, <1>6, <1>7, LanzarCoherente DEF Teclas

\* The pollers of the password.
LEMMA SondeoClaveCoherente ==
  ASSUME TypeOK, Coherencia, NEW g \in sondeosClave, SondeoClave(g)
  PROVE  Coherencia'
  <1> USE DEF Barra, Fuentes, Trabajo
  <1>0. /\ bloqueo \in Bloqueo /\ muerto \in BOOLEAN /\ bloqueada \in BOOLEAN
        /\ ~bloqueada => bloqueo.escrito = 0
        /\ ConversacionAtendida /\ SensorDeUno
    BY DEF TypeOK, Coherencia, SesionAbierta
  <1>1. CASE SondeoClaveCaduco(g)
    <2>1. /\ UNCHANGED <<bloqueo, bloqueada, muerto, marca, generacion, obreros, ocupado,
                         sondeosHuella>>
          /\ sondeosClave' = sondeosClave \ {g}
          /\ g # generacion \/ bloqueo.comprobando = Nadie
      BY <1>1 DEF SondeoClaveCaduco, ClaveCaduca
    <2>2. ConversacionAtendida'
      BY <1>0, <2>1 DEF ConversacionAtendida, EstaBloqueado
    <2>3. SensorDeUno'
      BY <1>0, <2>1 DEF SensorDeUno, Conversan
    <2> QED
      BY <1>0, <2>1, <2>2, <2>3, TranquiloCoherente
  <1>2. CASE SondeoClaveAcierta(g)
    <2>1. Desbloquear /\ sondeosClave' \subseteq sondeosClave
          /\ sondeosHuella' \subseteq sondeosHuella
      BY <1>2 DEF SondeoClaveAcierta
    <2> QED
      BY <2>1, DesbloquearCoherente
  <1>3. CASE SondeoClaveFalla(g)
    <2>1. /\ bloqueo'.comprobando = Nadie /\ bloqueo'.huella = bloqueo.huella
          /\ bloqueo'.escrito = 0
          /\ UNCHANGED <<bloqueada, muerto, marca, generacion, obreros, ocupado,
                         sondeosHuella>>
          /\ sondeosClave' \subseteq sondeosClave
      BY <1>0, <1>3 DEF SondeoClaveFalla, Bloqueo
    <2>2. ConversacionAtendida'
      BY <1>0, <2>1 DEF ConversacionAtendida, EstaBloqueado
    <2>3. SensorDeUno'
      BY <1>0, <2>1 DEF SensorDeUno, Conversan
    <2> QED
      BY <1>0, <2>1, <2>2, <2>3, TranquiloCoherente
  <1> QED
    BY <1>1, <1>2, <1>3 DEF SondeoClave

\* The pollers of the fingerprint.
LEMMA SondeoHuellaCoherente ==
  ASSUME TypeOK, Coherencia, NEW s \in sondeosHuella, SondeoHuella(s)
  PROVE  Coherencia'
  <1> USE DEF Barra, Fuentes, Trabajo
  <1>0. /\ bloqueo \in Bloqueo /\ muerto \in BOOLEAN /\ bloqueada \in BOOLEAN
        /\ generacion \in Nat
        /\ ~bloqueada => bloqueo.escrito = 0
        /\ bloqueada => marca = "ausente"
        /\ ConversacionAtendida /\ SensorDeUno
    BY DEF TypeOK, Coherencia, SesionAbierta
  <1>1. CASE SondeoHuellaCaduco(s)
    <2>1. /\ UNCHANGED <<bloqueo, bloqueada, muerto, marca, generacion, obreros, ocupado,
                         sondeosClave>>
          /\ sondeosHuella' = sondeosHuella \ {s}
          /\ s.gen # generacion \/ bloqueo.huella = Nadie
      BY <1>1 DEF SondeoHuellaCaduco, HuellaCaduca
    <2>2. ConversacionAtendida'
      BY <1>0, <2>1 DEF ConversacionAtendida, EstaBloqueado
    <2>3. SensorDeUno'
      BY <1>0, <2>1 DEF SensorDeUno, Conversan
    <2> QED
      BY <1>0, <2>1, <2>2, <2>3, TranquiloCoherente
  <1>2. CASE SondeoHuellaAviso(s)
    <2>1. UNCHANGED <<bloqueo, bloqueada, muerto, marca, generacion, obreros, ocupado,
                      sondeosClave, sondeosHuella>>
      BY <1>2 DEF SondeoHuellaAviso
    <2> QED
      BY <1>0, <2>1, QuietoCoherente
  <1>3. CASE SondeoHuellaAcierta(s)
    <2>1. Desbloquear /\ sondeosClave' \subseteq sondeosClave
          /\ sondeosHuella' \subseteq sondeosHuella
      BY <1>3 DEF SondeoHuellaAcierta
    <2> QED
      BY <2>1, DesbloquearCoherente
  <1>4. CASE SondeoHuellaRenueva(s)
    <2> DEFINE b == [bloqueo EXCEPT !.huella = Nadie]
    <2>1. /\ ComprobarHuella(b, EstaBloqueado, generacion, sondeosHuella \ {s}, mensaje)
          /\ UNCHANGED <<bloqueada, muerto, marca, generacion, sondeosClave>>
      BY <1>4 DEF SondeoHuellaRenueva
    <2>2. b \in Bloqueo /\ b.comprobando = bloqueo.comprobando /\ b.huella = Nadie
          /\ b.escrito = bloqueo.escrito
      BY <1>0 DEF Bloqueo
    <2> HIDE DEF b
    <2>3. EstaBloqueado /\ b.comprobando # Nadie => generacion \in sondeosClave
      BY <1>0, <2>2 DEF ConversacionAtendida
    <2>4. generacion >= generacion /\ sondeosHuella \ {s} \in SUBSET sondeosHuella
      BY <1>0
    <2> QED
      BY <1>0, <2>1, <2>2, <2>3, <2>4, HuellaCoherente DEF EstaBloqueado
  <1>5. ASSUME NEW b, NEW aviso, CierraHuella(s, b, aviso),
               b.comprobando = bloqueo.comprobando, b.huella = Nadie,
               b.escrito = bloqueo.escrito
        PROVE  Coherencia'
    <2>1. /\ bloqueo' = b
          /\ UNCHANGED <<bloqueada, muerto, marca, generacion, obreros, ocupado,
                         sondeosClave>>
          /\ sondeosHuella' \subseteq sondeosHuella
      BY <1>5 DEF CierraHuella
    <2>2. ConversacionAtendida'
      BY <1>0, <1>5, <2>1 DEF ConversacionAtendida, EstaBloqueado
    <2>3. SensorDeUno'
      BY <1>0, <2>1 DEF SensorDeUno, Conversan
    <2> QED
      BY <1>0, <1>5, <2>1, <2>2, <2>3, TranquiloCoherente
  <1>6. CASE SondeoHuellaSinLector(s)
    BY <1>0, <1>5, <1>6 DEF SondeoHuellaSinLector, Bloqueo
  <1>7. CASE SondeoHuellaRechaza(s)
    BY <1>0, <1>5, <1>7 DEF SondeoHuellaRechaza, Bloqueo
  <1> QED
    BY <1>1, <1>2, <1>3, <1>4, <1>6, <1>7 DEF SondeoHuella

\* The threads.  A fingerprint thread that ends drops its guard with it.
LEMMA HilosCoherente ==
  ASSUME TypeOK, Coherencia, NEW w \in Obreros,
         Contesta(w) \/ LiberaSensor(w) \/ MuereObrero(w) \/ PasaHuellaAgotada(w)
  PROVE  Coherencia'
  <1> USE DEF Bucle, Barra, Fuentes, Trabajo
  <1>0. /\ bloqueo \in Bloqueo /\ muerto \in BOOLEAN
        /\ obreros \in [Obreros -> Obrero] /\ ocupado \in BOOLEAN
        /\ ~bloqueada => bloqueo.escrito = 0
        /\ ConversacionAtendida /\ SensorDeUno
    BY DEF TypeOK, Coherencia, SesionAbierta
  <1>1. UNCHANGED <<bloqueo, bloqueada, muerto, marca, generacion, sondeosClave,
                    sondeosHuella>>
    BY DEF Contesta, ContestaClave, ContestaHuella, LiberaSensor, MuereObrero,
           PasaHuellaAgotada
  <1>2. ConversacionAtendida'
    BY <1>0, <1>1 DEF ConversacionAtendida, EstaBloqueado
  <1>3. /\ \A v \in Obreros \ {w} : obreros'[v] = obreros[v]
        /\ obreros'[w].clase = obreros[w].clase /\ obreros'[w].gen = obreros[w].gen
        /\ obreros'[w].secreto = obreros[w].secreto
    BY <1>0 DEF Contesta, ContestaClave, ContestaHuella, LiberaSensor, MuereObrero,
           PasaHuellaAgotada, Obrero
  <1>4. SensorDeUno'
    <2>1. CASE /\ ocupado' = ocupado
               /\ obreros[w].clase = "huella" =>
                    (obreros'[w].fase = "fin" <=> obreros[w].fase = "fin")
      <3>1. Conversan' = Conversan
        BY <1>3, <2>1 DEF Conversan
      <3> QED
        BY <1>0, <2>1, <3>1 DEF SensorDeUno
    <2>2. CASE /\ ocupado' = FALSE /\ obreros[w].clase = "huella"
               /\ obreros[w].fase # "fin" /\ obreros'[w].fase = "fin"
      <3>1. Conversan = {w}
        BY <1>0, <2>2 DEF SensorDeUno, Conversan
      <3>2. Conversan' = {}
        BY <1>3, <2>2, <3>1 DEF Conversan
      <3> QED
        BY <2>2, <3>2 DEF SensorDeUno
    <2>3. CASE Contesta(w)
      BY <1>0, <2>1, <2>3 DEF Contesta, ContestaClave, ContestaHuella, Obrero
    <2>4. CASE LiberaSensor(w)
      BY <1>0, <2>2, <2>4 DEF LiberaSensor, Obrero
    <2>5. CASE MuereObrero(w)
      <3>1. obreros[w].fase = "pregunta" /\ obreros'[w].fase = "fin"
        BY <1>0, <2>5 DEF MuereObrero, Obrero
      <3>2. CASE obreros[w].clase = "huella"
        <4>1. ocupado' = FALSE
          BY <2>5, <3>2 DEF MuereObrero
        <4> QED
          BY <2>2, <3>1, <3>2, <4>1
      <3>3. CASE obreros[w].clase = "clave"
        <4>1. ocupado' = ocupado
          BY <1>0, <2>5, <3>3 DEF MuereObrero
        <4> QED
          BY <2>1, <3>3, <4>1
      <3> QED
        BY <1>0, <3>2, <3>3 DEF Obrero
    <2>6. CASE PasaHuellaAgotada(w)
      BY <1>0, <2>1, <2>6 DEF PasaHuellaAgotada, Obrero
    <2> QED
      BY <2>3, <2>4, <2>5, <2>6
  <1> QED
    BY <1>0, <1>1, <1>2, <1>3, <1>4, TranquiloCoherente

\* Nothing is pending in an open session, every pending conversation has a live
\* poller of its own lock, one conversation at most owns the reader, and the permit
\* to restart without authentication is gone from before the lock goes up.
THEOREM CoherenciaCorrect == Spec => []Coherencia
<1>1. ASSUME Init PROVE Coherencia
  <2>1. /\ bloqueada = FALSE /\ ocupado = FALSE /\ sondeosClave = {} /\ sondeosHuella = {}
        /\ generacion = 0
        /\ bloqueo.comprobando = Nadie /\ bloqueo.huella = Nadie /\ bloqueo.escrito = 0
        /\ \A w \in Obreros : obreros[w].fase = "fin" /\ obreros[w].gen = 0
    BY <1>1 DEF Init, BloqueoDefecto, Parado
  <2>2. ConversacionAtendida /\ SecretoComprobado /\ Clases /\ SesionAbierta
    BY <2>1 DEF ConversacionAtendida, EstaBloqueado, SecretoComprobado, Clases, SesionAbierta
  <2>3. SensorDeUno
    BY <2>1 DEF SensorDeUno, Conversan
  <2>4. Generaciones /\ ConversacionPropia
    BY <2>1 DEF Generaciones, ConversacionPropia
  <2> QED
    BY <2>1, <2>2, <2>3, <2>4 DEF Coherencia
<1>2. ASSUME TypeOK, Coherencia, [Next]_vars PROVE Coherencia'
  <2> USE <1>2
  <2> USE DEF Barra, Fuentes, Trabajo, Entorno, Bucle
  <2>0. /\ bloqueo \in Bloqueo /\ muerto \in BOOLEAN /\ ConversacionAtendida /\ SensorDeUno
        /\ obreros \in [Obreros -> Obrero]
        /\ ~bloqueada => bloqueo.escrito = 0
    BY DEF TypeOK, Coherencia, SesionAbierta
  <2>1. ASSUME UNCHANGED <<bloqueada, marca, generacion, obreros, ocupado, sondeosClave,
                           sondeosHuella, muerto>>,
               bloqueo'.comprobando = bloqueo.comprobando,
               bloqueo'.huella = bloqueo.huella, bloqueo'.escrito = bloqueo.escrito
        PROVE  Coherencia'
    BY <2>0, <2>1, QuietoCoherente
  <2>2. CASE Bloquear
    BY <2>2, BloquearCoherente
  <2>3. CASE BloquearSinProteger
    BY <2>1, <2>3 DEF BloquearSinProteger
  <2>4. CASE Teclas
    BY <2>4, TeclasCoherente
  <2>5. CASE \E g \in sondeosClave : SondeoClave(g)
    BY <2>5, SondeoClaveCoherente
  <2>6. CASE \E s \in sondeosHuella : SondeoHuella(s)
    BY <2>6, SondeoHuellaCoherente
  <2>7. CASE \E g \in temporizadores : TemporizadorReintento(g)
    BY <2>0, <2>1, <2>7 DEF TemporizadorReintento, LevantaDemora, Bloqueo
  <2>8. CASE ReanudarHuella
    <3> DEFINE b == Reanudado
    <3>1. /\ b \in Bloqueo /\ b.comprobando = bloqueo.comprobando
          /\ b.huella = bloqueo.huella /\ b.escrito = bloqueo.escrito
      <4>1. bloqueo.huella_reanudaciones + 1 \in Nat
        BY <2>0 DEF Bloqueo
      <4>2. b \in Bloqueo
        BY <2>0, <4>1, ReanudadoType DEF Reanudado
      <4> QED
        BY <2>0, <4>2 DEF Reanudado, Bloqueo
    <3> HIDE DEF b
    <3>2. /\ ComprobarHuella(b, EstaBloqueado, generacion, sondeosHuella, mensaje)
          /\ UNCHANGED <<bloqueada, muerto, marca, generacion, sondeosClave>>
      BY <2>8 DEF ReanudarHuella, b
    <3>3. /\ EstaBloqueado /\ b.comprobando # Nadie => generacion \in sondeosClave
          /\ EstaBloqueado /\ b.huella # Nadie => \E s \in sondeosHuella : s.gen = generacion
          /\ bloqueada => marca = "ausente"
      BY <2>0, <3>1 DEF ConversacionAtendida, Coherencia
    <3>4. /\ generacion \in Nat /\ generacion >= generacion
          /\ bloqueada \in BOOLEAN /\ sondeosHuella \in SUBSET sondeosHuella
      BY DEF TypeOK
    <3> QED
      BY <2>0, <3>1, <3>2, <3>3, <3>4, HuellaCoherente DEF EstaBloqueado
  <2>9. CASE Revienta
    <3>1. /\ UNCHANGED <<bloqueo, bloqueada, marca, generacion, obreros, ocupado,
                         sondeosClave, sondeosHuella>>
          /\ muerto' = TRUE
      BY <2>9 DEF Revienta
    <3> QED
      BY <2>0, <3>1, QuietoCoherente
  <2>10. CASE \E w \in Obreros : Contesta(w) \/ LiberaSensor(w) \/ MuereObrero(w)
                                 \/ PasaHuellaAgotada(w)
    BY <2>10, HilosCoherente
  <2>11. CASE VenceDemora \/ CambiaAjuste \/ Despertar \/ UNCHANGED vars
    BY <2>1, <2>11 DEF VenceDemora, CambiaAjuste, Despertar, vars
  <2>12. CASE VenceEsperaHuella
    BY <2>0, <2>1, <2>12 DEF VenceEsperaHuella, Bloqueo
  <2>13. CASE Dormir
    <3>1. /\ UNCHANGED <<bloqueo, bloqueada, muerto, marca, generacion, ocupado,
                         sondeosClave, sondeosHuella>>
          /\ \A w \in Obreros : /\ obreros'[w].clase = obreros[w].clase
                                /\ obreros'[w].gen = obreros[w].gen
                                /\ obreros'[w].secreto = obreros[w].secreto
                                /\ obreros'[w].fase = obreros[w].fase
      BY <2>0, <2>13 DEF Dormir, Obrero
    <3>2. ConversacionAtendida'
      BY <2>0, <3>1 DEF ConversacionAtendida, EstaBloqueado
    <3>3. SensorDeUno'
      <4>1. Conversan' = Conversan
        BY <3>1 DEF Conversan
      <4> QED
        BY <2>0, <3>1, <4>1 DEF SensorDeUno
    <3> QED
      BY <2>0, <3>1, <3>2, <3>3, TranquiloCoherente
  <2> QED
    BY <2>2, <2>3, <2>4, <2>5, <2>6, <2>7, <2>8, <2>9, <2>10, <2>11, <2>12, <2>13
       DEF Next, PasoBucle, PasoExterno, Terminado
<1> QED
  BY <1>1, <1>2, TypeCorrect, PTL DEF Spec

\* bloquear: no lock is ever up while the supervisor could restart the session
\* without authentication.
THEOREM CierreSeguroCorrect == Spec => []CierreSeguro
<1>1. Coherencia => CierreSeguro
  BY DEF Coherencia, CierreSeguro, EstaBloqueado
<1> QED
  BY <1>1, CoherenciaCorrect, PTL

\* comprobar_bloqueo, recoger_comprobacion, comprobar_huella: a conversation the
\* lock waits for always has a poller of the current generation.
THEOREM ConversacionAtendidaCorrect == Spec => []ConversacionAtendida
<1>1. Coherencia => ConversacionAtendida
  BY DEF Coherencia
<1> QED
  BY <1>1, CoherenciaCorrect, PTL

\* Comprobacion::huella: one conversation with the reader at most, and OCUPADO says
\* whether there is one.
THEOREM SensorDeUnoCorrect == Spec => []SensorDeUno
<1>1. Coherencia => SensorDeUno
  BY DEF Coherencia
<1> QED
  BY <1>1, CoherenciaCorrect, PTL

\* The text under check is the text of the field, and no text outlives its lock.
THEOREM SecretoComprobadoCorrect == Spec => []SecretoComprobado
<1>1. Coherencia => SecretoComprobado
  BY DEF Coherencia
<1> QED
  BY <1>1, CoherenciaCorrect, PTL

(***************************************************************************)
(* The barrier.                                                            *)
(***************************************************************************)

\* A step that neither locks nor unlocks, and forgets no grant, is a grant or a
\* stutter of the barrier.
LEMMA PasoBarrera ==
  ASSUME bloqueada' = bloqueada, generacion' = generacion, Concedido => Concedido'
  PROVE  [Barrera!Next]_(Barrera!vars)
  <1>1. Concedido \in BOOLEAN /\ Concedido' \in BOOLEAN
    BY DEF Concedido
  <1>2. CASE Concedido' = TRUE
    BY <1>2 DEF Barrera!Next, Barrera!Conceder
  <1>3. CASE Concedido' = FALSE
    <2>1. Concedido' = Concedido
      BY <1>1, <1>3
    <2> QED
      BY <2>1 DEF Barrera!vars
  <1> QED
    BY <1>1, <1>2, <1>3

\* No grant is forgotten while the threads that granted are still referred to.
LEMMA ConcesionQueda ==
  ASSUME TypeOK, generacion' = generacion,
         \A w \in Obreros :
           Concede(w) /\ w \in {bloqueo.comprobando, bloqueo.huella} =>
             /\ obreros'[w].gen = obreros[w].gen
             /\ obreros'[w].fase # "pregunta"
             /\ obreros'[w].respuesta = obreros[w].respuesta
             /\ w \in {bloqueo'.comprobando, bloqueo'.huella}
  PROVE  Concedido => Concedido'
  <1>1. SUFFICES ASSUME NEW w \in {bloqueo.comprobando, bloqueo.huella} \ {Nadie},
                        Concede(w)
                 PROVE  Concedido'
    BY DEF Concedido
  <1>2. w \in Obreros
    BY DEF TypeOK, Bloqueo
  <1>3. /\ w \in {bloqueo'.comprobando, bloqueo'.huella} \ {Nadie}
        /\ obreros'[w].gen = generacion' /\ obreros'[w].fase # "pregunta"
        /\ obreros'[w].respuesta = "correcto"
    BY <1>1, <1>2 DEF Concede
  <1> QED
    BY <1>3 DEF Concedido, Concede

\* comprobar_huella takes a thread nothing referred to: it forgets no grant, as long
\* as the state it is called with has forgotten none.
LEMMA HuellaConcesion ==
  ASSUME TypeOK, NEW b \in Bloqueo, NEW echada, NEW sondeos, NEW aviso,
         ComprobarHuella(b, echada, generacion, sondeos, aviso),
         generacion' = generacion,
         b.comprobando = bloqueo.comprobando,
         \/ b.huella = bloqueo.huella
         \/ b.huella = Nadie /\ bloqueo.huella # Nadie /\ ~Concede(bloqueo.huella)
  PROVE  Concedido => Concedido'
  <1>1. CASE bloqueo' = b /\ UNCHANGED <<obreros, ocupado>>
    <2>1. \A w \in Obreros : Concede(w) /\ w \in {bloqueo.comprobando, bloqueo.huella}
            => /\ obreros'[w].gen = obreros[w].gen
               /\ obreros'[w].fase # "pregunta"
               /\ obreros'[w].respuesta = obreros[w].respuesta
               /\ w \in {bloqueo'.comprobando, bloqueo'.huella}
      BY <1>1 DEF Concede
    <2> QED
      BY <2>1, ConcesionQueda
  <1>2. CASE /\ b.huella = Nadie
             /\ \E w \in Obreros :
                  /\ obreros[w].fase = "fin" /\ w # b.comprobando
                  /\ bloqueo'.huella = w
                  /\ bloqueo'.comprobando = b.comprobando
                  /\ bloqueo'.escrito = b.escrito
                  /\ obreros' = [obreros EXCEPT ![w] = HiloHuella(generacion)]
    <2>1. PICK w \in Obreros :
            /\ w # b.comprobando
            /\ bloqueo'.comprobando = b.comprobando
            /\ obreros' = [obreros EXCEPT ![w] = HiloHuella(generacion)]
      BY <1>2
    <2>2. \A v \in Obreros \ {w} : obreros'[v] = obreros[v]
      BY <2>1 DEF TypeOK
    <2>3. \A v \in Obreros : Concede(v) /\ v \in {bloqueo.comprobando, bloqueo.huella}
            => v = bloqueo.comprobando
      BY <1>2, NadieAssumption
    <2>4. \A v \in Obreros : Concede(v) /\ v \in {bloqueo.comprobando, bloqueo.huella}
            => /\ obreros'[v].gen = obreros[v].gen
               /\ obreros'[v].fase # "pregunta"
               /\ obreros'[v].respuesta = obreros[v].respuesta
               /\ v \in {bloqueo'.comprobando, bloqueo'.huella}
      BY <2>1, <2>2, <2>3 DEF Concede
    <2> QED
      BY <2>4, ConcesionQueda
  <1> QED
    BY <1>1, <1>2, ComprobarHuellaEfecto

\* A step that leaves the threads alone and ends no conversation.
LEMMA QuietoBarrera ==
  ASSUME TypeOK,
         UNCHANGED <<bloqueada, generacion, obreros>>,
         bloqueo'.comprobando = bloqueo.comprobando, bloqueo'.huella = bloqueo.huella
  PROVE  [Barrera!Next]_(Barrera!vars)
  <1>1. Concedido => Concedido'
    BY DEF Concedido, Concede
  <1> QED
    BY <1>1, PasoBarrera

\* Accion::Desbloquear, when a conversation of this lock granted the exit.
LEMMA DesbloquearBarrera ==
  ASSUME Desbloquear, Concedido
  PROVE  Barrera!Soltar
  <1>1. /\ bloqueo'.comprobando = Nadie /\ bloqueo'.huella = Nadie
        /\ bloqueada' = FALSE /\ generacion' = generacion + 1
    BY DEF Desbloquear, TrasSalir, BloqueoDefecto
  <1>2. Concedido' = FALSE
    BY <1>1 DEF Concedido
  <1> QED
    BY <1>1, <1>2 DEF Barrera!Soltar

LEMMA BloquearBarrera ==
  ASSUME TypeOK, Coherencia, Bloquear
  PROVE  Barrera!Echar
  <1>0. /\ bloqueo \in Bloqueo /\ generacion \in Nat
        /\ \A w \in Obreros : obreros[w].gen \in Nat /\ obreros[w].gen <= generacion
    BY DEF TypeOK, Obrero, Coherencia, Generaciones
  <1>1. generacion' = generacion + 1 /\ bloqueada' \in {bloqueada, TRUE}
    BY DEF Bloquear
  <1>2. PICK echada, aviso :
          ComprobarHuella(bloqueo, echada, generacion + 1, sondeosHuella, aviso)
    BY DEF Bloquear
  <1>3. \/ bloqueo' = bloqueo /\ obreros' = obreros
        \/ \E w \in Obreros :
             /\ bloqueo'.huella = w
             /\ bloqueo'.comprobando = bloqueo.comprobando
             /\ obreros' = [obreros EXCEPT ![w] = HiloHuella(generacion + 1)]
    BY <1>0, <1>2, ComprobarHuellaEfecto
  <1>4. ASSUME NEW v \in {bloqueo'.comprobando, bloqueo'.huella} \ {Nadie}
        PROVE  ~(obreros'[v].gen = generacion' /\ obreros'[v].fase # "pregunta")
    <2>1. CASE bloqueo' = bloqueo /\ obreros' = obreros
      <3>1. v \in Obreros
        BY <1>0, <2>1 DEF Bloqueo
      <3> QED
        BY <1>0, <1>1, <2>1, <3>1
    <2>2. CASE \E w \in Obreros :
             /\ bloqueo'.huella = w
             /\ bloqueo'.comprobando = bloqueo.comprobando
             /\ obreros' = [obreros EXCEPT ![w] = HiloHuella(generacion + 1)]
      <3>1. PICK w \in Obreros :
             /\ bloqueo'.huella = w
             /\ bloqueo'.comprobando = bloqueo.comprobando
             /\ obreros' = [obreros EXCEPT ![w] = HiloHuella(generacion + 1)]
        BY <2>2
      <3>2. v \in Obreros
        BY <1>0, <3>1 DEF Bloqueo
      <3>3. v = w => obreros'[v].fase = "pregunta"
        BY <3>1 DEF HiloHuella, TypeOK
      <3>4. v # w => obreros'[v] = obreros[v]
        BY <3>1, <3>2 DEF TypeOK
      <3> QED
        BY <1>0, <1>1, <3>2, <3>3, <3>4
    <2> QED
      BY <1>3, <2>1, <2>2
  <1>5. Concedido' = FALSE
    BY <1>4 DEF Concedido, Concede
  <1> QED
    BY <1>1, <1>5 DEF Barrera!Echar

LEMMA SondeoClaveBarrera ==
  ASSUME TypeOK, Coherencia, NEW g \in sondeosClave, SondeoClave(g)
  PROVE  [Barrera!Next]_(Barrera!vars)
  <1> USE DEF Barra, Trabajo
  <1> DEFINE w == bloqueo.comprobando
  <1>0. bloqueo \in Bloqueo /\ obreros \in [Obreros -> Obrero]
        /\ w \in Obreros \cup {Nadie}
    BY DEF TypeOK, Bloqueo
  <1>1. CASE SondeoClaveCaduco(g)
    BY <1>1, QuietoBarrera DEF SondeoClaveCaduco
  <1>2. CASE SondeoClaveAcierta(g)
    <2>1. /\ Desbloquear
          /\ w # Nadie /\ generacion \in sondeosClave
          /\ obreros[w].fase # "pregunta" /\ obreros[w].respuesta = "correcto"
      BY <1>2 DEF SondeoClaveAcierta, ClaveResuelta, ClaveCaduca, Veredicto
    <2>2. obreros[w].gen = generacion
      BY <2>1 DEF Coherencia, ConversacionPropia
    <2>3. Concedido
      BY <2>1, <2>2 DEF Concedido, Concede
    <2> QED
      BY <2>1, <2>3, DesbloquearBarrera DEF Barrera!Next
  <1>3. CASE SondeoClaveFalla(g)
    <2>1. /\ UNCHANGED <<bloqueada, generacion, obreros>>
          /\ bloqueo'.huella = bloqueo.huella
      BY <1>0, <1>3 DEF SondeoClaveFalla, Bloqueo
    <2>2. ~Concede(w)
      BY <1>3 DEF SondeoClaveFalla, ClaveResuelta, Veredicto, Concede
    <2>3. \A v \in Obreros : Concede(v) /\ v \in {bloqueo.comprobando, bloqueo.huella}
            => v = bloqueo'.huella
      BY <2>1, <2>2
    <2>4. \A v \in Obreros : Concede(v) /\ v \in {bloqueo.comprobando, bloqueo.huella}
            => /\ obreros'[v].gen = obreros[v].gen
               /\ obreros'[v].fase # "pregunta"
               /\ obreros'[v].respuesta = obreros[v].respuesta
               /\ v \in {bloqueo'.comprobando, bloqueo'.huella}
      BY <2>1, <2>3 DEF Concede
    <2> QED
      BY <2>1, <2>4, ConcesionQueda, PasoBarrera
  <1> QED
    BY <1>1, <1>2, <1>3 DEF SondeoClave

LEMMA SondeoHuellaBarrera ==
  ASSUME TypeOK, Coherencia, NEW s \in sondeosHuella, SondeoHuella(s)
  PROVE  [Barrera!Next]_(Barrera!vars)
  <1> USE DEF Barra, Trabajo
  <1> DEFINE w == bloqueo.huella
  <1>0. bloqueo \in Bloqueo /\ obreros \in [Obreros -> Obrero]
        /\ w \in Obreros \cup {Nadie}
    BY DEF TypeOK, Bloqueo
  <1>1. CASE SondeoHuellaCaduco(s)
    BY <1>1, QuietoBarrera DEF SondeoHuellaCaduco
  <1>2. CASE SondeoHuellaAviso(s)
    BY <1>2, QuietoBarrera DEF SondeoHuellaAviso
  <1>3. CASE SondeoHuellaAcierta(s)
    <2>1. /\ Desbloquear
          /\ w # Nadie /\ s.gen = generacion
          /\ obreros[w].fase # "pregunta" /\ obreros[w].respuesta = "correcto"
      BY <1>3 DEF SondeoHuellaAcierta, HuellaDice, HuellaCaduca, Veredicto
    <2>2. obreros[w].gen = generacion
      BY <2>1 DEF Coherencia, ConversacionPropia
    <2>3. Concedido
      BY <2>1, <2>2 DEF Concedido, Concede
    <2> QED
      BY <2>1, <2>3, DesbloquearBarrera DEF Barrera!Next
  <1>4. ASSUME HuellaDice(s, "NoDisponible") \/ HuellaDice(s, "Rechazado")
        PROVE  w # Nadie /\ ~Concede(w)
    BY <1>4 DEF HuellaDice, HuellaCaduca, Veredicto, Concede
  <1>5. CASE SondeoHuellaRenueva(s)
    <2> DEFINE b == [bloqueo EXCEPT !.huella = Nadie]
    <2>1. b \in Bloqueo /\ b.comprobando = bloqueo.comprobando /\ b.huella = Nadie
      BY <1>0 DEF Bloqueo
    <2>2. /\ ComprobarHuella(b, EstaBloqueado, generacion, sondeosHuella \ {s}, mensaje)
          /\ UNCHANGED <<bloqueada, generacion>>
          /\ HuellaDice(s, "NoDisponible")
      BY <1>5 DEF SondeoHuellaRenueva
    <2> HIDE DEF b
    <2> QED
      BY <1>4, <2>1, <2>2, HuellaConcesion, PasoBarrera
  <1>6. ASSUME NEW b \in Bloqueo, NEW aviso, CierraHuella(s, b, aviso),
               b.comprobando = bloqueo.comprobando, ~Concede(w)
        PROVE  [Barrera!Next]_(Barrera!vars)
    <2>1. UNCHANGED <<bloqueada, generacion, obreros>> /\ bloqueo' = b
      BY <1>6 DEF CierraHuella
    <2>2. \A v \in Obreros : Concede(v) /\ v \in {bloqueo.comprobando, bloqueo.huella}
            => v = bloqueo'.comprobando
      BY <1>6, <2>1
    <2>3. \A v \in Obreros : Concede(v) /\ v \in {bloqueo.comprobando, bloqueo.huella}
            => /\ obreros'[v].gen = obreros[v].gen
               /\ obreros'[v].fase # "pregunta"
               /\ obreros'[v].respuesta = obreros[v].respuesta
               /\ v \in {bloqueo'.comprobando, bloqueo'.huella}
      BY <2>1, <2>2 DEF Concede
    <2> QED
      BY <2>1, <2>3, ConcesionQueda, PasoBarrera
  <1>7. CASE SondeoHuellaSinLector(s)
    BY <1>0, <1>4, <1>6, <1>7 DEF SondeoHuellaSinLector, Bloqueo
  <1>8. CASE SondeoHuellaRechaza(s)
    BY <1>0, <1>4, <1>6, <1>8 DEF SondeoHuellaRechaza, Bloqueo
  <1> QED
    BY <1>1, <1>2, <1>3, <1>5, <1>7, <1>8 DEF SondeoHuella

\* The threads only ever add a grant: what they have said stays said.
LEMMA HilosBarrera ==
  ASSUME TypeOK, NEW w \in Obreros,
         Contesta(w) \/ LiberaSensor(w) \/ MuereObrero(w) \/ PasaHuellaAgotada(w)
  PROVE  [Barrera!Next]_(Barrera!vars)
  <1>1. UNCHANGED <<bloqueada, generacion, bloqueo>>
    BY DEF Contesta, ContestaClave, ContestaHuella, LiberaSensor, MuereObrero,
           PasaHuellaAgotada, Bucle, Barra
  <1>2. /\ \A v \in Obreros \ {w} : obreros'[v] = obreros[v]
        /\ obreros'[w].gen = obreros[w].gen
        /\ obreros[w].fase # "pregunta" =>
             obreros'[w].fase # "pregunta" /\ obreros'[w].respuesta = obreros[w].respuesta
    BY DEF Contesta, ContestaClave, ContestaHuella, LiberaSensor, MuereObrero,
           PasaHuellaAgotada, TypeOK, Obrero
  <1>3. \A v \in Obreros : Concede(v) /\ v \in {bloqueo.comprobando, bloqueo.huella}
          => /\ obreros'[v].gen = obreros[v].gen
             /\ obreros'[v].fase # "pregunta"
             /\ obreros'[v].respuesta = obreros[v].respuesta
             /\ v \in {bloqueo'.comprobando, bloqueo'.huella}
    BY <1>1, <1>2 DEF Concede
  <1> QED
    BY <1>1, <1>3, ConcesionQueda, PasoBarrera

\* The session opens only on the yes of a conversation begun under the very lock
\* that is up: whatever the threads, the pollers, the timers and the resumes do,
\* every step of the lock is a step of the barrier or leaves it alone.
THEOREM BarreraCorrect == Spec => ImplementaBarrera
<1>1. Init => Barrera!Init
  BY DEF Init, Barrera!Init, BloqueoDefecto, Concedido
<1>2. ASSUME TypeOK, Coherencia, [Next]_vars PROVE [Barrera!Next]_(Barrera!vars)
  <2> USE <1>2
  <2> USE DEF Barra, Fuentes, Trabajo, Entorno, Bucle
  <2>0. bloqueo \in Bloqueo /\ obreros \in [Obreros -> Obrero]
    BY DEF TypeOK
  <2>1. CASE Bloquear
    BY <2>1, BloquearBarrera DEF Barrera!Next
  <2>2. CASE BloquearSinProteger
    BY <2>2, QuietoBarrera DEF BloquearSinProteger
  <2>3. CASE Teclas
    <3>1. CASE BloqueoEscribir
      BY <2>0, <3>1, QuietoBarrera DEF BloqueoEscribir, Editar, Bloqueo
    <3>2. CASE BloqueoBorrar
      BY <2>0, <3>2, QuietoBarrera DEF BloqueoBorrar, Editar, Bloqueo
    <3>3. CASE BloqueoLimpiar
      BY <2>0, <3>3, QuietoBarrera DEF BloqueoLimpiar, Editar, Bloqueo
    <3>4. CASE ComprobarRetenido
      BY <3>4, QuietoBarrera DEF ComprobarRetenido
    <3>5. CASE LanzarComprobacion
      <4>1. PICK w \in Obreros :
              /\ Libre(w, bloqueo)
              /\ obreros' = [obreros EXCEPT ![w] = HiloClave]
              /\ bloqueo' = [bloqueo EXCEPT !.reintentar = FALSE, !.comprobando = w]
        BY <3>5 DEF LanzarComprobacion
      <4>2. /\ UNCHANGED <<bloqueada, generacion>>
            /\ bloqueo.comprobando = Nadie /\ bloqueo'.huella = bloqueo.huella
            /\ w # bloqueo.huella
            /\ \A v \in Obreros \ {w} : obreros'[v] = obreros[v]
        BY <2>0, <3>5, <4>1 DEF LanzarComprobacion, Comprobable, Editable, Libre, Bloqueo
      <4>3. \A v \in Obreros : Concede(v) /\ v \in {bloqueo.comprobando, bloqueo.huella}
              => v = bloqueo.huella
        BY <4>2, NadieAssumption
      <4>4. \A v \in Obreros : Concede(v) /\ v \in {bloqueo.comprobando, bloqueo.huella}
              => /\ obreros'[v].gen = obreros[v].gen
                 /\ obreros'[v].fase # "pregunta"
                 /\ obreros'[v].respuesta = obreros[v].respuesta
                 /\ v \in {bloqueo'.comprobando, bloqueo'.huella}
        BY <4>2, <4>3 DEF Concede
      <4> QED
        BY <4>2, <4>4, ConcesionQueda, PasoBarrera
    <3>6. CASE ComprobarSinHilo
      BY <2>0, <3>6, QuietoBarrera DEF ComprobarSinHilo, Bloqueo
    <3>7. CASE BloqueoHuella
      BY <2>0, <3>7, HuellaConcesion, PasoBarrera DEF BloqueoHuella
    <3> QED
      BY <2>3, <3>1, <3>2, <3>3, <3>4, <3>5, <3>6, <3>7 DEF Teclas
  <2>4. CASE \E g \in sondeosClave : SondeoClave(g)
    BY <2>4, SondeoClaveBarrera
  <2>5. CASE \E s \in sondeosHuella : SondeoHuella(s)
    BY <2>5, SondeoHuellaBarrera
  <2>6. CASE \E g \in temporizadores : TemporizadorReintento(g)
    BY <2>0, <2>6, QuietoBarrera DEF TemporizadorReintento, LevantaDemora, Bloqueo
  <2>7. CASE ReanudarHuella
    <3> DEFINE b == Reanudado
    <3>1. b \in Bloqueo
      <4>1. bloqueo.huella_reanudaciones + 1 \in Nat
        BY <2>0 DEF Bloqueo
      <4> QED
        BY <2>0, <4>1, ReanudadoType DEF Reanudado
    <3>2. b.comprobando = bloqueo.comprobando /\ b.huella = bloqueo.huella
      BY <2>0 DEF Reanudado, Bloqueo
    <3> HIDE DEF b
    <3>3. /\ ComprobarHuella(b, EstaBloqueado, generacion, sondeosHuella, mensaje)
          /\ UNCHANGED <<bloqueada, generacion>>
      BY <2>7 DEF ReanudarHuella, b
    <3> QED
      BY <3>1, <3>2, <3>3, HuellaConcesion, PasoBarrera
  <2>8. CASE Revienta
    BY <2>8, QuietoBarrera DEF Revienta
  <2>9. CASE \E w \in Obreros : Contesta(w) \/ LiberaSensor(w) \/ MuereObrero(w)
                                \/ PasaHuellaAgotada(w)
    BY <2>9, HilosBarrera
  <2>10. CASE VenceDemora \/ CambiaAjuste \/ Despertar \/ UNCHANGED vars
    BY <2>10, QuietoBarrera DEF VenceDemora, CambiaAjuste, Despertar, vars
  <2>11. CASE VenceEsperaHuella
    BY <2>0, <2>11, QuietoBarrera DEF VenceEsperaHuella, Bloqueo
  <2>12. CASE Dormir
    <3>1. /\ UNCHANGED <<bloqueada, generacion, bloqueo>>
          /\ \A v \in Obreros : /\ obreros'[v].gen = obreros[v].gen
                                /\ obreros'[v].fase = obreros[v].fase
                                /\ obreros'[v].respuesta = obreros[v].respuesta
      BY <2>0, <2>12 DEF Dormir, Obrero
    <3> QED
      BY <3>1, ConcesionQueda, PasoBarrera DEF Concede
  <2> QED
    BY <2>1, <2>2, <2>3, <2>4, <2>5, <2>6, <2>7, <2>8, <2>9, <2>10, <2>11, <2>12
       DEF Next, PasoBucle, PasoExterno, Terminado
<1> QED
  BY <1>1, <1>2, TypeCorrect, CoherenciaCorrect, PTL DEF Spec, Barrera!Spec, ImplementaBarrera

--------------------------------------------------------------------------------
(* The retry delay and what the screen shows *)

\* What comprobar_huella writes, field by field: it starts a thread, or it does
\* not, and then a reader that was wanted is announced as not available.
LEMMA ComprobarHuellaCampos ==
  ASSUME TypeOK, NEW b \in Bloqueo, NEW echada, NEW gen, NEW sondeos, NEW aviso,
         ComprobarHuella(b, echada, gen, sondeos, aviso)
  PROVE  /\ bloqueo'.comprobando = b.comprobando
         /\ bloqueo'.huella_espera = b.huella_espera
         /\ bloqueo'.huella_sin_lector = b.huella_sin_lector
         /\ bloqueo'.huella_reanudaciones = b.huella_reanudaciones
         /\ bloqueo'.fallo = b.fallo
         /\ bloqueo'.fallos = b.fallos
         /\ bloqueo'.reintentar = b.reintentar
         /\ \/ /\ bloqueo'.huella = b.huella
               /\ sondeosHuella' = sondeos
               /\ obreros' = obreros
               /\ QuiereHuella(b, echada) => mensaje' = "nodisponible"
            \/ /\ QuiereHuella(b, echada)
               /\ \E w \in Obreros :
                    /\ w # b.comprobando
                    /\ bloqueo'.huella = w
                    /\ obreros' = [obreros EXCEPT ![w] = HiloHuella(gen)]
               /\ sondeosHuella' = sondeos
                    \cup {[gen |-> gen, reanudaciones |-> b.huella_reanudaciones]}
  <1>1. CASE /\ bloqueo' = b /\ sondeosHuella' = sondeos /\ obreros' = obreros
             /\ QuiereHuella(b, echada) => mensaje' = "nodisponible"
    BY <1>1
  <1>2. CASE /\ QuiereHuella(b, echada)
             /\ \E w \in Obreros :
                  /\ Libre(w, b)
                  /\ bloqueo' = [b EXCEPT !.huella = w]
                  /\ obreros' = [obreros EXCEPT ![w] = HiloHuella(gen)]
             /\ sondeosHuella' = sondeos
                  \cup {[gen |-> gen, reanudaciones |-> b.huella_reanudaciones]}
    <2> PICK w \in Obreros :
            /\ Libre(w, b)
            /\ bloqueo' = [b EXCEPT !.huella = w]
            /\ obreros' = [obreros EXCEPT ![w] = HiloHuella(gen)]
      BY <1>2
    <2>1. /\ bloqueo'.huella = w
          /\ bloqueo'.comprobando = b.comprobando
          /\ bloqueo'.huella_espera = b.huella_espera
          /\ bloqueo'.huella_sin_lector = b.huella_sin_lector
          /\ bloqueo'.huella_reanudaciones = b.huella_reanudaciones
          /\ bloqueo'.fallo = b.fallo
          /\ bloqueo'.fallos = b.fallos
          /\ bloqueo'.reintentar = b.reintentar
      BY DEF Bloqueo
    <2>2. w # b.comprobando
      BY DEF Libre
    <2> QED
      BY <1>2, <2>1, <2>2
  <1> QED
    BY <1>1, <1>2 DEF ComprobarHuella

\* What reanudar_huella hands on: a resume more, and the reader is not written off.
LEMMA ReanudadoCampos ==
  ASSUME TypeOK
  PROVE  /\ Reanudado \in Bloqueo
         /\ Reanudado.comprobando = bloqueo.comprobando
         /\ Reanudado.huella = bloqueo.huella
         /\ Reanudado.huella_espera = bloqueo.huella_espera
         /\ Reanudado.huella_sin_lector = FALSE
         /\ Reanudado.huella_reanudaciones = bloqueo.huella_reanudaciones + 1
         /\ Reanudado.fallo = bloqueo.fallo
         /\ Reanudado.fallos = bloqueo.fallos
         /\ Reanudado.reintentar = bloqueo.reintentar
  <1>1. bloqueo \in Bloqueo /\ bloqueo.huella_reanudaciones + 1 \in Nat
    BY DEF TypeOK, Bloqueo
  <1> DEFINE n == bloqueo.huella_reanudaciones + 1
  <1>2. /\ n \in Nat
        /\ Reanudado = [bloqueo EXCEPT !.huella_reanudaciones = n,
                                       !.huella_sin_lector = FALSE]
    BY <1>1 DEF Reanudado
  <1> HIDE DEF n
  <1>3. Reanudado \in Bloqueo /\ Reanudado.huella_reanudaciones = n
    BY <1>1, <1>2, ReanudadoType DEF Bloqueo
  <1> QED
    BY <1>1, <1>2, <1>3 DEF Bloqueo, n

\* The seconds of a delay: none before the third failure.
LEMMA DemoraDesdeElTercero ==
  ASSUME NEW n \in Nat
  PROVE  DemoraReintento(n) > 0 <=> n >= 3
  <1>1. CASE n < 3
    BY <1>1 DEF DemoraReintento
  <1>2. CASE n >= 3
    <2> DEFINE k == 1 + (IF n - 3 < 5 THEN n - 3 ELSE 5)
               doble == <<1, 2, 4, 8, 16, 32>>[k]
    <2>1. k \in 1..6
      BY <1>2
    <2> HIDE DEF k
    <2>2. doble > 0 /\ doble \in Nat
      BY <2>1
    <2> HIDE DEF doble
    <2>3. DemoraReintento(n) = IF doble < 30 THEN doble ELSE 30
      BY <1>2 DEF DemoraReintento, doble, k
    <2> QED
      BY <1>2, <2>2, <2>3
  <1> QED
    BY <1>1, <1>2

\* A step that leaves alone what the screen is painted from keeps the invariant.
LEMMA DemoraQuieta ==
  ASSUME TypeOK, DemoraEnMarcha,
         UNCHANGED <<bloqueada, generacion, temporizadores, vencido, visto>>,
         muerto => muerto', muerto' \in BOOLEAN,
         bloqueo'.comprobando = bloqueo.comprobando,
         bloqueo'.fallo = bloqueo.fallo,
         bloqueo'.fallos = bloqueo.fallos,
         bloqueo'.reintentar = bloqueo.reintentar
  PROVE  DemoraEnMarcha'
  <1>1. /\ muerto \in BOOLEAN
        /\ bloqueo.reintentar \in BOOLEAN /\ bloqueo.fallo \in BOOLEAN
    BY DEF TypeOK, Bloqueo
  <1>2. Visible(bloqueo', vencido') = Visible(bloqueo, vencido)
    BY DEF Visible
  <1>3. VistoFiel'
    BY <1>1, <1>2 DEF DemoraEnMarcha, VistoFiel, EstaBloqueado
  <1> QED
    BY <1>1, <1>3 DEF DemoraEnMarcha

\* A step of an open lock that repaints keeps it, when a failure from the third on
\* stays behind its delay.
LEMMA DemoraRepintada ==
  ASSUME TypeOK, DemoraEnMarcha,
         bloqueada, UNCHANGED <<bloqueada, muerto, generacion>>,
         visto' = Visible(bloqueo', vencido'),
         ~muerto /\ bloqueo'.reintentar => generacion \in temporizadores',
         bloqueo'.fallos >= 3 => vencido' \/ bloqueo'.reintentar
  PROVE  DemoraEnMarcha'
  BY DEF DemoraEnMarcha, VistoFiel

\* The session opens: nothing of the lock is left to show.
LEMMA DemoraAbierta ==
  ASSUME Desbloquear
  PROVE  DemoraEnMarcha'
  <1>1. /\ bloqueo'.reintentar = FALSE /\ bloqueo'.fallo = FALSE /\ bloqueo'.fallos = 0
        /\ bloqueada' = FALSE
    BY DEF Desbloquear, TrasSalir, BloqueoDefecto
  <1> QED
    BY <1>1 DEF DemoraEnMarcha, VistoFiel, EstaBloqueado

\* A lock begins with an empty field: the session before it had nothing pending.
LEMMA DemoraBloquear ==
  ASSUME TypeOK, Coherencia, DemoraEnMarcha, Bloquear
  PROVE  DemoraEnMarcha'
  <1>0. /\ bloqueo \in Bloqueo /\ bloqueada \in BOOLEAN /\ muerto \in BOOLEAN
        /\ bloqueo.reintentar \in BOOLEAN /\ bloqueo.fallo \in BOOLEAN
    BY DEF TypeOK, Bloqueo
  <1>1. /\ ~EstaBloqueado /\ vencido' = vencido
        /\ \/ bloqueada' = TRUE /\ muerto' = muerto /\ visto' = "escribiendo"
           \/ muerto' = TRUE
    BY DEF Bloquear
  <1>2. PICK echada, aviso :
          ComprobarHuella(bloqueo, echada, generacion + 1, sondeosHuella, aviso)
    BY DEF Bloquear
  <1>3. /\ bloqueo'.comprobando = bloqueo.comprobando
        /\ bloqueo'.fallo = bloqueo.fallo
        /\ bloqueo'.fallos = bloqueo.fallos
        /\ bloqueo'.reintentar = bloqueo.reintentar
    BY <1>0, <1>2, ComprobarHuellaCampos
  <1>4. bloqueo'.fallos >= 3 => vencido' \/ bloqueo'.reintentar
    BY <1>1, <1>3 DEF DemoraEnMarcha
  <1>5. CASE muerto' = TRUE
    BY <1>4, <1>5 DEF DemoraEnMarcha, VistoFiel, EstaBloqueado
  <1>6. CASE muerto' = FALSE
    <2>1. bloqueada' /\ visto' = "escribiendo" /\ ~muerto /\ ~bloqueada
      BY <1>0, <1>1, <1>6 DEF EstaBloqueado
    <2>2. bloqueo.comprobando = Nadie /\ ~bloqueo.reintentar /\ ~bloqueo.fallo
      BY <2>1 DEF DemoraEnMarcha, Coherencia, SesionAbierta
    <2>3. visto' = Visible(bloqueo', vencido')
      BY <1>3, <2>1, <2>2 DEF Visible
    <2> QED
      BY <1>0, <1>3, <1>4, <2>1, <2>2, <2>3 DEF DemoraEnMarcha, VistoFiel
  <1> QED
    BY <1>0, <1>1, <1>5, <1>6

\* The key handlers.
LEMMA DemoraTeclas ==
  ASSUME TypeOK, DemoraEnMarcha, Teclas
  PROVE  DemoraEnMarcha'
  <1> USE DEF Barra, Fuentes, Trabajo
  <1>0. /\ bloqueo \in Bloqueo /\ muerto \in BOOLEAN /\ bloqueada \in BOOLEAN
        /\ bloqueo.reintentar \in BOOLEAN /\ vencido \in BOOLEAN
    BY DEF TypeOK, Bloqueo
  <1>1. ASSUME NEW b, Editar(b), b.fallos = bloqueo.fallos,
               b.reintentar = bloqueo.reintentar
        PROVE  DemoraEnMarcha'
    <2>1. /\ bloqueo' = b /\ bloqueada /\ ~muerto
          /\ UNCHANGED <<bloqueada, muerto, generacion, temporizadores, vencido>>
          /\ visto' = Visible(bloqueo', vencido')
      BY <1>1 DEF Editar, Editable, EstaBloqueado
    <2>2. /\ bloqueo.reintentar => generacion \in temporizadores
          /\ bloqueo.fallos >= 3 => vencido \/ bloqueo.reintentar
      BY <2>1 DEF DemoraEnMarcha
    <2> QED
      BY <1>1, <2>1, <2>2, DemoraRepintada
  <1>2. CASE BloqueoEscribir
    BY <1>0, <1>1, <1>2 DEF BloqueoEscribir, Bloqueo
  <1>3. CASE BloqueoBorrar
    BY <1>0, <1>1, <1>3 DEF BloqueoBorrar, Bloqueo
  <1>4. CASE BloqueoLimpiar
    BY <1>0, <1>1, <1>4 DEF BloqueoLimpiar, Bloqueo
  <1>5. CASE ComprobarRetenido
    <2>1. /\ bloqueada /\ ~muerto
          /\ UNCHANGED <<bloqueada, muerto, generacion, temporizadores, vencido, bloqueo>>
          /\ visto' = Visible(bloqueo', vencido')
      BY <1>5 DEF ComprobarRetenido, Comprobable, Editable, EstaBloqueado
    <2>2. /\ bloqueo.reintentar => generacion \in temporizadores
          /\ bloqueo.fallos >= 3 => vencido \/ bloqueo.reintentar
      BY <2>1 DEF DemoraEnMarcha
    <2> QED
      BY <2>1, <2>2, DemoraRepintada
  <1>6. CASE LanzarComprobacion \/ ComprobarSinHilo
    <2>1. /\ bloqueada /\ ~muerto /\ ~Retenido
          /\ UNCHANGED <<bloqueada, muerto, generacion, temporizadores, vencido>>
          /\ visto' = Visible(bloqueo', vencido')
      BY <1>6 DEF LanzarComprobacion, ComprobarSinHilo, Comprobable, Editable, EstaBloqueado
    <2>2. bloqueo'.reintentar = FALSE /\ bloqueo'.fallos = bloqueo.fallos
      BY <1>0, <1>6 DEF LanzarComprobacion, ComprobarSinHilo, Bloqueo
    <2>3. bloqueo.fallos >= 3 => vencido
      BY <1>0, <2>1 DEF DemoraEnMarcha, Retenido
    <2> QED
      BY <2>1, <2>2, <2>3, DemoraRepintada
  <1>7. CASE BloqueoHuella
    <2>1. /\ ComprobarHuella(bloqueo, TRUE, generacion, sondeosHuella, mensaje)
          /\ UNCHANGED <<bloqueada, muerto, generacion, temporizadores, vencido, visto>>
      BY <1>7 DEF BloqueoHuella
    <2>2. /\ bloqueo'.comprobando = bloqueo.comprobando
          /\ bloqueo'.fallo = bloqueo.fallo
          /\ bloqueo'.fallos = bloqueo.fallos
          /\ bloqueo'.reintentar = bloqueo.reintentar
      BY <1>0, <2>1, ComprobarHuellaCampos
    <2> QED
      BY <1>0, <2>1, <2>2, DemoraQuieta
  <1> QED
    BY <1>2, <1>3, <1>4, <1>5, <1>6, <1>7 DEF Teclas

\* The pollers of the password and the retry timers.
LEMMA DemoraSondeoClave ==
  ASSUME TypeOK, Coherencia, DemoraEnMarcha, NEW g \in sondeosClave, SondeoClave(g)
  PROVE  DemoraEnMarcha'
  <1> USE DEF Barra, Fuentes, Trabajo
  <1>0. /\ bloqueo \in Bloqueo /\ muerto \in BOOLEAN /\ bloqueada \in BOOLEAN
        /\ bloqueo.reintentar \in BOOLEAN /\ vencido \in BOOLEAN
        /\ bloqueo.fallos \in 0..FallosMax
    BY DEF TypeOK, Bloqueo
  <1>1. CASE SondeoClaveCaduco(g)
    BY <1>0, <1>1, DemoraQuieta DEF SondeoClaveCaduco
  <1>2. CASE SondeoClaveAcierta(g)
    BY <1>2, DemoraAbierta DEF SondeoClaveAcierta
  <1>3. CASE SondeoClaveFalla(g)
    <2> DEFINE fallos == SumaFallo(bloqueo.fallos)
               demora == DemoraReintento(fallos) > 0
    <2>1. fallos \in Nat
      BY <1>0, BoundAssumption DEF SumaFallo
    <2>2. demora \in BOOLEAN /\ (demora <=> fallos >= 3)
      BY <2>1, DemoraDesdeElTercero
    <2>3. /\ bloqueo' = [bloqueo EXCEPT !.comprobando = Nadie, !.escrito = 0,
                            !.fallo = TRUE, !.fallos = fallos, !.reintentar = @ \/ demora]
          /\ vencido' = (vencido /\ ~demora)
          /\ temporizadores' = temporizadores \cup (IF demora THEN {g} ELSE {})
          /\ visto' = Visible(bloqueo', vencido')
          /\ g = generacion /\ bloqueo.comprobando # Nadie
          /\ UNCHANGED <<bloqueada, muerto, generacion>>
      BY <1>3 DEF SondeoClaveFalla, ClaveResuelta, ClaveCaduca
    <2> HIDE DEF fallos, demora
    <2>4. /\ bloqueo'.fallo = TRUE /\ bloqueo'.fallos = fallos
          /\ bloqueo'.reintentar = (bloqueo.reintentar \/ demora)
      BY <1>0, <2>2, <2>3 DEF Bloqueo
    <2>5. ~muerto => bloqueada
      BY <2>3 DEF Coherencia, SesionAbierta
    <2>6. ~muerto /\ bloqueo'.reintentar => generacion \in temporizadores'
      BY <2>2, <2>3, <2>4 DEF DemoraEnMarcha
    <2>7. bloqueo'.fallos >= 3 => vencido' \/ bloqueo'.reintentar
      BY <2>2, <2>4
    <2>8. CASE bloqueada
      BY <2>3, <2>6, <2>7, <2>8, DemoraRepintada
    <2>9. CASE ~bloqueada
      <3>1. muerto' = TRUE
        BY <1>0, <2>3, <2>5, <2>9
      <3> QED
        BY <2>7, <3>1 DEF DemoraEnMarcha, VistoFiel, EstaBloqueado
    <2> QED
      BY <2>8, <2>9
  <1> QED
    BY <1>1, <1>2, <1>3 DEF SondeoClave

LEMMA DemoraTemporizador ==
  ASSUME TypeOK, DemoraEnMarcha, NEW g \in temporizadores, TemporizadorReintento(g)
  PROVE  DemoraEnMarcha'
  <1> USE DEF Barra, Trabajo
  <1>0. /\ bloqueo \in Bloqueo /\ muerto \in BOOLEAN /\ bloqueada \in BOOLEAN
        /\ bloqueo.reintentar \in BOOLEAN /\ vencido \in BOOLEAN
        /\ bloqueo.fallo \in BOOLEAN
    BY DEF TypeOK, Bloqueo
  <1>1. /\ UNCHANGED <<bloqueada, muerto, generacion, vencido>>
        /\ temporizadores' = temporizadores \ {g}
        /\ g = generacion => vencido
    BY DEF TemporizadorReintento
  <1>2. CASE g = generacion
    <2>1. /\ bloqueo' = [bloqueo EXCEPT !.reintentar = FALSE]
          /\ visto' = Visible(bloqueo', vencido)
          /\ vencido
      BY <1>1, <1>2 DEF TemporizadorReintento, TemporizadorVigente, LevantaDemora
    <2>2. bloqueo'.reintentar = FALSE /\ bloqueo'.fallo = bloqueo.fallo
      BY <1>0, <2>1 DEF Bloqueo
    <2> QED
      BY <1>1, <2>1, <2>2 DEF DemoraEnMarcha, VistoFiel
  <1>3. CASE g # generacion
    <2>1. UNCHANGED <<bloqueo, visto>>
      BY <1>3 DEF TemporizadorReintento, TemporizadorVigente
    <2>2. generacion \in temporizadores => generacion' \in temporizadores'
      BY <1>1, <1>3
    <2>3. VistoFiel'
      BY <1>1, <2>1, <2>2 DEF DemoraEnMarcha, VistoFiel, EstaBloqueado, Visible
    <2> QED
      BY <1>1, <2>1, <2>2, <2>3 DEF DemoraEnMarcha
  <1> QED
    BY <1>2, <1>3

\* The pollers of the reader, and a resume.
LEMMA DemoraSondeoHuella ==
  ASSUME TypeOK, DemoraEnMarcha, NEW s \in sondeosHuella, SondeoHuella(s)
  PROVE  DemoraEnMarcha'
  <1> USE DEF Barra, Fuentes, Trabajo
  <1>0. bloqueo \in Bloqueo /\ muerto \in BOOLEAN
    BY DEF TypeOK
  <1>1. CASE SondeoHuellaCaduco(s)
    BY <1>0, <1>1, DemoraQuieta DEF SondeoHuellaCaduco
  <1>2. CASE SondeoHuellaAviso(s)
    BY <1>0, <1>2, DemoraQuieta DEF SondeoHuellaAviso
  <1>3. CASE SondeoHuellaAcierta(s)
    BY <1>3, DemoraAbierta DEF SondeoHuellaAcierta
  <1>4. CASE SondeoHuellaRenueva(s)
    <2> DEFINE b == [bloqueo EXCEPT !.huella = Nadie]
    <2>1. /\ b \in Bloqueo
          /\ b.comprobando = bloqueo.comprobando /\ b.fallo = bloqueo.fallo
          /\ b.fallos = bloqueo.fallos /\ b.reintentar = bloqueo.reintentar
      BY <1>0 DEF Bloqueo
    <2>2. /\ ComprobarHuella(b, EstaBloqueado, generacion, sondeosHuella \ {s}, mensaje)
          /\ UNCHANGED <<bloqueada, muerto, generacion, temporizadores, vencido, visto>>
      BY <1>4 DEF SondeoHuellaRenueva
    <2> HIDE DEF b
    <2>3. /\ bloqueo'.comprobando = b.comprobando /\ bloqueo'.fallo = b.fallo
          /\ bloqueo'.fallos = b.fallos /\ bloqueo'.reintentar = b.reintentar
      BY <2>1, <2>2, ComprobarHuellaCampos
    <2> QED
      BY <1>0, <2>1, <2>2, <2>3, DemoraQuieta
  <1>5. CASE SondeoHuellaSinLector(s) \/ SondeoHuellaRechaza(s)
    <2>1. /\ bloqueo'.comprobando = bloqueo.comprobando /\ bloqueo'.fallo = bloqueo.fallo
          /\ bloqueo'.fallos = bloqueo.fallos /\ bloqueo'.reintentar = bloqueo.reintentar
      BY <1>0, <1>5 DEF SondeoHuellaSinLector, SondeoHuellaRechaza, CierraHuella, Bloqueo
    <2>2. UNCHANGED <<bloqueada, muerto, generacion, temporizadores, vencido, visto>>
      BY <1>5 DEF SondeoHuellaSinLector, SondeoHuellaRechaza, CierraHuella
    <2> QED
      BY <1>0, <2>1, <2>2, DemoraQuieta
  <1> QED
    BY <1>1, <1>2, <1>3, <1>4, <1>5 DEF SondeoHuella

LEMMA DemoraReanudar ==
  ASSUME TypeOK, DemoraEnMarcha, ReanudarHuella
  PROVE  DemoraEnMarcha'
  <1> USE DEF Barra
  <1>0. bloqueo \in Bloqueo /\ muerto \in BOOLEAN
    BY DEF TypeOK
  <1>2. /\ ComprobarHuella(Reanudado, EstaBloqueado, generacion, sondeosHuella, mensaje)
        /\ UNCHANGED <<bloqueada, muerto, generacion, temporizadores, vencido, visto>>
    BY DEF ReanudarHuella
  <1>3. /\ bloqueo'.comprobando = Reanudado.comprobando
        /\ bloqueo'.fallo = Reanudado.fallo
        /\ bloqueo'.fallos = Reanudado.fallos
        /\ bloqueo'.reintentar = Reanudado.reintentar
    BY <1>2, ReanudadoCampos, ComprobarHuellaCampos
  <1> QED
    BY <1>0, <1>2, <1>3, ReanudadoCampos, DemoraQuieta

\* The delay elapses: the countdown still on the screen has its timer pending.
LEMMA DemoraVence ==
  ASSUME TypeOK, DemoraEnMarcha, VenceDemora
  PROVE  DemoraEnMarcha'
  <1> USE DEF Bucle, Barra, Fuentes
  <1>1. /\ vencido = FALSE /\ vencido' = TRUE
        /\ UNCHANGED <<bloqueada, muerto, generacion, bloqueo, temporizadores, visto>>
    BY DEF VenceDemora, TypeOK
  <1>2. ASSUME EstaBloqueado'
        PROVE  \/ visto' = Visible(bloqueo', vencido')
               \/ visto' = "espera" /\ vencido' /\ generacion' \in temporizadores'
    <2>1. EstaBloqueado /\ visto = Visible(bloqueo, vencido)
      BY <1>1, <1>2 DEF DemoraEnMarcha, VistoFiel, EstaBloqueado
    <2>2. CASE bloqueo.comprobando = Nadie /\ bloqueo.reintentar
      BY <1>1, <2>1, <2>2 DEF DemoraEnMarcha, EstaBloqueado, Visible
    <2>3. CASE bloqueo.comprobando # Nadie \/ ~bloqueo.reintentar
      BY <1>1, <2>1, <2>3 DEF Visible
    <2> QED
      BY <2>2, <2>3
  <1>3. VistoFiel'
    BY <1>2 DEF VistoFiel
  <1> QED
    BY <1>1, <1>3 DEF DemoraEnMarcha

\* The delay and the screen keep in step under every action of the lock.
LEMMA DemoraPaso ==
  ASSUME TypeOK, Coherencia, DemoraEnMarcha, [Next]_vars
  PROVE  DemoraEnMarcha'
  <1> USE DEF Barra, Fuentes, Trabajo, Entorno, Bucle
  <1>0. muerto \in BOOLEAN /\ bloqueo \in Bloqueo
    BY DEF TypeOK
  <1>1. CASE BloquearSinProteger
    BY <1>0, <1>1, DemoraQuieta DEF BloquearSinProteger
  <1>2. CASE Revienta
    BY <1>0, <1>2, DemoraQuieta DEF Revienta
  <1>3. ASSUME NEW w \in Obreros,
               Contesta(w) \/ LiberaSensor(w) \/ MuereObrero(w) \/ PasaHuellaAgotada(w)
        PROVE  DemoraEnMarcha'
    <2>1. UNCHANGED <<Bucle, vencido>>
      BY <1>3 DEF Contesta, ContestaClave, ContestaHuella, LiberaSensor, MuereObrero,
                  PasaHuellaAgotada
    <2> QED
      BY <1>0, <2>1, DemoraQuieta
  <1>4. CASE VenceEsperaHuella
    <2>1. /\ bloqueo'.comprobando = bloqueo.comprobando /\ bloqueo'.fallo = bloqueo.fallo
          /\ bloqueo'.fallos = bloqueo.fallos /\ bloqueo'.reintentar = bloqueo.reintentar
      BY <1>0, <1>4 DEF VenceEsperaHuella, Bloqueo
    <2> QED
      BY <1>0, <1>4, <2>1, DemoraQuieta DEF VenceEsperaHuella
  <1>5. CASE CambiaAjuste \/ Dormir \/ Despertar
    BY <1>0, <1>5, DemoraQuieta DEF CambiaAjuste, Dormir, Despertar
  <1>6. CASE UNCHANGED vars
    BY <1>0, <1>6, DemoraQuieta DEF vars
  <1> QED
    BY <1>1, <1>2, <1>3, <1>4, <1>5, <1>6, DemoraBloquear, DemoraTeclas,
       DemoraSondeoClave, DemoraTemporizador, DemoraSondeoHuella, DemoraReanudar,
       DemoraVence
       DEF Next, PasoBucle, PasoExterno, Terminado

\* The countdown, its timer and the failures that are remembered always belong to
\* the lock that is up, and the screen shows the state the lock is in.
THEOREM DemoraEnMarchaCorrect == Spec => []DemoraEnMarcha
<1>1. Init => DemoraEnMarcha
  <2> SUFFICES ASSUME Init PROVE DemoraEnMarcha
    OBVIOUS
  <2>1. /\ bloqueo.reintentar = FALSE /\ bloqueo.fallo = FALSE /\ bloqueo.fallos = 0
        /\ bloqueada = FALSE
    BY DEF Init, BloqueoDefecto
  <2> QED
    BY <2>1 DEF DemoraEnMarcha, VistoFiel, EstaBloqueado
<1>2. TypeOK /\ Coherencia /\ DemoraEnMarcha /\ [Next]_vars => DemoraEnMarcha'
  BY DemoraPaso
<1> QED
  BY <1>1, <1>2, TypeCorrect, CoherenciaCorrect, PTL DEF Spec

--------------------------------------------------------------------------------
(* The reader: why it was written off, and what a suspend cut *)

\* A call of comprobar_huella keeps what is known of the reader: a conversation it
\* starts was not cut by a suspend the machine has already come back from.
LEMMA LectorHuella ==
  ASSUME TypeOK, NEW b \in Bloqueo, NEW echada, NEW gen \in Nat, NEW aviso,
         NEW sondeos \in SUBSET sondeosHuella,
         ComprobarHuella(b, echada, gen, sondeos, aviso),
         generacion' = gen,
         sueno' = sueno \/ sueno # "durmiendo",
         RespuestaVeraz,
         b.huella # Nadie => ~b.huella_sin_lector /\ ~b.huella_espera,
         HayLector /\ b.huella_sin_lector => sueno' # "despierto",
         \A s \in sondeos : s.gen = gen =>
            /\ s.reanudaciones <= b.huella_reanudaciones
            /\ b.huella # Nadie /\ s.reanudaciones = b.huella_reanudaciones
                 /\ obreros[b.huella].cortado => sueno' # "despierto"
  PROVE  LectorVeraz'
  <1>1. /\ bloqueo'.huella_espera = b.huella_espera
        /\ bloqueo'.huella_sin_lector = b.huella_sin_lector
        /\ bloqueo'.huella_reanudaciones = b.huella_reanudaciones
        /\ \/ /\ bloqueo'.huella = b.huella
              /\ sondeosHuella' = sondeos
              /\ obreros' = obreros
           \/ /\ QuiereHuella(b, echada)
              /\ \E w \in Obreros :
                   /\ bloqueo'.huella = w
                   /\ obreros' = [obreros EXCEPT ![w] = HiloHuella(gen)]
              /\ sondeosHuella' = sondeos
                   \cup {[gen |-> gen, reanudaciones |-> b.huella_reanudaciones]}
    BY ComprobarHuellaCampos
  <1>2. SinLectorVeraz'
    BY <1>1 DEF SinLectorVeraz
  <1>3. CASE bloqueo'.huella = b.huella /\ sondeosHuella' = sondeos /\ obreros' = obreros
    <2>1. RespuestaVeraz'
      BY <1>3 DEF RespuestaVeraz
    <2>2. CorteContado'
      BY <1>1, <1>3 DEF CorteContado
    <2> QED
      BY <1>1, <1>2, <1>3, <2>1, <2>2 DEF LectorVeraz
  <1>4. ASSUME QuiereHuella(b, echada), NEW w \in Obreros,
               bloqueo'.huella = w, obreros' = [obreros EXCEPT ![w] = HiloHuella(gen)],
               sondeosHuella' = sondeos
                   \cup {[gen |-> gen, reanudaciones |-> b.huella_reanudaciones]}
        PROVE  LectorVeraz'
    <2>1. /\ obreros'[w].respuesta = "ninguno"
          /\ obreros'[w].cortado = (sueno = "durmiendo")
          /\ \A v \in Obreros \ {w} : obreros'[v] = obreros[v]
      BY <1>4 DEF HiloHuella, TypeOK
    <2>2. RespuestaVeraz'
      <3>1. \A v \in Obreros : v # w /\ obreros'[v].clase = "huella" =>
              /\ obreros'[v].respuesta = "agotado" => obreros'[v].tarde
              /\ obreros'[v].respuesta = "sinlector" => ~HayLector
              /\ obreros'[v].respuesta = "dormido" => obreros'[v].cortado
        BY <2>1 DEF RespuestaVeraz
      <3> QED
        BY <2>1, <3>1 DEF RespuestaVeraz
    <2>3. obreros'[bloqueo'.huella].cortado => sueno' # "despierto"
      BY <1>4, <2>1
    <2>4. b.huella_reanudaciones <= b.huella_reanudaciones
      BY DEF Bloqueo
    <2>5. \A s \in sondeosHuella' : s.gen = gen => s.reanudaciones <= b.huella_reanudaciones
      BY <1>4, <2>4
    <2>6. CorteContado'
      BY <1>1, <2>3, <2>5 DEF CorteContado
    <2>7. ~bloqueo'.huella_sin_lector /\ ~bloqueo'.huella_espera
      BY <1>1, <1>4 DEF QuiereHuella
    <2> QED
      BY <1>2, <2>2, <2>6, <2>7 DEF LectorVeraz
  <1> QED
    BY <1>1, <1>3, <1>4

\* A step that starts no conversation of the reader and that no suspend ends.
LEMMA LectorTranquilo ==
  ASSUME TypeOK, LectorVeraz,
         UNCHANGED <<generacion, sueno>>,
         bloqueo'.huella \in {bloqueo.huella, Nadie},
         bloqueo'.huella_reanudaciones = bloqueo.huella_reanudaciones,
         bloqueo'.huella_sin_lector = bloqueo.huella_sin_lector,
         bloqueo'.huella_espera => bloqueo.huella_espera \/ bloqueo'.huella = Nadie,
         sondeosHuella' \subseteq sondeosHuella,
         RespuestaVeraz',
         bloqueo.huella # Nadie =>
            obreros'[bloqueo.huella].cortado = obreros[bloqueo.huella].cortado
  PROVE  LectorVeraz'
  <1>1. CorteContado'
    BY DEF LectorVeraz, CorteContado
  <1>2. SinLectorVeraz'
    BY DEF LectorVeraz, SinLectorVeraz
  <1> QED
    BY <1>1, <1>2 DEF LectorVeraz

\* The same, when the threads and the lock's view of the reader are left alone.
LEMMA LectorQuieto ==
  ASSUME TypeOK, LectorVeraz,
         UNCHANGED <<generacion, sueno, obreros>>,
         bloqueo'.huella = bloqueo.huella,
         bloqueo'.huella_reanudaciones = bloqueo.huella_reanudaciones,
         bloqueo'.huella_sin_lector = bloqueo.huella_sin_lector,
         bloqueo'.huella_espera = bloqueo.huella_espera,
         sondeosHuella' \subseteq sondeosHuella
  PROVE  LectorVeraz'
  <1>1. RespuestaVeraz'
    BY DEF LectorVeraz, RespuestaVeraz
  <1> QED
    BY <1>1, LectorTranquilo

\* The session opens: the lock forgets the reader, and no poller is of its age.
LEMMA LectorDesbloquear ==
  ASSUME TypeOK, Coherencia, LectorVeraz, Desbloquear,
         sondeosHuella' \subseteq sondeosHuella
  PROVE  LectorVeraz'
  <1>1. /\ bloqueo'.huella = Nadie /\ bloqueo'.huella_sin_lector = FALSE
        /\ generacion' = generacion + 1 /\ obreros' = obreros
    BY DEF Desbloquear, TrasSalir, BloqueoDefecto, Trabajo
  <1>2. \A s \in sondeosHuella' : s.gen # generacion'
    <2>1. generacion \in Nat /\ \A s \in sondeosHuella : s.gen \in Nat
      BY DEF TypeOK
    <2> QED
      BY <1>1, <2>1 DEF Coherencia, Generaciones
  <1>3. RespuestaVeraz'
    BY <1>1 DEF LectorVeraz, RespuestaVeraz
  <1> QED
    BY <1>1, <1>2, <1>3 DEF LectorVeraz, CorteContado, SinLectorVeraz

\* A lock begins: its age is new, so no poller has counted anything for it.
LEMMA LectorBloquear ==
  ASSUME TypeOK, Coherencia, LectorVeraz, Bloquear
  PROVE  LectorVeraz'
  <1>0. /\ bloqueo \in Bloqueo /\ generacion \in Nat
        /\ sondeosHuella \in SUBSET sondeosHuella
        /\ \A s \in sondeosHuella : s.gen \in Nat
    BY DEF TypeOK
  <1>1. generacion' = generacion + 1 /\ sueno' = sueno
    BY DEF Bloquear, Entorno
  <1>2. PICK echada, aviso :
          ComprobarHuella(bloqueo, echada, generacion + 1, sondeosHuella, aviso)
    BY DEF Bloquear
  <1> DEFINE gen == generacion + 1
  <1>3. gen \in Nat /\ \A s \in sondeosHuella : s.gen # gen
    BY <1>0 DEF Coherencia, Generaciones
  <1>4. generacion' = gen
        /\ ComprobarHuella(bloqueo, echada, gen, sondeosHuella, aviso)
    BY <1>1, <1>2
  <1> HIDE DEF gen
  <1> QED
    BY <1>0, <1>1, <1>3, <1>4, LectorHuella DEF LectorVeraz, SinLectorVeraz

\* What a poller of the reader makes of a "not available".
LEMMA LectorNoDisponible ==
  ASSUME TypeOK, Coherencia, LectorVeraz, NEW s \in sondeosHuella,
         HuellaDice(s, "NoDisponible"), ~FueEspera(s), HayLector
  PROVE  sueno # "despierto"
  <1> DEFINE w == bloqueo.huella
  <1>1. /\ w \in Obreros /\ w # Nadie /\ s.gen = generacion
        /\ Veredicto(w) = "NoDisponible"
    BY DEF TypeOK, Bloqueo, HuellaDice, HuellaCaduca
  <1>2. obreros[w].clase = "huella" /\ obreros[w].respuesta \in Respuestas
    BY <1>1 DEF Coherencia, Clases, TypeOK, Obrero
  <1>3. obreros[w].respuesta \in {"agotado", "sinlector", "dormido"}
    BY <1>1, <1>2 DEF Veredicto, Respuestas
  <1>4. ~obreros[w].tarde /\ s.reanudaciones = bloqueo.huella_reanudaciones
    BY DEF FueEspera
  <1>5. obreros[w].cortado
    BY <1>1, <1>2, <1>3, <1>4 DEF LectorVeraz, RespuestaVeraz
  <1> QED
    BY <1>1, <1>4, <1>5 DEF LectorVeraz, CorteContado

LEMMA LectorSondeoHuella ==
  ASSUME TypeOK, Coherencia, LectorVeraz, NEW s \in sondeosHuella, SondeoHuella(s)
  PROVE  LectorVeraz'
  <1> USE DEF Barra, Fuentes, Trabajo, Entorno
  <1>0. bloqueo \in Bloqueo /\ generacion \in Nat /\ sondeosHuella \ {s} \in SUBSET sondeosHuella
    BY DEF TypeOK
  <1>1. CASE SondeoHuellaCaduco(s)
    BY <1>1, LectorQuieto DEF SondeoHuellaCaduco
  <1>2. CASE SondeoHuellaAviso(s)
    BY <1>2, LectorQuieto DEF SondeoHuellaAviso
  <1>3. CASE SondeoHuellaAcierta(s)
    BY <1>3, LectorDesbloquear DEF SondeoHuellaAcierta
  <1>4. CASE SondeoHuellaRenueva(s)
    <2> DEFINE b == [bloqueo EXCEPT !.huella = Nadie]
    <2>1. /\ b \in Bloqueo /\ b.huella = Nadie
          /\ b.huella_sin_lector = bloqueo.huella_sin_lector
          /\ b.huella_reanudaciones = bloqueo.huella_reanudaciones
      BY <1>0 DEF Bloqueo
    <2>2. /\ ComprobarHuella(b, EstaBloqueado, generacion, sondeosHuella \ {s}, mensaje)
          /\ generacion' = generacion /\ sueno' = sueno
      BY <1>4 DEF SondeoHuellaRenueva
    <2> HIDE DEF b
    <2>3. \A t \in sondeosHuella : t.gen = generacion =>
             t.reanudaciones <= b.huella_reanudaciones
      BY <2>1 DEF LectorVeraz, CorteContado
    <2>4. RespuestaVeraz /\ (HayLector /\ b.huella_sin_lector => sueno' # "despierto")
      BY <2>1, <2>2 DEF LectorVeraz, SinLectorVeraz
    <2> QED
      BY <1>0, <2>1, <2>2, <2>3, <2>4, LectorHuella
  <1>5. CASE SondeoHuellaSinLector(s)
    <2>1. /\ bloqueo'.huella = Nadie
          /\ bloqueo'.huella_reanudaciones = bloqueo.huella_reanudaciones
          /\ UNCHANGED <<generacion, sueno, obreros>>
          /\ sondeosHuella' \subseteq sondeosHuella
      BY <1>0, <1>5 DEF SondeoHuellaSinLector, CierraHuella, Bloqueo
    <2>2. HayLector => sueno' # "despierto"
      BY <1>5, <2>1, LectorNoDisponible DEF SondeoHuellaSinLector
    <2>3. RespuestaVeraz'
      BY <2>1 DEF LectorVeraz, RespuestaVeraz
    <2>4. CorteContado'
      BY <2>1 DEF LectorVeraz, CorteContado
    <2> QED
      BY <2>1, <2>2, <2>3, <2>4 DEF LectorVeraz, SinLectorVeraz
  <1>6. CASE SondeoHuellaRechaza(s)
    <2>1. /\ bloqueo'.huella = Nadie
          /\ bloqueo'.huella_reanudaciones = bloqueo.huella_reanudaciones
          /\ bloqueo'.huella_sin_lector = bloqueo.huella_sin_lector
          /\ UNCHANGED <<generacion, sueno, obreros>>
          /\ sondeosHuella' \subseteq sondeosHuella
      BY <1>0, <1>6 DEF SondeoHuellaRechaza, CierraHuella, Bloqueo
    <2>2. RespuestaVeraz'
      BY <2>1 DEF LectorVeraz, RespuestaVeraz
    <2> QED
      BY <2>1, <2>2, LectorTranquilo
  <1> QED
    BY <1>1, <1>2, <1>3, <1>4, <1>5, <1>6 DEF SondeoHuella

\* reanudar_huella: every poller of this lock is now behind the counter.
LEMMA LectorReanudar ==
  ASSUME TypeOK, LectorVeraz, ReanudarHuella
  PROVE  LectorVeraz'
  <1>0. /\ bloqueo \in Bloqueo /\ generacion \in Nat
        /\ sondeosHuella \in SUBSET sondeosHuella
        /\ \A s \in sondeosHuella : s.reanudaciones \in Nat
        /\ bloqueo.huella_reanudaciones \in Nat
    BY DEF TypeOK, Bloqueo
  <1>1. /\ Reanudado \in Bloqueo
        /\ Reanudado.huella = bloqueo.huella
        /\ Reanudado.huella_sin_lector = FALSE
        /\ Reanudado.huella_espera = bloqueo.huella_espera
        /\ Reanudado.huella_reanudaciones = bloqueo.huella_reanudaciones + 1
    BY ReanudadoCampos
  <1>2. /\ ComprobarHuella(Reanudado, EstaBloqueado, generacion, sondeosHuella, mensaje)
        /\ generacion' = generacion /\ sueno # "durmiendo"
    BY DEF ReanudarHuella, Barra
  <1>3. \A s \in sondeosHuella : s.gen = generacion =>
           /\ s.reanudaciones <= Reanudado.huella_reanudaciones
           /\ s.reanudaciones # Reanudado.huella_reanudaciones
    BY <1>0, <1>1 DEF LectorVeraz, CorteContado
  <1>4. /\ RespuestaVeraz
        /\ Reanudado.huella # Nadie =>
             ~Reanudado.huella_sin_lector /\ ~Reanudado.huella_espera
    BY <1>1 DEF LectorVeraz
  <1> QED
    BY <1>0, <1>1, <1>2, <1>3, <1>4, LectorHuella

\* The key handlers; a password thread takes an identity the reader does not hold.
LEMMA LectorTeclas ==
  ASSUME TypeOK, LectorVeraz, Teclas
  PROVE  LectorVeraz'
  <1> USE DEF Barra, Fuentes, Trabajo, Entorno
  <1>0. /\ bloqueo \in Bloqueo /\ generacion \in Nat
        /\ sondeosHuella \in SUBSET sondeosHuella
    BY DEF TypeOK
  <1>1. CASE BloqueoEscribir \/ BloqueoBorrar \/ BloqueoLimpiar
             \/ ComprobarRetenido \/ ComprobarSinHilo
    <2>1. /\ bloqueo'.huella = bloqueo.huella
          /\ bloqueo'.huella_reanudaciones = bloqueo.huella_reanudaciones
          /\ bloqueo'.huella_sin_lector = bloqueo.huella_sin_lector
          /\ bloqueo'.huella_espera = bloqueo.huella_espera
      BY <1>0, <1>1 DEF BloqueoEscribir, BloqueoBorrar, BloqueoLimpiar, Editar,
                        ComprobarRetenido, ComprobarSinHilo, Bloqueo
    <2>2. UNCHANGED <<generacion, sueno, obreros, sondeosHuella>>
      BY <1>1 DEF BloqueoEscribir, BloqueoBorrar, BloqueoLimpiar, Editar,
                  ComprobarRetenido, ComprobarSinHilo
    <2> QED
      BY <2>1, <2>2, LectorQuieto
  <1>2. CASE LanzarComprobacion
    <2> PICK w \in Obreros :
          /\ Libre(w, bloqueo)
          /\ obreros' = [obreros EXCEPT ![w] = HiloClave]
          /\ bloqueo' = [bloqueo EXCEPT !.reintentar = FALSE, !.comprobando = w]
      BY <1>2 DEF LanzarComprobacion
    <2>1. /\ bloqueo'.huella = bloqueo.huella
          /\ bloqueo'.huella_reanudaciones = bloqueo.huella_reanudaciones
          /\ bloqueo'.huella_sin_lector = bloqueo.huella_sin_lector
          /\ bloqueo'.huella_espera = bloqueo.huella_espera
          /\ bloqueo.huella \in Obreros \cup {Nadie}
      BY <1>0 DEF Bloqueo
    <2>2. UNCHANGED <<generacion, sueno, sondeosHuella>>
      BY <1>2 DEF LanzarComprobacion
    <2>3. /\ obreros'[w].clase = "clave" /\ w # bloqueo.huella
          /\ \A v \in Obreros \ {w} : obreros'[v] = obreros[v]
      BY DEF HiloClave, Libre, TypeOK
    <2>4. RespuestaVeraz'
      <3>1. \A v \in Obreros : obreros'[v].clase = "huella" => obreros'[v] = obreros[v]
        BY <2>3
      <3> QED
        BY <3>1 DEF LectorVeraz, RespuestaVeraz
    <2>5. bloqueo.huella # Nadie => obreros'[bloqueo.huella] = obreros[bloqueo.huella]
      BY <2>1, <2>3
    <2> QED
      BY <2>1, <2>2, <2>4, <2>5, LectorTranquilo
  <1>3. CASE BloqueoHuella
    <2>1. /\ ComprobarHuella(bloqueo, TRUE, generacion, sondeosHuella, mensaje)
          /\ generacion' = generacion /\ sueno' = sueno
      BY <1>3 DEF BloqueoHuella
    <2>2. /\ RespuestaVeraz
          /\ bloqueo.huella # Nadie => ~bloqueo.huella_sin_lector /\ ~bloqueo.huella_espera
          /\ HayLector /\ bloqueo.huella_sin_lector => sueno' # "despierto"
          /\ \A s \in sondeosHuella : s.gen = generacion =>
               /\ s.reanudaciones <= bloqueo.huella_reanudaciones
               /\ bloqueo.huella # Nadie /\ s.reanudaciones = bloqueo.huella_reanudaciones
                    /\ obreros[bloqueo.huella].cortado => sueno' # "despierto"
      BY <2>1 DEF LectorVeraz, SinLectorVeraz, CorteContado
    <2> QED
      BY <1>0, <2>1, <2>2, LectorHuella
  <1> QED
    BY <1>1, <1>2, <1>3 DEF Teclas

\* The threads of the reader: each answers with the reason it really had.
LEMMA LectorHilos ==
  ASSUME TypeOK, LectorVeraz, NEW w \in Obreros,
         Contesta(w) \/ LiberaSensor(w) \/ MuereObrero(w) \/ PasaHuellaAgotada(w)
  PROVE  LectorVeraz'
  <1> USE DEF Bucle, Barra, Fuentes
  <1>1. UNCHANGED <<generacion, sueno, bloqueo, sondeosHuella>>
    BY DEF Contesta, ContestaClave, ContestaHuella, LiberaSensor, MuereObrero,
           PasaHuellaAgotada
  <1>2. \A v \in Obreros \ {w} : obreros'[v] = obreros[v]
    BY DEF Contesta, ContestaClave, ContestaHuella, LiberaSensor, MuereObrero,
           PasaHuellaAgotada, TypeOK
  <1>3. obreros'[w].cortado = obreros[w].cortado /\ obreros'[w].clase = obreros[w].clase
    BY DEF Contesta, ContestaClave, ContestaHuella, LiberaSensor, MuereObrero,
           PasaHuellaAgotada, TypeOK, Obrero
  <1>4. obreros[w].clase = "huella" =>
          /\ obreros'[w].respuesta = "agotado" => obreros'[w].tarde
          /\ obreros'[w].respuesta = "sinlector" => ~HayLector
          /\ obreros'[w].respuesta = "dormido" => obreros'[w].cortado
    <2>1. CASE Contesta(w)
      <3> PICK r \in Respuestas : ContestaClave(w, r) \/ ContestaHuella(w, r)
        BY <2>1 DEF Contesta
      <3>1. CASE ContestaClave(w, r)
        BY <3>1 DEF ContestaClave
      <3>2. CASE ContestaHuella(w, r)
        <4>1. /\ r = "agotado" => obreros[w].tarde
              /\ r = "sinlector" => ~HayLector
              /\ r = "dormido" => obreros[w].cortado
          BY <3>2 DEF ContestaHuella
        <4>2. /\ obreros'[w].respuesta = r
              /\ obreros'[w].tarde = obreros[w].tarde
          BY <3>2 DEF ContestaHuella, TypeOK, Obrero
        <4> QED
          BY <1>3, <4>1, <4>2
      <3> QED
        BY <3>1, <3>2
    <2>2. CASE LiberaSensor(w) \/ MuereObrero(w)
      <3>1. /\ obreros'[w].respuesta = obreros[w].respuesta
            /\ obreros'[w].tarde = obreros[w].tarde
        BY <2>2 DEF LiberaSensor, MuereObrero, TypeOK, Obrero
      <3> QED
        BY <1>3, <3>1 DEF LectorVeraz, RespuestaVeraz
    <2>3. CASE PasaHuellaAgotada(w)
      <3>1. /\ obreros'[w].respuesta = obreros[w].respuesta
            /\ obreros'[w].tarde = TRUE
        BY <2>3 DEF PasaHuellaAgotada, TypeOK, Obrero
      <3> QED
        BY <1>3, <3>1 DEF LectorVeraz, RespuestaVeraz
    <2> QED
      BY <2>1, <2>2, <2>3
  <1>5. RespuestaVeraz'
    BY <1>2, <1>3, <1>4 DEF LectorVeraz, RespuestaVeraz
  <1>6. bloqueo.huella # Nadie =>
          obreros'[bloqueo.huella].cortado = obreros[bloqueo.huella].cortado
    BY <1>2, <1>3 DEF TypeOK, Bloqueo
  <1> QED
    BY <1>1, <1>5, <1>6, LectorTranquilo

\* A suspend cuts the conversations there are, and its end is still to be counted.
LEMMA LectorDormir ==
  ASSUME TypeOK, LectorVeraz, Dormir \/ Despertar
  PROVE  LectorVeraz'
  <1> USE DEF Bucle, Barra, Fuentes, Trabajo
  <1>1. /\ UNCHANGED <<generacion, bloqueo, sondeosHuella>>
        /\ sueno' # "despierto"
    BY DEF Dormir, Despertar
  <1>2. RespuestaVeraz'
    <2>1. CASE Dormir
      <3>1. \A v \in Obreros :
              /\ obreros'[v].clase = obreros[v].clase
              /\ obreros'[v].respuesta = obreros[v].respuesta
              /\ obreros'[v].tarde = obreros[v].tarde
        BY <2>1 DEF Dormir, TypeOK, Obrero
      <3>2. \A v \in Obreros : obreros[v].cortado => obreros'[v].cortado
        BY <2>1 DEF Dormir, TypeOK, Obrero
      <3> QED
        BY <3>1, <3>2 DEF LectorVeraz, RespuestaVeraz
    <2>2. CASE Despertar
      BY <2>2 DEF Despertar, LectorVeraz, RespuestaVeraz
    <2> QED
      BY <2>1, <2>2
  <1>3. CorteContado' /\ SinLectorVeraz'
    BY <1>1 DEF LectorVeraz, CorteContado, SinLectorVeraz
  <1> QED
    BY <1>1, <1>2, <1>3 DEF LectorVeraz

LEMMA LectorPaso ==
  ASSUME TypeOK, Coherencia, LectorVeraz, [Next]_vars
  PROVE  LectorVeraz'
  <1> USE DEF Barra, Fuentes, Trabajo, Entorno, Bucle
  <1>0. bloqueo \in Bloqueo
    BY DEF TypeOK
  <1>1. CASE BloquearSinProteger \/ Revienta \/ VenceDemora \/ CambiaAjuste
    BY <1>1, LectorQuieto DEF BloquearSinProteger, Revienta, VenceDemora, CambiaAjuste
  <1>2. ASSUME NEW g \in sondeosClave, SondeoClave(g) PROVE LectorVeraz'
    <2>1. CASE SondeoClaveCaduco(g)
      BY <2>1, LectorQuieto DEF SondeoClaveCaduco
    <2>2. CASE SondeoClaveAcierta(g)
      BY <2>2, LectorDesbloquear DEF SondeoClaveAcierta
    <2>3. CASE SondeoClaveFalla(g)
      <3> DEFINE demora == DemoraReintento(SumaFallo(bloqueo.fallos)) > 0
                 r == bloqueo.reintentar \/ demora
      <3>1. bloqueo' = [bloqueo EXCEPT !.comprobando = Nadie, !.escrito = 0,
                           !.fallo = TRUE, !.fallos = SumaFallo(bloqueo.fallos),
                           !.reintentar = r]
        BY <2>3 DEF SondeoClaveFalla
      <3> HIDE DEF r
      <3>2. /\ bloqueo'.huella = bloqueo.huella
            /\ bloqueo'.huella_reanudaciones = bloqueo.huella_reanudaciones
            /\ bloqueo'.huella_sin_lector = bloqueo.huella_sin_lector
            /\ bloqueo'.huella_espera = bloqueo.huella_espera
        BY <1>0, <3>1 DEF Bloqueo
      <3> QED
        BY <2>3, <3>2, LectorQuieto DEF SondeoClaveFalla
    <2> QED
      BY <1>2, <2>1, <2>2, <2>3 DEF SondeoClave
  <1>3. ASSUME NEW g \in temporizadores, TemporizadorReintento(g) PROVE LectorVeraz'
    <2>1. /\ bloqueo'.huella = bloqueo.huella
          /\ bloqueo'.huella_reanudaciones = bloqueo.huella_reanudaciones
          /\ bloqueo'.huella_sin_lector = bloqueo.huella_sin_lector
          /\ bloqueo'.huella_espera = bloqueo.huella_espera
      BY <1>0, <1>3 DEF TemporizadorReintento, LevantaDemora, Bloqueo
    <2> QED
      BY <1>3, <2>1, LectorQuieto DEF TemporizadorReintento
  <1>4. CASE VenceEsperaHuella
    <2>1. /\ bloqueo'.huella = bloqueo.huella
          /\ bloqueo'.huella_reanudaciones = bloqueo.huella_reanudaciones
          /\ bloqueo'.huella_sin_lector = bloqueo.huella_sin_lector
          /\ bloqueo'.huella_espera = FALSE
          /\ UNCHANGED <<generacion, sueno, obreros, sondeosHuella>>
      BY <1>0, <1>4 DEF VenceEsperaHuella, Bloqueo
    <2>2. RespuestaVeraz'
      BY <2>1 DEF LectorVeraz, RespuestaVeraz
    <2> QED
      BY <2>1, <2>2, LectorTranquilo
  <1>5. CASE UNCHANGED vars
    BY <1>5, LectorQuieto DEF vars
  <1> QED
    BY <1>1, <1>2, <1>3, <1>4, <1>5, LectorBloquear, LectorTeclas, LectorSondeoHuella,
       LectorReanudar, LectorHilos, LectorDormir
       DEF Next, PasoBucle, PasoExterno, Terminado

\* The reader is listened to only while nothing speaks against it, and it is
\* written off for what the thread really met.
THEOREM LectorVerazCorrect == Spec => []LectorVeraz
<1>1. Init => LectorVeraz
  <2> SUFFICES ASSUME Init PROVE LectorVeraz
    OBVIOUS
  <2>1. /\ bloqueo.huella = Nadie /\ bloqueo.huella_sin_lector = FALSE
        /\ sondeosHuella = {}
        /\ \A w \in Obreros : obreros[w].respuesta = "ninguno"
    BY DEF Init, BloqueoDefecto, Parado
  <2> QED
    BY <2>1 DEF LectorVeraz, RespuestaVeraz, CorteContado, SinLectorVeraz
<1>2. TypeOK /\ Coherencia /\ LectorVeraz /\ [Next]_vars => LectorVeraz'
  BY LectorPaso
<1> QED
  BY <1>1, <1>2, TypeCorrect, CoherenciaCorrect, PTL DEF Spec

\* The screen shows the state the lock is in, and a reader that exists is written
\* off only around a suspend.
THEOREM PantallaFielCorrect == Spec => []PantallaFiel
<1>1. TypeOK /\ DemoraEnMarcha /\ LectorVeraz => PantallaFiel
  BY DEF DemoraEnMarcha, LectorVeraz, PantallaFiel
<1> QED
  BY <1>1, TypeCorrect, DemoraEnMarchaCorrect, LectorVerazCorrect, PTL

--------------------------------------------------------------------------------
(* No step goes round the delay or leaves a request for a finger behind *)

\* Only Enter starts an attempt, and it finds the barrier down and the delay over.
LEMMA PasoDemora ==
  ASSUME TypeOK, DemoraEnMarcha, [Next]_vars,
         bloqueo.comprobando = Nadie, bloqueo'.comprobando # Nadie
  PROVE  bloqueo.fallos < 3 \/ vencido
  <1> USE DEF Barra, Fuentes, Trabajo, Entorno, Bucle
  <1>0. /\ bloqueo \in Bloqueo /\ bloqueo.fallos \in Nat /\ bloqueo.reintentar \in BOOLEAN
    BY DEF TypeOK, Bloqueo
  <1>1. CASE LanzarComprobacion
    BY <1>0, <1>1 DEF LanzarComprobacion, Retenido, DemoraEnMarcha
  <1>2. ASSUME NEW b \in Bloqueo, NEW echada, NEW gen, NEW sondeos, NEW aviso,
               ComprobarHuella(b, echada, gen, sondeos, aviso), b.comprobando = Nadie
        PROVE  FALSE
    BY <1>2, ComprobarHuellaCampos
  <1>3. CASE Bloquear
    BY <1>0, <1>2, <1>3 DEF Bloquear
  <1>4. CASE BloqueoHuella
    BY <1>0, <1>2, <1>4 DEF BloqueoHuella
  <1>5. CASE ReanudarHuella
    <2>1. Reanudado \in Bloqueo /\ Reanudado.comprobando = Nadie
      BY ReanudadoCampos
    <2> QED
      BY <1>2, <1>5, <2>1 DEF ReanudarHuella
  <1>6. ASSUME NEW s \in sondeosHuella, SondeoHuella(s) PROVE FALSE
    <2>1. CASE SondeoHuellaRenueva(s)
      <3>1. [bloqueo EXCEPT !.huella = Nadie] \in Bloqueo
            /\ [bloqueo EXCEPT !.huella = Nadie].comprobando = Nadie
        BY <1>0 DEF Bloqueo
      <3> QED
        BY <1>2, <2>1, <3>1 DEF SondeoHuellaRenueva
    <2>2. CASE SondeoHuellaAcierta(s)
      BY <2>2 DEF SondeoHuellaAcierta, Desbloquear, TrasSalir, BloqueoDefecto
    <2>3. CASE SondeoHuellaCaduco(s) \/ SondeoHuellaAviso(s)
               \/ SondeoHuellaSinLector(s) \/ SondeoHuellaRechaza(s)
      BY <1>0, <2>3 DEF SondeoHuellaCaduco, SondeoHuellaAviso, SondeoHuellaSinLector,
                        SondeoHuellaRechaza, CierraHuella, Bloqueo
    <2> QED
      BY <1>6, <2>1, <2>2, <2>3 DEF SondeoHuella
  <1>7. ASSUME NEW g \in sondeosClave, SondeoClave(g) PROVE FALSE
    <2>1. CASE SondeoClaveCaduco(g)
      BY <2>1 DEF SondeoClaveCaduco
    <2>2. CASE SondeoClaveAcierta(g)
      BY <2>2 DEF SondeoClaveAcierta, Desbloquear, TrasSalir, BloqueoDefecto
    <2>3. CASE SondeoClaveFalla(g)
      BY <2>3 DEF SondeoClaveFalla, ClaveResuelta, ClaveCaduca
    <2> QED
      BY <1>7, <2>1, <2>2, <2>3 DEF SondeoClave
  <1>8. ASSUME NEW g \in temporizadores, TemporizadorReintento(g) PROVE FALSE
    BY <1>0, <1>8 DEF TemporizadorReintento, LevantaDemora, Bloqueo
  <1>9. CASE BloqueoEscribir \/ BloqueoBorrar \/ BloqueoLimpiar
             \/ ComprobarRetenido \/ ComprobarSinHilo
    BY <1>0, <1>9 DEF BloqueoEscribir, BloqueoBorrar, BloqueoLimpiar, Editar,
                      ComprobarRetenido, ComprobarSinHilo, Bloqueo
  <1>10. CASE PasoExterno
    <2>1. bloqueo'.comprobando = bloqueo.comprobando
      BY <1>0, <1>10 DEF PasoExterno, Contesta, ContestaClave, ContestaHuella, LiberaSensor,
                         MuereObrero, PasaHuellaAgotada, VenceDemora, VenceEsperaHuella,
                         CambiaAjuste, Dormir, Despertar, Bloqueo
    <2> QED
      BY <2>1
  <1>11. CASE BloquearSinProteger \/ Revienta \/ UNCHANGED vars
    BY <1>11 DEF BloquearSinProteger, Revienta, vars
  <1> QED
    BY <1>1, <1>3, <1>4, <1>5, <1>6, <1>7, <1>8, <1>9, <1>10, <1>11
       DEF Next, PasoBucle, Teclas, Terminado

\* Whoever stops listening to the reader leaves another message, or starts a new
\* conversation: the lock that renews is up and nothing tells it not to ask.
LEMMA PasoAviso ==
  ASSUME TypeOK, LectorVeraz, [Next]_vars,
         bloqueo.huella # Nadie, bloqueo'.huella = Nadie, EstaBloqueado', ajuste
  PROVE  mensaje' # "coloca"
  <1> USE DEF Barra, Fuentes, Trabajo, Entorno, Bucle
  <1>0. /\ bloqueo \in Bloqueo /\ bloqueo.huella_sin_lector \in BOOLEAN
        /\ bloqueo.huella_espera \in BOOLEAN
    BY DEF TypeOK, Bloqueo
  <1>1. ASSUME NEW b \in Bloqueo, NEW echada, NEW gen, NEW sondeos, NEW aviso,
               ComprobarHuella(b, echada, gen, sondeos, aviso)
        PROVE  b.huella = Nadie /\ (QuiereHuella(b, echada) => mensaje' = "nodisponible")
    BY <1>1, NadieAssumption, ComprobarHuellaCampos
  <1>2. ASSUME NEW s \in sondeosHuella, SondeoHuella(s) PROVE mensaje' # "coloca"
    <2>1. CASE SondeoHuellaRenueva(s)
      <3> DEFINE b == [bloqueo EXCEPT !.huella = Nadie]
      <3>1. /\ b \in Bloqueo /\ b.huella = Nadie
            /\ b.huella_sin_lector = bloqueo.huella_sin_lector
            /\ b.huella_espera = bloqueo.huella_espera
        BY <1>0 DEF Bloqueo
      <3>2. /\ ComprobarHuella(b, EstaBloqueado, generacion, sondeosHuella \ {s}, mensaje)
            /\ EstaBloqueado
        BY <2>1 DEF SondeoHuellaRenueva, EstaBloqueado
      <3>3. ~b.huella_sin_lector /\ ~b.huella_espera
        BY <3>1 DEF LectorVeraz
      <3> HIDE DEF b
      <3>4. QuiereHuella(b, EstaBloqueado)
        BY <3>1, <3>2, <3>3 DEF QuiereHuella
      <3> QED
        BY <1>1, <3>1, <3>2, <3>4
    <2>2. CASE SondeoHuellaAcierta(s)
      BY <2>2 DEF SondeoHuellaAcierta, Desbloquear, EstaBloqueado
    <2>3. CASE SondeoHuellaCaduco(s) \/ SondeoHuellaAviso(s)
      BY <2>3 DEF SondeoHuellaCaduco, SondeoHuellaAviso
    <2>4. CASE SondeoHuellaSinLector(s) \/ SondeoHuellaRechaza(s)
      BY <2>4 DEF SondeoHuellaSinLector, SondeoHuellaRechaza, CierraHuella
    <2> QED
      BY <1>2, <2>1, <2>2, <2>3, <2>4 DEF SondeoHuella
  <1>3. CASE Bloquear
    BY <1>0, <1>1, <1>3 DEF Bloquear
  <1>4. CASE BloqueoHuella
    BY <1>0, <1>1, <1>4 DEF BloqueoHuella
  <1>5. CASE ReanudarHuella
    <2>1. Reanudado \in Bloqueo /\ Reanudado.huella = bloqueo.huella
      BY ReanudadoCampos
    <2> QED
      BY <1>1, <1>5, <2>1 DEF ReanudarHuella
  <1>6. ASSUME NEW g \in sondeosClave, SondeoClave(g) PROVE FALSE
    <2>1. CASE SondeoClaveCaduco(g)
      BY <2>1 DEF SondeoClaveCaduco
    <2>2. CASE SondeoClaveAcierta(g)
      BY <2>2 DEF SondeoClaveAcierta, Desbloquear, EstaBloqueado
    <2>3. CASE SondeoClaveFalla(g)
      BY <1>0, <2>3 DEF SondeoClaveFalla, Bloqueo
    <2> QED
      BY <1>6, <2>1, <2>2, <2>3 DEF SondeoClave
  <1>7. ASSUME NEW g \in temporizadores, TemporizadorReintento(g) PROVE FALSE
    BY <1>0, <1>7 DEF TemporizadorReintento, LevantaDemora, Bloqueo
  <1>8. CASE BloqueoEscribir \/ BloqueoBorrar \/ BloqueoLimpiar
             \/ ComprobarRetenido \/ ComprobarSinHilo \/ LanzarComprobacion
    BY <1>0, <1>8 DEF BloqueoEscribir, BloqueoBorrar, BloqueoLimpiar, Editar,
                      ComprobarRetenido, ComprobarSinHilo, LanzarComprobacion, Bloqueo
  <1>9. CASE PasoExterno
    <2>1. bloqueo'.huella = bloqueo.huella
      BY <1>0, <1>9 DEF PasoExterno, Contesta, ContestaClave, ContestaHuella, LiberaSensor,
                        MuereObrero, PasaHuellaAgotada, VenceDemora, VenceEsperaHuella,
                        CambiaAjuste, Dormir, Despertar, Bloqueo
    <2> QED
      BY <2>1
  <1>10. CASE BloquearSinProteger \/ Revienta \/ UNCHANGED vars
    BY <1>10 DEF BloquearSinProteger, Revienta, vars
  <1> QED
    BY <1>2, <1>3, <1>4, <1>5, <1>6, <1>7, <1>8, <1>9, <1>10
       DEF Next, PasoBucle, Teclas, Terminado

\* From the third failure on no attempt starts before its delay has elapsed, and
\* the lock never stops listening to the reader with the request for a finger up.
THEOREM PasosVeracesCorrect == Spec => PasosVeraces
<1>1. TypeOK /\ DemoraEnMarcha /\ [Next]_vars
        => [bloqueo.comprobando = Nadie /\ bloqueo'.comprobando # Nadie
              => bloqueo.fallos < 3 \/ vencido]_vars
  BY PasoDemora
<1>2. TypeOK /\ LectorVeraz /\ [Next]_vars
        => [bloqueo.huella # Nadie /\ bloqueo'.huella = Nadie /\ EstaBloqueado' /\ ajuste
              => mensaje' # "coloca"]_vars
  BY PasoAviso
<1> QED
  BY <1>1, <1>2, TypeCorrect, DemoraEnMarchaCorrect, LectorVerazCorrect, PTL
     DEF Spec, PasosVeraces, DemoraRespetada, AvisoVeraz
================================================================================
