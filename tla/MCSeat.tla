-------------------------------- MODULE MCSeat --------------------------------
(***************************************************************************)
(* The machines between the hardware of a seat and the desktop, side by    *)
(* side: each behaviour is of one of them, the one parte names, and the    *)
(* variables of the others stay at nothing.  The reachable states are the  *)
(* union of theirs.                                                        *)
(***************************************************************************)
EXTENDS Integers, Sequences, FiniteSetTheorems, TLC, TLAPS

\* Assumptions about the surroundings: see the modules.
CONSTANTS Vacias, Repite, Interrumpe

\* The outputs, the primary one, copies and calls of the portal; the keys of the keyboard, its
\* keymaps and how many are down at once.
CONSTANTS Salidas, Principal, Fotos, Portales, Teclas, Mapas, TeclasALaVez

\* The keymaps that may be read: none, Copilot as a key, a letter that opens the
\* launchpad with Print as nothing.
MCMapas == {{}, {[de |-> "copilot", que |-> "tecla", a |-> "letra"]},
            {[de |-> "letra", que |-> "accion", a |-> "launchpad"],
             [de |-> "impr", que |-> "nada", a |-> "impr"]}}

\* The layouts that may be asked for: a alone; b alone and a off; a to the left of b,
\* the primary; the row of the three; a clone of two; half on top; a gap; none lit;
\* two primaries.
Apagada == [activa |-> FALSE, x |-> 0, y |-> 0, principal |-> FALSE]
En(x, y, primera) == [activa |-> TRUE, x |-> x, y |-> y, principal |-> primera]
Sola(p) == p :> En(0, 0, TRUE)
MCDisposiciones ==
  {Sola("a"),
   ("a" :> Apagada) @@ Sola("b"),
   ("a" :> En(-2, 0, FALSE)) @@ Sola("b"),
   ("a" :> En(0, 0, TRUE)) @@ ("b" :> En(2, 0, FALSE)) @@ ("c" :> En(5, 0, FALSE)),
   ("a" :> En(1, 1, FALSE)) @@ ("c" :> En(1, 1, FALSE)),
   ("a" :> En(0, 0, TRUE)) @@ ("b" :> En(1, 0, FALSE)),
   ("a" :> En(0, 0, TRUE)) @@ ("c" :> En(2, 2, FALSE)),
   ("a" :> Apagada) @@ ("b" :> Apagada),
   Sola("a") @@ Sola("c")}

VARIABLE parte        \* the machine this behaviour is of
nada == "-"

\* Frames: the outputs.
VARIABLES activa, dpms, redibujar, enVuelo, pendiente, sucia, apagada, fallida, anima, despierto,
          foto, pedida, portal, llamada
F == INSTANCE Frames WITH Nadie <- "nadie"
deFrames == <<activa, dpms, redibujar, enVuelo, pendiente, sucia, apagada, fallida, anima,
    despierto, foto, pedida, portal, llamada>>
SinFrames == activa = nada /\ dpms = nada /\ redibujar = nada /\ enVuelo = nada /\
    pendiente = nada /\ sucia = nada /\ apagada = nada /\ fallida = nada /\ anima = nada /\
    despierto = nada /\ foto = nada /\ pedida = nada /\ portal = nada /\ llamada = nada

\* Displays: three monitors, the second wider than the others; KMS says no once.
VARIABLES conectadas, aviso, marcha, kms, principalId, mapa, censo, ultima, disco, fallos,
          aplicado, roto
D == INSTANCE Displays WITH
       Pantallas <- {"a", "b", "c"}, Orden <- <<"a", "b", "c">>, MaxFallos <- 1,
       Ancho <- [a |-> 2, b |-> 3, c |-> 2], Alto <- [a |-> 2, b |-> 2, c |-> 2],
       Disposiciones <- MCDisposiciones
deDisplays == <<conectadas, aviso, marcha, kms, principalId, mapa, censo, ultima, disco, fallos,
    aplicado, roto>>
SinDisplays == conectadas = nada /\ aviso = nada /\ marcha = nada /\ kms = nada /\
    principalId = nada /\ mapa = nada /\ censo = nada /\ ultima = nada /\ disco = nada /\
    fallos = nada /\ aplicado = nada /\ roto = nada

\* Keys: the keyboard.
VARIABLES abajoK, teclas, capturaTecla, traductor, mesa
K == INSTANCE Keys WITH MaxAbajo <- TeclasALaVez, abajo <- abajoK
deKeys == <<abajoK, teclas, capturaTecla, traductor, mesa>>
SinKeys == abajoK = nada /\ teclas = nada /\ capturaTecla = nada /\ traductor = nada /\
    mesa = nada

\* Buttons: every owner of a button, one held at a time.
VARIABLES abajoB, zona, encima, notas, cliente
B == INSTANCE Buttons WITH
       MaxAbajo <- 1, abajo <- abajoB
deButtons == <<abajoB, zona, encima, notas, cliente>>
SinButtons == abajoB = nada /\ zona = nada /\ encima = nada /\ notas = nada /\ cliente = nada

Init ==
  \/ parte = "frames" /\ F!Init /\ SinDisplays /\ SinKeys /\ SinButtons
  \/ parte = "displays" /\ D!Init /\ SinFrames /\ SinKeys /\ SinButtons
  \/ parte = "keys" /\ K!Init /\ SinFrames /\ SinDisplays /\ SinButtons
  \/ parte = "buttons" /\ B!Init /\ SinFrames /\ SinDisplays /\ SinKeys

EnFrames(A) == parte = "frames" /\ A /\ UNCHANGED <<parte, deDisplays, deKeys, deButtons>>
EnDisplays(A) == parte = "displays" /\ A /\ UNCHANGED <<parte, deFrames, deKeys, deButtons>>
EnKeys(A) == parte = "keys" /\ A /\ UNCHANGED <<parte, deFrames, deDisplays, deButtons>>
EnButtons(A) == parte = "buttons" /\ A /\ UNCHANGED <<parte, deFrames, deDisplays, deKeys>>

Next ==
  \/ EnFrames(F!Vuelta) \/ EnFrames(F!Pasa) \/ EnFrames(F!Evento) \/ EnFrames(F!EncenderDpms)
  \/ EnFrames(F!ApagarDpms) \/ EnFrames(F!PauseSession) \/ EnFrames(F!ActivateSession)
  \/ EnFrames(F!Capturar) \/ EnFrames(\E o \in Salidas : F!Vblank(o))
  \/ EnFrames(\E f \in Fotos : F!Copy(f)) \/ EnFrames(\E f \in Fotos : F!Destroyed(f))
  \/ EnFrames(\E f \in Fotos : \E o \in Salidas : F!CaptureOutput(f, o))
  \/ EnFrames(\E p \in Portales : F!Screenshot(p))
  \/ EnDisplays(D!AplicarSettings) \/ EnDisplays(D!AplicarModoRapido) \/ EnDisplays(D!Redetectar)
  \/ EnDisplays(D!Arrancar) \/ EnDisplays(D!Apagar)
  \/ EnDisplays(\E p \in {"a", "b", "c"} : D!Enchufar(p))
  \/ EnDisplays(\E p \in {"a", "b", "c"} : D!Desenchufar(p))
  \/ EnKeys(\E k \in Teclas : K!Pulsar(k))
  \/ EnKeys(\E k \in Teclas : K!Soltar(k))
  \/ EnKeys(\E b \in BOOLEAN : K!CapturarTecla(b))
  \/ EnKeys(\E mapax \in Mapas : K!Recargar(mapax)) \/ EnKeys(K!Bloquear)
  \/ EnKeys(K!Desbloquear) \/ EnKeys(K!Exponer) \/ EnKeys(K!Clic) \/ EnKeys(K!VentanaCerrada)
  \/ EnButtons(\E b \in B!Botones : B!Soltar(b))
  \/ EnButtons(\E b \in B!Botones : \E logo \in BOOLEAN : B!Pulsar(b, logo))
  \/ EnButtons(\E z \in B!Zonas : B!Mover(z)) \/ EnButtons(B!MoveRequest) \/ EnButtons(B!Teclado)
  \/ EnButtons(B!Captura) \/ EnButtons(B!Bloquear) \/ EnButtons(B!Desbloquear)

Spec == Init /\ [][Next]_<<parte, deFrames, deDisplays, deKeys, deButtons>>

\* What the screens do not show yet has somebody to come back to it.
NadaSinEnsenar == parte = "frames" => F!NadaSinEnsenar

\* After an apply the outputs make one desktop with the primary at its origin, what there is
\* to go back to is what is on the screens, and with a monitor plugged in there is one to look at.
EscritorioEntero == parte = "displays" => D!EscritorioEntero /\ D!VueltaFiel /\ D!HayImagen

\* With no key held none is down for the clients nor for xkb, and with no button held nothing
\* waits for a release.
NadaTrabado == 
    /\ parte = "keys" => K!NingunaTrabada
    /\ parte = "buttons" => B!AgarreConBoton

\* No step forwards a key, or opens anything, under the lock.
CiegoBajoCandado == [][parte = "keys" => K!PasoCiego]_<<parte, deKeys>>

\* There is a primary output, and the keymaps are written as the file is, none of them changing
\* both the chord of Copilot and a key of it.
ASSUME AsientoAssumption == Principal \in Salidas /\ K!MapasEscritos /\ K!AcordeIntacto

-----------------------------------------------------------------------------
(* The frames: why it holds.                                                           *)

TiposCuadros ==
  /\ {activa, dpms, redibujar, anima, despierto} \subseteq BOOLEAN
  /\ {enVuelo, pendiente, sucia, apagada, fallida} \subseteq [Salidas -> BOOLEAN]

(* An output with something to show has a mark, unless the driver refused: *)
(* whoever draws for another reason, or finds none, does not lose it.      *)
Marcada ==
  activa /\ dpms =>
    \A o \in Salidas : (sucia[o] \/ apagada[o]) /\ ~fallida[o] => redibujar \/ anima \/ pendiente[o]

(* What was turned off is drawn whole when it is lit.                      *)
Entera == dpms => \A o \in Salidas : apagada[o] /\ ~fallida[o] => sucia[o]

(* What is moving asked for another frame before the loop slept, and has   *)
(* one in the air; in a round, in the air or to be drawn.                  *)
EnMarcha ==
  /\ anima /\ ~despierto => redibujar
  /\ anima /\ activa /\ dpms /\ fallida = F!Ningunas =>
       \E x \in Salidas : enVuelo[x] \/ (despierto /\ sucia[x])

CuadrosInv == TiposCuadros /\ Marcada /\ Entera /\ EnMarcha /\ F!NadaSinEnsenar

\* What marking and unmarking some outputs leaves of each.
LEMMA MascarasAplicadas ==
  ASSUME NEW f \in [Salidas -> BOOLEAN], NEW S
  PROVE  /\ F!Y(f, S) \in [Salidas -> BOOLEAN]
         /\ F!Menos(f, S) \in [Salidas -> BOOLEAN]
         /\ \A o \in Salidas : F!Y(f, S)[o] <=> f[o] \/ o \in S
         /\ \A o \in Salidas : F!Menos(f, S)[o] <=> f[o] /\ o \notin S
BY DEF F!Y, F!Menos

\* No output marked, and all of them.
LEMMA MascarasConstantes ==
  /\ F!Todas \in [Salidas -> BOOLEAN] /\ F!Ningunas \in [Salidas -> BOOLEAN]
  /\ \A o \in Salidas : F!Todas[o] /\ ~F!Ningunas[o]
  /\ \A f \in [Salidas -> BOOLEAN] : (f = F!Ningunas) <=> (\A o \in Salidas : ~f[o])
<1>1. /\ F!Todas \in [Salidas -> BOOLEAN] /\ F!Ningunas \in [Salidas -> BOOLEAN]
      /\ \A o \in Salidas : F!Todas[o] /\ ~F!Ningunas[o]
  BY DEF F!Todas, F!Ningunas
<1>2. ASSUME NEW f \in [Salidas -> BOOLEAN], \A o \in Salidas : ~f[o]
      PROVE  f = F!Ningunas
  <2>1. \A o \in Salidas : f[o] = FALSE
    BY <1>2
  <2>. QED BY <2>1 DEF F!Ningunas
<1>. QED BY <1>1, <1>2

(* What an output is like after a drawing that queued some outputs and was *)
(* refused others.                                                         *)
Trazo(e, encoladas, malas, avisa) ==
  /\ anima' = (e.anima \/ avisa)
  /\ avisa => Principal \in encoladas \cup malas
  /\ \A o \in Salidas :
       /\ enVuelo'[o] <=> e.enVuelo[o] \/ o \in encoladas
       /\ sucia'[o] <=> (e.sucia[o] /\ o \notin encoladas) \/ (avisa /\ o = Principal)
       /\ apagada'[o] <=> apagada[o] /\ o \notin encoladas
       /\ fallida'[o] <=> (fallida[o] /\ o \notin encoladas) \/ o \in malas
       /\ o \notin encoladas \cup malas =>
            (pendiente'[o] <=> (e.pendiente[o] \/ e.marca) /\ e.enVuelo[o])
       /\ (e.pendiente[o] \/ e.marca) /\ e.sucia[o] /\ ~e.enVuelo[o] =>
            o \in encoladas \cup malas

(* Every drawing is one of those.                                          *)
LEMMA Pinceladas ==
  ASSUME TiposCuadros, Principal \in Salidas,
         NEW e, e.marca \in BOOLEAN, e.anima \in BOOLEAN,
         e.pendiente \in [Salidas -> BOOLEAN], e.sucia \in [Salidas -> BOOLEAN],
         e.enVuelo \in [Salidas -> BOOLEAN],
         F!DibujarTodas(e)
  PROVE  /\ anima' \in BOOLEAN
         /\ {enVuelo', pendiente', sucia', apagada', fallida'} \subseteq [Salidas -> BOOLEAN]
         /\ \E encoladas, malas \in SUBSET Salidas, avisa \in BOOLEAN :
              Trazo(e, encoladas, malas, avisa)
<1>. DEFINE marcadas == F!Marcadas(e)
             toca == {o \in Salidas : marcadas[o] /\ ~e.enVuelo[o]}
             llenas == {o \in toca : e.sucia[o]}
<1>1. PICK error \in SUBSET llenas : \E rechazadas \in SUBSET (llenas \ error),
                 fin \in IF Principal \in llenas \ error THEN F!Finales ELSE {"nada"} :
        LET encoladas == (llenas \ error) \ rechazadas IN
        /\ enVuelo' = F!Y(e.enVuelo, encoladas)
        /\ pendiente' = F!Menos(marcadas, toca \ rechazadas)
        /\ sucia' = F!Y(F!Menos(e.sucia, encoladas), IF F!Avisa(fin) THEN {Principal} ELSE {})
        /\ apagada' = F!Menos(apagada, encoladas)
        /\ fallida' = F!Y(F!Menos(fallida, encoladas), error \cup rechazadas)
        /\ anima' = (e.anima \/ F!Avisa(fin))
  BY DEF F!DibujarTodas
<1>1a. PICK rechazadas \in SUBSET (llenas \ error),
           fin \in (IF Principal \in llenas \ error THEN F!Finales ELSE {"nada"}) :
        LET encoladas == (llenas \ error) \ rechazadas IN
        /\ enVuelo' = F!Y(e.enVuelo, encoladas)
        /\ pendiente' = F!Menos(marcadas, toca \ rechazadas)
        /\ sucia' = F!Y(F!Menos(e.sucia, encoladas), IF F!Avisa(fin) THEN {Principal} ELSE {})
        /\ apagada' = F!Menos(apagada, encoladas)
        /\ fallida' = F!Y(F!Menos(fallida, encoladas), error \cup rechazadas)
        /\ anima' = (e.anima \/ F!Avisa(fin))
  BY <1>1
<1>. DEFINE encoladas == (llenas \ error) \ rechazadas
             malas == error \cup rechazadas
             avisa == F!Avisa(fin)
<1>2. /\ encoladas \in SUBSET Salidas /\ malas \in SUBSET Salidas /\ avisa \in BOOLEAN
      /\ encoladas \cup malas = llenas
  BY DEF F!Avisa
<1>3. avisa => Principal \in encoladas \cup malas
  BY <1>2 DEF F!Avisa
<1>4. /\ marcadas \in [Salidas -> BOOLEAN]
      /\ \A o \in Salidas : marcadas[o] <=> e.pendiente[o] \/ e.marca
  BY DEF F!Marcadas
<1>5. /\ enVuelo' = F!Y(e.enVuelo, encoladas) /\ apagada' = F!Menos(apagada, encoladas)
      /\ fallida' = F!Y(F!Menos(fallida, encoladas), malas)
      /\ sucia' = F!Y(F!Menos(e.sucia, encoladas), IF avisa THEN {Principal} ELSE {})
      /\ pendiente' = F!Menos(marcadas, toca \ rechazadas)
      /\ anima' = (e.anima \/ avisa)
  BY <1>1a
<1>6. \A o \in Salidas : o \in llenas <=> marcadas[o] /\ ~e.enVuelo[o] /\ e.sucia[o]
  OBVIOUS
<1>7. \A o \in Salidas \ (encoladas \cup malas) :
        o \in toca \ rechazadas <=> marcadas[o] /\ ~e.enVuelo[o]
  OBVIOUS
<1>. HIDE DEF marcadas, toca, llenas, encoladas, malas, avisa
<1>8. /\ enVuelo' \in [Salidas -> BOOLEAN]
      /\ \A o \in Salidas : enVuelo'[o] <=> e.enVuelo[o] \/ o \in encoladas
  BY <1>5, MascarasAplicadas
<1>9. /\ apagada' \in [Salidas -> BOOLEAN]
      /\ \A o \in Salidas : apagada'[o] <=> apagada[o] /\ o \notin encoladas
  BY <1>5, MascarasAplicadas DEF TiposCuadros
<1>10. /\ fallida' \in [Salidas -> BOOLEAN]
       /\ \A o \in Salidas : fallida'[o] <=> (fallida[o] /\ o \notin encoladas) \/ o \in malas
  BY <1>5, MascarasAplicadas DEF TiposCuadros
<1>11. /\ sucia' \in [Salidas -> BOOLEAN]
       /\ \A o \in Salidas : sucia'[o] <=> (e.sucia[o] /\ o \notin encoladas) \/ (avisa /\ o = Principal)
  <2>1. \A o \in Salidas : o \in (IF avisa THEN {Principal} ELSE {}) <=> avisa /\ o = Principal
    OBVIOUS
  <2>. QED BY <1>5, <2>1, MascarasAplicadas
<1>12. /\ pendiente' \in [Salidas -> BOOLEAN]
       /\ \A o \in Salidas : pendiente'[o] <=> marcadas[o] /\ o \notin toca \ rechazadas
  BY <1>4, <1>5, MascarasAplicadas
<1>13. anima' \in BOOLEAN
  BY <1>2, <1>5
<1>14. \A o \in Salidas :
         /\ o \notin encoladas \cup malas =>
              (pendiente'[o] <=> (e.pendiente[o] \/ e.marca) /\ e.enVuelo[o])
         /\ (e.pendiente[o] \/ e.marca) /\ e.sucia[o] /\ ~e.enVuelo[o] => o \in encoladas \cup malas
  BY <1>2, <1>4, <1>6, <1>7, <1>12
<1>15. Trazo(e, encoladas, malas, avisa)
  BY <1>3, <1>5, <1>8, <1>9, <1>10, <1>11, <1>14 DEF Trazo
<1>. QED BY <1>2, <1>8, <1>9, <1>10, <1>11, <1>12, <1>13, <1>15

(* What a drawing leaves: whatever still shows something old and was not   *)
(* refused is marked with a frame in the air, or something moves, and what *)
(* moves has a frame in the air.                                           *)
LEMMA Dibujado ==
  ASSUME TiposCuadros, Principal \in Salidas,
         NEW e, e.marca \in BOOLEAN, e.anima \in BOOLEAN,
         e.pendiente \in [Salidas -> BOOLEAN], e.sucia \in [Salidas -> BOOLEAN],
         e.enVuelo \in [Salidas -> BOOLEAN],
         \A o \in Salidas : (e.sucia[o] \/ apagada[o]) /\ ~fallida[o] => e.marca \/ e.pendiente[o],
         \A o \in Salidas : apagada[o] /\ ~fallida[o] => e.sucia[o],
         e.anima => e.marca /\ (fallida = F!Ningunas => \E x \in Salidas : e.enVuelo[x] \/ e.sucia[x]),
         F!DibujarTodas(e)
  PROVE  /\ \A o \in Salidas : apagada'[o] /\ ~fallida'[o] => sucia'[o]
         /\ \A o \in Salidas : (sucia'[o] \/ apagada'[o]) /\ ~fallida'[o] =>
              anima' \/ (pendiente'[o] /\ enVuelo'[o])
         /\ anima' /\ fallida' = F!Ningunas => \E x \in Salidas : enVuelo'[x]
<1>1. fallida' \in [Salidas -> BOOLEAN]
  BY Pinceladas
<1>2. PICK encoladas, malas \in SUBSET Salidas, avisa \in BOOLEAN :
         Trazo(e, encoladas, malas, avisa)
  BY Pinceladas
<1>3. ASSUME NEW o \in Salidas, apagada'[o], ~fallida'[o]
      PROVE  sucia'[o]
  BY <1>2, <1>3 DEF Trazo
<1>4. ASSUME NEW o \in Salidas, sucia'[o] \/ apagada'[o], ~fallida'[o], ~anima'
      PROVE  pendiente'[o] /\ enVuelo'[o]
  <2>1. ~avisa /\ sucia'[o]
    BY <1>2, <1>3, <1>4 DEF Trazo
  <2>2. e.sucia[o] /\ o \notin encoladas \cup malas /\ ~fallida[o]
    BY <1>2, <1>4, <2>1 DEF Trazo
  <2>3. e.pendiente[o] \/ e.marca
    BY <2>2
  <2>4. e.enVuelo[o]
    BY <1>2, <2>2, <2>3 DEF Trazo
  <2>. QED BY <1>2, <2>2, <2>3, <2>4 DEF Trazo
<1>5. ASSUME anima', fallida' = F!Ningunas
      PROVE  \E x \in Salidas : enVuelo'[x]
  <2>1. \A o \in Salidas : ~fallida'[o]
    BY <1>1, <1>5, MascarasConstantes
  <2>2. CASE avisa
    BY <1>2, <2>1, <2>2 DEF Trazo
  <2>3. CASE e.anima /\ fallida = F!Ningunas
    <3>1. PICK x \in Salidas : e.enVuelo[x] \/ e.sucia[x]
      BY <2>3
    <3>. QED BY <1>2, <2>1, <2>3, <3>1 DEF Trazo
  <2>4. CASE fallida # F!Ningunas
    <3>1. PICK o \in Salidas : fallida[o]
      BY <2>4, MascarasConstantes DEF TiposCuadros
    <3>. QED BY <1>2, <2>1, <3>1 DEF Trazo
  <2>. QED BY <1>2, <1>5, <2>2, <2>3, <2>4 DEF Trazo
<1>. QED BY <1>3, <1>4, <1>5

(* A round or a vblank that may draw.                                      *)
LEMMA DibujarHace ==
  ASSUME CuadrosInv, Principal \in Salidas, NEW v \in [Salidas -> BOOLEAN], F!Dibujar(v),
         anima => \E x \in Salidas : v[x] \/ sucia[x] \/ ~(activa /\ dpms /\ fallida = F!Ningunas)
  PROVE  /\ anima' \in BOOLEAN
         /\ {enVuelo', pendiente', sucia', apagada', fallida'} \subseteq [Salidas -> BOOLEAN]
         /\ dpms => \A o \in Salidas : apagada'[o] /\ ~fallida'[o] => sucia'[o]
         /\ activa /\ dpms =>
              /\ \A o \in Salidas : (sucia'[o] \/ apagada'[o]) /\ ~fallida'[o] =>
                   anima' \/ (pendiente'[o] /\ enVuelo'[o])
              /\ anima' /\ fallida' = F!Ningunas => \E x \in Salidas : enVuelo'[x]
<1>1. CASE activa /\ dpms /\ F!Motivo(v)
  <2>. DEFINE e == F!Estado(v)
  <2>1. /\ e.marca = (redibujar \/ anima) /\ e.anima = anima /\ e.pendiente = pendiente
        /\ e.sucia = sucia /\ e.enVuelo = v
    BY DEF F!Estado
  <2>2. F!DibujarTodas(e)
    BY <1>1 DEF F!Dibujar
  <2>. HIDE DEF e
  <2>3. /\ e.marca \in BOOLEAN /\ e.anima \in BOOLEAN /\ e.pendiente \in [Salidas -> BOOLEAN]
        /\ e.sucia \in [Salidas -> BOOLEAN] /\ e.enVuelo \in [Salidas -> BOOLEAN]
    BY <2>1 DEF CuadrosInv, TiposCuadros
  <2>4. \A o \in Salidas : (e.sucia[o] \/ apagada[o]) /\ ~fallida[o] => e.marca \/ e.pendiente[o]
    BY <1>1, <2>1 DEF CuadrosInv, Marcada
  <2>5. \A o \in Salidas : apagada[o] /\ ~fallida[o] => e.sucia[o]
    BY <1>1, <2>1 DEF CuadrosInv, Entera
  <2>6. e.anima => e.marca /\ (fallida = F!Ningunas => \E x \in Salidas : e.enVuelo[x] \/ e.sucia[x])
    BY <1>1, <2>1
  <2>7. TiposCuadros
    BY DEF CuadrosInv
  <2>8. /\ anima' \in BOOLEAN
        /\ {enVuelo', pendiente', sucia', apagada', fallida'} \subseteq [Salidas -> BOOLEAN]
    BY <2>2, <2>3, <2>7, Pinceladas
  <2>. QED BY <2>2, <2>3, <2>4, <2>5, <2>6, <2>7, <2>8, Dibujado
<1>2. CASE ~(activa /\ dpms /\ F!Motivo(v))
  <2>1. enVuelo' = v /\ UNCHANGED <<pendiente, sucia, apagada, fallida, anima>>
    BY <1>2 DEF F!Dibujar
  <2>2. activa /\ dpms => ~redibujar /\ ~anima /\ \A o \in Salidas : pendiente[o] => v[o]
    BY <1>2 DEF F!Motivo, F!HayPendiente
  <2>. QED BY <2>1, <2>2 DEF CuadrosInv, TiposCuadros, Marcada, Entera
<1>. QED BY <1>1, <1>2

\* A round of the loop keeps the invariant.
LEMMA VueltaConserva ==
  ASSUME CuadrosInv, Principal \in Salidas, F!Vuelta PROVE CuadrosInv'
<1>1. /\ despierto /\ despierto' = FALSE /\ UNCHANGED <<activa, dpms>> /\ F!Dibujar(enVuelo)
      /\ redibujar' = (F!Queda(enVuelo) \/ anima')
  BY DEF F!Vuelta, F!PostDispatch
<1>2. anima => \E x \in Salidas : enVuelo[x] \/ sucia[x] \/ ~(activa /\ dpms /\ fallida = F!Ningunas)
  BY DEF CuadrosInv, EnMarcha
<1>3. enVuelo \in [Salidas -> BOOLEAN]
  BY DEF CuadrosInv, TiposCuadros
<1>4. /\ anima' \in BOOLEAN
      /\ {enVuelo', pendiente', sucia', apagada', fallida'} \subseteq [Salidas -> BOOLEAN]
      /\ dpms => \A o \in Salidas : apagada'[o] /\ ~fallida'[o] => sucia'[o]
      /\ activa /\ dpms =>
           /\ \A o \in Salidas : (sucia'[o] \/ apagada'[o]) /\ ~fallida'[o] =>
                anima' \/ (pendiente'[o] /\ enVuelo'[o])
           /\ anima' /\ fallida' = F!Ningunas => \E x \in Salidas : enVuelo'[x]
  BY <1>1, <1>2, <1>3, DibujarHace
<1>5. TiposCuadros'
  BY <1>1, <1>4 DEF CuadrosInv, TiposCuadros, F!Queda
<1>6. Marcada' /\ Entera' /\ EnMarcha'
  BY <1>1, <1>4, <1>5 DEF Marcada, Entera, EnMarcha, TiposCuadros, F!Ningunas
<1>7. F!NadaSinEnsenar'
  <2>1. SUFFICES ASSUME activa', dpms', fallida' = F!Ningunas,
                        NEW o \in Salidas, sucia'[o] \/ apagada'[o]
                 PROVE  /\ redibujar' \/ anima' \/ pendiente'[o]
                        /\ \E x \in Salidas : enVuelo'[x]
    BY DEF F!NadaSinEnsenar, F!Ningunas
  <2>2. ~fallida'[o]
    BY <2>1, <1>4, MascarasConstantes
  <2>3. activa /\ dpms
    BY <1>1, <2>1
  <2>. QED BY <1>4, <2>1, <2>2, <2>3
<1>. QED BY <1>5, <1>6, <1>7 DEF CuadrosInv

\* So does the vblank of a frame.
LEMMA VblankConserva ==
  ASSUME CuadrosInv, Principal \in Salidas, Vacias = FALSE, NEW s \in Salidas, F!Vblank(s)
  PROVE  CuadrosInv'
<1>. DEFINE v == [enVuelo EXCEPT ![s] = FALSE]
<1>1. /\ despierto' = TRUE /\ UNCHANGED <<activa, dpms>> /\ F!Dibujar(v)
      /\ redibujar' = F!Queda(v) /\ (anima => \E x \in Salidas : sucia[x])
  BY DEF F!Vblank
<1>2. v \in [Salidas -> BOOLEAN]
  BY DEF CuadrosInv, TiposCuadros
<1>. HIDE DEF v
<1>3. anima => \E x \in Salidas : v[x] \/ sucia[x] \/ ~(activa /\ dpms /\ fallida = F!Ningunas)
  BY <1>1
<1>4. /\ anima' \in BOOLEAN
      /\ {enVuelo', pendiente', sucia', apagada', fallida'} \subseteq [Salidas -> BOOLEAN]
      /\ dpms => \A o \in Salidas : apagada'[o] /\ ~fallida'[o] => sucia'[o]
      /\ activa /\ dpms =>
           /\ \A o \in Salidas : (sucia'[o] \/ apagada'[o]) /\ ~fallida'[o] =>
                anima' \/ (pendiente'[o] /\ enVuelo'[o])
           /\ anima' /\ fallida' = F!Ningunas => \E x \in Salidas : enVuelo'[x]
  BY <1>1, <1>2, <1>3, DibujarHace
<1>5. TiposCuadros'
  BY <1>1, <1>4 DEF CuadrosInv, TiposCuadros, F!Queda
<1>6. Marcada' /\ Entera' /\ EnMarcha' /\ F!NadaSinEnsenar'
  BY <1>1, <1>4, <1>5 DEF Marcada, Entera, EnMarcha, F!NadaSinEnsenar, TiposCuadros, F!Ningunas
<1>. QED BY <1>5, <1>6 DEF CuadrosInv

\* So does the time of an animation.
LEMMA PasaConserva ==
  ASSUME CuadrosInv, F!Pasa PROVE CuadrosInv'
<1>1. PICK Dichas \in SUBSET Salidas : sucia' = F!Y(sucia, Dichas)
  BY DEF F!Pasa
<1>2. /\ anima /\ ~despierto /\ anima' \in BOOLEAN
      /\ UNCHANGED <<activa, dpms, redibujar, enVuelo, pendiente, apagada, fallida, despierto>>
  BY DEF F!Pasa
<1>3. TiposCuadros
  BY DEF CuadrosInv
<1>4. /\ sucia' \in [Salidas -> BOOLEAN]
      /\ \A o \in Salidas : sucia[o] => sucia'[o]
  BY <1>1, <1>3, MascarasAplicadas DEF TiposCuadros
<1>5. redibujar /\ (activa /\ dpms /\ fallida = F!Ningunas => \E x \in Salidas : enVuelo[x])
  BY <1>2 DEF CuadrosInv, EnMarcha
<1>6. TiposCuadros'
  BY <1>2, <1>3, <1>4 DEF TiposCuadros
<1>7. Marcada' /\ Entera' /\ EnMarcha'
  BY <1>2, <1>4, <1>5 DEF CuadrosInv, Marcada, Entera, EnMarcha, F!Ningunas
<1>8. F!NadaSinEnsenar'
  BY <1>2, <1>5 DEF F!NadaSinEnsenar, F!Ningunas
<1>. QED BY <1>6, <1>7, <1>8 DEF CuadrosInv

(* An event leaves the loop in a round; one that only adds to what there is*)
(* to draw asks for the drawing.                                           *)
LEMMA AvisoConserva ==
  ASSUME CuadrosInv, despierto' = TRUE, redibujar' \in {redibujar, TRUE}, anima' \in BOOLEAN,
         UNCHANGED <<activa, dpms, enVuelo, pendiente, apagada, fallida>>,
         sucia' \in [Salidas -> BOOLEAN], \A o \in Salidas : sucia[o] => sucia'[o],
         UNCHANGED sucia \/ redibujar' = TRUE,
         anima' => anima \/ \E x \in Salidas : sucia'[x],
         anima => anima'
  PROVE  CuadrosInv'
<1>1. TiposCuadros
  BY DEF CuadrosInv
<1>2. TiposCuadros'
  BY <1>1 DEF TiposCuadros
<1>3. Marcada'
  <2>1. CASE redibujar' = TRUE
    BY <2>1 DEF Marcada
  <2>2. CASE UNCHANGED <<redibujar, sucia>>
    <3>1. ASSUME activa, dpms, NEW o \in Salidas, sucia[o] \/ apagada[o], ~fallida[o]
          PROVE  redibujar' \/ anima' \/ pendiente[o]
      BY <2>2, <3>1 DEF CuadrosInv, Marcada
    <3>. QED BY <2>2, <3>1 DEF Marcada
  <2>. QED BY <2>1, <2>2
<1>4. Entera' /\ EnMarcha' /\ F!NadaSinEnsenar'
  BY <1>1 DEF CuadrosInv, Entera, EnMarcha, F!NadaSinEnsenar, F!Ningunas, TiposCuadros
<1>. QED BY <1>2, <1>3, <1>4 DEF CuadrosInv

\* So does any event.
LEMMA EventoConserva ==
  ASSUME CuadrosInv, F!Evento PROVE CuadrosInv'
<1>1. PICK Dichas \in SUBSET Salidas : sucia' = F!Y(sucia, Dichas) /\ anima' \in {anima, anima \/ Dichas # {}}
  BY DEF F!Evento
<1>2. /\ despierto' = TRUE /\ redibujar' = TRUE
      /\ UNCHANGED <<activa, dpms, enVuelo, pendiente, apagada, fallida>>
  BY DEF F!Evento
<1>3. TiposCuadros
  BY DEF CuadrosInv
<1>4. /\ sucia' \in [Salidas -> BOOLEAN]
      /\ \A o \in Salidas : sucia'[o] <=> sucia[o] \/ o \in Dichas
  BY <1>1, <1>3, MascarasAplicadas DEF TiposCuadros
<1>5. anima' \in BOOLEAN /\ (anima => anima') /\ (anima' => anima \/ \E x \in Salidas : sucia'[x])
  BY <1>1, <1>3, <1>4 DEF TiposCuadros
<1>. QED BY <1>2, <1>4, <1>5, AvisoConserva

\* So does the Print key.
LEMMA CapturarConserva ==
  ASSUME CuadrosInv, Principal \in Salidas, F!Capturar PROVE CuadrosInv'
<1>1. /\ despierto' = TRUE /\ redibujar' = TRUE /\ sucia' = F!Y(sucia, {Principal})
      /\ UNCHANGED <<activa, dpms, enVuelo, pendiente, apagada, fallida, anima>>
  BY DEF F!Capturar
<1>2. TiposCuadros
  BY DEF CuadrosInv
<1>3. sucia' \in [Salidas -> BOOLEAN] /\ \A o \in Salidas : sucia[o] => sucia'[o]
  BY <1>1, <1>2, MascarasAplicadas DEF TiposCuadros
<1>4. anima' \in BOOLEAN
  BY <1>1, <1>2 DEF TiposCuadros
<1>. QED BY <1>1, <1>3, <1>4, AvisoConserva

(* The clients of the copies and of the portal.                            *)
LEMMA PedidaConserva ==
  ASSUME CuadrosInv, UNCHANGED F!marco, despierto' = TRUE, redibujar' \in {redibujar, TRUE}
  PROVE  CuadrosInv'
<1>1. UNCHANGED <<activa, dpms, enVuelo, pendiente, sucia, apagada, fallida, anima>>
  BY DEF F!marco
<1>2. anima' \in BOOLEAN /\ sucia' \in [Salidas -> BOOLEAN]
  BY <1>1 DEF CuadrosInv, TiposCuadros
<1>. QED BY <1>1, <1>2, AvisoConserva

\* So does lighting the screens.
LEMMA EncenderConserva ==
  ASSUME CuadrosInv, Principal \in Salidas, F!EncenderDpms PROVE CuadrosInv'
<1>1. /\ dpms' = TRUE /\ despierto' = TRUE /\ redibujar' = TRUE
      /\ enVuelo' = F!Ningunas /\ pendiente' = F!Todas /\ sucia' = F!Todas
      /\ UNCHANGED <<activa, apagada, fallida, anima>>
  BY DEF F!EncenderDpms, F!Encendidas
<1>2. TiposCuadros'
  BY <1>1, MascarasConstantes DEF CuadrosInv, TiposCuadros
<1>3. Marcada' /\ EnMarcha' /\ F!NadaSinEnsenar'
  BY <1>1, MascarasConstantes DEF Marcada, EnMarcha, F!NadaSinEnsenar
<1>4. Entera'
  BY <1>1, MascarasConstantes DEF Entera
<1>. QED BY <1>2, <1>3, <1>4 DEF CuadrosInv

\* So does turning them off.
LEMMA ApagarConserva ==
  ASSUME CuadrosInv, F!ApagarDpms PROVE CuadrosInv'
<1>1. PICK hechas \in SUBSET Salidas :
        /\ dpms' = (hechas # Salidas)
        /\ apagada' = F!Y(apagada, hechas)
        /\ enVuelo' = F!Menos(enVuelo, hechas) /\ pendiente' = F!Menos(pendiente, hechas)
        /\ fallida' = IF hechas = Salidas THEN fallida ELSE F!Y(fallida, hechas)
  BY DEF F!ApagarDpms
<1>2. dpms /\ despierto' = TRUE /\ UNCHANGED <<activa, redibujar, sucia, anima>>
  BY DEF F!ApagarDpms
<1>3. TiposCuadros
  BY DEF CuadrosInv
<1>4. /\ apagada' \in [Salidas -> BOOLEAN]
      /\ \A o \in Salidas : apagada'[o] <=> apagada[o] \/ o \in hechas
  BY <1>1, <1>3, MascarasAplicadas DEF TiposCuadros
<1>5. /\ enVuelo' \in [Salidas -> BOOLEAN] /\ pendiente' \in [Salidas -> BOOLEAN]
      /\ \A o \in Salidas : enVuelo'[o] <=> enVuelo[o] /\ o \notin hechas
      /\ \A o \in Salidas : pendiente'[o] <=> pendiente[o] /\ o \notin hechas
  BY <1>1, <1>3, MascarasAplicadas DEF TiposCuadros
<1>6. F!Y(fallida, hechas) \in [Salidas -> BOOLEAN]
      /\ \A o \in Salidas : F!Y(fallida, hechas)[o] <=> fallida[o] \/ o \in hechas
  BY <1>3, MascarasAplicadas DEF TiposCuadros
<1>7. TiposCuadros'
  BY <1>1, <1>2, <1>3, <1>4, <1>5, <1>6 DEF TiposCuadros
<1>8. CASE hechas = Salidas
  BY <1>1, <1>2, <1>7, <1>8, <1>3 DEF CuadrosInv, Marcada, Entera, EnMarcha, F!NadaSinEnsenar
<1>9. CASE hechas # Salidas
  <2>1. \A o \in Salidas : fallida'[o] <=> fallida[o] \/ o \in hechas
    BY <1>1, <1>6, <1>9
  <2>2. Marcada'
    <3>1. SUFFICES ASSUME activa, dpms, NEW o \in Salidas, sucia[o] \/ apagada'[o], ~fallida'[o]
                   PROVE  redibujar \/ anima \/ pendiente'[o]
      BY <1>2 DEF Marcada
    <3>2. o \notin hechas /\ ~fallida[o] /\ (sucia[o] \/ apagada[o])
      BY <3>1, <2>1, <1>4
    <3>3. redibujar \/ anima \/ pendiente[o]
      BY <3>1, <3>2 DEF CuadrosInv, Marcada
    <3>. QED BY <3>2, <3>3, <1>5
  <2>3. Entera'
    <3>1. ASSUME NEW o \in Salidas, apagada'[o], ~fallida'[o]
          PROVE  sucia[o]
      BY <3>1, <2>1, <1>2, <1>4 DEF CuadrosInv, Entera
    <3>. QED BY <1>2, <3>1 DEF Entera
  <2>4. EnMarcha'
    <3>1. SUFFICES ASSUME anima, activa, dpms, fallida' = F!Ningunas
                   PROVE  \E x \in Salidas : enVuelo'[x] \/ sucia[x]
      BY <1>2 DEF EnMarcha, F!Ningunas
    <3>2. \A o \in Salidas : ~fallida[o] /\ o \notin hechas
      BY <3>1, <2>1, <1>7, MascarasConstantes DEF TiposCuadros
    <3>3. fallida = F!Ningunas
      BY <3>2, <1>3, MascarasConstantes DEF TiposCuadros
    <3>4. \E x \in Salidas : enVuelo[x] \/ sucia[x]
      BY <3>1, <3>3 DEF CuadrosInv, EnMarcha
    <3>. QED BY <3>2, <3>4, <1>5
  <2>. QED BY <1>2, <1>7, <2>2, <2>3, <2>4 DEF CuadrosInv, F!NadaSinEnsenar
<1>. QED BY <1>8, <1>9

\* So does going to another terminal.
LEMMA PauseConserva ==
  ASSUME CuadrosInv, F!PauseSession PROVE CuadrosInv'
<1>1. /\ activa' = FALSE /\ despierto' = TRUE /\ enVuelo' = F!Ningunas
      /\ UNCHANGED <<dpms, redibujar, pendiente, sucia, apagada, fallida, anima>>
  BY DEF F!PauseSession
<1>2. TiposCuadros'
  BY <1>1, MascarasConstantes DEF CuadrosInv, TiposCuadros
<1>3. Marcada' /\ EnMarcha' /\ F!NadaSinEnsenar'
  BY <1>1 DEF Marcada, EnMarcha, F!NadaSinEnsenar
<1>4. Entera'
  BY <1>1 DEF CuadrosInv, Entera
<1>. QED BY <1>2, <1>3, <1>4 DEF CuadrosInv

\* So does coming back.
LEMMA ActivateConserva ==
  ASSUME CuadrosInv, Principal \in Salidas, F!ActivateSession PROVE CuadrosInv'
<1>. DEFINE e == [marca |-> TRUE, anima |-> TRUE, pendiente |-> pendiente,
                  sucia |-> F!Encendidas(sucia), enVuelo |-> enVuelo]
<1>1. /\ activa' = TRUE /\ dpms' = TRUE /\ despierto' = TRUE /\ redibujar' = FALSE
      /\ F!DibujarTodas(e)
  BY DEF F!ActivateSession
<1>2. e.marca = TRUE /\ e.anima = TRUE /\ e.pendiente = pendiente /\ e.sucia = F!Todas /\ e.enVuelo = enVuelo
  BY DEF F!Encendidas
<1>. HIDE DEF e
<1>3. TiposCuadros
  BY DEF CuadrosInv
<1>4. /\ e.marca \in BOOLEAN /\ e.anima \in BOOLEAN /\ e.pendiente \in [Salidas -> BOOLEAN]
      /\ e.sucia \in [Salidas -> BOOLEAN] /\ e.enVuelo \in [Salidas -> BOOLEAN]
      /\ \A o \in Salidas : e.sucia[o]
  BY <1>2, <1>3, MascarasConstantes DEF TiposCuadros
<1>5. /\ anima' \in BOOLEAN
      /\ {enVuelo', pendiente', sucia', apagada', fallida'} \subseteq [Salidas -> BOOLEAN]
  BY <1>1, <1>3, <1>4, Pinceladas
<1>6. /\ \A o \in Salidas : (e.sucia[o] \/ apagada[o]) /\ ~fallida[o] => e.marca \/ e.pendiente[o]
      /\ \A o \in Salidas : apagada[o] /\ ~fallida[o] => e.sucia[o]
      /\ e.anima => e.marca /\ (fallida = F!Ningunas => \E x \in Salidas : e.enVuelo[x] \/ e.sucia[x])
  BY <1>2, <1>4
<1>7. /\ \A o \in Salidas : apagada'[o] /\ ~fallida'[o] => sucia'[o]
      /\ \A o \in Salidas : (sucia'[o] \/ apagada'[o]) /\ ~fallida'[o] =>
           anima' \/ (pendiente'[o] /\ enVuelo'[o])
      /\ anima' /\ fallida' = F!Ningunas => \E x \in Salidas : enVuelo'[x]
  BY <1>1, <1>3, <1>4, <1>6, Dibujado
<1>8. TiposCuadros'
  BY <1>1, <1>5 DEF TiposCuadros
<1>9. Marcada' /\ Entera' /\ EnMarcha' /\ F!NadaSinEnsenar'
  BY <1>1, <1>7 DEF Marcada, Entera, EnMarcha, F!NadaSinEnsenar, F!Ningunas
<1>. QED BY <1>8, <1>9 DEF CuadrosInv

\* It holds at the start.
LEMMA CuadrosInicial ==
  ASSUME F!Init PROVE CuadrosInv
BY MascarasConstantes DEF F!Init, CuadrosInv, TiposCuadros, Marcada, Entera, EnMarcha, F!NadaSinEnsenar

(* With a primary and something that moves changing what is seen, the      *)
(* invariant survives every step.                                          *)
LEMMA CuadrosPaso ==
  ASSUME CuadrosInv, Principal \in Salidas, Vacias = FALSE, [F!Next]_(F!vars)
  PROVE  CuadrosInv'
<1>1. CASE F!Vuelta       BY <1>1, VueltaConserva
<1>2. CASE F!Pasa         BY <1>2, PasaConserva
<1>3. CASE F!Evento       BY <1>3, EventoConserva
<1>4. CASE F!EncenderDpms BY <1>4, EncenderConserva
<1>5. CASE F!ApagarDpms   BY <1>5, ApagarConserva
<1>6. CASE F!PauseSession BY <1>6, PauseConserva
<1>7. CASE F!ActivateSession BY <1>7, ActivateConserva
<1>8. CASE F!Capturar     BY <1>8, CapturarConserva
<1>9. ASSUME NEW o \in Salidas, F!Vblank(o) PROVE CuadrosInv'
  BY <1>9, VblankConserva
<1>10. ASSUME NEW f \in Fotos, F!Copy(f) \/ F!Destroyed(f) \/ \E o \in Salidas : F!CaptureOutput(f, o)
       PROVE  CuadrosInv'
  <2>1. UNCHANGED F!marco /\ despierto' = TRUE /\ redibujar' \in {redibujar, TRUE}
    BY <1>10 DEF F!Copy, F!Destroyed, F!CaptureOutput
  <2>. QED BY <2>1, PedidaConserva
<1>11. ASSUME NEW p \in Portales, F!Screenshot(p) PROVE CuadrosInv'
  <2>1. UNCHANGED F!marco /\ despierto' = TRUE /\ redibujar' \in {redibujar, TRUE}
    BY <1>11 DEF F!Screenshot
  <2>. QED BY <2>1, PedidaConserva
<1>12. CASE UNCHANGED F!vars
  BY <1>12 DEF F!vars, F!cuadro, CuadrosInv, TiposCuadros, Marcada, Entera, EnMarcha, F!NadaSinEnsenar, F!Ningunas
<1>. QED BY <1>1, <1>2, <1>3, <1>4, <1>5, <1>6, <1>7, <1>8, <1>9, <1>10, <1>11, <1>12 DEF F!Next

-----------------------------------------------------------------------------
(* The keys: why nothing gets through the lock.                                      *)

EsMesa(m) ==
  m \in [xkb : {m.xkb}, reenviadas : {m.reenviadas}, bloqueada : BOOLEAN, capa : BOOLEAN,
         modo : {m.modo}, pegado : BOOLEAN, sola : BOOLEAN, tarjeta : {m.tarjeta}]

(* Under the lock nothing is open.                                         *)
Tapada(m) == EsMesa(m) /\ (m.bloqueada => m.modo = "no" /\ m.capa = FALSE /\ m.tarjeta = "no")

(* From m to n, and locked in n, no client was told of another key.        *)
Ciego(m, n) == n.bloqueada => n.reenviadas \subseteq m.reenviadas

(* A function, of a shortcut or of a remapped key.                         *)
LEMMA EjecutarTapada ==
  ASSUME NEW m, Tapada(m), ~m.bloqueada, NEW accion
  PROVE  Tapada(K!Ejecutar(m, accion)) /\ K!Ejecutar(m, accion).reenviadas = m.reenviadas
<1>1. CASE accion = "captura"
  BY <1>1 DEF K!Ejecutar, Tapada, EsMesa
<1>2. CASE accion = "bloquear"
  BY <1>2 DEF K!Ejecutar, Tapada, EsMesa, K!Bloqueado, K!Cerrada, K!SinConmutador
<1>3. CASE accion \in {"launchpad", "buscador", "apagar"}
  BY <1>3 DEF K!Ejecutar, Tapada, EsMesa, K!Alternada
<1>4. CASE accion \in {"aplicaciones", "ventanas"}
  BY <1>4 DEF K!Ejecutar, Tapada, EsMesa, K!Conmutado
<1>5. CASE accion \notin {"captura", "bloquear", "launchpad", "buscador", "apagar", "aplicaciones", "ventanas"}
  BY <1>5 DEF K!Ejecutar
<1>. QED BY <1>1, <1>2, <1>3, <1>4, <1>5

(* The function of a remapped key, which asks about the lock itself.       *)
LEMMA RemapeadaTapada ==
  ASSUME NEW m, Tapada(m), NEW accion
  PROVE  Tapada(K!Remapeada(m, accion)) /\ K!Remapeada(m, accion).reenviadas = m.reenviadas
<1>1. CASE m.bloqueada
  BY <1>1 DEF K!Remapeada
<1>2. CASE ~m.bloqueada
  <2>. DEFINE n == [m EXCEPT !.sola = FALSE]
  <2>1. EsMesa(n) /\ n.bloqueada = m.bloqueada /\ n.reenviadas = m.reenviadas
    <3>1. EsMesa(m)
      BY DEF Tapada
    <3>. QED BY <3>1 DEF EsMesa
  <2>3. Tapada(n) /\ ~n.bloqueada /\ n.reenviadas = m.reenviadas
    BY <1>2, <2>1 DEF Tapada
  <2>2. K!Remapeada(m, accion) = K!Ejecutar(n, accion)
    BY <1>2 DEF K!Remapeada
  <2>. HIDE DEF n
  <2>. QED BY <2>3, <2>2, EjecutarTapada
<1>. QED BY <1>1, <1>2

(* A press that xkb has already, whatever is open.                         *)
LEMMA PulsadaTapada ==
  ASSUME NEW m, Tapada(m), NEW k
  PROVE  Tapada(K!FiltrarPulsada(m, k)) /\ Ciego(m, K!FiltrarPulsada(m, k))
<1>. DEFINE solo == k = "meta" /\ {"alt", "shift"} \cap m.xkb = {}
            n == IF m.capa THEN m ELSE [m EXCEPT !.sola = solo]
            accion == K!Resolver(m.xkb, k)
            sale == K!FiltrarPulsada(m, k)
<1>1. /\ Tapada(n) /\ n.reenviadas = m.reenviadas /\ n.bloqueada = m.bloqueada /\ n.capa = m.capa
      /\ n.tarjeta = m.tarjeta /\ n.modo = m.modo
  BY DEF Tapada, EsMesa
<1>2. sale = CASE m.capa -> [n EXCEPT !.capa = k # "esc"]
               [] ~m.capa /\ m.modo # "no" /\ k = "esc" -> K!SinConmutador(n)
               [] OTHER ->
                  IF accion # "ninguna"
                  THEN IF m.bloqueada \/ (m.tarjeta = "buscador" /\ accion # "buscador")
                       THEN n ELSE K!Ejecutar(n, accion)
                  ELSE IF m.modo # "no" \/ m.bloqueada THEN n
                  ELSE IF K!Entiende(m, k) THEN [n EXCEPT !.tarjeta = IF k = "esc" THEN "no" ELSE @]
                  ELSE IF m.tarjeta = "buscador" /\ k \notin K!Modificadores \cup {"f23"} THEN n
                  ELSE K!Reenviada(n, k)
  BY DEF K!FiltrarPulsada
<1>. HIDE DEF solo, n, accion, sale
<1>3. CASE m.capa
  <2>1. sale = [n EXCEPT !.capa = k # "esc"] /\ ~m.bloqueada
    BY <1>2, <1>3 DEF Tapada
  <2>2. (k # "esc") \in BOOLEAN
    OBVIOUS
  <2>. QED BY <1>1, <2>1, <2>2 DEF Tapada, EsMesa, Ciego, sale
<1>4. CASE ~m.capa /\ m.modo # "no" /\ k = "esc"
  <2>1. sale = K!SinConmutador(n)
    BY <1>2, <1>4
  <2>. QED BY <1>1, <2>1 DEF Tapada, EsMesa, Ciego, K!SinConmutador, sale
<1>5. CASE ~m.capa /\ ~(m.modo # "no" /\ k = "esc")
  <2>1. sale = IF accion # "ninguna"
               THEN IF m.bloqueada \/ (m.tarjeta = "buscador" /\ accion # "buscador")
                    THEN n ELSE K!Ejecutar(n, accion)
               ELSE IF m.modo # "no" \/ m.bloqueada THEN n
               ELSE IF K!Entiende(m, k) THEN [n EXCEPT !.tarjeta = IF k = "esc" THEN "no" ELSE @]
               ELSE IF m.tarjeta = "buscador" /\ k \notin K!Modificadores \cup {"f23"} THEN n
               ELSE K!Reenviada(n, k)
    BY <1>2, <1>5
  <2>2. CASE sale = n
    BY <1>1, <2>2 DEF Ciego, sale
  <2>3. CASE sale = K!Ejecutar(n, accion) /\ ~m.bloqueada
    BY <1>1, <2>3, EjecutarTapada DEF Ciego, sale
  <2>4. CASE sale = [n EXCEPT !.tarjeta = IF k = "esc" THEN "no" ELSE @] /\ ~m.bloqueada
    BY <1>1, <2>4 DEF Tapada, EsMesa, Ciego, sale
  <2>5. CASE sale = K!Reenviada(n, k) /\ ~m.bloqueada
    BY <1>1, <2>5 DEF Tapada, EsMesa, Ciego, K!Reenviada, sale
  <2>. QED BY <2>1, <2>2, <2>3, <2>4, <2>5
<1>. QED BY <1>3, <1>4, <1>5

(* And a release.                                                          *)
LEMMA SueltaTapada ==
  ASSUME NEW m, Tapada(m), NEW k
  PROVE  Tapada(K!FiltrarSuelta(m, k)) /\ K!FiltrarSuelta(m, k).reenviadas \subseteq m.reenviadas
<1>1. CASE m.capa \/ m.bloqueada
  BY <1>1 DEF K!FiltrarSuelta
<1>2. CASE ~m.capa /\ ~m.bloqueada
  <2>. DEFINE n == [m EXCEPT !.reenviadas = @ \ {k}, !.sola = @ /\ k # "meta"]
              fin == IF K!Resuelve(m) THEN K!SinConmutador(n) ELSE n
  <2>1. Tapada(n) /\ ~n.bloqueada /\ n.reenviadas \subseteq m.reenviadas
    <3>1. (m.sola /\ k # "meta") \in BOOLEAN
      OBVIOUS
    <3>2. EsMesa(m)
      BY DEF Tapada
    <3>3. EsMesa(n) /\ n.bloqueada = m.bloqueada /\ n.reenviadas = m.reenviadas \ {k}
      BY <3>1, <3>2 DEF EsMesa
    <3>. QED BY <1>2, <3>3 DEF Tapada
  <2>2. K!FiltrarSuelta(m, k) = IF k = "meta" /\ m.sola THEN K!Alternada(fin, "launchpad") ELSE fin
    BY <1>2 DEF K!FiltrarSuelta
  <2>. HIDE DEF n
  <2>3. Tapada(fin) /\ ~fin.bloqueada /\ fin.reenviadas \subseteq m.reenviadas
    BY <2>1 DEF Tapada, EsMesa, K!SinConmutador
  <2>. HIDE DEF fin
  <2>. QED BY <2>2, <2>3 DEF Tapada, EsMesa, K!Alternada
<1>. QED BY <1>1, <1>2

(* One event of the translator.                                            *)
LEMMA UnoTapado ==
  ASSUME NEW m, Tapada(m), NEW ev
  PROVE  /\ Tapada(K!Uno(m, ev)) /\ Ciego(m, K!Uno(m, ev))
         /\ ev.que = "tecla" /\ ~ev.pulsada => K!Uno(m, ev).reenviadas \subseteq m.reenviadas
<1>. DEFINE mas == [m EXCEPT !.xkb = @ \cup {ev.k}]
            menos == [m EXCEPT !.xkb = @ \ {ev.k}]
<1>1. Tapada(mas) /\ Tapada(menos) /\ mas.reenviadas = m.reenviadas /\ menos.reenviadas = m.reenviadas
  BY DEF Tapada, EsMesa
<1>2. K!Uno(m, ev) = IF ev.que = "accion" THEN K!Remapeada(m, ev.k)
                   ELSE IF ev.pulsada THEN K!FiltrarPulsada(mas, ev.k) ELSE K!FiltrarSuelta(menos, ev.k)
  BY DEF K!Uno, K!Tecla
<1>. HIDE DEF mas, menos
<1>3. CASE ev.que = "accion"
  BY <1>2, <1>3, RemapeadaTapada DEF Ciego
<1>4. CASE ev.que # "accion" /\ ev.pulsada
  BY <1>1, <1>2, <1>4, PulsadaTapada DEF Ciego
<1>5. CASE ev.que # "accion" /\ ~ev.pulsada
  BY <1>1, <1>2, <1>5, SueltaTapada DEF Ciego
<1>. QED BY <1>3, <1>4, <1>5

(* A burst of at most three, unfolded: the chord and what it becomes.      *)
LEMMA TodosEs ==
  ASSUME NEW m, NEW evs
  PROVE  /\ Len(evs) = 0 => K!Todos(m, evs) = m
         /\ Len(evs) = 1 => K!Todos(m, evs) = K!Uno(m, evs[1])
         /\ Len(evs) = 2 => K!Todos(m, evs) = K!Uno(K!Uno(m, evs[1]), evs[2])
         /\ Len(evs) = 3 => K!Todos(m, evs) = K!Uno(K!Uno(K!Uno(m, evs[1]), evs[2]), evs[3])
<1>. DEFINE n == Len(evs)
            Iterada(g) == [i \in 0..n |-> IF i = 0 THEN m ELSE K!Uno(g[i - 1], evs[i])]
            f == CHOOSE g : g = Iterada(g)
            u == [i \in 0..n |-> CASE i = 0 -> m
                                   [] i = 1 -> K!Uno(m, evs[1])
                                   [] i = 2 -> K!Uno(K!Uno(m, evs[1]), evs[2])
                                   [] OTHER -> K!Uno(K!Uno(K!Uno(m, evs[1]), evs[2]), evs[3])]
<1>1. n \in 0..3 => u = Iterada(u)
  <2>1. SUFFICES ASSUME n \in 0..3, NEW i \in 0..n PROVE u[i] = Iterada(u)[i]
    OBVIOUS
  <2>. QED BY <2>1
<1>2. n \in 0..3 => f = Iterada(f)
  <2>1. (\E g : g = Iterada(g)) => f = Iterada(f)
    OBVIOUS
  <2>. QED BY <1>1, <2>1
<1>3. K!Todos(m, evs) = f[n]
  BY DEF K!Todos
<1>. HIDE DEF f
<1>4. n \in 0..3 => /\ f[0] = m
                    /\ \A i \in 1..n : f[i] = K!Uno(f[i - 1], evs[i])
  BY <1>2
<1>. QED BY <1>3, <1>4

(* A burst in which only the last event may press something.               *)
LEMMA RafagaTapada ==
  ASSUME NEW m, Tapada(m), NEW evs, Len(evs) \in 0..3,
         \A i \in 1..(Len(evs) - 1) : evs[i].que = "tecla" /\ ~evs[i].pulsada
  PROVE  Tapada(K!Todos(m, evs)) /\ Ciego(m, K!Todos(m, evs))
<1>. DEFINE uno == K!Uno(m, evs[1])
            dos == K!Uno(uno, evs[2])
            tres == K!Uno(dos, evs[3])
<1>1. CASE Len(evs) = 0
  BY <1>1, TodosEs DEF Ciego
<1>2. CASE Len(evs) = 1
  BY <1>2, TodosEs, UnoTapado
<1>3. CASE Len(evs) = 2
  <2>1. evs[1].que = "tecla" /\ ~evs[1].pulsada
    BY <1>3
  <2>2. Tapada(uno) /\ uno.reenviadas \subseteq m.reenviadas
    BY <2>1, UnoTapado
  <2>. HIDE DEF uno
  <2>3. Tapada(dos) /\ Ciego(uno, dos)
    BY <2>2, UnoTapado
  <2>4. K!Todos(m, evs) = dos
    BY <1>3, TodosEs DEF uno
  <2>. QED BY <2>2, <2>3, <2>4 DEF Ciego
<1>4. CASE Len(evs) = 3
  <2>1. /\ evs[1].que = "tecla" /\ ~evs[1].pulsada
        /\ evs[2].que = "tecla" /\ ~evs[2].pulsada
    BY <1>4
  <2>2. Tapada(uno) /\ uno.reenviadas \subseteq m.reenviadas
    BY <2>1, UnoTapado
  <2>. HIDE DEF uno
  <2>3. Tapada(dos) /\ dos.reenviadas \subseteq uno.reenviadas
    BY <2>1, <2>2, UnoTapado
  <2>. HIDE DEF dos
  <2>4. Tapada(tres) /\ Ciego(dos, tres)
    BY <2>3, UnoTapado
  <2>5. K!Todos(m, evs) = tres
    BY <1>4, TodosEs DEF uno, dos
  <2>. QED BY <2>2, <2>3, <2>4, <2>5 DEF Ciego
<1>. QED BY <1>1, <1>2, <1>3, <1>4

(* The two of the chord and one more.                                      *)
LEMMA Pegadas ==
  ASSUME NEW a, NEW b, NEW x, NEW s, s = <<a, b>> \o <<x>>
  PROVE  Len(s) = 3 /\ s[1] = a /\ s[2] = b /\ s[3] = x
<1>1. <<a, b>> \in Seq({a, b, x}) /\ <<x>> \in Seq({a, b, x})
  OBVIOUS
<1>. QED BY <1>1

(* One and nothing before it.                                              *)
LEMMA SolaQuita ==
  ASSUME NEW x, NEW s, s = <<>> \o <<x>> PROVE Len(s) = 1
OBVIOUS

(* A press becomes one event, none, or the chord let go of and one more.   *)
LEMMA PulsadaRafaga ==
  ASSUME K!MapasEscritos, teclas \in Mapas, NEW t, NEW k, NEW evs, evs = K!TraducirPulsada(t, k).ev
  PROVE  Len(evs) \in 0..3 /\ \A i \in 1..(Len(evs) - 1) : evs[i].que = "tecla" /\ ~evs[i].pulsada
<1>. DEFINE copilot == K!EsCopilot(t.fisicas \cup {k}, k)
            suyo == {r \in teclas : r.de = IF copilot THEN "copilot" ELSE k}
            r == CHOOSE r \in suyo : TRUE
            antes == IF copilot THEN <<K!Evento("meta", FALSE), K!Evento("shift", FALSE)>> ELSE <<>>
            luego == CASE r.que = "tecla" -> <<K!Evento(r.a, TRUE)>>
                       [] r.que = "accion" -> <<K!Funcion(r.a)>>
                       [] r.que = "nada" -> <<>>
<1>1. CASE suyo = {}
  <2>1. evs = <<K!Evento(k, TRUE)>>
    BY <1>1 DEF K!TraducirPulsada
  <2>. QED BY <2>1
<1>2. CASE suyo # {}
  <2>1. evs = antes \o luego
    BY <1>2 DEF K!TraducirPulsada
  <2>2. r.que \in {"tecla", "accion", "nada"}
    BY <1>2 DEF K!MapasEscritos
  <2>. HIDE DEF r, copilot, suyo
  <2>3. \/ luego = <<>> \/ \E x : luego = <<x>>
    BY <2>2
  <2>4. CASE copilot
    <3>1. antes = <<K!Evento("meta", FALSE), K!Evento("shift", FALSE)>>
      BY <2>4
    <3>. HIDE DEF luego, antes
    <3>2. CASE luego = <<>>
      <4>1. evs = <<K!Evento("meta", FALSE), K!Evento("shift", FALSE)>>
        BY <2>1, <3>1, <3>2
      <4>. QED BY <4>1 DEF K!Evento
    <3>3. ASSUME NEW x, luego = <<x>>
          PROVE  Len(evs) \in 0..3 /\ \A i \in 1..(Len(evs) - 1) : evs[i].que = "tecla" /\ ~evs[i].pulsada
      <4>1. Len(evs) = 3 /\ evs[1] = K!Evento("meta", FALSE) /\ evs[2] = K!Evento("shift", FALSE)
        BY <2>1, <3>1, <3>3, Pegadas
      <4>. QED BY <4>1 DEF K!Evento
    <3>. QED BY <2>3, <3>2, <3>3
  <2>5. CASE ~copilot
    <3>1. antes = <<>>
      BY <2>5
    <3>. HIDE DEF luego, antes
    <3>2. CASE luego = <<>>
      <4>1. evs = <<>>
        BY <2>1, <3>1, <3>2
      <4>. QED BY <4>1
    <3>3. ASSUME NEW x, luego = <<x>>
          PROVE  Len(evs) \in 0..3 /\ \A i \in 1..(Len(evs) - 1) : evs[i].que = "tecla" /\ ~evs[i].pulsada
      <4>1. Len(evs) = 1
        BY <2>1, <3>1, <3>3, SolaQuita
      <4>. QED BY <4>1
    <3>. QED BY <2>3, <3>2, <3>3
  <2>. QED BY <2>4, <2>5
<1>. QED BY <1>1, <1>2

(* A release becomes one event or none.                                    *)
LEMMA SueltaRafaga ==
  ASSUME NEW t, NEW k, NEW evs, evs = K!Suelta(t, k).ev
  PROVE  Len(evs) \in 0..1
<1>1. evs = <<>> \/ \E x : evs = <<K!Evento(x, FALSE)>>
  BY DEF K!Suelta, K!TraducirSuelta
<1>2. ASSUME NEW x, evs = <<K!Evento(x, FALSE)>> PROVE Len(evs) \in 0..1
  BY <1>2
<1>3. CASE evs = <<>>
  BY <1>3
<1>. QED BY <1>1, <1>2, <1>3

(* A burst of one or none.                                                 *)
LEMMA CortaTapada ==
  ASSUME NEW m, Tapada(m), NEW evs, Len(evs) \in 0..1
  PROVE  Tapada(K!Todos(m, evs)) /\ Ciego(m, K!Todos(m, evs))
<1>1. Len(evs) \in 0..3 /\ \A i \in 1..(Len(evs) - 1) : FALSE
  OBVIOUS
<1>. QED BY <1>1, RafagaTapada

TapadaSiempre == teclas \in Mapas /\ Tapada(mesa)

(* Every step keeps it, and is blind.                                      *)
LEMMA TapadaPaso ==
  ASSUME K!MapasEscritos, TapadaSiempre, [K!Next]_(K!vars)
  PROVE  TapadaSiempre' /\ K!PasoCiego
<1>. USE DEF TapadaSiempre
<1>1. SUFFICES teclas' \in Mapas /\ Tapada(mesa') /\ Ciego(mesa, mesa')
  BY DEF K!PasoCiego, Tapada, Ciego
<1>2. ASSUME NEW k \in Teclas, K!Pulsar(k)
      PROVE  teclas' \in Mapas /\ Tapada(mesa') /\ Ciego(mesa, mesa')
  <2>1. teclas' = teclas /\ (K!Capturar(k) \/ mesa' = K!Todos(mesa, K!TraducirPulsada(traductor, k).ev))
    BY <1>2 DEF K!Pulsar
  <2>2. CASE K!Capturar(k)
    BY <2>1, <2>2 DEF K!Capturar, Ciego
  <2>3. CASE mesa' = K!Todos(mesa, K!TraducirPulsada(traductor, k).ev)
    BY <2>1, <2>3, PulsadaRafaga, RafagaTapada
  <2>. QED BY <2>1, <2>2, <2>3
<1>3. ASSUME NEW k \in Teclas, K!Soltar(k)
      PROVE  teclas' \in Mapas /\ Tapada(mesa') /\ Ciego(mesa, mesa')
  <2>. DEFINE evs == K!Suelta(traductor, k).ev
  <2>1. teclas' = teclas /\ mesa' = K!Todos(mesa, evs)
    BY <1>3 DEF K!Soltar
  <2>2. Len(evs) \in 0..1
    BY SueltaRafaga
  <2>. HIDE DEF evs
  <2>. QED BY <2>1, <2>2, CortaTapada
<1>4. CASE (\E b \in BOOLEAN : K!CapturarTecla(b)) \/ (\E mapax \in Mapas : K!Recargar(mapax)) \/ UNCHANGED K!vars
  BY <1>4 DEF K!CapturarTecla, K!Recargar, K!vars, Ciego
<1>5. CASE K!Bloquear \/ K!Desbloquear
  BY <1>5 DEF K!Bloquear, K!Desbloquear, K!De, K!Bloqueado, K!Cerrada, K!SinConmutador, Tapada, EsMesa, Ciego
<1>6. CASE K!Exponer \/ K!VentanaCerrada
  BY <1>6 DEF K!Exponer, K!VentanaCerrada, K!De, K!SinConmutador, Tapada, EsMesa, Ciego
<1>7. CASE K!Clic
  BY <1>7 DEF K!Clic, K!De, K!SinConmutador, Tapada, EsMesa, Ciego
<1>. QED BY <1>2, <1>3, <1>4, <1>5, <1>6, <1>7 DEF K!Next

(* And so it begins.                                                       *)
LEMMA TapadaInicial == K!Init => TapadaSiempre
BY DEF K!Init, TapadaSiempre, Tapada, EsMesa

-----------------------------------------------------------------------------
(* Why no key is left stuck.                                               *)

(* What a burst does to xkb, and nothing else does.                        *)
Pesa(xkb, ev) ==
  IF ev.que = "accion" THEN xkb ELSE IF ev.pulsada THEN xkb \cup {ev.k} ELSE xkb \ {ev.k}

(* One event: what the filter opens or closes does not touch xkb.          *)
LEMMA UnoPesa ==
  ASSUME NEW m, Tapada(m), NEW ev
  PROVE  K!Uno(m, ev).xkb = Pesa(m.xkb, ev)
<1>. DEFINE mas == [m EXCEPT !.xkb = @ \cup {ev.k}]
            menos == [m EXCEPT !.xkb = @ \ {ev.k}]
<1>1. /\ Tapada(mas) /\ Tapada(menos)
      /\ mas.xkb = m.xkb \cup {ev.k} /\ menos.xkb = m.xkb \ {ev.k}
  BY DEF Tapada, EsMesa
<1>2. K!Uno(m, ev) = IF ev.que = "accion" THEN K!Remapeada(m, ev.k)
                   ELSE IF ev.pulsada THEN K!FiltrarPulsada(mas, ev.k) ELSE K!FiltrarSuelta(menos, ev.k)
  BY DEF K!Uno, K!Tecla
<1>. HIDE DEF mas, menos
<1>3. ASSUME NEW n, EsMesa(n), NEW accion PROVE K!Ejecutar(n, accion).xkb = n.xkb
  BY <1>3 DEF K!Ejecutar, EsMesa, K!Bloqueado, K!Cerrada, K!SinConmutador, K!Alternada, K!Conmutado
<1>4. ASSUME NEW accion PROVE K!Remapeada(m, accion).xkb = m.xkb
  <2>. DEFINE n == [m EXCEPT !.sola = FALSE]
  <2>1. EsMesa(m)
    BY DEF Tapada
  <2>2. EsMesa(n) /\ n.xkb = m.xkb
    BY <2>1 DEF EsMesa
  <2>3. K!Remapeada(m, accion) = IF m.bloqueada THEN m ELSE K!Ejecutar(n, accion)
    BY DEF K!Remapeada
  <2>. HIDE DEF n
  <2>. QED BY <2>2, <2>3, <1>3
<1>5. ASSUME NEW n, Tapada(n), NEW k PROVE K!FiltrarPulsada(n, k).xkb = n.xkb
  <2>. DEFINE p == IF n.capa THEN n
                   ELSE [n EXCEPT !.sola = (k = "meta" /\ {"alt", "shift"} \cap n.xkb = {})]
              accion == K!Resolver(n.xkb, k)
              sale == K!FiltrarPulsada(n, k)
  <2>1. EsMesa(n)
    BY <1>5 DEF Tapada
  <2>2. EsMesa(p) /\ p.xkb = n.xkb
    BY <2>1 DEF EsMesa
  <2>3. \/ sale = [p EXCEPT !.capa = k # "esc"] \/ sale = K!SinConmutador(p) \/ sale = p
        \/ sale = K!Ejecutar(p, accion) \/ sale = [p EXCEPT !.tarjeta = IF k = "esc" THEN "no" ELSE @]
        \/ sale = K!Reenviada(p, k)
    BY DEF K!FiltrarPulsada
  <2>. HIDE DEF p, accion, sale
  <2>4. [p EXCEPT !.capa = k # "esc"].xkb = p.xkb
    BY <2>2 DEF EsMesa
  <2>5. [p EXCEPT !.tarjeta = IF k = "esc" THEN "no" ELSE @].xkb = p.xkb
    BY <2>2 DEF EsMesa
  <2>6. K!SinConmutador(p).xkb = p.xkb /\ K!Reenviada(p, k).xkb = p.xkb
    BY <2>2 DEF EsMesa, K!SinConmutador, K!Reenviada
  <2>7. K!Ejecutar(p, accion).xkb = p.xkb
    BY <2>2, <1>3
  <2>8. sale.xkb = p.xkb
    BY <2>3, <2>4, <2>5, <2>6, <2>7
  <2>. QED BY <2>2, <2>8 DEF sale
<1>6. ASSUME NEW n, Tapada(n), NEW k PROVE K!FiltrarSuelta(n, k).xkb = n.xkb
  <2>. DEFINE p == [n EXCEPT !.reenviadas = @ \ {k}, !.sola = @ /\ k # "meta"]
              q == IF K!Resuelve(n) THEN K!SinConmutador(p) ELSE p
  <2>1. EsMesa(n)
    BY <1>6 DEF Tapada
  <2>2. EsMesa(p) /\ p.xkb = n.xkb
    <3>1. (n.sola /\ k # "meta") \in BOOLEAN
      OBVIOUS
    <3>. QED BY <2>1, <3>1 DEF EsMesa
  <2>3. \/ K!FiltrarSuelta(n, k) = n \/ K!FiltrarSuelta(n, k) = q
        \/ K!FiltrarSuelta(n, k) = K!Alternada(q, "launchpad")
    BY DEF K!FiltrarSuelta
  <2>. HIDE DEF p
  <2>4. EsMesa(q) /\ q.xkb = n.xkb
    BY <2>2 DEF EsMesa, K!SinConmutador
  <2>. HIDE DEF q
  <2>. QED BY <2>3, <2>4 DEF EsMesa, K!Alternada
<1>. QED BY <1>1, <1>2, <1>4, <1>5, <1>6 DEF Pesa

(* A burst, event by event.                                                *)
LEMMA TodosPesan ==
  ASSUME NEW m, Tapada(m), NEW evs
  PROVE  /\ Len(evs) = 0 => K!Todos(m, evs).xkb = m.xkb
         /\ Len(evs) = 1 => K!Todos(m, evs).xkb = Pesa(m.xkb, evs[1])
         /\ Len(evs) = 2 => K!Todos(m, evs).xkb = Pesa(Pesa(m.xkb, evs[1]), evs[2])
         /\ Len(evs) = 3 => K!Todos(m, evs).xkb = Pesa(Pesa(Pesa(m.xkb, evs[1]), evs[2]), evs[3])
<1>. DEFINE uno == K!Uno(m, evs[1])
            dos == K!Uno(uno, evs[2])
            tres == K!Uno(dos, evs[3])
<1>1. Tapada(uno) /\ uno.xkb = Pesa(m.xkb, evs[1])
  BY UnoTapado, UnoPesa
<1>2. /\ Len(evs) = 0 => K!Todos(m, evs) = m
      /\ Len(evs) = 1 => K!Todos(m, evs) = uno
      /\ Len(evs) = 2 => K!Todos(m, evs) = dos
      /\ Len(evs) = 3 => K!Todos(m, evs) = tres
  BY TodosEs
<1>. HIDE DEF uno
<1>3. Tapada(dos) /\ dos.xkb = Pesa(uno.xkb, evs[2])
  BY <1>1, UnoTapado, UnoPesa
<1>. HIDE DEF dos
<1>4. tres.xkb = Pesa(dos.xkb, evs[3])
  BY <1>3, UnoPesa
<1>. HIDE DEF tres
<1>. QED BY <1>1, <1>2, <1>3, <1>4

Destinos == {"nada"} \cup {r.a : r \in UNION Mapas}

(* What the translator owes is of keys that are held, each once, and what  *)
(* xkb holds is one of those or what one of those was turned into.         *)
Debe(t, manos, xkb) ==
  /\ t \in [fisicas : SUBSET manos, pulsadas : Seq(manos \X Destinos), tragar : Seq(manos)]
  /\ \A i, j \in DOMAIN t.tragar : t.tragar[i] = t.tragar[j] => i = j
  /\ \A i, j \in DOMAIN t.pulsadas : t.pulsadas[i][1] = t.pulsadas[j][1] => i = j
  /\ \A i \in DOMAIN t.pulsadas :
       /\ K!ConCopilot => t.pulsadas[i][1] \notin {"meta", "shift"}
       /\ \A j \in DOMAIN t.tragar : t.pulsadas[i][1] # t.tragar[j]
  /\ \A x \in xkb :
       \/ /\ x \in manos
          /\ \A j \in DOMAIN t.tragar : t.tragar[j] # x
          /\ \A i \in DOMAIN t.pulsadas : t.pulsadas[i][1] # x
       \/ x # "nada" /\ \E i \in DOMAIN t.pulsadas : t.pulsadas[i][2] = x

(* Taking one out of a list: the last one takes its place.                 *)
LEMMA SwapFuera ==
  ASSUME NEW S, NEW s \in Seq(S), NEW i \in DOMAIN s
  PROVE  /\ K!SwapRemove(s, i) \in Seq(S)
         /\ DOMAIN K!SwapRemove(s, i) = 1..(Len(s) - 1)
         /\ \A j \in 1..(Len(s) - 1) : K!SwapRemove(s, i)[j] = s[IF j = i THEN Len(s) ELSE j]
<1>1. Len(s) \in Nat /\ DOMAIN s = 1..Len(s)
  OBVIOUS
<1>2. K!SwapRemove(s, i) \in [1..(Len(s) - 1) -> S]
  BY <1>1 DEF K!SwapRemove
<1>3. Len(s) - 1 \in Nat
  BY <1>1
<1>. QED BY <1>1, <1>2, <1>3 DEF K!SwapRemove

(* Pressed: as it is.                                                      *)
LEMMA DebePulsada ==
  ASSUME NEW t, NEW manos, NEW xkb, Debe(t, manos, xkb), NEW k, k \notin manos
  PROVE  Debe([t EXCEPT !.fisicas = @ \cup {k}], manos \cup {k}, xkb \cup {k})
<1>. DEFINE u == [t EXCEPT !.fisicas = @ \cup {k}]
<1>1. t.pulsadas \in Seq(manos \X Destinos) /\ t.tragar \in Seq(manos) /\ t.fisicas \subseteq manos
  BY DEF Debe
<1>2. t.pulsadas \in Seq((manos \cup {k}) \X Destinos) /\ t.tragar \in Seq(manos \cup {k})
  BY <1>1
<1>3. /\ u.pulsadas = t.pulsadas /\ u.tragar = t.tragar
      /\ u \in [fisicas : SUBSET (manos \cup {k}), pulsadas : Seq((manos \cup {k}) \X Destinos),
                tragar : Seq(manos \cup {k})]
  BY <1>2 DEF Debe
<1>4. /\ \A i \in DOMAIN t.pulsadas : t.pulsadas[i][1] \in manos
      /\ \A j \in DOMAIN t.tragar : t.tragar[j] \in manos
  BY <1>1
<1>. HIDE DEF u
<1>5. Debe(u, manos \cup {k}, xkb \cup {k})
  BY <1>3, <1>4 DEF Debe
<1>. QED BY <1>5 DEF u

(* Kept by the app of the keys.                                            *)
LEMMA DebeCapturada ==
  ASSUME NEW t, NEW manos, NEW xkb, Debe(t, manos, xkb), NEW k, k \notin manos
  PROVE  Debe([t EXCEPT !.tragar = Append(@, k)], manos \cup {k}, xkb)
<1>. DEFINE u == [t EXCEPT !.tragar = Append(@, k)]
<1>1. t.pulsadas \in Seq(manos \X Destinos) /\ t.tragar \in Seq(manos) /\ t.fisicas \subseteq manos
  BY DEF Debe
<1>2. t.pulsadas \in Seq((manos \cup {k}) \X Destinos) /\ t.tragar \in Seq(manos \cup {k})
  BY <1>1
<1>3. /\ u.pulsadas = t.pulsadas /\ u.tragar = Append(t.tragar, k)
      /\ u \in [fisicas : SUBSET (manos \cup {k}), pulsadas : Seq((manos \cup {k}) \X Destinos),
                tragar : Seq(manos \cup {k})]
  <2>1. Append(t.tragar, k) \in Seq(manos \cup {k})
    BY <1>2
  <2>2. t \in [fisicas : SUBSET manos, pulsadas : Seq(manos \X Destinos), tragar : Seq(manos)]
    BY DEF Debe
  <2>. QED BY <1>1, <1>2, <2>1, <2>2
<1>4. /\ \A i \in DOMAIN t.pulsadas : t.pulsadas[i][1] \in manos
      /\ \A j \in DOMAIN t.tragar : t.tragar[j] \in manos
  BY <1>1
<1>5. /\ Len(t.tragar) \in Nat /\ DOMAIN t.tragar = 1..Len(t.tragar)
      /\ DOMAIN u.tragar = 1..(Len(t.tragar) + 1)
      /\ \A j \in 1..Len(t.tragar) : u.tragar[j] = t.tragar[j]
      /\ u.tragar[Len(t.tragar) + 1] = k
  BY <1>1, <1>3
<1>. HIDE DEF u
<1>6. \A j \in DOMAIN u.tragar : u.tragar[j] = k \/ (j \in DOMAIN t.tragar /\ u.tragar[j] = t.tragar[j])
  BY <1>5
<1>7. \A i, j \in DOMAIN u.tragar : u.tragar[i] = u.tragar[j] => i = j
  BY <1>4, <1>5 DEF Debe
<1>8. Debe(u, manos \cup {k}, xkb)
  BY <1>3, <1>4, <1>6, <1>7 DEF Debe
<1>. QED BY <1>8 DEF u

(* Turned into something else, which its release will have to undo.        *)
LEMMA DebeCambiada ==
  ASSUME NEW t, NEW manos, NEW xkb, Debe(t, manos, xkb), NEW k, k \notin manos,
         K!ConCopilot => k \notin {"meta", "shift"}, NEW d \in Destinos,
         NEW u, u = [fisicas |-> t.fisicas \cup {k}, pulsadas |-> Append(t.pulsadas, <<k, d>>),
                     tragar |-> t.tragar],
         NEW ahora, ahora \subseteq xkb \cup ({d} \ {"nada"})
  PROVE  Debe(u, manos \cup {k}, ahora)
<1>1. t.pulsadas \in Seq(manos \X Destinos) /\ t.tragar \in Seq(manos) /\ t.fisicas \subseteq manos
  BY DEF Debe
<1>2. t.pulsadas \in Seq((manos \cup {k}) \X Destinos) /\ t.tragar \in Seq(manos \cup {k})
  BY <1>1
<1>3. /\ u.pulsadas = Append(t.pulsadas, <<k, d>>) /\ u.tragar = t.tragar
      /\ u \in [fisicas : SUBSET (manos \cup {k}), pulsadas : Seq((manos \cup {k}) \X Destinos),
                tragar : Seq(manos \cup {k})]
  <2>1. Append(t.pulsadas, <<k, d>>) \in Seq((manos \cup {k}) \X Destinos)
    BY <1>2
  <2>2. t \in [fisicas : SUBSET manos, pulsadas : Seq(manos \X Destinos), tragar : Seq(manos)]
    BY DEF Debe
  <2>. QED BY <1>1, <1>2, <2>1, <2>2
<1>4. /\ \A i \in DOMAIN t.pulsadas : t.pulsadas[i][1] \in manos
      /\ \A j \in DOMAIN t.tragar : t.tragar[j] \in manos
  BY <1>1
<1>5. /\ Len(t.pulsadas) \in Nat /\ DOMAIN t.pulsadas = 1..Len(t.pulsadas)
      /\ DOMAIN u.pulsadas = 1..(Len(t.pulsadas) + 1)
      /\ \A i \in 1..Len(t.pulsadas) : u.pulsadas[i] = t.pulsadas[i]
      /\ u.pulsadas[Len(t.pulsadas) + 1] = <<k, d>>
  BY <1>1, <1>3
<1>6. /\ \A i \in DOMAIN u.pulsadas :
           \/ u.pulsadas[i][1] = k
           \/ i \in DOMAIN t.pulsadas /\ u.pulsadas[i] = t.pulsadas[i]
      /\ \A i \in DOMAIN t.pulsadas : i \in DOMAIN u.pulsadas /\ u.pulsadas[i] = t.pulsadas[i]
      /\ \E i \in DOMAIN u.pulsadas : u.pulsadas[i][2] = d
  BY <1>5
<1>7. \A i, j \in DOMAIN u.pulsadas : u.pulsadas[i][1] = u.pulsadas[j][1] => i = j
  BY <1>4, <1>5 DEF Debe
<1>8. \A i \in DOMAIN u.pulsadas :
        /\ K!ConCopilot => u.pulsadas[i][1] \notin {"meta", "shift"}
        /\ \A j \in DOMAIN u.tragar : u.pulsadas[i][1] # u.tragar[j]
  BY <1>3, <1>4, <1>6 DEF Debe
<1>9. ASSUME NEW x \in ahora
      PROVE  \/ /\ x \in manos \cup {k}
                /\ \A j \in DOMAIN u.tragar : u.tragar[j] # x
                /\ \A i \in DOMAIN u.pulsadas : u.pulsadas[i][1] # x
             \/ x # "nada" /\ \E i \in DOMAIN u.pulsadas : u.pulsadas[i][2] = x
  <2>1. CASE x = d /\ d # "nada"
    BY <1>6, <2>1
  <2>2. CASE x \in xkb
    <3>1. CASE x \in manos /\ (\A j \in DOMAIN t.tragar : t.tragar[j] # x)
                           /\ (\A i \in DOMAIN t.pulsadas : t.pulsadas[i][1] # x)
      BY <1>3, <1>6, <3>1
    <3>2. CASE x # "nada" /\ \E i \in DOMAIN t.pulsadas : t.pulsadas[i][2] = x
      BY <1>6, <3>2
    <3>. QED BY <2>2, <3>1, <3>2 DEF Debe
  <2>. QED BY <2>1, <2>2
<1>10. \A i, j \in DOMAIN u.tragar : u.tragar[i] = u.tragar[j] => i = j
  BY <1>3 DEF Debe
<1>. QED BY <1>3, <1>7, <1>8, <1>9, <1>10 DEF Debe

(* The chord: the two modifiers are let go of for xkb, and their releases  *)
(* are to be swallowed.                                                    *)
LEMMA DebeAcorde ==
  ASSUME K!ConCopilot, NEW t, NEW manos, NEW xkb, Debe(t, manos, xkb), {"meta", "shift"} \subseteq manos,
         \A i \in DOMAIN t.tragar : t.tragar[i] \notin {"meta", "shift"}
  PROVE  Debe([t EXCEPT !.tragar = @ \o <<"meta", "shift">>], manos, xkb \ {"meta", "shift"})
<1>. DEFINE u == [t EXCEPT !.tragar = @ \o <<"meta", "shift">>]
            n == Len(t.tragar)
<1>1. t.tragar \in Seq(manos) /\ <<"meta", "shift">> \in Seq(manos)
  BY DEF Debe
<1>2. t \in [fisicas : SUBSET manos, pulsadas : Seq(manos \X Destinos), tragar : Seq(manos)]
  BY DEF Debe
<1>3. t.tragar \o <<"meta", "shift">> \in Seq(manos)
  BY <1>1
<1>4. /\ u.pulsadas = t.pulsadas /\ u.tragar = t.tragar \o <<"meta", "shift">>
      /\ u \in [fisicas : SUBSET manos, pulsadas : Seq(manos \X Destinos), tragar : Seq(manos)]
  BY <1>2, <1>3
<1>. HIDE DEF u
<1>5. /\ n \in Nat /\ DOMAIN t.tragar = 1..n /\ DOMAIN u.tragar = 1..(n + 2)
      /\ \A j \in 1..n : u.tragar[j] = t.tragar[j]
      /\ u.tragar[n + 1] = "meta" /\ u.tragar[n + 2] = "shift"
  BY <1>1, <1>4
<1>. HIDE DEF n
<1>6. \A j \in DOMAIN u.tragar :
        \/ u.tragar[j] \in {"meta", "shift"}
        \/ j \in DOMAIN t.tragar /\ u.tragar[j] = t.tragar[j]
  BY <1>5
<1>7. \A i, j \in DOMAIN u.tragar : u.tragar[i] = u.tragar[j] => i = j
  <2>1. SUFFICES ASSUME NEW i \in 1..(n + 2), NEW j \in 1..(n + 2), u.tragar[i] = u.tragar[j]
                 PROVE  i = j
    BY <1>5
  <2>2. CASE i \in 1..n /\ j \in 1..n
    <3>1. \A a, b \in DOMAIN t.tragar : t.tragar[a] = t.tragar[b] => a = b
      BY DEF Debe
    <3>. QED BY <1>5, <2>1, <2>2, <3>1
  <2>3. CASE i \in 1..n /\ j \notin 1..n
    BY <1>5, <2>1, <2>3
  <2>4. CASE i \notin 1..n /\ j \in 1..n
    BY <1>5, <2>1, <2>4
  <2>5. CASE i \notin 1..n /\ j \notin 1..n
    <3>1. "meta" # "shift"
      OBVIOUS
    <3>. QED BY <1>5, <2>1, <2>5, <3>1
  <2>. QED BY <2>2, <2>3, <2>4, <2>5
<1>8. ASSUME NEW i \in DOMAIN u.pulsadas
      PROVE  /\ u.pulsadas[i][1] \notin {"meta", "shift"}
             /\ \A j \in DOMAIN u.tragar : u.pulsadas[i][1] # u.tragar[j]
  BY <1>4, <1>6 DEF Debe
<1>9. ASSUME NEW x \in xkb \ {"meta", "shift"}
      PROVE  \/ /\ x \in manos
                /\ \A j \in DOMAIN u.tragar : u.tragar[j] # x
                /\ \A i \in DOMAIN u.pulsadas : u.pulsadas[i][1] # x
             \/ x # "nada" /\ \E i \in DOMAIN u.pulsadas : u.pulsadas[i][2] = x
  BY <1>4, <1>6, <1>9 DEF Debe
<1>10. \A i, j \in DOMAIN u.pulsadas : u.pulsadas[i][1] = u.pulsadas[j][1] => i = j
  BY <1>4 DEF Debe
<1>11. Debe(u, manos, xkb \ {"meta", "shift"})
  BY <1>4, <1>7, <1>8, <1>9, <1>10 DEF Debe
<1>. QED BY <1>11 DEF u

(* A sequence is one over whatever its elements are in.                    *)
LEMMA Reducida ==
  ASSUME NEW S, NEW s \in Seq(S), NEW R, \A j \in DOMAIN s : s[j] \in R
  PROVE  s \in Seq(R)
<1>1. Len(s) \in Nat /\ DOMAIN s = 1..Len(s)
  OBVIOUS
<1>2. s \in [1..Len(s) -> S]
  OBVIOUS
<1>3. s \in [1..Len(s) -> R]
  BY <1>1, <1>2
<1>. QED BY <1>1, <1>3

(* The release of a key that was swallowed.                                *)
LEMMA DebeTragada ==
  ASSUME NEW t, NEW manos, NEW xkb, Debe(t, manos, xkb), NEW k, NEW i \in DOMAIN t.tragar,
         t.tragar[i] = k, NEW u,
         u = [t EXCEPT !.fisicas = @ \ {k}, !.tragar = K!SwapRemove(@, i)]
  PROVE  Debe(u, manos \ {k}, xkb)
<1>. DEFINE n == Len(t.tragar)
            s == K!SwapRemove(t.tragar, i)
<1>1. /\ t.pulsadas \in Seq(manos \X Destinos) /\ t.tragar \in Seq(manos) /\ t.fisicas \subseteq manos
      /\ t \in [fisicas : SUBSET manos, pulsadas : Seq(manos \X Destinos), tragar : Seq(manos)]
      /\ \A a, b \in DOMAIN t.tragar : t.tragar[a] = t.tragar[b] => a = b
      /\ \A a, b \in DOMAIN t.pulsadas : t.pulsadas[a][1] = t.pulsadas[b][1] => a = b
      /\ \A a \in DOMAIN t.pulsadas :
           /\ K!ConCopilot => t.pulsadas[a][1] \notin {"meta", "shift"}
           /\ \A j \in DOMAIN t.tragar : t.pulsadas[a][1] # t.tragar[j]
  BY DEF Debe
<1>2. n \in Nat /\ DOMAIN t.tragar = 1..n /\ i \in 1..n
  BY <1>1
<1>3. /\ s \in Seq(manos) /\ DOMAIN s = 1..(n - 1)
      /\ \A j \in 1..(n - 1) : s[j] = t.tragar[IF j = i THEN n ELSE j]
  BY <1>1, SwapFuera
<1>. HIDE DEF s, n
<1>4. \A j \in 1..(n - 1) :
        (IF j = i THEN n ELSE j) \in 1..n /\ (IF j = i THEN n ELSE j) # i
  BY <1>2
<1>5. \A j \in DOMAIN s : \E a \in DOMAIN t.tragar : a # i /\ s[j] = t.tragar[a]
  BY <1>2, <1>3, <1>4
<1>6. \A j \in DOMAIN s : s[j] \in manos \ {k}
  BY <1>1, <1>5
<1>7. \A a, b \in DOMAIN s : s[a] = s[b] => a = b
  <2>1. SUFFICES ASSUME NEW a \in 1..(n - 1), NEW b \in 1..(n - 1), s[a] = s[b] PROVE a = b
    BY <1>3
  <2>2. (IF a = i THEN n ELSE a) = (IF b = i THEN n ELSE b)
    BY <1>1, <1>2, <1>3, <1>4, <2>1
  <2>. QED BY <1>2, <2>1, <2>2
<1>8. \A a \in DOMAIN t.pulsadas : t.pulsadas[a][1] \in manos \ {k} /\ t.pulsadas[a][2] \in Destinos
  BY <1>1
<1>9. t.pulsadas \in Seq((manos \ {k}) \X Destinos) /\ s \in Seq(manos \ {k})
  <2>1. \A a \in DOMAIN t.pulsadas : t.pulsadas[a] \in (manos \ {k}) \X Destinos
    BY <1>1, <1>8
  <2>2. t.pulsadas \in Seq(manos \X Destinos) /\ s \in Seq(manos)
    BY <1>1, <1>3
  <2>. QED BY <1>6, <2>1, <2>2, Reducida
<1>10. /\ u.pulsadas = t.pulsadas /\ u.tragar = s
       /\ u \in [fisicas : SUBSET (manos \ {k}), pulsadas : Seq((manos \ {k}) \X Destinos),
                 tragar : Seq(manos \ {k})]
  BY <1>1, <1>9 DEF s
<1>11. \A a \in DOMAIN u.pulsadas :
         /\ K!ConCopilot => u.pulsadas[a][1] \notin {"meta", "shift"}
         /\ \A j \in DOMAIN u.tragar : u.pulsadas[a][1] # u.tragar[j]
  BY <1>1, <1>5, <1>10
<1>12. ASSUME NEW x \in xkb
       PROVE  \/ /\ x \in manos \ {k}
                 /\ \A j \in DOMAIN u.tragar : u.tragar[j] # x
                 /\ \A a \in DOMAIN u.pulsadas : u.pulsadas[a][1] # x
              \/ x # "nada" /\ \E a \in DOMAIN u.pulsadas : u.pulsadas[a][2] = x
  BY <1>5, <1>10 DEF Debe
<1>. QED BY <1>1, <1>7, <1>10, <1>11, <1>12 DEF Debe

(* The release of one that was something else: that is what comes up.      *)
LEMMA DebeDevuelta ==
  ASSUME NEW t, NEW manos, NEW xkb, Debe(t, manos, xkb), NEW k, NEW i \in DOMAIN t.pulsadas,
         t.pulsadas[i][1] = k, NEW u,
         u = [t EXCEPT !.fisicas = @ \ {k}, !.pulsadas = K!SwapRemove(@, i)]
  PROVE  Debe(u, manos \ {k}, xkb \ ({t.pulsadas[i][2]} \ {"nada"}))
<1>. DEFINE n == Len(t.pulsadas)
            s == K!SwapRemove(t.pulsadas, i)
<1>1. /\ t.pulsadas \in Seq(manos \X Destinos) /\ t.tragar \in Seq(manos) /\ t.fisicas \subseteq manos
      /\ t \in [fisicas : SUBSET manos, pulsadas : Seq(manos \X Destinos), tragar : Seq(manos)]
      /\ \A a, b \in DOMAIN t.tragar : t.tragar[a] = t.tragar[b] => a = b
      /\ \A a, b \in DOMAIN t.pulsadas : t.pulsadas[a][1] = t.pulsadas[b][1] => a = b
      /\ \A a \in DOMAIN t.pulsadas :
           /\ K!ConCopilot => t.pulsadas[a][1] \notin {"meta", "shift"}
           /\ \A j \in DOMAIN t.tragar : t.pulsadas[a][1] # t.tragar[j]
  BY DEF Debe
<1>2. n \in Nat /\ DOMAIN t.pulsadas = 1..n /\ i \in 1..n
  BY <1>1
<1>3. /\ s \in Seq(manos \X Destinos) /\ DOMAIN s = 1..(n - 1)
      /\ \A j \in 1..(n - 1) : s[j] = t.pulsadas[IF j = i THEN n ELSE j]
  BY <1>1, SwapFuera
<1>. HIDE DEF s, n
<1>4. \A j \in 1..(n - 1) :
        (IF j = i THEN n ELSE j) \in 1..n /\ (IF j = i THEN n ELSE j) # i
  BY <1>2
<1>5. \A j \in DOMAIN s : \E a \in DOMAIN t.pulsadas : a # i /\ s[j] = t.pulsadas[a]
  BY <1>2, <1>3, <1>4
<1>6. \A a \in DOMAIN t.pulsadas : a # i => \E j \in DOMAIN s : s[j] = t.pulsadas[a]
  <2>1. SUFFICES ASSUME NEW a \in 1..n, a # i PROVE \E j \in 1..(n - 1) : s[j] = t.pulsadas[a]
    BY <1>2, <1>3
  <2>2. CASE a = n
    BY <1>2, <1>3, <2>1, <2>2
  <2>3. CASE a # n
    BY <1>2, <1>3, <2>1, <2>3
  <2>. QED BY <2>2, <2>3
<1>7. \A a, b \in DOMAIN s : s[a][1] = s[b][1] => a = b
  <2>1. SUFFICES ASSUME NEW a \in 1..(n - 1), NEW b \in 1..(n - 1), s[a][1] = s[b][1] PROVE a = b
    BY <1>3
  <2>3. PICK c \in 1..n : c = (IF a = i THEN n ELSE a)
    BY <1>4
  <2>4. PICK d \in 1..n : d = (IF b = i THEN n ELSE b)
    BY <1>4
  <2>5. s[a] = t.pulsadas[c] /\ s[b] = t.pulsadas[d]
    BY <1>3, <2>3, <2>4
  <2>6. c = d
    BY <1>1, <1>2, <2>1, <2>5
  <2>2. (IF a = i THEN n ELSE a) = (IF b = i THEN n ELSE b)
    BY <2>3, <2>4, <2>6
  <2>. QED BY <1>2, <2>1, <2>2
<1>8. \A j \in DOMAIN s : s[j] \in (manos \ {k}) \X Destinos
  <2>1. ASSUME NEW a \in DOMAIN t.pulsadas, a # i PROVE t.pulsadas[a] \in (manos \ {k}) \X Destinos
    <3>1. t.pulsadas[a] \in manos \X Destinos /\ t.pulsadas[a][1] # k
      BY <1>1, <2>1
    <3>. QED BY <3>1
  <2>. QED BY <1>5, <2>1
<1>9. s \in Seq((manos \ {k}) \X Destinos) /\ t.tragar \in Seq(manos \ {k})
  <2>1. \A j \in DOMAIN t.tragar : t.tragar[j] \in manos \ {k}
    BY <1>1
  <2>2. t.tragar \in Seq(manos) /\ s \in Seq(manos \X Destinos)
    BY <1>1, <1>3
  <2>. QED BY <1>8, <2>1, <2>2, Reducida
<1>10. /\ u.pulsadas = s /\ u.tragar = t.tragar
       /\ u \in [fisicas : SUBSET (manos \ {k}), pulsadas : Seq((manos \ {k}) \X Destinos),
                 tragar : Seq(manos \ {k})]
  BY <1>1, <1>9 DEF s
<1>11. \A a \in DOMAIN u.pulsadas :
         /\ K!ConCopilot => u.pulsadas[a][1] \notin {"meta", "shift"}
         /\ \A j \in DOMAIN u.tragar : u.pulsadas[a][1] # u.tragar[j]
  BY <1>1, <1>5, <1>10
<1>12. ASSUME NEW x \in xkb \ ({t.pulsadas[i][2]} \ {"nada"})
       PROVE  \/ /\ x \in manos \ {k}
                 /\ \A j \in DOMAIN u.tragar : u.tragar[j] # x
                 /\ \A a \in DOMAIN u.pulsadas : u.pulsadas[a][1] # x
              \/ x # "nada" /\ \E a \in DOMAIN u.pulsadas : u.pulsadas[a][2] = x
  <2>1. CASE x \in manos /\ (\A j \in DOMAIN t.tragar : t.tragar[j] # x)
                         /\ (\A a \in DOMAIN t.pulsadas : t.pulsadas[a][1] # x)
    BY <1>5, <1>10, <2>1
  <2>2. CASE x # "nada" /\ \E a \in DOMAIN t.pulsadas : t.pulsadas[a][2] = x
    <3>1. PICK a \in DOMAIN t.pulsadas : t.pulsadas[a][2] = x
      BY <2>2
    <3>2. a # i
      BY <1>12, <2>2, <3>1
    <3>. QED BY <1>6, <1>10, <2>2, <3>1, <3>2
  <2>. QED BY <1>12, <2>1, <2>2 DEF Debe
<1>. QED BY <1>1, <1>7, <1>10, <1>11, <1>12 DEF Debe

(* The release of any other.                                               *)
LEMMA DebeSuelta ==
  ASSUME NEW t, NEW manos, NEW xkb, Debe(t, manos, xkb), NEW k,
         \A i \in DOMAIN t.tragar : t.tragar[i] # k,
         \A i \in DOMAIN t.pulsadas : t.pulsadas[i][1] # k
  PROVE  Debe([t EXCEPT !.fisicas = @ \ {k}], manos \ {k}, xkb \ {k})
<1>. DEFINE u == [t EXCEPT !.fisicas = @ \ {k}]
<1>1. /\ t.pulsadas \in Seq(manos \X Destinos) /\ t.tragar \in Seq(manos) /\ t.fisicas \subseteq manos
      /\ t \in [fisicas : SUBSET manos, pulsadas : Seq(manos \X Destinos), tragar : Seq(manos)]
  BY DEF Debe
<1>2. t.pulsadas \in Seq((manos \ {k}) \X Destinos)
  <2>1. /\ Len(t.pulsadas) \in Nat /\ DOMAIN t.pulsadas = 1..Len(t.pulsadas)
        /\ \A a \in DOMAIN t.pulsadas : t.pulsadas[a] \in (manos \ {k}) \X Destinos
    BY <1>1
  <2>2. t.pulsadas \in [1..Len(t.pulsadas) -> (manos \ {k}) \X Destinos]
    BY <1>1, <2>1
  <2>. QED BY <2>1, <2>2
<1>3. t.tragar \in Seq(manos \ {k})
  <2>1. /\ Len(t.tragar) \in Nat /\ DOMAIN t.tragar = 1..Len(t.tragar)
        /\ \A j \in DOMAIN t.tragar : t.tragar[j] \in manos \ {k}
    BY <1>1
  <2>2. t.tragar \in [1..Len(t.tragar) -> manos \ {k}]
    BY <1>1, <2>1
  <2>. QED BY <2>1, <2>2
<1>4. /\ u.pulsadas = t.pulsadas /\ u.tragar = t.tragar
      /\ u \in [fisicas : SUBSET (manos \ {k}), pulsadas : Seq((manos \ {k}) \X Destinos),
                tragar : Seq(manos \ {k})]
  BY <1>1, <1>2, <1>3
<1>. HIDE DEF u
<1>5. Debe(u, manos \ {k}, xkb \ {k})
  BY <1>4 DEF Debe
<1>. QED BY <1>5 DEF u

(* A burst of none or of one, alone or behind the two of the chord.        *)
LEMMA UnaPesa ==
  ASSUME NEW m, Tapada(m), NEW ev, NEW evs, evs = <<ev>>
  PROVE  K!Todos(m, evs).xkb = Pesa(m.xkb, ev)
<1>1. Len(evs) = 1 /\ evs[1] = ev
  OBVIOUS
<1>. QED BY <1>1, TodosPesan

(* None at all.                                                            *)
LEMMA NingunaPesa ==
  ASSUME NEW m, Tapada(m), NEW evs, evs = <<>> PROVE K!Todos(m, evs).xkb = m.xkb
<1>1. Len(evs) = 0
  OBVIOUS
<1>. QED BY <1>1, TodosPesan

Acorde == <<K!Evento("meta", FALSE), K!Evento("shift", FALSE)>>

(* The chord lets go of Meta and Shift before anything else.               *)
LEMMA AcordePesa ==
  ASSUME NEW m, Tapada(m)
  PROVE  /\ K!Todos(m, Acorde \o <<>>).xkb = m.xkb \ {"meta", "shift"}
         /\ \A ev : K!Todos(m, Acorde \o <<ev>>).xkb = Pesa(m.xkb \ {"meta", "shift"}, ev)
<1>. DEFINE quitados == m.xkb \ {"meta", "shift"}
<1>1. quitados = Pesa(Pesa(m.xkb, K!Evento("meta", FALSE)), K!Evento("shift", FALSE))
  BY DEF Pesa, K!Evento
<1>2. K!Todos(m, Acorde \o <<>>).xkb = quitados
  <2>. DEFINE s == Acorde \o <<>>
  <2>1. Len(s) = 2 /\ s[1] = K!Evento("meta", FALSE) /\ s[2] = K!Evento("shift", FALSE)
    BY DEF Acorde
  <2>. HIDE DEF s, quitados
  <2>2. K!Todos(m, s).xkb = Pesa(Pesa(m.xkb, s[1]), s[2])
    BY <2>1, TodosPesan
  <2>3. K!Todos(m, s).xkb = quitados
    BY <1>1, <2>1, <2>2
  <2>. QED BY <2>3 DEF s
<1>3. ASSUME NEW ev PROVE K!Todos(m, Acorde \o <<ev>>).xkb = Pesa(quitados, ev)
  <2>. DEFINE s == Acorde \o <<ev>>
  <2>1. Len(s) = 3 /\ s[1] = K!Evento("meta", FALSE) /\ s[2] = K!Evento("shift", FALSE) /\ s[3] = ev
    BY Pegadas DEF Acorde
  <2>. HIDE DEF s, quitados
  <2>2. K!Todos(m, s).xkb = Pesa(quitados, ev)
    BY <1>1, <2>1, TodosPesan
  <2>. QED BY <2>2 DEF s
<1>. QED BY <1>2, <1>3

(* What a line of teclas.conf makes of a press, and of its release.        *)
Destino(r) == IF r.que = "tecla" THEN r.a ELSE "nada"
Luego(r) == CASE r.que = "tecla" -> <<K!Evento(r.a, TRUE)>>
              [] r.que = "accion" -> <<K!Funcion(r.a)>>
              [] r.que = "nada" -> <<>>

(* A line of the map adds to xkb what its release will take, or nothing.   *)
LEMMA CambiadaPesa ==
  ASSUME NEW m, Tapada(m), NEW r, r.que \in {"tecla", "accion", "nada"}, r.que = "tecla" => r.a # "nada"
  PROVE  /\ K!Todos(m, <<>> \o Luego(r)).xkb \subseteq m.xkb \cup ({Destino(r)} \ {"nada"})
         /\ K!Todos(m, Acorde \o Luego(r)).xkb
              \subseteq (m.xkb \ {"meta", "shift"}) \cup ({Destino(r)} \ {"nada"})
<1>1. ASSUME NEW ev PROVE K!Todos(m, <<>> \o <<ev>>).xkb = Pesa(m.xkb, ev)
  <2>1. <<>> \o <<ev>> = <<ev>>
    OBVIOUS
  <2>. QED BY <2>1, UnaPesa
<1>2. K!Todos(m, <<>> \o <<>>).xkb = m.xkb
  <2>1. <<>> \o <<>> = <<>>
    OBVIOUS
  <2>. QED BY <2>1, NingunaPesa
<1>3. CASE r.que = "tecla"
  <2>1. Luego(r) = <<K!Evento(r.a, TRUE)>> /\ Destino(r) = r.a /\ Destino(r) # "nada"
    BY <1>3 DEF Luego, Destino
  <2>2. /\ K!Todos(m, <<>> \o Luego(r)).xkb = Pesa(m.xkb, K!Evento(r.a, TRUE))
        /\ K!Todos(m, Acorde \o Luego(r)).xkb = Pesa(m.xkb \ {"meta", "shift"}, K!Evento(r.a, TRUE))
    BY <1>1, <2>1, AcordePesa
  <2>. QED BY <2>1, <2>2 DEF Pesa, K!Evento
<1>4. CASE r.que = "accion"
  <2>1. Luego(r) = <<K!Funcion(r.a)>>
    BY <1>4 DEF Luego
  <2>2. /\ K!Todos(m, <<>> \o Luego(r)).xkb = Pesa(m.xkb, K!Funcion(r.a))
        /\ K!Todos(m, Acorde \o Luego(r)).xkb = Pesa(m.xkb \ {"meta", "shift"}, K!Funcion(r.a))
    BY <1>1, <2>1, AcordePesa
  <2>. QED BY <2>2 DEF Pesa, K!Funcion
<1>5. CASE r.que = "nada"
  <2>1. Luego(r) = <<>>
    BY <1>5 DEF Luego
  <2>. QED BY <1>2, <2>1, AcordePesa
<1>. QED BY <1>3, <1>4, <1>5

(* A press, plain or changed, alone or as the chord.                       *)
LEMMA PulsadaDebe ==
  ASSUME K!MapasEscritos, K!AcordeIntacto, TapadaSiempre, NEW manos, Debe(traductor, manos, mesa.xkb),
         NEW k, k \notin manos,
         k = "f23" => \A i \in DOMAIN traductor.tragar : traductor.tragar[i] \notin {"meta", "shift"},
         NEW x, x = K!TraducirPulsada(traductor, k)
  PROVE  Debe(x.t, manos \cup {k}, K!Todos(mesa, x.ev).xkb)
<1>. DEFINE t == traductor
            copilot == K!EsCopilot(t.fisicas \cup {k}, k)
            suyo == {r \in teclas : r.de = IF copilot THEN "copilot" ELSE k}
            r == CHOOSE r \in suyo : TRUE
<1>1. Tapada(mesa) /\ teclas \in Mapas
  BY DEF TapadaSiempre
<1>2. t \in [fisicas : SUBSET manos, pulsadas : Seq(manos \X Destinos), tragar : Seq(manos)]
  BY DEF Debe
<1>3. CASE suyo = {}
  <2>1. x.t = [t EXCEPT !.fisicas = @ \cup {k}] /\ x.ev = <<K!Evento(k, TRUE)>>
    BY <1>3 DEF K!TraducirPulsada
  <2>2. K!Todos(mesa, x.ev).xkb = Pesa(mesa.xkb, K!Evento(k, TRUE))
    BY <1>1, <2>1, UnaPesa
  <2>3. K!Todos(mesa, x.ev).xkb = mesa.xkb \cup {k}
    BY <2>2 DEF Pesa, K!Evento
  <2>4. Debe([t EXCEPT !.fisicas = @ \cup {k}], manos \cup {k}, mesa.xkb \cup {k})
    BY DebePulsada
  <2>. QED BY <2>1, <2>3, <2>4
<1>4. CASE suyo # {}
  <2>1. /\ x.t = [fisicas |-> t.fisicas \cup {k}, pulsadas |-> Append(t.pulsadas, <<k, Destino(r)>>),
                  tragar |-> IF copilot THEN t.tragar \o <<"meta", "shift">> ELSE t.tragar]
        /\ x.ev = (IF copilot THEN Acorde ELSE <<>>) \o Luego(r)
    BY <1>4 DEF K!TraducirPulsada, Destino, Luego, Acorde
  <2>2. r \in teclas /\ r.de = IF copilot THEN "copilot" ELSE k
    BY <1>4
  <2>. HIDE DEF r
  <2>3. /\ r.que \in {"tecla", "accion", "nada"} /\ (r.que = "tecla" => r.a # "nada")
        /\ (K!ConCopilot => r.de \notin {"meta", "shift"}) /\ Destino(r) \in Destinos
    BY <1>1, <2>2 DEF K!MapasEscritos, K!AcordeIntacto, Destinos, Destino
  <2>4. /\ K!Todos(mesa, <<>> \o Luego(r)).xkb \subseteq mesa.xkb \cup ({Destino(r)} \ {"nada"})
        /\ K!Todos(mesa, Acorde \o Luego(r)).xkb
              \subseteq (mesa.xkb \ {"meta", "shift"}) \cup ({Destino(r)} \ {"nada"})
    BY <1>1, <2>3, CambiadaPesa
  <2>5. CASE ~copilot
    <3>1. /\ x.t = [fisicas |-> t.fisicas \cup {k}, pulsadas |-> Append(t.pulsadas, <<k, Destino(r)>>),
                    tragar |-> t.tragar]
          /\ x.ev = <<>> \o Luego(r)
      BY <2>1, <2>5
    <3>2. K!ConCopilot => k \notin {"meta", "shift"}
      BY <2>2, <2>3, <2>5
    <3>4. \A ahora : ahora \subseteq mesa.xkb \cup ({Destino(r)} \ {"nada"})
                       => Debe(x.t, manos \cup {k}, ahora)
      BY <2>3, <3>1, <3>2, DebeCambiada
    <3>. QED BY <2>4, <3>1, <3>4
  <2>6. CASE copilot
    <3>. DEFINE u == [t EXCEPT !.tragar = @ \o <<"meta", "shift">>]
                quitados == mesa.xkb \ {"meta", "shift"}
    <3>1. k = "f23" /\ {"meta", "shift"} \subseteq manos /\ K!ConCopilot
      BY <1>1, <1>2, <2>2, <2>6 DEF K!EsCopilot, K!ConCopilot
    <3>2. Debe(u, manos, quitados)
      BY <3>1, DebeAcorde
    <3>3. /\ x.t = [fisicas |-> t.fisicas \cup {k}, pulsadas |-> Append(t.pulsadas, <<k, Destino(r)>>),
                    tragar |-> t.tragar \o <<"meta", "shift">>]
          /\ x.ev = Acorde \o Luego(r)
      BY <2>1, <2>6
    <3>4. x.t = [fisicas |-> u.fisicas \cup {k}, pulsadas |-> Append(u.pulsadas, <<k, Destino(r)>>),
                 tragar |-> u.tragar]
      BY <1>2, <3>3
    <3>5. k \notin {"meta", "shift"}
      BY <3>1
    <3>. HIDE DEF u, quitados
    <3>6. \A ahora : ahora \subseteq quitados \cup ({Destino(r)} \ {"nada"})
                       => Debe(x.t, manos \cup {k}, ahora)
      BY <2>3, <3>2, <3>4, <3>5, DebeCambiada
    <3>. QED BY <2>4, <3>3, <3>6 DEF quitados
  <2>. QED BY <2>5, <2>6
<1>. QED BY <1>3, <1>4

(* A release: swallowed, given back or plain.                              *)
LEMMA SueltaDebe ==
  ASSUME TapadaSiempre, NEW manos, Debe(traductor, manos, mesa.xkb),
         NEW k, NEW x, x = K!Suelta(traductor, k)
  PROVE  Debe(x.t, manos \ {k}, K!Todos(mesa, x.ev).xkb)
<1>. DEFINE t == traductor
            fuera == [t EXCEPT !.fisicas = @ \ {k}]
<1>1. Tapada(mesa)
  BY DEF TapadaSiempre
<1>2. /\ t \in [fisicas : SUBSET manos, pulsadas : Seq(manos \X Destinos), tragar : Seq(manos)]
      /\ \A i, j \in DOMAIN t.tragar : t.tragar[i] = t.tragar[j] => i = j
      /\ \A i, j \in DOMAIN t.pulsadas : t.pulsadas[i][1] = t.pulsadas[j][1] => i = j
  BY DEF Debe
<1>3. CASE \E i \in DOMAIN t.tragar : t.tragar[i] = k
  <2>. DEFINE i == K!Primera(t.tragar, LAMBDA y : y = k)
  <2>1. i \in DOMAIN t.tragar /\ t.tragar[i] = k
    <3>1. PICK a \in DOMAIN t.tragar : t.tragar[a] = k
      BY <1>3
    <3>2. DOMAIN t.tragar = 1..Len(t.tragar) /\ Len(t.tragar) \in Nat
      BY <1>2
    <3>3. \A j \in 1 .. a - 1 : j \in DOMAIN t.tragar /\ j # a
      BY <3>1, <3>2
    <3>4. \A j \in 1 .. a - 1 : t.tragar[j] # k
      BY <1>2, <3>1, <3>3
    <3>. QED BY <3>1, <3>4 DEF K!Primera
  <2>2. x.t = [fuera EXCEPT !.tragar = K!SwapRemove(@, i)] /\ x.ev = <<>>
    BY <1>3 DEF K!Suelta, K!TraducirSuelta
  <2>. HIDE DEF i
  <2>3. x.t = [t EXCEPT !.fisicas = @ \ {k}, !.tragar = K!SwapRemove(@, i)]
    BY <1>2, <2>2
  <2>5. K!Todos(mesa, x.ev).xkb = mesa.xkb
    BY <1>1, <2>2, NingunaPesa
  <2>. QED BY <2>1, <2>3, <2>5, DebeTragada
<1>4. CASE /\ ~\E i \in DOMAIN t.tragar : t.tragar[i] = k
           /\ \E i \in DOMAIN t.pulsadas : t.pulsadas[i][1] = k
  <2>. DEFINE i == K!Primera(t.pulsadas, LAMBDA y : y[1] = k)
              d == t.pulsadas[i][2]
  <2>1. i \in DOMAIN t.pulsadas /\ t.pulsadas[i][1] = k
    <3>1. PICK a \in DOMAIN t.pulsadas : t.pulsadas[a][1] = k
      BY <1>4
    <3>2. DOMAIN t.pulsadas = 1..Len(t.pulsadas) /\ Len(t.pulsadas) \in Nat
      BY <1>2
    <3>3. \A j \in 1 .. a - 1 : j \in DOMAIN t.pulsadas /\ j # a
      BY <3>1, <3>2
    <3>4. \A j \in 1 .. a - 1 : t.pulsadas[j][1] # k
      BY <1>2, <3>1, <3>3
    <3>. QED BY <3>1, <3>4 DEF K!Primera
  <2>2. /\ x.t = [fuera EXCEPT !.pulsadas = K!SwapRemove(@, i)]
        /\ x.ev = IF d = "nada" THEN <<>> ELSE <<K!Evento(d, FALSE)>>
    BY <1>4 DEF K!Suelta, K!TraducirSuelta
  <2>. HIDE DEF i
  <2>3. x.t = [t EXCEPT !.fisicas = @ \ {k}, !.pulsadas = K!SwapRemove(@, i)]
    BY <1>2, <2>2
  <2>4. K!Todos(mesa, x.ev).xkb = mesa.xkb \ ({d} \ {"nada"})
    <3>1. CASE d = "nada"
      <4>1. x.ev = <<>>
        BY <2>2, <3>1
      <4>. QED BY <1>1, <3>1, <4>1, NingunaPesa
    <3>2. CASE d # "nada"
      <4>1. x.ev = <<K!Evento(d, FALSE)>>
        BY <2>2, <3>2
      <4>2. K!Todos(mesa, x.ev).xkb = Pesa(mesa.xkb, K!Evento(d, FALSE))
        BY <1>1, <4>1, UnaPesa
      <4>. QED BY <3>2, <4>2 DEF Pesa, K!Evento
    <3>. QED BY <3>1, <3>2
  <2>5. Debe(x.t, manos \ {k}, mesa.xkb \ ({d} \ {"nada"}))
    BY <2>1, <2>3, DebeDevuelta
  <2>. QED BY <2>4, <2>5
<1>5. CASE /\ ~\E i \in DOMAIN t.tragar : t.tragar[i] = k
           /\ ~\E i \in DOMAIN t.pulsadas : t.pulsadas[i][1] = k
  <2>1. x.t = fuera /\ x.ev = <<K!Evento(k, FALSE)>>
    BY <1>5 DEF K!Suelta, K!TraducirSuelta
  <2>2. K!Todos(mesa, x.ev).xkb = Pesa(mesa.xkb, K!Evento(k, FALSE))
    BY <1>1, <2>1, UnaPesa
  <2>3. K!Todos(mesa, x.ev).xkb = mesa.xkb \ {k}
    BY <2>2 DEF Pesa, K!Evento
  <2>4. Debe(fuera, manos \ {k}, mesa.xkb \ {k})
    BY <1>5, DebeSuelta
  <2>. QED BY <2>1, <2>3, <2>4
<1>. QED BY <1>3, <1>4, <1>5

DebeSiempre == TapadaSiempre /\ Debe(traductor, abajoK, mesa.xkb)

(* Nothing is owed at first.                                               *)
LEMMA DebeInicial == K!Init => DebeSiempre
<1>. SUFFICES ASSUME K!Init PROVE DebeSiempre
  OBVIOUS
<1>1. mesa.xkb = {} /\ traductor = [fisicas |-> {}, pulsadas |-> <<>>, tragar |-> <<>>]
  BY DEF K!Init
<1>2. <<>> \in Seq(abajoK \X Destinos) /\ <<>> \in Seq(abajoK) /\ DOMAIN <<>> = {}
  OBVIOUS
<1>3. Debe(traductor, abajoK, mesa.xkb)
  BY <1>1, <1>2 DEF Debe
<1>. QED BY <1>3, TapadaInicial DEF DebeSiempre

(* And every step leaves owed what is held, and no more.                   *)
LEMMA DebePaso ==
  ASSUME K!MapasEscritos, K!AcordeIntacto, Repite = FALSE, DebeSiempre, [K!Next]_(K!vars)
  PROVE  DebeSiempre'
<1>. USE DEF DebeSiempre
<1>1. TapadaSiempre'
  BY TapadaPaso
<1>2. Tapada(mesa) /\ Debe(traductor, abajoK, mesa.xkb)
  BY DEF TapadaSiempre
<1>3. ASSUME NEW k \in Teclas, K!Pulsar(k) PROVE Debe(traductor, abajoK, mesa.xkb)'
  <2>1. /\ k \notin abajoK /\ abajoK' = abajoK \cup {k}
        /\ k = "f23" => \A i \in DOMAIN traductor.tragar : traductor.tragar[i] \notin {"meta", "shift"}
    BY <1>3 DEF K!Pulsar
  <2>2. CASE K!Capturar(k)
    <3>1. traductor' = [traductor EXCEPT !.tragar = Append(@, k)] /\ mesa' = mesa
      BY <2>2 DEF K!Capturar
    <3>. QED BY <2>1, <3>1, DebeCapturada
  <2>3. CASE traductor' = K!TraducirPulsada(traductor, k).t
             /\ mesa' = K!Todos(mesa, K!TraducirPulsada(traductor, k).ev)
    BY <2>1, <2>3, PulsadaDebe
  <2>. QED BY <1>3, <2>2, <2>3 DEF K!Pulsar
<1>4. ASSUME NEW k \in Teclas, K!Soltar(k) PROVE Debe(traductor, abajoK, mesa.xkb)'
  <2>1. /\ abajoK' = abajoK \ {k} /\ traductor' = K!Suelta(traductor, k).t
        /\ mesa' = K!Todos(mesa, K!Suelta(traductor, k).ev)
    BY <1>4 DEF K!Soltar
  <2>. QED BY <2>1, SueltaDebe
<1>5. CASE (\E b \in BOOLEAN : K!CapturarTecla(b)) \/ (\E mapax \in Mapas : K!Recargar(mapax)) \/ UNCHANGED K!vars
  <2>1. abajoK' = abajoK /\ traductor' = traductor /\ mesa' = mesa
    BY <1>5 DEF K!CapturarTecla, K!Recargar, K!vars
  <2>. QED BY <1>1, <1>2, <2>1
<1>6. CASE K!Bloquear \/ K!Desbloquear \/ K!Exponer \/ K!VentanaCerrada \/ K!Clic
  <2>1. abajoK' = abajoK /\ traductor' = traductor
    BY <1>6 DEF K!Bloquear, K!Desbloquear, K!Exponer, K!VentanaCerrada, K!Clic, K!De
  <2>2. mesa'.xkb = mesa.xkb
    <3>1. CASE K!Bloquear \/ K!Desbloquear
      BY <1>2, <3>1 DEF K!Bloquear, K!Desbloquear, K!De, K!Bloqueado, K!Cerrada, K!SinConmutador, Tapada, EsMesa
    <3>2. CASE K!Exponer \/ K!VentanaCerrada
      BY <1>2, <3>2 DEF K!Exponer, K!VentanaCerrada, K!De, K!SinConmutador, Tapada, EsMesa
    <3>3. CASE K!Clic
      BY <1>2, <3>3 DEF K!Clic, K!De, K!SinConmutador, Tapada, EsMesa
    <3>. QED BY <1>6, <3>1, <3>2, <3>3
  <2>. QED BY <1>1, <1>2, <2>1, <2>2
<1>. QED BY <1>1, <1>3, <1>4, <1>5, <1>6 DEF K!Next

(* With the fingers off the keyboard, nothing.                             *)
LEMMA DebeNada == DebeSiempre => K!NingunaTrabada
<1>. SUFFICES ASSUME DebeSiempre, abajoK = {}
              PROVE  /\ traductor = [fisicas |-> {}, pulsadas |-> <<>>, tragar |-> <<>>]
                     /\ mesa.xkb = {}
  BY DEF K!NingunaTrabada
<1>1. Debe(traductor, {}, mesa.xkb)
  BY DEF DebeSiempre
<1>2. traductor \in [fisicas : SUBSET {}, pulsadas : Seq({} \X Destinos), tragar : Seq({})]
  BY <1>1 DEF Debe
<1>3. traductor.fisicas = {} /\ traductor.pulsadas = <<>> /\ traductor.tragar = <<>>
  <2>1. \A R, s : R = {} /\ s \in Seq(R) => s = <<>>
    OBVIOUS
  <2>2. {} \X Destinos = {}
    OBVIOUS
  <2>. QED BY <1>1, <1>2, <2>1, <2>2
<1>4. mesa.xkb = {}
  BY <1>1, <1>3 DEF Debe
<1>. QED BY <1>2, <1>3, <1>4

-----------------------------------------------------------------------------
(* The seat.                                                               *)

\* The machines of a seat do not touch each other: a step of the whole is, for the frames, one
\* of theirs or none.
LEMMA FramesAparte ==
  ASSUME [Next]_<<parte, deFrames, deDisplays, deKeys, deButtons>>, parte' = "frames"
  PROVE  parte = "frames" /\ [F!Next]_(F!vars)
<1>1. UNCHANGED <<parte, deFrames>> => parte' = parte /\ UNCHANGED F!vars
  BY DEF deFrames, F!vars, F!cuadro, F!capturas
<1>2. Next => parte' = parte /\ (parte = "frames" => F!Next)
  BY DEF Next, EnFrames, EnDisplays, EnKeys, EnButtons, F!Next
<1>. QED BY <1>1, <1>2

\* Nothing that is not shown yet is left without somebody to come back to it, in however long a
\* behaviour of the seat.
THEOREM NadaSinEnsenarCorrect ==
  ASSUME Vacias = FALSE
  PROVE  Spec => []NadaSinEnsenar
<1>. DEFINE Inv == parte = "frames" => CuadrosInv
<1>1. Init => Inv
  BY CuadrosInicial DEF Init
<1>2. Inv /\ [Next]_<<parte, deFrames, deDisplays, deKeys, deButtons>> => Inv'
  BY FramesAparte, CuadrosPaso, AsientoAssumption
<1>3. Inv => NadaSinEnsenar
  BY DEF NadaSinEnsenar, CuadrosInv
<1>. QED BY <1>1, <1>2, <1>3, PTL DEF Spec

\* A step of the whole is, for the keys, one of theirs or none.
LEMMA KeysAparte ==
  ASSUME [Next]_<<parte, deFrames, deDisplays, deKeys, deButtons>>
  PROVE  /\ parte' = parte
         /\ parte = "keys" => [K!Next]_(K!vars)
<1>1. UNCHANGED <<parte, deKeys>> => parte' = parte /\ UNCHANGED K!vars
  BY DEF deKeys, K!vars
<1>2. Next => parte' = parte /\ (parte = "keys" => K!Next)
  BY DEF Next, EnFrames, EnDisplays, EnKeys, EnButtons, K!Next
<1>. QED BY <1>1, <1>2

\* No key reaches a client nor opens anything under the lock, in however long a behaviour.
THEOREM CiegoBajoCandadoCorrect == Spec => CiegoBajoCandado
<1>. DEFINE Inv == parte = "keys" => TapadaSiempre
<1>1. Init => Inv
  BY TapadaInicial DEF Init
<1>2. Inv /\ [Next]_<<parte, deFrames, deDisplays, deKeys, deButtons>>
        => Inv' /\ [parte = "keys" => K!PasoCiego]_<<parte, deKeys>>
  BY KeysAparte, AsientoAssumption, TapadaPaso
<1>. QED BY <1>1, <1>2, PTL DEF Spec, CiegoBajoCandado

\* And for the buttons.
LEMMA ButtonsAparte ==
  ASSUME [Next]_<<parte, deFrames, deDisplays, deKeys, deButtons>>
  PROVE  /\ parte' = parte
         /\ parte = "buttons" => [B!Next]_(B!vars)
<1>1. UNCHANGED <<parte, deButtons>> => parte' = parte /\ UNCHANGED B!vars
  BY DEF deButtons, B!vars
<1>2. Next => parte' = parte /\ (parte = "buttons" => B!Next)
  BY DEF Next, EnFrames, EnDisplays, EnKeys, EnButtons, B!Next, B!Botones, B!Zonas
<1>. QED BY <1>1, <1>2

\* The buttons of a seat, one held at a time: the notes of a press and what is over the desktop.
EsNota(n) ==
  n \in [clic : BOOLEAN, cierreVista : BOOLEAN, vista : {"no", "quieta", "mueve"}, menuSuelta : BOOLEAN,
         banda : BOOLEAN, dock : BOOLEAN, pulsado : BOOLEAN, arrastre : {"no", "nuestro", "cliente"}]
EsEncima(e) ==
  e \in [tarjeta : {"no", "menu", "launchpad", "vista"}, conmutador : BOOLEAN, captura : BOOLEAN,
         bloqueada : BOOLEAN]

\* Nothing waits for a release; the move a client asked for aside.
Libre(n) ==
  /\ n.clic = FALSE /\ n.cierreVista = FALSE /\ n.vista = "no" /\ n.menuSuelta = FALSE
  /\ n.banda = FALSE /\ n.dock = FALSE /\ n.pulsado = FALSE /\ n.arrastre # "nuestro"

\* One note, of the kind the release of b takes away.
UnaNota(n, b) ==
  \/ Libre([n EXCEPT !.clic = FALSE])
  \/ b = "izq" /\ Libre([n EXCEPT !.cierreVista = FALSE])
  \/ b = "izq" /\ Libre([n EXCEPT !.vista = "no"])
  \/ b = "der" /\ Libre([n EXCEPT !.menuSuelta = FALSE])
  \/ Libre([n EXCEPT !.banda = FALSE])
  \/ Libre([n EXCEPT !.dock = FALSE])
  \/ Libre([n EXCEPT !.pulsado = FALSE])
  \/ Libre([n EXCEPT !.arrastre = "no"])

\* What a press leaves, and nothing else, waits: with the layer or the lock on, nothing.
Anotado ==
  /\ EsNota(notas) /\ EsEncima(encima)
  /\ \/ abajoB = {} /\ Libre(notas)
     \/ \E b \in {"izq", "der"} :
          /\ abajoB = {b}
          /\ UnaNota(notas, b)
          /\ encima.captura \/ encima.bloqueada => Libre(notas)

\* A press leaves at most one note, of the kind its own release takes away.
LEMMA PulsarAnotado ==
  ASSUME Anotado, NEW b \in B!Botones, NEW logo \in BOOLEAN, B!Pulsar(b, logo)
  PROVE  Anotado'
<1>1. abajoB = {} /\ abajoB' = {b} /\ Libre(notas)
  <2>1. \A a : Cardinality({a}) = 1
    BY FS_Singleton
  <2>2. \A S : B!Cardinality(S) = Cardinality(S)
    BY DEF B!Cardinality, Cardinality
  <2>3. B!Cardinality(abajoB) < 1 /\ abajoB' = abajoB \cup {b}
    BY DEF B!Pulsar
  <2>4. \A a : B!Cardinality({a}) = 1
    BY <2>1, <2>2
  <2>5. \A a : abajoB # {a}
    BY <2>3, <2>4
  <2>. QED BY <2>3, <2>5 DEF Anotado
<1>2. EsNota(notas) /\ EsEncima(encima) /\ b \in {"izq", "der"}
  BY DEF Anotado, B!Botones
<1>3. ASSUME EsEncima(encima'), EsNota(notas'), UnaNota(notas', b),
             encima'.captura \/ encima'.bloqueada => Libre(notas')
      PROVE  Anotado'
  BY <1>1, <1>2, <1>3 DEF Anotado
<1>4. UnaNota(notas, b)
  BY <1>1, <1>2 DEF UnaNota, Libre, EsNota
<1>5. ASSUME notas' = notas, EsEncima(encima') PROVE Anotado'
  BY <1>1, <1>2, <1>3, <1>4, <1>5
<1>. DEFINE fresca == ~encima.captura /\ ~encima.bloqueada
<1>6. CASE encima.captura /\ B!EnCaptura
  <2>1. PICK sigue \in BOOLEAN : encima' = [encima EXCEPT !.captura = sigue] /\ notas' = notas
    BY <1>6 DEF B!EnCaptura, B!Sigue
  <2>. QED BY <1>2, <1>5, <2>1 DEF EsEncima
<1>7. CASE UNCHANGED <<encima, notas, cliente>>
  BY <1>2, <1>5, <1>7
<1>8. CASE fresca /\ B!EnConmutador
  BY <1>1, <1>2, <1>3, <1>8 DEF B!EnConmutador, B!Sigue, EsEncima, EsNota, UnaNota, Libre
<1>9. CASE fresca /\ b = "izq" /\ B!EnVista
  BY <1>1, <1>2, <1>3, <1>9 DEF B!EnVista, B!Sigue, EsEncima, EsNota, UnaNota, Libre
<1>10. CASE fresca /\ B!Agarrar
  BY <1>1, <1>2, <1>3, <1>10 DEF B!Agarrar, B!Sigue, EsEncima, EsNota, UnaNota, Libre
<1>11. CASE fresca /\ B!EnElShell(b)
  BY <1>1, <1>2, <1>3, <1>5, <1>11 DEF B!EnElShell, B!Sigue, EsEncima, EsNota, UnaNota, Libre
<1>12. CASE fresca /\ b = "der" /\ B!AbrirMenu
  BY <1>1, <1>2, <1>3, <1>12 DEF B!AbrirMenu, B!Sigue, EsEncima, EsNota, UnaNota, Libre
<1>13. CASE fresca /\ B!EnLaBarra
  BY <1>1, <1>2, <1>3, <1>5, <1>13 DEF B!EnLaBarra, B!Agarrar, B!Sigue, EsEncima, EsNota, UnaNota, Libre
<1>14. CASE fresca /\ B!PulsarEscritorio
  BY <1>1, <1>2, <1>3, <1>5, <1>14 DEF B!PulsarEscritorio, B!Sigue, EsEncima, EsNota, UnaNota, Libre
<1>15. CASE B!EnLaVentana(b)
  BY <1>2, <1>5, <1>15 DEF B!EnLaVentana, B!AlCliente
<1>16. encima.captura \in BOOLEAN /\ encima.bloqueada \in BOOLEAN
  BY <1>2 DEF EsEncima
<1>. QED BY <1>6, <1>7, <1>8, <1>9, <1>10, <1>11, <1>12, <1>13, <1>14, <1>15, <1>16 DEF B!Pulsar

\* A release takes it away, or there is none under the layer and the lock.
LEMMA SoltarAnotado ==
  ASSUME Anotado, NEW b \in B!Botones, B!Soltar(b)
  PROVE  Anotado'
<1>1. abajoB' = {} /\ UnaNota(notas, b) /\ (encima.captura \/ encima.bloqueada => Libre(notas))
  BY DEF Anotado, B!Soltar
<1>2. EsNota(notas) /\ EsEncima(encima)
  BY DEF Anotado
<1>3. ASSUME EsEncima(encima'), EsNota(notas'), Libre(notas') PROVE Anotado'
  BY <1>1, <1>3 DEF Anotado
<1>4. CASE encima.captura \/ encima.bloqueada
  BY <1>1, <1>2, <1>3, <1>4 DEF B!Soltar
<1>5. CASE ~(encima.captura \/ encima.bloqueada) /\ notas.clic
  <2>1. encima' = encima /\ notas' = [notas EXCEPT !.clic = FALSE]
    BY <1>5 DEF B!Soltar, B!Sigue
  <2>2. EsNota(notas') /\ Libre(notas')
    BY <1>1, <1>2, <1>5, <2>1 DEF EsNota, UnaNota, Libre
  <2>. QED BY <1>2, <1>3, <2>1, <2>2
<1>6. CASE ~(encima.captura \/ encima.bloqueada) /\ ~notas.clic
  <2>. DEFINE cierra == b = "izq" /\ notas.cierreVista
              mira == b = "izq" /\ notas.vista # "no"
              menu == b = "der" /\ notas.menuSuelta
  <2>1. B!SoltarPorOrden(b)
    BY <1>6 DEF B!Soltar
  <2>2. CASE cierra
    <3>1. encima' = encima /\ notas' = [notas EXCEPT !.cierreVista = FALSE]
      BY <2>1, <2>2 DEF B!SoltarPorOrden, B!Sigue
    <3>2. EsNota(notas') /\ Libre(notas')
      BY <1>1, <1>2, <2>2, <3>1 DEF EsNota, UnaNota, Libre
    <3>. QED BY <1>2, <1>3, <3>1, <3>2
  <2>3. CASE ~cierra /\ mira
    <3>1. B!SoltarEnVista
      BY <2>1, <2>3 DEF B!SoltarPorOrden
    <3>2. EsNota(notas') /\ Libre(notas')
      BY <1>1, <1>2, <2>3, <3>1 DEF EsNota, UnaNota, Libre, B!SoltarEnVista, B!Sigue
    <3>3. EsEncima(encima')
      BY <1>2, <3>1 DEF EsEncima, B!SoltarEnVista, B!Sigue
    <3>. QED BY <1>3, <3>2, <3>3
  <2>4. CASE ~cierra /\ ~mira /\ menu
    <3>1. encima' = encima /\ notas' = [notas EXCEPT !.menuSuelta = FALSE]
      BY <2>1, <2>4 DEF B!SoltarPorOrden, B!Sigue
    <3>2. EsNota(notas') /\ Libre(notas')
      BY <1>1, <1>2, <2>4, <3>1 DEF EsNota, UnaNota, Libre
    <3>. QED BY <1>2, <1>3, <3>1, <3>2
  <2>5. CASE ~cierra /\ ~mira /\ ~menu /\ notas.banda
    <3>1. encima' = encima /\ notas' = [notas EXCEPT !.banda = FALSE]
      BY <2>1, <2>5 DEF B!SoltarPorOrden, B!Sigue
    <3>2. EsNota(notas') /\ Libre(notas')
      BY <1>1, <1>2, <2>5, <3>1 DEF EsNota, UnaNota, Libre
    <3>. QED BY <1>2, <1>3, <3>1, <3>2
  <2>6. CASE ~cierra /\ ~mira /\ ~menu /\ ~notas.banda
    <3>. DEFINE acciona == notas.pulsado /\ zona = "boton"
                n == [notas EXCEPT !.dock = FALSE, !.pulsado = FALSE,
                                   !.arrastre = IF acciona THEN @ ELSE "no"]
    <3>1. B!Resto(b)
      BY <2>1, <2>6 DEF B!SoltarPorOrden
    <3>2. /\ notas' = n
          /\ \E t \in {encima.tarjeta, "no"} : encima' = [encima EXCEPT !.tarjeta = t]
      BY <3>1 DEF B!Resto, B!Sigue
    <3>3. EsEncima(encima')
      BY <1>2, <3>2 DEF EsEncima
    <3>4. EsNota(n) /\ Libre(n)
      BY <1>1, <1>2, <1>6, <2>6 DEF EsNota, UnaNota, Libre, B!Botones
    <3>. QED BY <1>3, <3>2, <3>3, <3>4
  <2>. QED BY <2>2, <2>3, <2>4, <2>5, <2>6
<1>. QED BY <1>4, <1>5, <1>6

\* What comes in between moves the note along, or comes with no button held.
LEMMA EntreMediasAnotado ==
  ASSUME Interrumpe = FALSE, Anotado,
         \/ \E z \in B!Zonas : B!Mover(z)
         \/ B!MoveRequest \/ B!Teclado \/ B!Captura \/ B!Bloquear \/ B!Desbloquear
         \/ UNCHANGED B!vars
  PROVE  Anotado'
<1>1. EsNota(notas) /\ EsEncima(encima)
  BY DEF Anotado
<1>2. CASE \E z \in B!Zonas : B!Mover(z)
  <2>1. abajoB' = abajoB /\ encima' = encima
    BY <1>2 DEF B!Mover
  <2>2. notas' = notas \/ (notas.vista = "quieta" /\ notas' = [notas EXCEPT !.vista = "mueve"])
    <3>1. notas' = notas \/ notas' = [notas EXCEPT !.vista = IF @ = "quieta" THEN "mueve" ELSE @]
      BY <1>2 DEF B!Mover
    <3>. QED BY <1>1, <3>1 DEF EsNota
  <2>3. CASE notas' = notas
    BY <2>1, <2>3 DEF Anotado
  <2>4. CASE notas.vista = "quieta" /\ notas' = [notas EXCEPT !.vista = "mueve"]
    <3>1. EsNota(notas') /\ ~Libre(notas)
      BY <1>1, <2>4 DEF EsNota, Libre
    <3>2. \A b : UnaNota(notas, b) => UnaNota(notas', b)
      BY <1>1, <2>4 DEF EsNota, Libre, UnaNota
    <3>. QED BY <2>1, <3>1, <3>2 DEF Anotado
  <2>. QED BY <2>2, <2>3, <2>4
<1>3. CASE B!MoveRequest
  <2>1. /\ notas.arrastre = "no" /\ notas' = [notas EXCEPT !.arrastre = "cliente"]
        /\ abajoB' = abajoB /\ encima' = encima
    BY <1>3 DEF B!MoveRequest
  <2>2. EsNota(notas') /\ (Libre(notas) => Libre(notas'))
    BY <1>1, <2>1 DEF EsNota, Libre
  <2>3. \A b : UnaNota(notas, b) => UnaNota(notas', b)
    BY <1>1, <2>1 DEF EsNota, Libre, UnaNota
  <2>. QED BY <2>1, <2>2, <2>3 DEF Anotado
<1>4. CASE B!Teclado
  <2>1. /\ abajoB' = abajoB /\ notas' = notas
        /\ encima'.captura = encima.captura /\ encima'.bloqueada = encima.bloqueada
        /\ EsEncima(encima')
    BY <1>1, <1>4 DEF B!Teclado, B!Tarjetas, EsEncima
  <2>. QED BY <2>1 DEF Anotado
<1>5. CASE B!Captura
  <2>1. abajoB = {} /\ abajoB' = {} /\ notas' = notas /\ EsEncima(encima')
    BY <1>1, <1>5 DEF B!Captura, EsEncima
  <2>. QED BY <2>1 DEF Anotado
<1>6. CASE B!Bloquear
  <2>1. /\ abajoB = {} /\ abajoB' = {} /\ EsEncima(encima')
        /\ notas' = [notas EXCEPT !.arrastre = "no", !.banda = FALSE, !.vista = "no"]
    BY <1>6 DEF B!Bloquear, EsEncima
  <2>2. Libre(notas)
    BY <2>1 DEF Anotado
  <2>3. EsNota(notas') /\ Libre(notas')
    BY <1>1, <2>1, <2>2 DEF EsNota, Libre
  <2>. QED BY <2>1, <2>3 DEF Anotado
<1>7. CASE B!Desbloquear
  <2>1. /\ abajoB' = abajoB /\ notas' = notas /\ EsEncima(encima')
        /\ encima'.captura = encima.captura /\ encima'.bloqueada = FALSE
    BY <1>1, <1>7 DEF B!Desbloquear, EsEncima
  <2>. QED BY <2>1 DEF Anotado
<1>8. CASE UNCHANGED B!vars
  BY <1>8 DEF B!vars, Anotado
<1>. QED BY <1>2, <1>3, <1>4, <1>5, <1>6, <1>7, <1>8

\* With no button down there is no note.
LEMMA AnotadoSinBotones == Anotado => B!AgarreConBoton
<1>. SUFFICES ASSUME Anotado, abajoB = {}
              PROVE  notas = B!NadieEspera \/ notas = [B!NadieEspera EXCEPT !.arrastre = "cliente"]
  BY DEF B!AgarreConBoton
<1>1. Libre(notas) /\ EsNota(notas)
  BY DEF Anotado
<1>. DEFINE pide == [B!NadieEspera EXCEPT !.arrastre = "cliente"]
            nota(a) == [clic |-> FALSE, cierreVista |-> FALSE, vista |-> "no", menuSuelta |-> FALSE,
                        banda |-> FALSE, dock |-> FALSE, pulsado |-> FALSE, arrastre |-> a]
<1>2. \A n : EsNota(n) /\ Libre(n) => n = nota(n.arrastre) /\ n.arrastre \in {"no", "cliente"}
  BY DEF EsNota, Libre
<1>3. EsNota(pide) /\ Libre(pide) /\ pide.arrastre = "cliente"
  BY DEF B!NadieEspera, EsNota, Libre
<1>4. B!NadieEspera = nota("no")
  BY DEF B!NadieEspera
<1>. HIDE DEF pide, nota
<1>5. pide = nota("cliente")
  BY <1>2, <1>3
<1>6. notas = nota("no") \/ notas = nota("cliente")
  BY <1>1, <1>2
<1>. QED BY <1>4, <1>5, <1>6 DEF pide

\* With no key held none is down for xkb nor owed by the translator, and with no button held
\* nothing waits for a release: in however long a behaviour, when the layer and the lock come with
\* no button held and the chord of Copilot does not repeat.
THEOREM NadaTrabadoCorrect ==
  ASSUME Repite = FALSE, Interrumpe = FALSE
  PROVE  Spec => []NadaTrabado
<1>. DEFINE Inv == (parte = "keys" => DebeSiempre) /\ (parte = "buttons" => Anotado)
<1>1. Init => Inv
  <2>1. B!Init => Anotado
    BY DEF B!Init, B!NadieEspera, Anotado, EsNota, EsEncima, Libre
  <2>. QED BY <2>1, DebeInicial DEF Init
<1>2. Inv /\ [Next]_<<parte, deFrames, deDisplays, deKeys, deButtons>> => Inv'
  <2>. SUFFICES ASSUME Inv, [Next]_<<parte, deFrames, deDisplays, deKeys, deButtons>> PROVE Inv'
    OBVIOUS
  <2>1. parte' = parte
    BY KeysAparte
  <2>2. CASE parte = "keys"
    BY <2>1, <2>2, KeysAparte, AsientoAssumption, DebePaso
  <2>3. CASE parte = "buttons"
    <3>1. [B!Next]_(B!vars) /\ Anotado
      BY <2>3, ButtonsAparte
    <3>2. Anotado'
      BY <3>1, PulsarAnotado, SoltarAnotado, EntreMediasAnotado DEF B!Next
    <3>. QED BY <2>1, <2>3, <3>2
  <2>. QED BY <2>1, <2>2, <2>3
<1>3. Inv => NadaTrabado
  BY DebeNada, AnotadoSinBotones DEF NadaTrabado
<1>. QED BY <1>1, <1>2, <1>3, PTL DEF Spec
==============================================================================
