---- MODULE LockView ----
(***************************************************************************)
(* What the lock screen shows and answers: the message, the music card,    *)
(* the power menu with its question, and when its image is painted again   *)
(* (bookos-shell bloqueo.rs and confirmacion.rs, their glue in lib.rs,     *)
(* shell.rs and input.rs).  Who may unlock is the module Lock.             *)
(*                                                                         *)
(* Animations are counted in frames.  An easing curve is almost flat at    *)
(* its end, so the last frame but one already looks settled.               *)
(***************************************************************************)
EXTENDS Integers, Sequences

CONSTANTS
  Entradas,           \* the requests of the power menu, in order
  Configs,            \* the compositions Settings may apply: energia, medios, animaciones
  FASES,              \* frames an animation takes
  Ancho, Alto,        \* the screen
  LADO_ENERGIA, MARGEN_ENERGIA, ANCHO_MENU, ALTO_ENTRADA,
  MEDIOS_ALTO, MEDIOS_PAD, MEDIOS_CONTROL, MEDIOS_PASO, MARGEN_MEDIOS,
  AccesoFin, MediosY, \* the end of the access block and where the card would go
  ConfAncho, ConfAlto, ConfBotonY, ConfBotonAlto, ConfMitad,
  Puntos,             \* where a press may fall
  MaxActos, MaxBloqueos, \* bounds
  Tardon,             \* a frame may come after the whole animation
  Deprisa,            \* a press may come before the animations settle
  MenuYMusica,        \* the music is used with the power menu open
  ConfigEnMenu,       \* Settings takes the menu away while it is open
  Reducidos           \* reduced effects: no fade at unlock

VARIABLES
  bloqueado, config,
  entrada, estadoF, huellaF, medioF, menuF,  \* frames since each *_desde
  menu, confirmacion, medios,
  estado, escritos, caps, huella,
  teclado,    \* caps lock on the keyboard itself
  pintada,    \* what the painted surface shows
  velo,       \* the song's veil: shown, and at which frame of its entrance
  salida,     \* the image of the lock is fading out
  generacion, lecturas, \* readings of MPRIS under way, with their generation
  suena,      \* the player: playing or not
  pedido,     \* the last request or order carried out
  actos

campo  == <<estado, escritos, caps, huella>>
fases  == <<entrada, estadoF, huellaF, medioF, menuF>>
hoja   == <<menu, confirmacion, medios>>
fuera  == <<teclado, generacion, lecturas, suena>>
vars == <<bloqueado, config, fases, hoja, campo, fuera, pintada, velo, salida, pedido, actos>>

Nada == [clase |-> "nada"]
Menor(a, b) == IF a < b THEN a ELSE b
Mayor(a, b) == IF a > b THEN a ELSE b
\* What is left of a movement of this many steps at a frame of its animation.
Resto(f, pasos) == Mayor(0, Menor(pasos, FASES - 1 - f))

(* ---- Where things are ---- *)
En(p, x, y, w, h) == p[1] >= x /\ p[1] <= x + w /\ p[2] >= y /\ p[2] <= y + h
BotonY == Alto - MARGEN_ENERGIA - LADO_ENERGIA
BotonEnergia(p) == En(p, MARGEN_ENERGIA, BotonY, LADO_ENERGIA, LADO_ENERGIA)
EntradaY(i) == BotonY - 1 - Len(Entradas) * ALTO_ENTRADA + (i - 1) * ALTO_ENTRADA
\* entrada_energia of every row: the first row that holds the point, 0 for none.
EntradaEn(p, subida) ==
  LET son == {i \in 1..Len(Entradas) :
                En(p, MARGEN_ENERGIA, EntradaY(i) - subida, ANCHO_MENU, ALTO_ENTRADA)}
  IN  IF son = {} THEN 0 ELSE CHOOSE i \in son : \A j \in son : i <= j

MediosYAsentada == Mayor(AccesoFin + MARGEN_MEDIOS,
                         Menor(MediosY, Alto - MEDIOS_ALTO - MARGEN_MEDIOS))
\* medio_avance: with animations off everything is settled from the first frame.
MedioFrame == IF config.animaciones THEN medioF ELSE FASES
MediosYActual == MediosYAsentada + Resto(MedioFrame, 2)
Ordenes == <<"anterior", "alternar", "siguiente">>
\* The button of a card whose top is at y, 0 for none.
BotonDeTarjeta(p, y) ==
  LET cy == y + MEDIOS_ALTO - MEDIOS_PAD - MEDIOS_CONTROL
      son == {i \in 1..3 : LET d == p[1] - (Ancho \div 2 + (i - 2) * MEDIOS_PASO)
                           IN  2 * d <= MEDIOS_CONTROL /\ -(2 * d) <= MEDIOS_CONTROL}
  IN  IF p[2] < cy \/ p[2] > cy + MEDIOS_CONTROL \/ son = {} THEN 0
      ELSE CHOOSE i \in son : \A j \in son : i <= j
HayTarjeta == config.medios /\ medios # Nada
\* A slip: the press looks for the card where it will rest (as it once did).
MedioEnAsentado(p) == IF HayTarjeta THEN BotonDeTarjeta(p, MediosYAsentada) ELSE 0
MedioEn(p) == IF HayTarjeta THEN BotonDeTarjeta(p, MediosYActual) ELSE 0

\* Confirmacion::pulsar: "si", "no" or "nada".
RespuestaEn(p) ==
  LET x == p[1] - (Ancho - ConfAncho) \div 2
      y == p[2] - (Alto - ConfAlto) \div 2
  IN  CASE y < ConfBotonY \/ y >= ConfBotonY + ConfBotonAlto -> "nada"
        [] y >= ConfBotonY /\ y < ConfBotonY + ConfBotonAlto /\ x >= 0 /\ x < ConfMitad -> "no"
        [] y >= ConfBotonY /\ y < ConfBotonY + ConfBotonAlto /\ x >= ConfMitad /\ x < ConfAncho -> "si"
        [] OTHER -> "nada"

(* ---- The picture ---- *)
Mensaje == CASE estado # "escribiendo" -> estado
             [] estado = "escribiendo" /\ caps -> "mayus"
             [] estado = "escribiendo" /\ ~caps /\ escritos = 0 -> "introduce"
             [] OTHER -> ""
Sacudida == IF ~config.animaciones THEN 0
            ELSE IF estado = "fallo" THEN Resto(estadoF, FASES)
            ELSE IF huella = "no" THEN Resto(huellaF, FASES) ELSE 0
Ola == IF config.animaciones /\ estado = "comprobando" /\ escritos > 0 /\ estadoF < FASES
       THEN estadoF ELSE 0
\* menu_avance: the menu is drawn while it goes, and rises from the button.
MenuVisto == CASE ~config.energia -> Nada
               [] config.energia /\ menu -> [clase |-> "menu", subida |-> Resto(menuF, 1)]
               [] config.energia /\ ~menu /\ Resto(menuF, FASES) > 0
                    -> [clase |-> "yendose", subida |-> Resto(menuF, 1)]
               [] OTHER -> Nada
TarjetaVista == IF HayTarjeta THEN [clase |-> "tarjeta", y |-> MediosYActual,
                                    suena |-> medios.suena]
                ELSE Nada
View == [reloj |-> IF config.animaciones THEN Resto(entrada, FASES) ELSE 0,
         mensaje |-> Mensaje, puntos |-> escritos, ola |-> Ola, sacudida |-> Sacudida,
         huella |-> huella, tarjeta |-> TarjetaVista, menu |-> MenuVisto,
         pregunta |-> confirmacion]
Pintar == pintada' = View'

\* Something still moves.  The entrance alone keeps a frame to spare.
Animando ==
  \/ config.animaciones /\ entrada < FASES + 1
  \/ config.animaciones /\ estado \in {"fallo", "comprobando"} /\ estadoF < FASES
  \/ config.animaciones /\ huella = "no" /\ huellaF < FASES
  \/ config.animaciones /\ medios # Nada /\ medioF < FASES
  \/ menuF < FASES

VeloMedios == IF HayTarjeta THEN [clase |-> "velo", resto |-> Resto(MedioFrame, FASES)]
              ELSE Nada

(* ---- A frame ---- *)
Pasan(n, f, tope) == Menor(tope, f + n)
Fotograma ==
  /\ bloqueado
  /\ Animando \/ velo # VeloMedios
  /\ \E n \in IF Tardon THEN {1, FASES + 1} ELSE {1} :
       /\ entrada' = Pasan(n, entrada, FASES + 1)
       /\ estadoF' = Pasan(n, estadoF, FASES)
       /\ huellaF' = Pasan(n, huellaF, FASES)
       /\ medioF'  = Pasan(n, medioF, FASES)
       /\ menuF'   = Pasan(n, menuF, FASES)
  /\ UNCHANGED <<bloqueado, config, hoja, campo, fuera, salida, pedido, actos>>
  /\ velo' = VeloMedios'
  /\ IF Animando' THEN Pintar ELSE pintada' = pintada

\* A slip: the veil of the song is forgotten with the last frame of the way out.
FinDesbloqueoConVelo ==
  /\ salida
  /\ salida' = FALSE
  /\ UNCHANGED <<bloqueado, config, fases, hoja, campo, fuera, pintada, velo, pedido, actos>>
FinDesbloqueo ==
  /\ salida
  /\ salida' = FALSE
  /\ velo' = Nada
  /\ UNCHANGED <<bloqueado, config, fases, hoja, campo, fuera, pintada, pedido, actos>>

(* ---- The keyboard ---- *)
Actua == bloqueado /\ actos < MaxActos /\ actos' = actos + 1
Tecleable == {"escape", "izquierda", "derecha", "tabulador", "intro", "letra"}

\* With the question up every key is its own; not one reaches the password.
TeclaPregunta(t) ==
  /\ Actua /\ confirmacion # Nada
  /\ \/ /\ t = "intro" \/ t = "escape"
        /\ pedido' = IF t = "intro" /\ confirmacion.aceptar
                     THEN [que |-> confirmacion.que, por |-> "pregunta"] ELSE pedido
        /\ confirmacion' = Nada
     \/ /\ t \in {"izquierda", "derecha", "tabulador"}
        /\ confirmacion' = [confirmacion EXCEPT !.aceptar =
                             CASE t = "izquierda" -> FALSE [] t = "derecha" -> TRUE
                               [] OTHER -> ~confirmacion.aceptar]
        /\ pedido' = pedido
     \/ t = "letra" /\ UNCHANGED <<confirmacion, pedido>>
  /\ caps' = teclado
  /\ UNCHANGED <<bloqueado, config, fases, menu, medios, estado, escritos, huella,
                 fuera, velo, salida>>
  /\ Pintar

\* BloqueoEscribir, BloqueoLimpiar and BloqueoComprobar, then refrescar_bloqueo.
PonerCampo(n, e) ==
  /\ escritos' = n /\ estado' = e
  /\ estadoF' = IF e # estado \/ (n = 0) # (escritos = 0) THEN 0 ELSE estadoF
TeclaCampo(t) ==
  /\ Actua /\ confirmacion = Nada
  /\ \/ t = "letra" /\ estado # "comprobando" /\ PonerCampo(1, "escribiendo")
     \/ t = "escape" /\ estado # "comprobando" /\ PonerCampo(0, "escribiendo")
     \/ t = "intro" /\ estado # "comprobando" /\ escritos > 0
        /\ PonerCampo(escritos, "comprobando")
     \/ t \in {"izquierda", "derecha", "tabulador"}
        /\ UNCHANGED <<escritos, estado, estadoF>>
  /\ caps' = teclado
  /\ UNCHANGED <<bloqueado, config, entrada, huellaF, medioF, menuF, hoja, huella,
                 fuera, velo, salida, pedido>>
  /\ Pintar

BloqMayus ==
  /\ Actua
  /\ teclado' = ~teclado
  /\ caps' = teclado'
  /\ UNCHANGED <<bloqueado, config, fases, hoja, estado, escritos, huella, generacion,
                 lecturas, suena, velo, salida, pedido>>
  /\ Pintar

\* PAM rejects the password.
Rechaza ==
  /\ bloqueado /\ estado = "comprobando"
  /\ PonerCampo(0, "fallo")
  /\ UNCHANGED <<bloqueado, config, entrada, huellaF, medioF, menuF, hoja, caps, huella,
                 fuera, velo, salida, pedido, actos>>
  /\ Pintar

\* actualizar_huella: a second finger that does not match shakes again.
DedoAjeno ==
  /\ Actua
  /\ huella' = "no" /\ huellaF' = 0
  /\ UNCHANGED <<bloqueado, config, entrada, estadoF, medioF, menuF, hoja, estado, escritos,
                 caps, fuera, velo, salida, pedido>>
  /\ Pintar

(* ---- A press ---- *)
\* A press on the question, the menu, the button or the card; then on nothing.
PulsarPregunta(p) ==
  /\ confirmacion # Nada
  /\ LET r == RespuestaEn(p) IN
       /\ confirmacion' = IF r = "nada" THEN confirmacion ELSE Nada
       /\ pedido' = IF r = "si" THEN [que |-> confirmacion.que, por |-> "pregunta"] ELSE pedido
  /\ UNCHANGED <<menu, menuF, medios, suena>>

CerrarMenu == /\ menu' = FALSE
              /\ menuF' = IF menu THEN 0 ELSE menuF

EnEntrada(p) == menu /\ EntradaEn(p, 0) # 0
PulsarEntrada(p) ==
  /\ confirmacion = Nada /\ EnEntrada(p)
  /\ CerrarMenu
  /\ confirmacion' = [clase |-> "pregunta", que |-> Entradas[EntradaEn(p, 0)], aceptar |-> FALSE]
  /\ UNCHANGED <<medios, suena, pedido>>

EnBoton(p) == config.energia /\ BotonEnergia(p)
PulsarBoton(p) ==
  /\ confirmacion = Nada /\ ~EnEntrada(p) /\ EnBoton(p)
  /\ menu' = ~menu /\ menuF' = 0
  /\ UNCHANGED <<confirmacion, medios, suena, pedido>>

\* The player may not be there to answer.
PulsarMedio(p) ==
  /\ confirmacion = Nada /\ ~EnEntrada(p) /\ ~EnBoton(p) /\ MedioEn(p) # 0
  /\ MenuYMusica \/ ~menu
  /\ LET que == Ordenes[MedioEn(p)] IN
       \/ /\ pedido' = [que |-> que, por |-> "tarjeta"]
          /\ medios' = IF que = "alternar" THEN [medios EXCEPT !.suena = ~@] ELSE medios
          /\ suena' = IF que = "alternar" THEN ~suena ELSE suena
       \/ UNCHANGED <<pedido, medios, suena>>
  /\ UNCHANGED <<menu, menuF, confirmacion>>

PulsarFuera(p) ==
  /\ confirmacion = Nada /\ ~EnEntrada(p) /\ ~EnBoton(p) /\ MedioEn(p) = 0
  /\ CerrarMenu
  /\ UNCHANGED <<confirmacion, medios, suena, pedido>>

Pulsar(p) ==
  /\ Actua
  /\ Deprisa \/ menuF >= FASES - 1
  /\ \/ PulsarPregunta(p) \/ PulsarEntrada(p) \/ PulsarBoton(p)
     \/ PulsarMedio(p) \/ PulsarFuera(p)
  /\ UNCHANGED <<bloqueado, config, entrada, estadoF, huellaF, medioF, campo, teclado,
                 generacion, lecturas, velo, salida>>
  /\ IF confirmacion' # confirmacion \/ menu' # menu \/ pedido' # pedido \/ suena' # suena
     THEN Pintar ELSE pintada' = pintada

(* ---- From outside ---- *)
\* The reading of MPRIS asked for when the lock fell.
LlegaMedio(l) ==
  /\ l \in lecturas
  /\ lecturas' = lecturas \ {l}
  /\ LET nuevos == IF config.medios THEN [clase |-> "medio", suena |-> l.suena] ELSE Nada IN
     IF bloqueado /\ l.generacion = generacion /\ medios # nuevos
     THEN /\ medios' = nuevos /\ medioF' = 0
          /\ UNCHANGED <<bloqueado, config, entrada, estadoF, huellaF, menuF, menu,
                         confirmacion, campo, teclado, generacion, suena, velo, salida,
                         pedido, actos>>
          /\ Pintar
     ELSE UNCHANGED <<bloqueado, config, fases, hoja, campo, teclado, generacion, suena,
                      pintada, velo, salida, pedido, actos>>

\* BookOS Settings edits the composition live.
AplicarConfig(c) ==
  /\ bloqueado /\ c # config /\ actos < MaxActos
  /\ ConfigEnMenu \/ ~menu \/ c.energia
  /\ config' = c
  /\ actos' = actos + 1
  /\ UNCHANGED <<bloqueado, fases, hoja, campo, fuera, velo, salida, pedido>>
  /\ Pintar

Bloquear ==
  /\ ~bloqueado /\ generacion < MaxBloqueos
  /\ bloqueado' = TRUE
  /\ entrada' = 0 /\ estadoF' = FASES /\ huellaF' = FASES /\ medioF' = FASES /\ menuF' = FASES
  /\ menu' = FALSE /\ confirmacion' = Nada /\ medios' = Nada
  /\ estado' = "escribiendo" /\ escritos' = 0 /\ caps' = FALSE /\ huella' = "callada"
  /\ generacion' = generacion + 1
  /\ lecturas' = lecturas \cup {[generacion |-> generacion + 1, suena |-> suena]}
  /\ UNCHANGED <<config, teclado, suena, velo, salida, pedido, actos>>
  /\ Pintar

Desbloquear ==
  /\ bloqueado
  /\ bloqueado' = FALSE
  /\ salida' = ~Reducidos
  /\ velo' = IF Reducidos THEN Nada ELSE velo
  /\ confirmacion' = Nada /\ menu' = FALSE /\ medios' = Nada
  /\ UNCHANGED <<config, fases, campo, fuera, pintada, pedido, actos>>

Init ==
  /\ bloqueado = FALSE /\ config \in Configs
  /\ entrada = FASES + 1 /\ estadoF = FASES /\ huellaF = FASES /\ medioF = FASES
  /\ menuF = FASES
  /\ menu = FALSE /\ confirmacion = Nada /\ medios = Nada
  /\ estado = "escribiendo" /\ escritos = 0 /\ caps = FALSE /\ huella = "callada"
  /\ teclado = FALSE /\ generacion = 0 /\ lecturas = {} /\ suena = TRUE
  /\ pintada = View /\ velo = Nada /\ salida = FALSE
  /\ pedido = Nada /\ actos = 0

Next ==
  \/ Fotograma \/ FinDesbloqueo
  \/ \E t \in Tecleable : TeclaPregunta(t) \/ TeclaCampo(t)
  \/ BloqMayus \/ Rechaza \/ DedoAjeno
  \/ \E p \in Puntos : Pulsar(p)
  \/ \E l \in lecturas : LlegaMedio(l)
  \/ \E c \in Configs : AplicarConfig(c)
  \/ Bloquear \/ Desbloquear

Spec == Init /\ [][Next]_vars

(* ---- Properties ---- *)
TypeOK ==
  /\ bloqueado \in BOOLEAN /\ config \in Configs /\ menu \in BOOLEAN
  /\ entrada \in 0..(FASES + 1)
  /\ \A f \in {estadoF, huellaF, medioF, menuF} : f \in 0..FASES
  /\ confirmacion.clase \in {"nada", "pregunta"} /\ medios.clase \in {"nada", "medio"}
  /\ estado \in {"escribiendo", "comprobando", "fallo"} /\ escritos \in 0..1
  /\ caps \in BOOLEAN /\ huella \in {"callada", "no"}
  /\ generacion \in 0..MaxBloqueos /\ actos \in 0..MaxActos

SinOla(v) == [v EXCEPT !.ola = 0]
\* Once nothing moves the painted surface is what the lock says now: every
\* handler repaints, and the last frame of an animation already looks settled.
QuietaAlDia == (bloqueado /\ ~Animando) => SinOla(pintada) = SinOla(View)

\* The song's veil is only shown over the lock or over its fading image.
VeloBajoBloqueo == velo # Nada => bloqueado \/ salida

LockViewEnOrden == QuietaAlDia /\ VeloBajoBloqueo

\* A step of the lock never does other than its image offered: what a question
\* grants is what it asked, a key pressed over it never reaches the password,
\* and a press answers to the row or to the control that was painted under it.
PasoBloqueo ==
  /\ (pedido' # pedido /\ pedido'.por = "pregunta")
       => pintada.pregunta.clase = "pregunta" /\ pintada.pregunta.que = pedido'.que
  /\ (bloqueado /\ bloqueado' /\ confirmacion # Nada /\ estado # "comprobando")
       => escritos' = escritos
  /\ bloqueado => \A p \in Puntos :
       /\ PulsarMedio(p) => /\ pintada.tarjeta # Nada
                            /\ BotonDeTarjeta(p, pintada.tarjeta.y) = MedioEn(p)
       /\ PulsarEntrada(p) => /\ pintada.menu.clase = "menu"
                              /\ EntradaEn(p, pintada.menu.subida) = EntradaEn(p, 0)
LoPintadoManda == [][PasoBloqueo]_vars

\* What the documentation of pulsar says: a press anywhere but the menu closes it.
MenuSeCierraFuera ==
  [][\A p \in Puntos : (Pulsar(p) /\ menu /\ confirmacion = Nada) => ~menu']_vars
====
