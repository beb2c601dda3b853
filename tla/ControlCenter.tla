---- MODULE ControlCenter ----
(***************************************************************************)
(* The control center: the card of radios, tiles, sliders and music that   *)
(* hangs from the panel (bookos-shell emergente/centro.rs and its glue).   *)
(* It shows copies of a state that lives elsewhere: in the cache of the    *)
(* system service, in sysfs, in a reading of MPRIS made by a thread.       *)
(* Presses change the copy, ask the owner, or both; a second hand reads    *)
(* everything again.                                                       *)
(***************************************************************************)
EXTENDS Integers, Sequences

CONSTANTS
  Puntos,        \* where the pointer may be, in logical pixels of the card
  Sensor,        \* the machine has a light sensor
  MaxCrudo,      \* raw brightness of the backlight; 0: there is none
  Sistemas,      \* the states of the system the session may start with
  Ajenos,        \* what others may change: a set of records laid over the state
  MaxPulsos, MaxCambios, MaxAperturas, \* bounds
  Impaciente     \* a press may come before the last one was carried out

VARIABLES
  sis,       \* the system itself: audio, wifi, bt, vol, mudo, crudo, auto, perfil, noche, despierto, dnd, suena
  cola,      \* requests the system service has not carried out
  escritor,  \* a raw brightness the writer's thread has not written, -1 for none
  t,         \* the card, Nada when closed
  pintada,   \* what its canvas shows
  consulta, lectura, \* the reading the thread is making, and the one it left
  dedo,      \* the volume the finger left, -1 when another changed it since
  fresca,    \* the card was read again since the last change
  pulsos, cambios, aperturas

vars == <<sis, cola, escritor, t, pintada, consulta, lectura, dedo, fresca, pulsos,
          cambios, aperturas>>
cuentas == <<pulsos, cambios, aperturas>>
Nada == [clase |-> "nada"]

(* ---- Layout ---- *)
ANCHO == 352
MARGEN == 16
HUECO == 12
CABECERA == 52
BOTON_CABECERA == 40
CONEXION == 52
ICONO_CONEXION == 40
RELLENO_CONEXION == 6
COLUMNAS == 4
CELDA == 48
REJILLA_MARGEN == 14
ENTRE_FILAS == 14
GRUPO_MARGEN == 12
ENTRE_DESLIZADORES == 10
CARATULA == 48
AVANCE == 12
TIEMPOS == 14
REPRODUCIR == 44
ENTRE_MANDOS == 28
ALTO_MEDIOS == GRUPO_MARGEN * 2 + CARATULA + 10 + AVANCE + 6 + TIEMPOS + 10 + REPRODUCIR
PILDORA == 24
BOTON == 32
AIRE == 10
ICONO == 18
MARGEN_AGARRE == 6
Baldosas == <<"avion", "notificaciones", "ahorro", "mantener", "noche", "compartir",
              "captura", "bloquear">>

Filas == (Len(Baldosas) + COLUMNAS - 1) \div COLUMNAS
AltoRejilla == REJILLA_MARGEN * 2 + Filas * CELDA + (Filas - 1) * ENTRE_FILAS
AltoDeslizadores == GRUPO_MARGEN * 2 + BOTON * 2 + ENTRE_DESLIZADORES
YConexiones == MARGEN + CABECERA + HUECO
YRejilla == YConexiones + CONEXION + HUECO
YDeslizadores == YRejilla + AltoRejilla + HUECO
YMedios == YDeslizadores + AltoDeslizadores + HUECO

\* baldosa_en: the tile of a point, 0 for none.
BaldosaEn(x, y) ==
  LET x0 == MARGEN + REJILLA_MARGEN
      y0 == YRejilla + REJILLA_MARGEN
      columna == (x - x0) \div ((ANCHO - x0 * 2) \div COLUMNAS)
      i == ((y - y0) \div (CELDA + ENTRE_FILAS)) * COLUMNAS + columna
  IN  IF x < x0 \/ y < y0 \/ columna >= COLUMNAS \/ i >= Len(Baldosas) THEN 0 ELSE i + 1

ConexionEn(x, y) ==
  IF y < YConexiones \/ y > YConexiones + CONEXION \/ x < MARGEN \/ x > ANCHO - MARGEN
  THEN "nada" ELSE IF x > ANCHO \div 2 THEN "bt" ELSE "wifi"
InicioDe(c) == IF c = "bt" THEN ANCHO \div 2 + 4 ELSE MARGEN
EnCirculo(x, c) == x < InicioDe(c) + RELLENO_CONEXION + ICONO_CONEXION
OrigenDe(c) == [x |-> InicioDe(c), y |-> YConexiones,
                w |-> (ANCHO - MARGEN * 2 - 8) \div 2, h |-> CONEXION]

CabeceraEn(x, y) ==
  LET y0 == MARGEN + (CABECERA - BOTON_CABECERA) \div 2
      apagar == ANCHO - MARGEN - BOTON_CABECERA
      preferencias == apagar - 8 - BOTON_CABECERA
  IN  IF y < y0 \/ y > y0 + BOTON_CABECERA THEN "nada"
      ELSE IF x >= apagar /\ x <= apagar + BOTON_CABECERA THEN "apagar"
      ELSE IF x >= preferencias /\ x <= preferencias + BOTON_CABECERA THEN "preferencias"
      ELSE "nada"

RectPildora(cual) ==
  [x |-> MARGEN + GRUPO_MARGEN + ICONO + AIRE,
   y |-> YDeslizadores + GRUPO_MARGEN + (BOTON - PILDORA) \div 2
         + (IF cual = "bri" THEN BOTON + ENTRE_DESLIZADORES ELSE 0),
   w |-> ANCHO - (MARGEN + GRUPO_MARGEN) * 2 - ICONO - AIRE - (BOTON + AIRE),
   h |-> PILDORA]
RectBoton(cual) == LET p == RectPildora(cual) IN
  [x |-> p.x + p.w + AIRE, y |-> p.y - (BOTON - PILDORA) \div 2, w |-> BOTON, h |-> BOTON]
Contiene(r, x, y) == x >= r.x /\ x < r.x + r.w /\ y >= r.y /\ y < r.y + r.h
Holgada(r) == [r EXCEPT !.y = @ - MARGEN_AGARRE, !.h = @ + MARGEN_AGARRE * 2]
EnAvance(x, y) ==
  LET y0 == YMedios + GRUPO_MARGEN + CARATULA + 10
      x0 == MARGEN + GRUPO_MARGEN
  IN  y >= y0 - 6 /\ y <= y0 + AVANCE + 6 /\ x >= x0 - 4 /\ x <= ANCHO - x0 + 4
MedioEn(x, y) ==
  LET y0 == YMedios + ALTO_MEDIOS - GRUPO_MARGEN - REPRODUCIR
      centro == ANCHO \div 2
      mitad == REPRODUCIR \div 2
      alcance == mitad + ENTRE_MANDOS + 22
  IN  IF y < y0 \/ y > y0 + REPRODUCIR \/ x < centro - alcance \/ x > centro + alcance THEN "nada"
      ELSE IF x < centro - mitad THEN "anterior"
      ELSE IF x > centro + mitad THEN "siguiente" ELSE "alternar"
Acotar(n, a, b) == IF n < a THEN a ELSE IF n > b THEN b ELSE n
Redondeo(a, b) == (2 * a + b) \div (2 * b)
\* control::nivel_en: the level of a point of a slider.
NivelEn(x) == LET r == RectPildora("vol") IN
  Redondeo(100 * Acotar(x - r.x - PILDORA \div 2, 0, r.w - PILDORA), r.w - PILDORA)

Alto(c) == MARGEN * 2 + CABECERA + HUECO + CONEXION + HUECO + AltoRejilla + HUECO
           + AltoDeslizadores + (IF c.suena # Nada THEN HUECO + ALTO_MEDIOS ELSE 0)

(* ---- What the card copies ---- *)
\* A radio is "nada" with no service, "no" off, "si" on and "con" connected.
Hay(r) == r # "nada"
Avion == sis.wifi = "no" /\ sis.bt = "no"
Brillo == IF MaxCrudo = 0 THEN 0 ELSE (100 * sis.crudo) \div MaxCrudo   \* read_brightness truncates
Automatico == Sensor /\ sis.auto

Nueva ==
  [clase |-> "centro", wifi |-> sis.wifi, bt |-> sis.bt, audio |-> sis.audio, vol |-> sis.vol,
   mudo |-> sis.mudo, bri |-> Brillo, auto |-> Automatico, agarre |-> "nada", inicial |-> 0,
   suena |-> sis.suena, detalle |-> "nada", transicion |-> Nada, origen |-> Nada,
   avion |-> Avion, ahorro |-> sis.perfil = "power-saver", mantener |-> sis.despierto,
   noche |-> sis.noche, dnd |-> sis.dnd]

\* A slip: the slider under the finger is read again too.
RefrescadaConAgarre(c) ==
  [c EXCEPT !.wifi = sis.wifi, !.bt = sis.bt, !.mudo = sis.mudo, !.avion = Avion,
            !.vol = sis.vol, !.bri = Brillo, !.auto = Automatico,
            !.suena = IF lectura.clase = "lectura" THEN lectura.suena ELSE c.suena]

\* refrescar: a grabbed slider is not read again; nor are four of the tiles.
Refrescada(c) ==
  LET d == [c EXCEPT !.wifi = sis.wifi, !.bt = sis.bt, !.avion = Avion, !.audio = sis.audio,
                     !.mudo = IF sis.audio THEN sis.mudo ELSE c.mudo,
                     !.vol = IF c.agarre = "vol" \/ ~sis.audio THEN c.vol ELSE sis.vol,
                     !.suena = IF lectura.clase = "lectura" THEN lectura.suena ELSE c.suena]
  IN  IF c.agarre = "bri" THEN d ELSE [d EXCEPT !.bri = Brillo, !.auto = Automatico]
(* ---- Its picture ---- *)
Conexion(r) == CASE r = "nada" -> "No disponible" [] r = "con" -> "red"
                 [] r = "si" -> "Sin conexion" [] OTHER -> "Desactivado"
IconoVolumen(c) == CASE c.mudo \/ c.vol = 0 -> "silencio"
                     [] ~c.mudo /\ c.vol \in 1..33 -> "bajo"
                     [] ~c.mudo /\ c.vol \in 34..66 -> "medio"
                     [] OTHER -> "alto"
IconoBrillo(c) == IF Sensor /\ c.auto THEN "automatico" ELSE "brillo"
Encendidas(c) == {b \in {"avion", "notificaciones", "ahorro", "mantener", "noche"} :
                    CASE b = "avion" -> c.avion [] b = "notificaciones" -> c.dnd
                      [] b = "ahorro" -> c.ahorro [] b = "mantener" -> c.mantener
                      [] OTHER -> c.noche}
Vista(c) ==
  IF c.detalle # "nada" THEN [clase |-> "lista", de |-> c.detalle]
  ELSE [clase |-> "estacion", wifi |-> Conexion(c.wifi), bt |-> Conexion(c.bt),
        vol |-> c.vol, icono |-> IconoVolumen(c), bri |-> c.bri, sol |-> IconoBrillo(c),
        baldosas |-> Encendidas(c), medios |-> c.suena, alto |-> Alto(c)]
\* Whoever invalidates the canvas has it painted before the next event.
Pintar == pintada' = IF t' = Nada THEN Nada ELSE Vista(t')

(* ---- Orders ---- *)
Pide(op) == cola' = Append(cola, op)
PonerVolumen(c, nivel) ==
  /\ t' = [c EXCEPT !.vol = nivel]
  /\ dedo' = nivel
  /\ IF nivel = c.vol THEN UNCHANGED cola ELSE Pide([clase |-> "vol", a |-> nivel])
  /\ UNCHANGED escritor
PonerBrillo(c, pedido) ==
  LET nivel == Acotar(pedido, 5, 100) IN
  /\ IF MaxCrudo = 0 \/ nivel = c.bri THEN t' = c /\ UNCHANGED escritor
     ELSE /\ t' = [c EXCEPT !.bri = nivel]
          /\ escritor' = Redondeo(MaxCrudo * nivel, 100)
  /\ UNCHANGED <<cola, dedo>>

(* ---- A press ---- *)
\* The zone of a point, in the order pulsar asks.
Zona(c, x, y) ==
  CASE Contiene(RectBoton("vol"), x, y) -> "mudo"
    [] Sensor /\ Contiene(RectBoton("bri"), x, y) -> "auto"
    [] CabeceraEn(x, y) # "nada" -> CabeceraEn(x, y)
    [] Contiene(Holgada(RectPildora("vol")), x, y) -> "vol"
    [] Contiene(Holgada(RectPildora("bri")), x, y) -> "bri"
    [] EnAvance(x, y) /\ c.suena # Nada -> "avance"
    [] c.suena # Nada /\ MedioEn(x, y) # "nada" -> MedioEn(x, y)
    [] ConexionEn(x, y) # "nada" -> IF EnCirculo(x, ConexionEn(x, y)) THEN "radio" ELSE "conexion"
    [] BaldosaEn(x, y) # 0 -> Baldosas[BaldosaEn(x, y)]
    [] OTHER -> "nada"

Quieto == UNCHANGED <<cola, escritor, dedo>>
PulsarMudo ==
  /\ IF t.audio THEN t' = [t EXCEPT !.mudo = ~@] /\ Pide([clase |-> "mudo", a |-> ~t.mudo])
     ELSE UNCHANGED <<t, cola>>
  /\ UNCHANGED <<sis, escritor, dedo>>
PulsarAuto == /\ t' = [t EXCEPT !.auto = ~@]
              /\ sis' = [sis EXCEPT !.auto = ~t.auto]
              /\ Quieto
\* saltar_en moves the player by a difference with the position last read.
PulsarAvance == /\ t' = t /\ UNCHANGED sis /\ Quieto
PulsarOrden(orden) ==
  \/ UNCHANGED <<sis, t>> /\ Quieto                      \* the player does not answer
  \/ /\ sis.suena # Nada
     /\ IF orden = "alternar"
        THEN /\ sis' = [sis EXCEPT !.suena.toca = ~@]
             /\ t' = [t EXCEPT !.suena.toca = ~@]
        ELSE UNCHANGED <<sis, t>>
     /\ Quieto
PulsarRadio(c) ==
  /\ IF Hay(t[c]) THEN Pide([clase |-> c, a |-> t[c] = "no"]) ELSE UNCHANGED cola
  /\ UNCHANGED <<sis, t, escritor, dedo>>
PulsarConexion(c) ==
  /\ t' = IF Hay(t[c]) THEN [t EXCEPT !.detalle = c, !.origen = OrigenDe(c),
                                      !.transicion = [clase |-> "abrir", de |-> OrigenDe(c)]]
          ELSE t
  /\ UNCHANGED sis /\ Quieto
PulsarBaldosa(b) ==
  CASE b = "avion" -> /\ Pide([clase |-> "avion", a |-> ~t.avion])
                      /\ UNCHANGED <<sis, t, escritor, dedo>>
    [] b = "ahorro" -> /\ t' = [t EXCEPT !.ahorro = ~@]
                       /\ sis' = [sis EXCEPT !.perfil = IF t.ahorro THEN "balanced"
                                                        ELSE "power-saver"]
                       /\ Quieto
    [] b = "mantener" -> /\ t' = [t EXCEPT !.mantener = ~sis.despierto]
                         /\ sis' = [sis EXCEPT !.despierto = ~@]
                         /\ Quieto
    [] b = "noche" -> /\ t' = [t EXCEPT !.noche = ~@]
                      /\ sis' = [sis EXCEPT !.noche = ~t.noche]
                      /\ Quieto
    [] OTHER -> t' = Nada /\ UNCHANGED sis /\ Quieto   \* another card, or an application

EnEstacion(x, y) ==
  LET z == Zona(t, x, y) IN
  CASE z = "mudo" -> PulsarMudo
    [] z = "auto" -> PulsarAuto
    [] z \in {"apagar", "preferencias"} -> t' = Nada /\ UNCHANGED sis /\ Quieto
    [] z = "vol" -> /\ PonerVolumen([t EXCEPT !.agarre = "vol", !.inicial = t.vol], NivelEn(x))
                    /\ UNCHANGED sis
    [] z = "bri" -> PonerBrillo([t EXCEPT !.agarre = "bri"], NivelEn(x)) /\ UNCHANGED sis
    [] z = "avance" -> PulsarAvance
    [] z \in {"anterior", "alternar", "siguiente"} -> PulsarOrden(z)
    [] z = "radio" -> PulsarRadio(ConexionEn(x, y))
    [] z = "conexion" -> PulsarConexion(ConexionEn(x, y))
    [] z = "nada" -> UNCHANGED <<sis, t>> /\ Quieto
    [] OTHER -> PulsarBaldosa(z)

\* volver: back from a list to the station, which is read again.
Vuelta == [Refrescada(t) EXCEPT !.detalle = "nada",
             !.transicion = [clase |-> "cerrar", de |-> t.origen]]
EnLaFlecha(x, y) == x - 8 \in 12..52 /\ y \in 16..48
Volver == /\ t' = Vuelta
          /\ lectura' = Nada
          /\ UNCHANGED sis /\ Quieto

Servido == cola = <<>> /\ escritor = -1 /\ fresca
Pulsar(p) ==
  /\ t # Nada /\ t.agarre = "nada" /\ pulsos < MaxPulsos
  /\ Impaciente \/ Servido \/ t.detalle # "nada"
  /\ IF t.detalle # "nada"
     THEN IF EnLaFlecha(p[1], p[2]) THEN Volver
          ELSE UNCHANGED <<sis, t, lectura>> /\ Quieto      \* a row of the list
     ELSE EnEstacion(p[1], p[2]) /\ lectura' = IF t' = Nada THEN Nada ELSE lectura
  /\ consulta' = IF t' = Nada THEN Nada ELSE consulta
  /\ fresca' = FALSE
  /\ pulsos' = pulsos + 1
  /\ UNCHANGED <<cambios, aperturas>>
  /\ Pintar

Arrastrar(p) ==
  /\ t # Nada /\ t.agarre # "nada" /\ t.detalle = "nada"
  /\ IF t.agarre = "vol" THEN PonerVolumen(t, NivelEn(p[1])) ELSE PonerBrillo(t, NivelEn(p[1]))
  /\ t' # t
  /\ pulsos < MaxPulsos /\ pulsos' = pulsos + 1
  /\ fresca' = FALSE
  /\ UNCHANGED <<sis, consulta, lectura, cambios, aperturas>>
  /\ Pintar

Soltar ==
  /\ t # Nada /\ t.agarre # "nada"
  /\ t' = [t EXCEPT !.agarre = "nada"]
  /\ IF t.agarre = "vol" /\ t.vol # t.inicial THEN Pide([clase |-> "vol", a |-> t.vol])
     ELSE UNCHANGED cola
  /\ fresca' = FALSE
  /\ UNCHANGED <<sis, escritor, consulta, lectura, dedo, cuentas>>
  /\ Pintar

Escape ==
  /\ t # Nada
  /\ IF t.detalle # "nada" THEN Volver
     ELSE t' = Nada /\ lectura' = Nada /\ UNCHANGED sis /\ Quieto
  /\ consulta' = IF t' = Nada THEN Nada ELSE consulta
  /\ UNCHANGED <<fresca, cuentas>>
  /\ Pintar

\* The compositor takes the transition as soon as it synchronizes the card.
TomarTransicion ==
  /\ t # Nada /\ t.transicion # Nada
  /\ t' = [t EXCEPT !.transicion = Nada]
  /\ UNCHANGED <<sis, cola, escritor, pintada, consulta, lectura, dedo, fresca, cuentas>>

Abrir ==
  /\ t = Nada /\ aperturas < MaxAperturas
  /\ t' = Nueva
  /\ aperturas' = aperturas + 1
  /\ fresca' = TRUE
  /\ UNCHANGED <<sis, cola, escritor, consulta, lectura, dedo, pulsos, cambios>>
  /\ Pintar

(* ---- Every second ---- *)
\* The fields whose change repaints; the second hand compares them all.
Segundo ==
  /\ t # Nada
  /\ IF t.detalle # "nada" THEN UNCHANGED <<t, lectura, fresca>>
     ELSE /\ t' = Refrescada(t)
          /\ lectura' = Nada
          /\ fresca' = (t.agarre = "nada")
  /\ <<t', lectura', fresca'>> # <<t, lectura, fresca>>
  /\ UNCHANGED <<sis, cola, escritor, consulta, dedo, cuentas>>
  /\ IF t' # t THEN Pintar ELSE UNCHANGED pintada

Consultar ==
  /\ t # Nada /\ consulta = Nada
  /\ t.suena # sis.suena
  /\ consulta' = [clase |-> "lectura", suena |-> sis.suena]
  /\ UNCHANGED <<sis, cola, escritor, t, pintada, lectura, dedo, fresca, cuentas>>
Dejar ==
  /\ consulta # Nada
  /\ lectura' = consulta
  /\ consulta' = Nada
  /\ fresca' = FALSE
  /\ UNCHANGED <<sis, cola, escritor, t, pintada, dedo, cuentas>>

(* ---- The owners of the state ---- *)
ConRadio(r, si) == IF r = "nada" THEN r ELSE IF si THEN (IF r = "con" THEN r ELSE "si") ELSE "no"
Servir ==
  /\ cola # <<>>
  /\ cola' = Tail(cola)
  /\ LET op == Head(cola) IN
     sis' = CASE op.clase = "vol"  -> [sis EXCEPT !.vol = op.a]
              [] op.clase = "mudo" -> [sis EXCEPT !.mudo = op.a]
              [] op.clase = "avion" -> [sis EXCEPT !.wifi = ConRadio(@, ~op.a),
                                                   !.bt = ConRadio(@, ~op.a)]
              [] OTHER -> [sis EXCEPT ![op.clase] = ConRadio(@, op.a)]
  /\ fresca' = FALSE
  /\ UNCHANGED <<escritor, t, pintada, consulta, lectura, dedo, cuentas>>
Escribir ==
  /\ escritor # -1
  /\ sis' = [sis EXCEPT !.crudo = escritor]
  /\ escritor' = -1
  /\ fresca' = FALSE
  /\ UNCHANGED <<cola, t, pintada, consulta, lectura, dedo, cuentas>>

\* Somebody else: a volume key, the schedule of the night light, another program.
CambiaFuera(a) ==
  /\ cambios < MaxCambios
  /\ cambios' = cambios + 1
  /\ sis' = [k \in DOMAIN sis |-> IF k \in DOMAIN a THEN a[k] ELSE sis[k]]
  /\ sis' # sis
  /\ dedo' = IF sis'.vol # sis.vol THEN -1 ELSE dedo
  /\ fresca' = FALSE
  /\ UNCHANGED <<cola, escritor, t, pintada, consulta, lectura, pulsos, aperturas>>

Init ==
  /\ sis \in Sistemas
  /\ cola = <<>> /\ escritor = -1 /\ t = Nada /\ pintada = Nada
  /\ consulta = Nada /\ lectura = Nada /\ dedo = -1 /\ fresca = FALSE
  /\ pulsos = 0 /\ cambios = 0 /\ aperturas = 0

Next ==
  \/ \E p \in Puntos : Pulsar(p) \/ Arrastrar(p)
  \/ \E a \in Ajenos : CambiaFuera(a)
  \/ Soltar \/ Escape \/ TomarTransicion \/ Abrir \/ Segundo
  \/ Consultar \/ Dejar \/ Servir \/ Escribir

Spec == Init /\ [][Next]_vars

(* ---- Properties ---- *)
Radios == {"nada", "no", "si", "con"}
TypeOK ==
  /\ sis.wifi \in Radios /\ sis.bt \in Radios /\ sis.vol \in 0..100
  /\ sis.crudo \in 0..MaxCrudo /\ escritor \in -1..MaxCrudo /\ dedo \in -1..100
  /\ t # Nada => /\ t.wifi \in Radios /\ t.bt \in Radios /\ t.vol \in 0..100
                 /\ t.bri \in 0..100 /\ t.agarre \in {"nada", "vol", "bri"}
                 /\ t.detalle \in {"nada", "wifi", "bt"}
  /\ fresca \in BOOLEAN /\ Len(cola) <= MaxPulsos + 1

\* The canvas always shows the card as it is: no handler forgets to repaint.
PintadaAlDia == pintada = IF t = Nada THEN Nada ELSE Vista(t)

\* Once read again, what the second hand reads is what the system is.
CopiaFiel ==
  (t # Nada /\ fresca /\ t.agarre = "nada" /\ t.detalle = "nada") =>
    /\ t.wifi = sis.wifi /\ t.bt = sis.bt /\ t.avion = Avion
    /\ sis.audio => t.vol = sis.vol /\ t.mudo = sis.mudo
    /\ t.bri = Brillo /\ t.auto = Automatico

\* With every request carried out the volume is where the finger left it, through
\* any refresh in the middle of the drag, unless somebody else moved it since.
VolumenDelDedo ==
  (\A i \in DOMAIN cola : cola[i].clase # "vol") => dedo \in {-1, sis.vol}

\* The screen never goes dark by the slider.
SueloDelBrillo == escritor # -1 => escritor >= Redondeo(MaxCrudo * 5, 100)

\* A list opens from its own pill and goes back to it.
DetalleDesdeSuPildora ==
  /\ (t # Nada /\ t.detalle # "nada") => t.origen = OrigenDe(t.detalle)
  /\ (t # Nada /\ t.transicion # Nada) =>
       /\ t.transicion.de = t.origen
       /\ (t.transicion.clase = "abrir") = (t.detalle # "nada")

\* No point of the card answers for two zones: the order of the questions in
\* pulsar decides nothing.  The layout does not move: it is asked before the card opens.
ZonasDe(x, y) ==
  {z \in {"mudo", "auto", "cabecera", "vol", "bri", "avance", "medio", "conexion", "baldosa"} :
     CASE z = "mudo" -> Contiene(RectBoton("vol"), x, y)
       [] z = "auto" -> Contiene(RectBoton("bri"), x, y)
       [] z = "cabecera" -> CabeceraEn(x, y) # "nada"
       [] z = "vol" -> Contiene(Holgada(RectPildora("vol")), x, y)
       [] z = "bri" -> Contiene(Holgada(RectPildora("bri")), x, y)
       [] z = "avance" -> EnAvance(x, y)
       [] z = "medio" -> MedioEn(x, y) # "nada"
       [] z = "conexion" -> ConexionEn(x, y) # "nada"
       [] OTHER -> BaldosaEn(x, y) # 0}
SinSolape == (aperturas = 0 /\ cambios = 0) =>
  \A i \in 0..70 : \A j \in 0..120 : \A a, b \in ZonasDe(5 * i, 5 * j) : a = b

CentroEnOrden == /\ PintadaAlDia /\ CopiaFiel /\ VolumenDelDedo /\ SueloDelBrillo
                 /\ DetalleDesdeSuPildora /\ SinSolape

\* Once read again the tiles too are what the system is (emergente/centro.rs:
\* a tile in the accent colour is one that is on).
BaldosasVeraces ==
  (t # Nada /\ fresca /\ t.agarre = "nada" /\ t.detalle = "nada") =>
    /\ t.noche = sis.noche /\ t.ahorro = (sis.perfil = "power-saver")
    /\ t.mantener = sis.despierto /\ t.dnd = sis.dnd

\* A press on the button of the volume shows: muted and sounding look different.
MudoSeNota ==
  [][(cola' # cola /\ Len(cola') > Len(cola) /\ cola'[Len(cola')].clase = "mudo")
       => pintada'.icono # pintada.icono]_vars
====
