---- MODULE Snip ----
(***************************************************************************)
(* The screen capture layer: the rectangle being framed, its bar of cells, *)
(* the cursor it asks for, and the photograph that is finally cut out of   *)
(* the frame (bookos-shell captura.rs, its glue in lib.rs and shell.rs,    *)
(* bookos-comp captura.rs, servir_captura_propia).                         *)
(*                                                                         *)
(* Lengths are whole numbers of a unit; UNIDAD units make a logical pixel  *)
(* and EscN / EscD physical pixels make one logical pixel.                 *)
(***************************************************************************)
EXTENDS Integers, Sequences, FiniteSets

CONSTANTS Ancho, Alto,        \* the screen
          MINIMO, AGARRE,     \* smallest rectangle; reach of an edge
          CELDA_W, CELDA_H, CELDA_HUECO, DIVISOR_HUECO,
          BARRA_PADDING, BARRA_ALTO, BARRA_MARGEN,
          PASTILLA_ANCHO, PASTILLA_ALTO, PASTILLA_HUECO,
          Puntos,             \* where the pointer may be, off the screen too
          UNIDAD, EscN, EscD,
          Volteada,           \* the scene is upside down in the framebuffer
          MaxPulsos,          \* bound: presses and keys in a life of the layer
          MaxFotos,           \* bound: photographs taken
          MismoSegundo,       \* two photographs may fall in the same second
          TeclaEnArrastre     \* Intro may come with a drag under way

VARIABLES abierta,    \* ShellHost::captura.is_some()
          modo, arrastre, hecho, senalada,
          puntero,    \* BookosComp::pointer_location
          barra,      \* what the painted bar shows: lit mode, hover, dimmed
          pastilla,   \* the measures the painted pill shows
          cursor,     \* BookosComp::cursor_status
          pedida,     \* BookosComp::captura_pedida, with the hole last seen
          foto,       \* the last photograph
          guardadas,  \* photographs saved, and the names on the disk
          nombres, segundo, pulsos, fotos

capa   == <<modo, arrastre, hecho, senalada>>
vista  == <<barra, pastilla>>
disco  == <<guardadas, nombres, segundo>>
cuenta == <<pulsos, fotos>>
vars == <<abierta, capa, puntero, vista, cursor, pedida, foto, disco, cuenta>>

Nada == [clase |-> "nada"]
Modos == <<"pantalla", "seleccion">>
Destinos == <<"copiar", "guardar">>
Menor(a, b) == IF a < b THEN a ELSE b
Mayor(a, b) == IF a > b THEN a ELSE b
Acotado(v, max) == Mayor(0, Menor(v, max))
Valor(a) == IF a < 0 THEN -a ELSE a

(* ---- The rectangle ---- *)
Rect(x, y, w, h) == [clase |-> "rect", x |-> x, y |-> y, w |-> w, h |-> h]
Entre(a, b) == Rect(Menor(a[1], b[1]), Menor(a[2], b[2]),
                    Valor(b[1] - a[1]), Valor(b[2] - a[2]))
Vale(r) == r.w >= MINIMO /\ r.h >= MINIMO
SiVale(r) == IF r # Nada /\ Vale(r) THEN r ELSE Nada

Lado(p, ini, fin) == CASE Valor(p - ini) <= AGARRE -> "inicio"
                       [] Valor(p - ini) > AGARRE /\ Valor(p - fin) <= AGARRE -> "fin"
                       [] OTHER -> "ninguno"
\* By where the rectangle is taken: the side of each axis; "fuera" is None.
AgarreEn(r, p) ==
  IF /\ p[1] >= r.x - AGARRE /\ p[1] <= r.x + r.w + AGARRE
     /\ p[2] >= r.y - AGARRE /\ p[2] <= r.y + r.h + AGARRE
  THEN <<Lado(p[1], r.x, r.x + r.w), Lado(p[2], r.y, r.y + r.h)>>
  ELSE <<"fuera", "fuera">>
Fuera == <<"fuera", "fuera">>
Mover == <<"ninguno", "ninguno">>

Tira(lado, ini, fin, d, max) ==
  CASE lado = "inicio" -> <<Acotado(ini + d, max), fin>>
    [] lado = "fin"    -> <<ini, Acotado(fin + d, max)>>
    [] OTHER           -> <<ini, fin>>
Ajustado(r, agarre, d) ==
  IF agarre = Mover
  THEN [r EXCEPT !.x = Acotado(r.x + d[1], Mayor(0, Ancho - r.w)),
                 !.y = Acotado(r.y + d[2], Mayor(0, Alto - r.h))]
  ELSE LET ex == Tira(agarre[1], r.x, r.x + r.w, d[1], Ancho)
           ey == Tira(agarre[2], r.y, r.y + r.h, d[2], Alto)
       IN  Entre(<<ex[1], ey[1]>>, <<ex[2], ey[2]>>)

(* ---- What is marked ---- *)
MarcandoCon(a, h) ==
  CASE a.clase = "nuevo"  -> Entre(a.desde, a.hasta)
    [] a.clase = "ajuste" -> Ajustado(a.antes, a.agarre,
                               <<a.hasta[1] - a.desde[1], a.hasta[2] - a.desde[2]>>)
    [] OTHER -> h
RecuadroCon(m, a, h) == IF m = "pantalla" THEN Rect(0, 0, Ancho, Alto)
                        ELSE SiVale(MarcandoCon(a, h))
Recuadro == RecuadroCon(modo, arrastre, hecho)
MedidasDe(m, r) == IF m = "pantalla" \/ r = Nada THEN <<>>
                   ELSE <<r.w \div UNIDAD, r.h \div UNIDAD>>
OrigenPastilla(r) ==
  <<Acotado(r.x + (r.w - PASTILLA_ANCHO) \div 2, Mayor(0, Ancho - PASTILLA_ANCHO)),
    IF r.y + r.h + PASTILLA_HUECO + PASTILLA_ALTO <= Alto
    THEN r.y + r.h + PASTILLA_HUECO
    ELSE Mayor(0, r.y + r.h - PASTILLA_ALTO - PASTILLA_HUECO)>>

(* ---- The bar ---- *)
Celdas == Len(Modos) + Len(Destinos)
AnchoBarra == CELDA_W * Celdas + CELDA_HUECO * (Celdas - 1) + DIVISOR_HUECO
              + BARRA_PADDING * 2
XBarra == (Ancho - AnchoBarra) \div 2
YBarra == Alto - BARRA_MARGEN - BARRA_ALTO
XCelda(i) == XBarra + BARRA_PADDING + (i - 1) * (CELDA_W + CELDA_HUECO)
             + IF i > Len(Modos) THEN DIVISOR_HUECO ELSE 0
\* The cell under a point, 0 for none.
CeldaEn(p) ==
  LET bajo == {i \in 1..Celdas : p[1] >= XCelda(i) /\ p[1] < XCelda(i) + CELDA_W}
      y0 == YBarra + BARRA_PADDING
  IN  IF p[2] < y0 \/ p[2] > y0 + CELDA_H \/ bajo = {} THEN 0
      ELSE CHOOSE i \in bajo : \A j \in bajo : i <= j
EnLaBarra(p) == /\ p[1] >= XBarra /\ p[1] <= XBarra + AnchoBarra
                /\ p[2] >= YBarra /\ p[2] <= YBarra + BARRA_ALTO

(* ---- The cursor ---- *)
AjustableCon(m, h) == IF m = "seleccion" THEN h ELSE Nada
AgarreDe(p, m, h) == IF AjustableCon(m, h) = Nada THEN Fuera ELSE AgarreEn(h, p)
FormaDeAgarre(g) ==
  CASE g = Fuera -> "cruz"
    [] g = Mover -> "mover"
    [] g # Fuera /\ g # Mover /\ g[1] = "ninguno" -> "vertical"
    [] g[1] # "ninguno" /\ g[2] = "ninguno" -> "horizontal"
    [] g[1] # "ninguno" /\ g # Fuera /\ g[1] = g[2] -> "bajando"
    [] OTHER -> "subiendo"
Forma(p, m, a, h) ==
  CASE a.clase = "nuevo"  -> "cruz"
    [] a.clase = "ajuste" -> FormaDeAgarre(a.agarre)
    [] a = Nada /\ EnLaBarra(p) -> "flecha"
    [] OTHER -> FormaDeAgarre(AgarreDe(p, m, h))
\* cursor_de_captura: the last call of every handler of the layer.
CursorDeCaptura == cursor' = IF abierta' THEN Forma(puntero', modo', arrastre', hecho')
                             ELSE "flecha"

(* ---- Painting: the two canvases repaint only when told to ---- *)
BarraDe(m, s, r) == [modo |-> m, senalada |-> s, apagada |-> r = Nada]
\* captura_repintar_todo, then repintar_captura.
PintarTodo == LET r == RecuadroCon(modo', arrastre', hecho')
              IN  /\ barra' = BarraDe(modo', senalada', r)
                  /\ pastilla' = MedidasDe(modo', r)

(* ---- Opening and closing ---- *)
Abrir ==
  /\ ~abierta
  /\ abierta' = TRUE
  /\ modo' = "seleccion" /\ arrastre' = Nada /\ hecho' = Nada /\ senalada' = 0
  /\ PintarTodo
  /\ foto' = Nada
  /\ UNCHANGED <<puntero, pedida, disco, fotos>>
  /\ pulsos' = 0
  /\ CursorDeCaptura

CerrarCapa == /\ abierta' = FALSE
              /\ modo' = "seleccion" /\ arrastre' = Nada /\ hecho' = Nada
              /\ senalada' = 0
              /\ barra' = BarraDe("seleccion", 0, Nada) /\ pastilla' = <<>>

\* The same shortcut again, Escape, and the lock, which closes the layer first.
Cerrar ==
  /\ abierta
  /\ CerrarCapa
  /\ UNCHANGED <<puntero, pedida, foto, disco, cuenta>>
  /\ CursorDeCaptura

\* Accion::Capturar: the layer closes before the photograph is asked for.
Pedir(r, destino) ==
  /\ fotos < MaxFotos
  /\ CerrarCapa
  /\ pedida' = [clase |-> "pedida", x |-> r.x \div UNIDAD, y |-> r.y \div UNIDAD,
                ancho |-> r.w \div UNIDAD, alto |-> r.h \div UNIDAD,
                guardar |-> destino = "guardar", visto |-> r,
                modo |-> modo, hecho |-> hecho]
  /\ fotos' = fotos + 1
  /\ UNCHANGED <<puntero, foto, disco, pulsos>>

(* ---- The pointer ---- *)
Dentro(p) == <<Acotado(p[1], Ancho), Acotado(p[2], Alto)>>

MoverPuntero(p) ==
  /\ abierta /\ p # puntero
  /\ puntero' = p
  /\ senalada' = CeldaEn(p)
  /\ arrastre' = IF arrastre = Nada THEN Nada ELSE [arrastre EXCEPT !.hasta = Dentro(p)]
  /\ UNCHANGED <<abierta, modo, hecho, pedida, foto, disco, cuenta>>
  /\ LET r == RecuadroCon(modo, arrastre', hecho)
     IN  /\ barra' = IF senalada' # senalada THEN BarraDe(modo, senalada', r) ELSE barra
         /\ pastilla' = IF MedidasDe(modo, r) # MedidasDe(modo, Recuadro)
                        THEN MedidasDe(modo, r) ELSE pastilla
  /\ CursorDeCaptura

\* A press, of any button, under the pointer.
PulsarCelda ==
  /\ abierta /\ CeldaEn(puntero) # 0 /\ pulsos < MaxPulsos
  /\ LET i == CeldaEn(puntero) IN
     \/ /\ i <= Len(Modos)
        /\ modo' = Modos[i]
        /\ UNCHANGED <<abierta, arrastre, hecho, senalada, pedida, fotos>>
        /\ PintarTodo
        /\ pulsos' = pulsos + 1
        /\ UNCHANGED <<puntero, foto, disco>>
     \/ /\ i > Len(Modos) /\ Recuadro # Nada
        /\ Pedir(Recuadro, Destinos[i - Len(Modos)])
     \/ /\ i > Len(Modos) /\ Recuadro = Nada
        /\ UNCHANGED <<abierta, capa, puntero, vista, pedida, foto, disco, cuenta>>
  /\ CursorDeCaptura

PulsarVelo ==
  /\ abierta /\ ~EnLaBarra(puntero) /\ pulsos < MaxPulsos
  /\ LET g == AgarreDe(puntero, modo, hecho)
         p == Dentro(puntero) IN
     \/ /\ g # Fuera
        /\ arrastre' = [clase |-> "ajuste", antes |-> hecho, agarre |-> g,
                        desde |-> p, hasta |-> p]
        /\ UNCHANGED <<modo, hecho>>
     \/ /\ g = Fuera
        /\ modo' = "seleccion"
        /\ arrastre' = [clase |-> "nuevo", desde |-> p, hasta |-> p]
        /\ hecho' = Nada
  /\ UNCHANGED <<abierta, senalada, puntero, pedida, foto, disco, fotos>>
  /\ pulsos' = pulsos + 1
  /\ PintarTodo
  /\ CursorDeCaptura

\* A slip: what is let go is kept without asking whether it is worth it.
SoltarSinUmbral ==
  /\ abierta /\ arrastre # Nada
  /\ hecho' = MarcandoCon(arrastre, hecho)
  /\ arrastre' = Nada
  /\ UNCHANGED <<abierta, modo, senalada, puntero, pedida, foto, disco, cuenta>>
  /\ PintarTodo
  /\ CursorDeCaptura

Soltar ==
  /\ abierta /\ arrastre # Nada
  /\ LET nuevo == SiVale(MarcandoCon(arrastre, hecho))
     IN  hecho' = IF arrastre.clase = "ajuste" /\ nuevo = Nada
                  THEN arrastre.antes ELSE nuevo
  /\ arrastre' = Nada
  /\ UNCHANGED <<abierta, modo, senalada, puntero, pedida, foto, disco, cuenta>>
  /\ PintarTodo
  /\ CursorDeCaptura

(* ---- The keyboard ---- *)
Flecha ==
  /\ abierta /\ pulsos < MaxPulsos
  /\ modo' = IF modo = "pantalla" THEN "seleccion" ELSE "pantalla"
  /\ UNCHANGED <<abierta, arrastre, hecho, senalada, puntero, pedida, foto, disco, fotos>>
  /\ pulsos' = pulsos + 1
  /\ PintarTodo
  /\ CursorDeCaptura

Intro ==
  /\ abierta
  /\ TeclaEnArrastre \/ arrastre = Nada
  /\ Pedir(IF Recuadro = Nada THEN Rect(0, 0, Ancho, Alto) ELSE Recuadro, "copiar")
  /\ CursorDeCaptura

\* While the layer is open the buttons and the keys are all its own.
Pulsar == PulsarCelda \/ PulsarVelo
Tecla == Flecha \/ Intro

(* ---- The photograph ---- *)
Fisico(v) == (2 * v * EscN + EscD) \div (2 * EscD)
AnchoF == Fisico(Ancho \div UNIDAD)
AltoF  == Fisico(Alto \div UNIDAD)
\* region_gl: from rows counted from the top to rows of the memory.
RegionGl(y, h) == IF Volteada THEN AltoF - y - h ELSE y
\* The screen row that memory row m holds.
FilaEnMemoria(m) == IF Volteada THEN AltoF - 1 - m ELSE m
\* volcar: the rows of the copy, turned over when the scene is.
Volcar(filas) == IF Volteada THEN [i \in 1..Len(filas) |-> filas[Len(filas) + 1 - i]]
                 ELSE filas

\* The name is the moment, to the second.
GuardarPng == /\ MismoSegundo \/ segundo \notin nombres
              /\ guardadas' = guardadas + 1
              /\ nombres' = nombres \cup {segundo}

Servir ==
  /\ pedida # Nada
  /\ LET x0 == Fisico(pedida.x)
         y0 == Fisico(pedida.y)
         x1 == Menor(AnchoF, x0 + Mayor(1, Fisico(pedida.ancho)))
         y1 == Menor(AltoF, y0 + Mayor(1, Fisico(pedida.alto)))
         leidas == [i \in 1..(y1 - y0) |-> FilaEnMemoria(RegionGl(y0, y1 - y0) + i - 1)]
     IN  IF x0 < x1 /\ y0 < y1
         THEN foto' = [clase |-> "foto", x0 |-> x0, x1 |-> x1,
                       filas |-> Volcar(leidas), visto |-> pedida.visto]
         ELSE foto' = foto
  /\ pedida' = Nada
  /\ IF pedida.guardar THEN GuardarPng ELSE UNCHANGED <<guardadas, nombres>>
  /\ UNCHANGED <<abierta, capa, puntero, vista, cursor, segundo, cuenta>>

Segundo == /\ segundo \in nombres /\ segundo' = segundo + 1
           /\ UNCHANGED <<abierta, capa, puntero, vista, cursor, pedida, foto,
                          guardadas, nombres, cuenta>>

Init ==
  /\ abierta = FALSE /\ modo = "seleccion" /\ arrastre = Nada /\ hecho = Nada
  /\ senalada = 0 /\ puntero \in Puntos
  /\ barra = BarraDe("seleccion", 0, Nada) /\ pastilla = <<>> /\ cursor = "flecha"
  /\ pedida = Nada /\ foto = Nada
  /\ guardadas = 0 /\ nombres = {} /\ segundo = 0 /\ pulsos = 0 /\ fotos = 0

Next == \/ Abrir \/ Cerrar
        \/ \E p \in Puntos : MoverPuntero(p)
        \/ Pulsar \/ Soltar \/ Tecla
        \/ Servir \/ Segundo

Spec == Init /\ [][Next]_vars

(* ---- Properties ---- *)
Cabe(r) == /\ r.x >= 0 /\ r.y >= 0 /\ r.x + r.w <= Ancho /\ r.y + r.h <= Alto
TypeOK ==
  /\ abierta \in BOOLEAN /\ modo \in {"pantalla", "seleccion"}
  /\ arrastre.clase \in {"nada", "nuevo", "ajuste"}
  /\ hecho.clase \in {"nada", "rect"} /\ senalada \in 0..Celdas /\ puntero \in Puntos
  /\ fotos \in 0..MaxFotos /\ guardadas \in 0..MaxFotos /\ pulsos \in 0..MaxPulsos

\* What stays marked is worth a photograph and lies on the screen, however it
\* was dragged, pulled past its own far edge or pushed against the border.
MarcadoVale == hecho # Nada => Vale(hecho) /\ Cabe(hecho)

\* With no drag under way the bar and the pill show what is true: the lit
\* mode, the hovered cell, the dimmed destinations, the measures. They repaint
\* only on the events the shell lists.
PintadoAlDia == abierta =>
  /\ pastilla = MedidasDe(modo, Recuadro)
  /\ arrastre = Nada => barra = BarraDe(modo, senalada, Recuadro)

\* The cursor promises what a press there does: grab, move, mark or the bar.
CursorVeraz == (abierta /\ arrastre = Nada) =>
  /\ (cursor = "flecha") = EnLaBarra(puntero)
  /\ CeldaEn(puntero) # 0 => EnLaBarra(puntero)
  /\ ~EnLaBarra(puntero) => cursor = FormaDeAgarre(AgarreDe(puntero, modo, hecho))

\* The hole of the veil in physical pixels, as velo_captura rounds it.
HuecoDe(r) == LET f(u) == (2 * u * EscN + EscD * UNIDAD) \div (2 * EscD * UNIDAD)
              IN  [x0 |-> f(r.x), x1 |-> f(r.x + r.w), y0 |-> f(r.y), y1 |-> f(r.y + r.h)]

\* The photograph is the piece of the screen that was seen through the hole,
\* row by row from the top, whichever way the framebuffer is turned.
FotoDeLoMarcado == foto # Nada =>
  LET h == HuecoDe(foto.visto)
  IN  /\ foto.x0 = h.x0 /\ foto.x1 = h.x1
      /\ foto.filas = [i \in 1..(h.y1 - h.y0) |-> h.y0 + i - 1]

PastillaDentro == (abierta /\ modo = "seleccion" /\ Recuadro # Nada) =>
  LET o == OrigenPastilla(Recuadro)
  IN  /\ o[1] >= 0 /\ o[1] + PASTILLA_ANCHO <= Ancho
      /\ o[2] >= 0 /\ o[2] + PASTILLA_ALTO <= Alto

\* The framing layer keeps its word, all together.
CapturaEnOrden == MarcadoVale /\ PintadoAlDia /\ CursorVeraz /\ FotoDeLoMarcado
                  /\ PastillaDentro

\* servir_captura_propia says it rounds outwards so as not to lose half a row:
\* every physical pixel seen through the hole is in the photograph.
NadaSePierde == foto # Nada =>
  LET h == HuecoDe(foto.visto)
  IN  /\ foto.x0 <= h.x0 /\ foto.x1 >= h.x1
      /\ Len(foto.filas) > 0
      /\ foto.filas[1] <= h.y0 /\ foto.filas[Len(foto.filas)] >= h.y1 - 1

\* Intro copies the whole screen only if nothing was marked.
IntroCopiaLoMarcado ==
  (pedida # Nada /\ pedida.hecho # Nada /\ pedida.modo = "seleccion")
    => pedida.visto # Rect(0, 0, Ancho, Alto)

\* Every photograph saved is still on the disk under a name of its own.
CadaUnaEnSuFichero == guardadas = Cardinality(nombres)
====
