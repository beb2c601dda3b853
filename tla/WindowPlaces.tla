--------------------------- MODULE WindowPlaces ----------------------------
(***************************************************************************)
(* Where a window is (ventanas.rs, decoracion.rs): placed when it has a    *)
(* size, dragged or resized with the pointer, sent to a zone of the screen *)
(* by an edge, an arrow or a button, taken to the full screen and back to  *)
(* where it floated.  The position is the compositor's and changes at      *)
(* once; the size is asked, and the client answers when it likes.          *)
(***************************************************************************)
EXTENDS Integers, FiniteSets

CONSTANTS
  Salidas,      \* the outputs: rectangles; the bars are in the one at the origin
  Puntos,       \* where the pointer may be
  Tamanos, Nace,   \* the sizes a client chooses, and the one its window comes with
  PANEL, DOCK, ALTO,          \* what the bars reserve, and the height of a title bar
  BORDE, VISIBLE, MINIMO,     \* the edge that catches, what stays inside, the least size
  MaxCambios,   \* bound: drags, changes of size, of bar and of output, and bars that come or go
  Flechas,      \* bound: the arrows that may be pressed in the middle of a drag
  Lento         \* whether the client answers later than the next order

VARIABLES
  loc, tam, pedido,     \* the position, the size there is and the one asked
  colocada,             \* whether it has been placed
  zona, completa,       \* the zone it is in, or "no"; whether it is on the full screen
  restaurar,            \* where it goes back to, or Nada
  decorada,             \* whether the desktop draws its bar
  esquivan,             \* the bars that reserve nothing
  puntero, arrastre,    \* the pointer, and the drag under way, or Ninguno
  cambios,              \* counts towards MaxCambios
  flotante,             \* history: where it was left last with no way back
  hecho                 \* history: what put it where it is; see Peor
vars == <<loc, tam, pedido, colocada, zona, completa, restaurar, decorada, esquivan, puntero, arrastre, cambios,
          flotante, hecho>>
mando == <<esquivan, decorada, puntero>>

Rect(x, y, w, h) == [x |-> x, y |-> y, w |-> w, h |-> h]
Nada == Rect(0, 0, 0, 0)
Mayor(a, b) == IF a > b THEN a ELSE b
Menor(a, b) == IF a < b THEN a ELSE b
Entre(v, a, b) == IF v < a THEN a ELSE IF v > b THEN b ELSE v

(***************************************************************************)
(* The area: what the bars leave of the output under the pointer, and what *)
(* the title bar of the window leaves of that.                             *)
(***************************************************************************)
Contiene(r, p) == p.x >= r.x /\ p.y >= r.y /\ p.x < r.x + r.w /\ p.y < r.y + r.h
Pantalla(p) == CHOOSE r \in Salidas : Contiene(r, p)
Reserva(barra, esq) == IF barra \in esq THEN 0 ELSE IF barra = "panel" THEN PANEL ELSE DOCK
AreaDe(r, esq) ==
  IF r.x = 0 /\ r.y = 0
  THEN Rect(r.x, r.y + Reserva("panel", esq), r.w, r.h - Reserva("panel", esq) - Reserva("dock", esq))
  ELSE r
ConBarra(area, si) == IF si THEN Rect(area.x, area.y + ALTO, area.w, area.h - ALTO) ELSE area
WorkArea(p) == AreaDe(Pantalla(p), esquivan)
AreaUtil(p) == ConBarra(WorkArea(p), decorada /\ ~completa)

\* confinar: the top is hard; to the sides and below something always stays inside.
Confinar(l, t, area) ==
  LET asomo == Menor(VISIBLE, t.w) IN
  Rect(Entre(l.x, area.x - Mayor(t.w - asomo, 0), area.x + area.w - asomo),
       Entre(l.y, area.y, area.y + area.h - Menor(VISIBLE, t.h)), t.w, t.h)
Zonas == {"maxima", "izq", "der", "supizq", "supder", "infizq", "infder"}
RectDe(z, a) ==
  LET mw == a.w \div 2  mh == a.h \div 2
      x == IF z \in {"der", "supder", "infder"} THEN a.x + mw ELSE a.x
      y == IF z \in {"infizq", "infder"} THEN a.y + mh ELSE a.y
  IN Rect(x, y,
          IF z = "maxima" THEN a.w ELSE IF x > a.x THEN a.w - mw ELSE mw,
          IF z \in {"maxima", "izq", "der"} THEN a.h ELSE IF y > a.y THEN a.h - mh ELSE mh)
ZonaEn(p, a) ==
  LET izquierda == p.x <= a.x + BORDE  derecha == p.x >= a.x + a.w - BORDE
      arriba == p.y <= a.y + a.h \div 4  abajo == p.y >= a.y + a.h - a.h \div 4
  IN CASE izquierda /\ arriba -> "supizq"
       [] izquierda /\ abajo -> "infizq"
       [] izquierda -> "izq"
       [] derecha /\ arriba -> "supder"
       [] derecha /\ abajo -> "infder"
       [] derecha -> "der"
       [] p.y <= a.y + BORDE -> "maxima"
       [] OTHER -> "no"
Vuelve(z, pares, otra) == IF \E p \in pares : p[1] = z THEN (CHOOSE p \in pares : p[1] = z)[2] ELSE otra
Empujar(z, hacia) ==
  CASE hacia = "arriba" ->
         Vuelve(z, {<<"no", "maxima">>, <<"izq", "supizq">>, <<"der", "supder">>,
                    <<"infizq", "izq">>, <<"infder", "der">>}, z)
    [] hacia = "abajo" ->
         Vuelve(z, {<<"izq", "infizq">>, <<"der", "infder">>, <<"supizq", "izq">>, <<"supder", "der">>}, "no")
    [] hacia = "izquierda" ->
         Vuelve(z, {<<"no", "izq">>, <<"maxima", "izq">>, <<"der", "no">>,
                    <<"supder", "supizq">>, <<"infder", "infizq">>}, z)
    [] OTHER ->
         Vuelve(z, {<<"no", "der">>, <<"maxima", "der">>, <<"izq", "no">>,
                    <<"supizq", "supder">>, <<"infizq", "infder">>}, z)

\* geometria_de: the side that is not pulled does not move, and the top keeps under the
\* panel.
Geometria(a, p, area) ==
  LET dx == p.x - a.inicio.x  dy == p.y - a.inicio.y
      w == Mayor(IF a.izquierda THEN a.geo.w - dx ELSE a.geo.w + dx, MINIMO)
      h == Mayor(IF a.arriba THEN a.geo.h - dy ELSE a.geo.h + dy, MINIMO)
      x == IF a.izquierda THEN a.geo.x + a.geo.w - w ELSE a.geo.x
      y == IF a.arriba THEN a.geo.y + a.geo.h - h ELSE a.geo.y
  IN IF a.modo = "mover" THEN Confinar([x |-> a.geo.x + dx, y |-> a.geo.y + dy], a.geo, area)
     ELSE IF y < area.y THEN Rect(x, area.y, w, Mayor(h - (area.y - y), MINIMO))
     ELSE Rect(x, y, w, h)
\* hueco: in the middle, unless another window has that corner.
Hueco(t, area, ocupada) ==
  LET c == Rect(area.x + Mayor(area.w - t.w, 0) \div 2, area.y + Mayor(area.h - t.h, 0) \div 2, t.w, t.h)
  IN IF ocupada /\ c.x + 1 + t.w <= area.x + area.w /\ c.y + 1 + t.h <= area.y + area.h
     THEN [c EXCEPT !.x = c.x + 1, !.y = c.y + 1] ELSE c

Cambio == cambios < MaxCambios /\ cambios' = cambios + 1
Ninguno == [modo |-> "no", izquierda |-> FALSE, arriba |-> FALSE, inicio |-> [x |-> 0, y |-> 0],
            geo |-> Nada, zona |-> "no", ordenado |-> FALSE]
Arrastre(modo, p, geo) == [Ninguno EXCEPT !.modo = modo, !.inicio = p, !.geo = geo]
Arrastrando == arrastre # Ninguno
Actual == Rect(loc.x, loc.y, tam.w, tam.h)
Sitio(r) == [x |-> r.x, y |-> r.y]
Mide(r) == [w |-> r.w, h |-> r.h]
Flota == zona = "no" /\ ~completa
\* An order is given once the client has answered the one before, or before: in any mode of
\* the window, and in the middle of a drag as well (bound: one in each drag).
Ordena == colocada /\ (Lento \/ tam = pedido) /\ ~arrastre.ordenado
\* An order puts it where it should be ("orden"); a hand only within reach ("mano"); an edge that
\* is pulled, or a drag that confines a size the window no longer has, not even that ("borde").
Peor(h) == IF hecho = "borde" THEN hecho ELSE h

Init ==
  /\ loc = [x |-> 0, y |-> 0] /\ tam = Nace /\ pedido = tam /\ colocada = FALSE /\ zona = "no"
  /\ completa = FALSE /\ restaurar = Nada /\ decorada \in BOOLEAN /\ esquivan = {}
  /\ puntero \in Puntos /\ arrastre = Ninguno /\ cambios = 0 /\ flotante = Nada
  /\ hecho = "orden"

(***************************************************************************)
(* Placing.                                                                *)
(***************************************************************************)
Poner(r) == loc' = Sitio(r) /\ UNCHANGED <<tam, pedido, hecho>> /\ flotante' = r
Colocar ==
  /\ ~colocada /\ colocada' = TRUE
  /\ \E ocupada \in BOOLEAN : Poner(Hueco(tam, AreaUtil(puntero), ocupada))
  /\ UNCHANGED <<zona, completa, restaurar, mando, arrastre, cambios>>
\* recolocar_si_crecio: it grew just after it was placed, and no longer fits.
Dentro(r, a) == r.x >= a.x /\ r.y >= a.y /\ r.x + r.w <= a.x + a.w /\ r.y + r.h <= a.y + a.h
Crece ==
  /\ Cambio /\ Ordena /\ zona # "maxima" /\ ~completa
  /\ \E t \in Tamanos :
       LET r == Rect(loc.x, loc.y, t.w, t.h)
           r2 == IF Dentro(r, AreaUtil(puntero)) THEN r ELSE Hueco(t, AreaUtil(puntero), FALSE)
       IN /\ t.w > tam.w /\ tam' = t /\ pedido' = t
          /\ loc' = Sitio(r2) /\ flotante' = (IF restaurar = Nada THEN r2 ELSE flotante)
          /\ hecho' = "mano"
  /\ UNCHANGED <<colocada, zona, completa, restaurar, mando, arrastre>>
\* recolocar_por_barra: the bar of the title comes after the window was placed.
Decorar ==
  /\ Cambio /\ decorada' = ~decorada
  /\ IF colocada /\ Flota
     THEN LET r == Confinar(loc, tam, ConBarra(WorkArea(puntero), decorada')) IN
          /\ loc' = Sitio(r) /\ flotante' = [flotante EXCEPT !.x = r.x, !.y = r.y]
          /\ hecho' = (IF tam = pedido THEN "orden" ELSE "borde") /\ UNCHANGED <<tam, pedido>>
     ELSE hecho' = (IF Flota THEN hecho ELSE Peor("mano")) /\ UNCHANGED <<loc, tam, pedido, flotante>>
  /\ UNCHANGED <<colocada, zona, completa, restaurar, esquivan, puntero, arrastre>>
\* The client takes the size it was asked.
Responder ==
  /\ tam # pedido /\ tam' = pedido
  /\ UNCHANGED <<loc, pedido, colocada, zona, completa, restaurar, mando, arrastre, cambios, flotante, hecho>>

(***************************************************************************)
(* Zones and the full screen.  What it goes back to is kept the first time *)
(* only, so that from zone to zone it is still where it floated.           *)
(***************************************************************************)
GuardarSiempre(geo) == restaurar' = geo

Guardar(geo) == restaurar' = IF restaurar = Nada THEN geo ELSE restaurar
\* In the middle of a drag the window has been left nowhere yet.
Suelta(geo) == flotante' = IF Arrastrando /\ restaurar = Nada THEN geo ELSE flotante
Encajar(z, area) ==
  LET r == RectDe(z, area) IN
  zona' = z /\ pedido' = Mide(r) /\ loc' = Sitio(r) /\ hecho' = "orden" /\ UNCHANGED <<tam, completa>>
Desencajar ==
  IF restaurar = Nada THEN UNCHANGED <<loc, tam, pedido, zona, completa, restaurar, flotante, hecho>>
  ELSE LET previa == Confinar(restaurar, restaurar, AreaUtil(puntero)) IN
       /\ restaurar' = Nada /\ zona' = "no" /\ pedido' = Mide(previa) /\ loc' = Sitio(previa)
       /\ flotante' = Confinar(flotante, flotante, AreaUtil(puntero))
       /\ hecho' = "orden" /\ UNCHANGED <<tam, completa>>
PantallaCompleta(si) ==
  /\ completa' = si /\ UNCHANGED <<tam, zona>>
  /\ IF si
     THEN /\ Guardar(Actual) /\ Suelta(Actual) /\ hecho' = "orden"
          /\ pedido' = Mide(Pantalla(puntero)) /\ loc' = Sitio(Pantalla(puntero))
     ELSE LET area == ConBarra(WorkArea(puntero), FALSE)
              previa == IF restaurar = Nada THEN RectDe("maxima", area) ELSE restaurar
              r == Confinar(previa, previa, area)
          IN /\ restaurar' = Nada /\ pedido' = Mide(r) /\ loc' = Sitio(r)
             /\ flotante' = (IF restaurar = Nada THEN r ELSE Confinar(flotante, flotante, area))
             /\ hecho' = IF zona = "no" THEN "orden" ELSE "mano"
Quieta ==
  /\ arrastre' = IF Arrastrando THEN [arrastre EXCEPT !.ordenado = TRUE] ELSE arrastre
  /\ UNCHANGED <<colocada, mando, cambios>>
AlternarMaximizada ==
  \/ completa /\ PantallaCompleta(FALSE)
  \/ ~completa /\ zona = "maxima" /\ Desencajar
  \/ ~completa /\ zona # "maxima" /\ Guardar(Actual) /\ Suelta(Actual) /\ Encajar("maxima", AreaUtil(puntero))
Maximizar == Ordena /\ AlternarMaximizada /\ Quieta
\* The client's own requests: to be maximized when it is not and restored when it is, which
\* over the full screen takes it out of it.
PedirMaximizada == Ordena /\ AlternarMaximizada /\ Quieta
PedirCompleta == Ordena /\ PantallaCompleta(~completa) /\ Quieta
Flecha(hacia) ==
  /\ Ordena /\ (Arrastrando => hacia \in Flechas)
  /\ LET z == Empujar(zona, hacia) IN
     IF z = "no" THEN Desencajar ELSE Guardar(Actual) /\ Suelta(Actual) /\ Encajar(z, AreaUtil(puntero))
  /\ Quieta

\* A bar comes or goes: what is in a zone is put again, in the output under the pointer.
AlternarBarra ==
  /\ Cambio /\ Ordena
  /\ \E b \in {"panel", "dock"} : esquivan' = IF b \in esquivan THEN esquivan \ {b} ELSE esquivan \cup {b}
  /\ IF zona = "no" THEN UNCHANGED <<loc, tam, pedido, zona, completa, restaurar, flotante, hecho>>
     ELSE /\ Guardar(Actual) /\ Suelta(Actual)
          /\ Encajar(zona, ConBarra(AreaDe(Pantalla(puntero), esquivan'), decorada /\ ~completa))
  /\ UNCHANGED <<colocada, decorada, puntero, arrastre>>
\* mover_a_monitor: with what it goes back to, and in its mode.
MoverAMonitor ==
  \E o \in Salidas :
    LET suya == Pantalla(loc)
        lleva(r) == Confinar([x |-> r.x + o.x - suya.x, y |-> r.y + o.y - suya.y], r, ConBarra(AreaDe(o, esquivan), decorada /\ ~completa))
    IN /\ Cambio /\ Ordena /\ (\E s \in Salidas : Contiene(s, loc)) /\ o # suya
       /\ restaurar' = IF restaurar # Nada THEN lleva(restaurar) ELSE IF Flota THEN Nada ELSE lleva(Actual)
       /\ flotante' = IF Arrastrando /\ restaurar = Nada THEN lleva(Actual) ELSE lleva(flotante)
       /\ LET r == IF completa THEN o
                   ELSE IF zona # "no" THEN RectDe(zona, ConBarra(AreaDe(o, esquivan), decorada)) ELSE lleva(Actual)
          IN loc' = Sitio(r) /\ pedido' = Mide(r) /\ hecho' = "orden"
       /\ UNCHANGED <<tam, zona, completa, colocada, mando, arrastre>>

(***************************************************************************)
(* Dragging.                                                               *)
(***************************************************************************)
\* The bar of the title, the desktop's or the client's own, or the client's own edge.
Agarrar ==
  /\ Cambio /\ Ordena
  /\ arrastre' = Arrastre("mover", puntero, Actual)
  /\ UNCHANGED <<loc, tam, pedido, colocada, zona, completa, restaurar, mando, flotante, hecho>>
AgarrarBorde ==
  /\ Cambio /\ Ordena
  /\ \E i, a \in BOOLEAN :
       arrastre' = [Arrastre("borde", puntero, Actual) EXCEPT !.izquierda = i, !.arriba = a]
  /\ UNCHANGED <<loc, tam, pedido, colocada, zona, completa, restaurar, mando, flotante, hecho>>
\* Meta and a button anywhere on it: one that is in a zone goes back to floating first,
\* by the pointer in proportion to the size the client still has.
MetaMover ==
  /\ Cambio /\ Ordena /\ Contiene(Actual, puntero)
  /\ IF zona = "no"
     THEN arrastre' = Arrastre("mover", puntero, Actual)
          /\ UNCHANGED <<loc, pedido, zona, restaurar, flotante, hecho>>
     ELSE LET previa == IF restaurar = Nada THEN Actual ELSE Confinar(restaurar, restaurar, AreaUtil(puntero))
              x == puntero.x - ((puntero.x - loc.x) * tam.w) \div WorkArea(puntero).w
              l == IF loc.x < puntero.x THEN x ELSE previa.x
          IN /\ zona' = (IF restaurar = Nada THEN zona ELSE "no") /\ restaurar' = Nada
             /\ pedido' = Mide(previa) /\ loc' = [x |-> l, y |-> previa.y] /\ hecho' = "borde"
             /\ arrastre' = Arrastre("mover", puntero, Rect(l, previa.y, tam.w, tam.h))
             /\ UNCHANGED flotante
  /\ UNCHANGED <<tam, completa, colocada, mando>>
MetaRedimensionar ==
  /\ Cambio /\ Ordena /\ zona # "maxima" /\ Contiene(Actual, puntero)
  /\ arrastre' = [Arrastre("borde", puntero, Actual)
                    EXCEPT !.izquierda = 2 * puntero.x < 2 * loc.x + tam.w,
                           !.arriba = 2 * puntero.y < 2 * loc.y + tam.h]
  /\ UNCHANGED <<loc, tam, pedido, colocada, zona, completa, restaurar, mando, flotante, hecho>>
\* The pointer moves; with a drag the window follows, and its edge shows the zone.
Mover ==
  \E p \in Puntos \ {puntero} :
    /\ puntero' = p
    /\ IF ~Arrastrando THEN UNCHANGED <<loc, pedido, arrastre, hecho>>
       ELSE LET r == Geometria(arrastre, p, AreaUtil(p)) IN
            /\ loc' = Sitio(r)
            /\ pedido' = IF arrastre.modo = "mover" THEN pedido ELSE Mide(r)
            /\ hecho' = IF arrastre.modo = "mover" /\ Mide(arrastre.geo) = pedido THEN "mano" ELSE "borde"
            /\ arrastre' = IF arrastre.modo = "mover" THEN [arrastre EXCEPT !.zona = ZonaEn(p, WorkArea(p))] ELSE arrastre
    /\ UNCHANGED <<tam, colocada, zona, completa, restaurar, decorada, esquivan, cambios, flotante>>
\* The drag ends, on the button or because the screen is locked: by an edge the window
\* goes to the zone, and will go back to where it was before the drag.
Soltar ==
  /\ Arrastrando /\ arrastre' = Ninguno
  /\ IF arrastre.zona = "no"
     THEN /\ flotante' = IF restaurar = Nada THEN Rect(loc.x, loc.y, pedido.w, pedido.h) ELSE flotante
          /\ UNCHANGED <<loc, tam, pedido, zona, completa, restaurar, hecho>>
     ELSE restaurar' = arrastre.geo /\ flotante' = arrastre.geo /\ Encajar(arrastre.zona, AreaUtil(puntero))
  /\ UNCHANGED <<colocada, mando, cambios>>

Next ==
  \/ Colocar \/ Crece \/ Decorar \/ Responder
  \/ Maximizar \/ PedirMaximizada \/ PedirCompleta \/ AlternarBarra \/ MoverAMonitor
  \/ \E hacia \in {"arriba", "abajo", "izquierda", "derecha"} : Flecha(hacia)
  \/ Agarrar \/ AgarrarBorde \/ MetaMover \/ MetaRedimensionar \/ Mover \/ Soltar
Spec == Init /\ [][Next]_vars

(***************************************************************************)
(* Properties.                                                             *)
(***************************************************************************)
\* Every variable has its type.
TypeOK ==
  /\ tam.w > 0 /\ tam.h > 0 /\ pedido.w > 0 /\ pedido.h > 0
  /\ {colocada, completa, decorada} \subseteq BOOLEAN /\ zona \in Zonas \cup {"no"}
  /\ esquivan \subseteq {"panel", "dock"} /\ puntero \in Puntos
  /\ arrastre.modo \in {"no", "mover", "borde"} /\ arrastre.zona \in Zonas \cup {"no"}
  /\ hecho \in {"orden", "mano", "borde"}

\* Something of the window is on a screen, and its top is never over it (ventanas.rs:592-606),
\* whatever is done to it but pulling an edge of it, or dragging it while it is still as big as
\* the zone it was taken from.
Asoma(r, s) ==
  /\ r.x + r.w >= s.x + Menor(VISIBLE, r.w) /\ r.x + Menor(VISIBLE, r.w) <= s.x + s.w
  /\ r.y >= s.y /\ r.y + Menor(VISIBLE, r.h) <= s.y + s.h
Alcanzable ==
  (colocada /\ ~Arrastrando /\ hecho # "borde")
    => \E s \in Salidas : Asoma(Rect(loc.x, loc.y, pedido.w, pedido.h), s)
\* A window that an order put in a zone fills it, whatever the bars reserve since and whichever
\* the output it is taken to (ventanas.rs:1812-1818), until a hand moves it from there.
LlenaSuZona ==
  (zona # "no" /\ ~completa /\ ~Arrastrando /\ hecho = "orden")
    => \E s \in Salidas : Rect(loc.x, loc.y, pedido.w, pedido.h) = RectDe(zona, ConBarra(AreaDe(s, esquivan), decorada))
\* Where a window was left is where it goes back to, through zones, full screen, drags and bars
\* in any order (ventanas.rs:1641-1645, 1617-1620, 1749-1751): the way back is that place, or
\* there is none and it is there; and there is none while it floats.
RecuerdaDonde ==
  (colocada /\ ~Arrastrando) =>
    /\ restaurar = Nada => Rect(loc.x, loc.y, pedido.w, pedido.h) = flotante
    /\ restaurar # Nada => restaurar = flotante /\ ~Flota
\* The window stays within reach, in its zone, and finds its way back.
VentanaEnSuSitio == Alcanzable /\ LlenaSuZona /\ RecuerdaDonde
=============================================================================
