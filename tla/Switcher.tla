---- MODULE Switcher ----
(***************************************************************************)
(* The window switcher: the row of icons of Alt+Tab and the grid of live   *)
(* windows of Meta+Tab and of the three finger gesture (bookos-shell       *)
(* conmutador.rs; bookos-comp conmutador.rs, keybinds.rs, input.rs and the *)
(* surfaces shell.rs keeps for it). The shell keeps the cells and which    *)
(* one is chosen, the compositor the window each cell leads to, the host   *)
(* three surfaces painted apart.                                           *)
(***************************************************************************)
EXTENDS Integers, Sequences, SequencesExt

CONSTANTS
  Ventanas, Nadie,
  MAXIMO,       \* cells of the row of icons
  Pantallas,    \* sizes of screen the grid is laid out for, in logical pixels
  MaxActos      \* bound on what the user does

VARIABLES
  mapa,      \* windows in the space, the top one last
  fuera,     \* live windows that are not in the space: minimized, put aside
  apartadas, \* those of fuera that the shown desktop hides until it is given back
  uso,       \* windows that have had the focus, the latest first
  foco,
  c,         \* the shell's switcher: its mode, its cells and the chosen one
  destinos, modo, \* what the compositor keeps of it
  pegado,    \* letting go of the key does not resolve it: a gesture opened it
  mods,      \* held modifiers
  clic,      \* the release of the press that chose is pending
  vista,     \* the overview of desktops is open
  tarjeta, realce, rotulo, \* the host's surfaces
  moviendo,  \* the mark is between two cells
  actos

ventanas == <<mapa, fuera, apartadas, uso, foco>>
fila == <<c, destinos, modo, pegado>>
pintado == <<tarjeta, realce, rotulo, moviendo>>
vars == <<ventanas, fila, mods, clic, vista, pintado, actos>>
Nada == [clase |-> "nada"]

(* ---- The grid of Meta+Tab, in hundredths of a logical pixel ---- *)
MARGEN == 1400
NOMBRE == 2600
PREVIA_HUECO == 1400
PREVIA_ANCHO_MAX == 30000
PREVIA_ALTO_MAX == 25000
PREVIA_MARGEN_PANTALLA == 4800
PREVIA_UNA_FILA_MIN == 15000
PREVIA_BORDE == 800
Menor(a, b) == IF a < b THEN a ELSE b
Mayor(a, b) == IF a > b THEN a ELSE b
Acotar(n, a, b) == Mayor(a, Menor(n, b))
\* A proportion a/b kept between two others.
Proporcion(a, b, min, max) == IF a * min[2] < min[1] * b THEN min
                              ELSE IF a * max[2] > max[1] * b THEN max ELSE <<a, b>>
Techo(a, b) == (a + b - 1) \div b

\* Rejilla::new: what the screen leaves, one row while the cells are recognizable, several
\* after that.
AnchoUtil(p) == Mayor(p[1] * 100 - (PREVIA_MARGEN_PANTALLA + MARGEN) * 2, 16000)
AltoUtil(p) == Mayor(p[2] * 100 - (PREVIA_MARGEN_PANTALLA + MARGEN) * 2 - NOMBRE, 12000)
Raiz(n, a) == CHOOSE k \in 1..(2 * n) : /\ k * k * a[2] >= n * a[1]
                                        /\ (k - 1) * (k - 1) * a[2] < n * a[1]
Columnas(n, p) ==
  LET unaFila == Menor((AnchoUtil(p) - PREVIA_HUECO * (n - 1)) \div n, PREVIA_ANCHO_MAX)
      aspecto == Proporcion(AnchoUtil(p) \div 100, AltoUtil(p) \div 100, <<1, 2>>, <<3, 1>>)
  IN  IF unaFila >= PREVIA_UNA_FILA_MIN THEN n ELSE Acotar(Raiz(n, aspecto), 1, n)
AnchoCelda(n, p) ==
  Acotar((AnchoUtil(p) - PREVIA_HUECO * (Columnas(n, p) - 1)) \div Columnas(n, p), 3600,
         PREVIA_ANCHO_MAX)
Filas(n, p) == Techo(n, Columnas(n, p))
Pantalla(p) == Proporcion(p[2], p[1], <<2, 5>>, <<7, 5>>)
AltoCelda(n, p) ==
  Acotar(Menor((AnchoCelda(n, p) * Pantalla(p)[1]) \div Pantalla(p)[2],
               (AltoUtil(p) - PREVIA_HUECO * (Filas(n, p) - 1)) \div Filas(n, p)),
         2800, PREVIA_ALTO_MAX)
Rejilla(n, p) ==
  [columnas |-> Columnas(n, p), filas |-> Filas(n, p), h |-> AltoCelda(n, p),
   w |-> Menor(AnchoCelda(n, p), (AltoCelda(n, p) * Pantalla(p)[2]) \div Pantalla(p)[1])]
Celda(r, i) == [x |-> MARGEN + ((i - 1) % r.columnas) * (r.w + PREVIA_HUECO),
                y |-> MARGEN + ((i - 1) \div r.columnas) * (r.h + PREVIA_HUECO),
                w |-> r.w, h |-> r.h]
Miniatura(r, i) == LET d == Celda(r, i) IN
  [x |-> d.x + PREVIA_BORDE, y |-> d.y + PREVIA_BORDE,
   w |-> Mayor(d.w - PREVIA_BORDE * 2, 100), h |-> Mayor(d.h - PREVIA_BORDE * 2, 100)]
Tamano(r) == [w |-> r.columnas * r.w + (r.columnas - 1) * PREVIA_HUECO + MARGEN * 2,
              h |-> r.filas * r.h + (r.filas - 1) * PREVIA_HUECO + NOMBRE + MARGEN * 2]
\* The cell of a point of the card, 0 for none.
En(r, x, y, n) ==
  LET dx == x - MARGEN
      dy == y - MARGEN
      columna == dx \div (r.w + PREVIA_HUECO)
      linea == dy \div (r.h + PREVIA_HUECO)
      i == linea * r.columnas + columna + 1
  IN  IF /\ dx >= 0 /\ dy >= 0 /\ columna < r.columnas /\ linea < r.filas
         /\ dx % (r.w + PREVIA_HUECO) < r.w /\ dy % (r.h + PREVIA_HUECO) < r.h /\ i <= n
      THEN i ELSE 0

(* ---- Which cells, and in which order ---- *)
\* Those of s that are of T, in their order.
Elegidas(s, T) ==
  LET f[i \in 0..Len(s)] ==
        IF i = 0 THEN <<>> ELSE IF s[i] \in T THEN Append(f[i - 1], s[i]) ELSE f[i - 1]
  IN  f[Len(s)]
Sin(s, w) == Elegidas(s, Range(s) \ {w})
Sobre(w, s) == <<w>> \o Sin(s, w)
\* orden: the latest used first, those never used after them as they came.
Usadas(m, u) == Elegidas(u, Range(m)) \o Elegidas(m, Range(m) \ Range(u))
Orden(tope) == SubSeq(Usadas(mapa, uso), 1, Menor(tope, Len(Usadas(mapa, uso))))
TopeDe(m) == IF m = "aplicaciones" THEN MAXIMO ELSE Len(mapa)
Tecla(m) == IF m = "aplicaciones" THEN "alt" ELSE "meta"
Ciclo(i, n) == ((i % n) + n) % n
Mover(f, pasos) == [f EXCEPT !.elegida = Ciclo(@ - 1 + pasos, Len(f.celdas)) + 1]

(* ---- The surfaces of the host ---- *)
\* view: a cell for each window, the chosen one marked and named under the row.
VistaIconos(f) == [clase |-> "tarjeta", modo |-> f.modo, celdas |-> f.celdas,
                   marca |-> f.elegida, nombre |-> f.celdas[f.elegida]]
\* view_ventanas: the cells at rest; the mark and the name are surfaces of their own.
VistaVentanas(f) == [clase |-> "tarjeta", modo |-> f.modo, celdas |-> f.celdas,
                     marca |-> 0, nombre |-> Nadie]
Vista(f) == IF f.modo = "ventanas" THEN VistaVentanas(f) ELSE VistaIconos(f)
\* sincronizar_conmutador: the frame of the chosen cell and its title, in the grid.
Sincronizar(f) == IF f.modo = "ventanas"
                  THEN realce' = f.elegida /\ rotulo' = f.celdas[f.elegida]
                  ELSE UNCHANGED <<realce, rotulo>>
\* pintar_conmutador: the card of the grid is painted once, that of icons each step.
Pintar(f) ==
  /\ tarjeta' = IF f.modo = "ventanas" /\ tarjeta # Nada THEN tarjeta ELSE Vista(f)
  /\ Sincronizar(f)
SoltarSuperficies == tarjeta' = Nada /\ realce' = 0 /\ rotulo' = Nadie /\ moviendo' = FALSE

Mueve(pasos) == /\ c' = Mover(c, pasos)
                /\ Pintar(c')
                /\ moviendo' = (moviendo \/ c' # c)
Elegir(i) == IF i \in 1..Len(c.celdas) /\ i # c.elegida
             THEN c' = [c EXCEPT !.elegida = i] /\ Pintar(c') /\ moviendo' = TRUE
             ELSE UNCHANGED <<c, pintado>>

(* ---- keybinds.rs ---- *)
\* conmutar with the switcher closed, or open in the other mode: cells anew, and the
\* first step. Neither a row that takes the place of a gesture's grid nor one that finds
\* no window takes the mark of the gesture off.
Abrir(m, pasos) ==
  LET orden == Orden(TopeDe(m)) IN
  IF orden = <<>>
  THEN /\ c' = Nada /\ destinos' = <<>> /\ modo' = "cerrado" /\ SoltarSuperficies
  ELSE LET nueva == [clase |-> "fila", modo |-> m, celdas |-> orden, elegida |-> 1] IN
       /\ c' = Mover(nueva, pasos)
       /\ destinos' = orden
       /\ modo' = m
       /\ tarjeta' = Vista(c')
       /\ realce' = IF m = "ventanas" THEN c'.elegida ELSE 0
       /\ rotulo' = IF m = "ventanas" THEN c'.celdas[c'.elegida] ELSE Nadie
       /\ moviendo' = (pasos # 0)
Conmutar(m, pasos) ==
  IF vista THEN UNCHANGED <<fila, pintado>>
  ELSE IF c # Nada /\ c.modo = m THEN Mueve(pasos) /\ UNCHANGED <<destinos, modo, pegado>>
  ELSE Abrir(m, pasos) /\ UNCHANGED pegado

Enfocar(w) ==
  /\ mapa' = IF Contains(mapa, w) THEN Append(Sin(mapa, w), w) ELSE mapa
  /\ uso' = Sobre(w, uso)
  /\ foco' = w
  /\ UNCHANGED <<fuera, apartadas>>
Cerrada == /\ c' = Nada /\ destinos' = <<>> /\ modo' = "cerrado" /\ pegado' = FALSE
           /\ SoltarSuperficies
\* conmutar_fin: to the chosen one, should it live.
ConmutarFin(f) ==
  /\ Cerrada
  /\ IF f.elegida \in DOMAIN destinos
        /\ (Contains(mapa, destinos[f.elegida]) \/ destinos[f.elegida] \in fuera)
     THEN Enfocar(destinos[f.elegida]) ELSE UNCHANGED ventanas
ConmutarCancelar == Cerrada /\ UNCHANGED ventanas

(* ---- Events ---- *)
Acto == actos < MaxActos /\ actos' = actos + 1
Hacia == {"alt", "meta"}

PulsarModificador(m) ==
  /\ m \notin mods /\ Acto
  /\ mods' = mods \cup {m}
  /\ UNCHANGED <<ventanas, fila, clic, vista, pintado>>
SoltarModificador(m) ==
  /\ m \in mods
  /\ mods' = mods \ {m}
  /\ IF c # Nada /\ ~pegado /\ modo # "cerrado" /\ Tecla(modo) \notin mods'
     THEN ConmutarFin(c) ELSE UNCHANGED <<ventanas, fila, pintado>>
  /\ UNCHANGED <<clic, vista, actos>>
Tabular(m, pasos) ==
  /\ mods = {Tecla(m)} /\ Acto
  /\ Conmutar(m, pasos)
  /\ UNCHANGED <<ventanas, mods, clic, vista>>
Escapar ==
  /\ c # Nada
  /\ ConmutarCancelar
  /\ UNCHANGED <<mods, clic, vista, actos>>

\* recuperar: what the shown desktop hides comes back over the rest, and the top one has
\* the keyboard.
Recuperar ==
  IF apartadas = {} THEN UNCHANGED ventanas
  ELSE LET quedan == mapa \o SetToSeq(apartadas) IN
       /\ mapa' = quedan
       /\ fuera' = fuera \ apartadas /\ apartadas' = {}
       /\ foco' = Last(quedan) /\ uso' = Sobre(Last(quedan), uso)
\* exponer: three fingers up give the shown desktop's windows back and open the grid, but
\* not over the overview.
Exponer ==
  /\ c = Nada /\ Acto
  /\ Recuperar
  /\ UNCHANGED <<mods, clic, vista>>
  /\ LET orden == Usadas(mapa', uso') IN
     IF vista \/ orden = <<>> THEN pegado' = FALSE /\ UNCHANGED <<c, destinos, modo, pintado>>
     ELSE /\ c' = [clase |-> "fila", modo |-> "ventanas", celdas |-> orden, elegida |-> 1]
          /\ destinos' = orden /\ modo' = "ventanas" /\ pegado' = TRUE
          /\ tarjeta' = VistaVentanas(c')
          /\ realce' = 1 /\ rotulo' = orden[1] /\ moviendo' = FALSE
CerrarExposicion == c # Nada /\ ConmutarCancelar /\ UNCHANGED <<mods, clic, vista, actos>>

PulsarBoton(i) ==
  /\ c # Nada /\ ~clic /\ i \in 0..Len(c.celdas)
  /\ clic' = TRUE
  /\ IF i = 0 THEN ConmutarCancelar
     ELSE ConmutarFin([c EXCEPT !.elegida = i])
  /\ UNCHANGED <<mods, vista, actos>>
SoltarBoton == clic /\ clic' = FALSE /\ UNCHANGED <<ventanas, fila, mods, vista, pintado, actos>>
MoverPuntero(i) ==
  /\ c # Nada /\ i \in 1..Len(c.celdas) /\ i # c.elegida /\ Acto
  /\ Elegir(i)
  /\ UNCHANGED <<ventanas, destinos, modo, pegado, mods, clic, vista>>

\* animar_conmutador: a frame in which the mark arrives.
Fotograma ==
  /\ moviendo
  /\ moviendo' = FALSE
  /\ tarjeta' = IF c # Nada /\ c.modo = "aplicaciones" THEN Vista(c) ELSE tarjeta
  /\ UNCHANGED <<ventanas, fila, mods, clic, vista, realce, rotulo, actos>>

\* A window arrives, with the focus; the switcher does not hear of it.
Nueva(w) ==
  /\ ~Contains(mapa, w) /\ w \notin fuera /\ ~Contains(uso, w) /\ Acto
  /\ mapa' = Append(mapa, w)
  /\ uso' = Sobre(w, uso) /\ foco' = w
  /\ UNCHANGED <<fuera, apartadas, fila, mods, clic, vista, pintado>>
\* A slip: the row stays, with a cell for the client that goes.
CierraSinAbandonar(w) ==
  /\ Contains(mapa, w) \/ w \in fuera
  /\ Acto
  /\ mapa' = Sin(mapa, w) /\ fuera' = fuera \ {w} /\ apartadas' = apartadas \ {w}
  /\ foco' = IF mapa' = <<>> THEN Nadie ELSE Last(mapa')
  /\ uso' = IF mapa' = <<>> THEN Sin(uso, w) ELSE Sobre(Last(mapa'), Sin(uso, w))
  /\ UNCHANGED <<fila, pintado, mods, clic, vista>>

\* A client goes: the switcher is abandoned and the top window inherits the focus.
Cierra(w) ==
  /\ Contains(mapa, w) \/ w \in fuera
  /\ Acto
  /\ LET quedan == Sin(mapa, w) IN
     /\ mapa' = quedan
     /\ fuera' = fuera \ {w} /\ apartadas' = apartadas \ {w}
     /\ foco' = IF quedan = <<>> THEN Nadie ELSE Last(quedan)
     /\ uso' = IF quedan = <<>> THEN Sin(uso, w) ELSE Sobre(Last(quedan), Sin(uso, w))
  /\ IF c # Nada THEN Cerrada ELSE UNCHANGED <<fila, pintado>>
  /\ UNCHANGED <<mods, clic, vista>>
\* Shortcuts that take windows out of the space. The switcher does not stop them.
Desmapear(quitadas, aparta) ==
  LET quedan == Elegidas(mapa, Range(mapa) \ quitadas) IN
  /\ fuera' = fuera \cup quitadas
  /\ apartadas' = IF aparta THEN apartadas \cup quitadas ELSE apartadas
  /\ mapa' = quedan
  /\ foco' = IF quedan = <<>> THEN Nadie ELSE Last(quedan)
  /\ uso' = IF quedan = <<>> THEN uso ELSE Sobre(Last(quedan), uso)
Minimizar ==       \* Meta+H, over the focused window
  /\ Contains(mapa, foco) /\ Acto
  /\ Desmapear({foco}, FALSE)
  /\ UNCHANGED <<fila, mods, clic, vista, pintado>>
Despejar ==        \* Meta+Ctrl+D, or four fingers down
  /\ mapa # <<>> /\ Acto
  /\ Desmapear(Range(mapa), TRUE)
  /\ UNCHANGED <<fila, mods, clic, vista, pintado>>
Recobrar ==        \* Meta+Ctrl+D again, or four fingers up
  /\ apartadas # {} /\ Acto
  /\ Recuperar
  /\ UNCHANGED <<fila, mods, clic, vista, pintado>>
AlternarVista ==   \* Meta+W, or four fingers up: over an open row too
  /\ Acto
  /\ vista' = ~vista
  /\ UNCHANGED <<ventanas, fila, mods, clic, pintado>>

Init ==
  /\ \E s \in {SetToSeq(Ventanas)} : \E n \in 1..Len(s) :
       /\ mapa = SubSeq(s, 1, n) /\ uso = <<s[n]>> /\ foco = s[n]
  /\ fuera = {} /\ apartadas = {}
  /\ c = Nada /\ destinos = <<>> /\ modo = "cerrado" /\ pegado = FALSE
  /\ mods = {} /\ clic = FALSE /\ vista = FALSE
  /\ tarjeta = Nada /\ realce = 0 /\ rotulo = Nadie /\ moviendo = FALSE /\ actos = 0

Next ==
  \/ \E m \in Hacia : PulsarModificador(m) \/ SoltarModificador(m)
  \/ \E m \in {"aplicaciones", "ventanas"}, pasos \in {-1, 1} : Tabular(m, pasos)
  \/ Escapar \/ Exponer \/ CerrarExposicion
  \/ \E i \in 0..Len(destinos) : PulsarBoton(i) \/ MoverPuntero(i)
  \/ SoltarBoton \/ Fotograma
  \/ \E w \in Ventanas : Nueva(w) \/ Cierra(w)
  \/ Minimizar \/ Despejar \/ Recobrar \/ AlternarVista

Spec == Init /\ [][Next]_vars

(* ---- Properties ---- *)
TypeOK ==
  /\ Range(mapa) \cap fuera = {} /\ apartadas \subseteq fuera
  /\ Range(mapa) \cup fuera \cup Range(uso) \subseteq Ventanas
  /\ foco \in Ventanas \cup {Nadie} /\ modo \in {"cerrado", "aplicaciones", "ventanas"}
  /\ {pegado, clic, vista, moviendo} \subseteq BOOLEAN /\ mods \subseteq Hacia

\* What the shell shows, what the compositor would focus and what the host has on the
\* screen are one row: each cell is painted for the window it leads to, which lives.
FilaFiel ==
  /\ (c = Nada) = (modo = "cerrado") /\ (c = Nada) = (destinos = <<>>) /\ (c = Nada) = (tarjeta = Nada)
  /\ c # Nada =>
       /\ modo = c.modo /\ c.celdas = destinos /\ c.elegida \in DOMAIN destinos
       /\ Range(destinos) \subseteq Range(mapa) \cup fuera
       /\ tarjeta.celdas = destinos /\ tarjeta.modo = modo
       /\ IF modo = "ventanas" THEN realce = c.elegida /\ rotulo = destinos[c.elegida]
          ELSE /\ tarjeta.marca = c.elegida /\ tarjeta.nombre = destinos[c.elegida]
               /\ realce = 0
  /\ c = Nada => realce = 0 /\ rotulo = Nadie

\* A row that is not marked as a gesture's lives as long as its key is held
\* (conmutador.rs:4-5), whatever other modifiers and shortcuts come meanwhile.
SeResuelveAlSoltar == (c # Nada /\ ~pegado) => Tecla(modo) \in mods

\* The keyboard is never in a phantom (keybinds.rs:263-266): it is in a window that lives, if
\* only minimized since the row was opened, and that window is the one used last, the
\* first of the next row.
FocoVivo == foco # Nadie => (Contains(mapa, foco) \/ foco \in fuera) /\ uso[1] = foco

\* The grid fits the screen; no thumbnail leaves its cell, and the point of a thumbnail
\* is that of its own window.  They depend on nothing that moves: asked with the row closed.
RejillaEntera == (actos = 0 /\ mods = {} /\ ~vista) =>
  \A p \in Pantallas : \A n \in 1..24 :
    LET r == Rejilla(n, p)
        t == Tamano(r)
    IN  /\ t.w <= p[1] * 100 - PREVIA_MARGEN_PANTALLA * 2
        /\ t.h <= p[2] * 100 - PREVIA_MARGEN_PANTALLA * 2
        /\ \A i \in 1..n :
             LET v == Miniatura(r, i)
                 d == Celda(r, i)
             IN  /\ d.x + d.w <= t.w - MARGEN /\ d.y + d.h <= t.h - MARGEN - NOMBRE
                 /\ v.x + v.w <= d.x + d.w /\ v.y + v.h <= d.y + d.h
                 /\ En(r, v.x, v.y, n) = i
                 /\ En(r, v.x + v.w - 1, v.y + v.h - 1, n) = i
                 /\ En(r, d.x + d.w, d.y, n) # i

ConmutadorEnOrden == FilaFiel /\ SeResuelveAlSoltar /\ FocoVivo /\ RejillaEntera

\* A single Tab between two windows goes to the one used before, and back.
PasoDeVuelta ==
  (c # Nada /\ c' = Nada /\ c.elegida = 2 /\ foco' # foco /\ actos' = actos
     /\ c.celdas[1] = foco /\ clic' = clic) => foco' = c.celdas[2] /\ uso'[2] = foco
VueltaALaAnterior == [][PasoDeVuelta]_vars
====
