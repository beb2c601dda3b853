--------------------------- MODULE DesktopIcons ----------------------------
(***************************************************************************)
(* The icons of the desktop (escritorio.rs, input.rs 1345-1590): what      *)
(* there is in the Desktop folder, in a grid whose cells the user chooses  *)
(* by dragging and a file remembers; selected with a click, with Ctrl or   *)
(* with a band; coloured, made and sent to the trash.  The folder is read  *)
(* again with the beat of the panel, whatever the pointer is doing.        *)
(***************************************************************************)
EXTENDS Integers, Sequences, FiniteSets, SequencesExt

CONSTANTS
  Orden,        \* every file there may be, in the order they are listed
  Carpetas,     \* those that are folders
  Nuevas,       \* the names for a new folder, in the order they are tried
  Nombre,       \* file -> the name it shows
  Rejillas,     \* the grids: <<columns, rows>>
  EnMedio,      \* whether the folder may be read in the middle of a band with Ctrl
  Explorador,   \* whether the explorer changes a colour
  MaxCambios    \* bound: changes from outside, new folders and colours

VARIABLES
  carpeta, colores, guardadas, papelera,   \* on disk
  elementos, rejilla, visible, arrastre,   \* the grid and how far the selection is dragged
  gesto,        \* what the left button is doing on the desktop
  cambios,      \* counts towards MaxCambios
  marcados      \* history: what the user has selected
vars == <<carpeta, colores, guardadas, papelera, elementos, rejilla, visible, arrastre, gesto, cambios, marcados>>
disco == <<carpeta, colores, guardadas, papelera>>
Ficheros == ToSet(Orden)
Quieto == <<0, 0>>
SinSitio == <<-1, -1>>
Nada == [que |-> "no", previa |-> <<>>, movido |-> FALSE, marcadas |-> {}]

(***************************************************************************)
(* The grid.                                                               *)
(***************************************************************************)
Celdas(r) == (0..(r[1] - 1)) \X (0..(r[2] - 1))
\* primer_hueco: column by column; with none left, the last cell for all.
PrimerHueco(ocupadas, r) ==
  LET libres == Celdas(r) \ ocupadas IN
  IF libres = {} THEN <<r[1] - 1, r[2] - 1>>
  ELSE CHOOSE c \in libres : \A d \in libres : c[1] * r[2] + c[2] <= d[1] * r[2] + d[2]
Ocupadas(els) == {els[i].celda : i \in DOMAIN els} \ {SinSitio}
\* Slip: one pass only, so what comes first in the list may take a place that is kept.
AsignarEnUna(els, guardado, r) ==
  LET Pone(hechos, e) ==
        Append(hechos, [e EXCEPT !.celda =
          IF Nombre[e.ruta] \in DOMAIN guardado /\ guardado[Nombre[e.ruta]] \notin Ocupadas(hechos)
          THEN guardado[Nombre[e.ruta]] ELSE PrimerHueco(Ocupadas(hechos), r)])
  IN FoldLeft(Pone, <<>>, els)

\* asignar_celdas: first those with a place of their own, then the holes.
Asignar(els, guardado, r) ==
  LET Guardada(hechos, e) ==
        LET n == Nombre[e.ruta] IN
        Append(hechos, [e EXCEPT !.celda =
          IF n \in DOMAIN guardado /\ guardado[n] \in Celdas(r) \ Ocupadas(hechos) THEN guardado[n] ELSE SinSitio])
      conSitio == FoldLeft(Guardada, <<>>, els)
      Hueco(s, i) == IF s[i].celda # SinSitio THEN s ELSE [s EXCEPT ![i].celda = PrimerHueco(Ocupadas(s), r)]
  IN FoldLeft(Hueco, conSitio, [i \in DOMAIN els |-> i])
Leer(ficheros) ==
  LET lista == SelectSeq(Orden, LAMBDA f : f \in ficheros) IN
  [i \in DOMAIN lista |-> [ruta |-> lista[i], celda |-> SinSitio, sel |-> FALSE, color |-> lista[i] \in colores]]
Rutas(els) == [i \in DOMAIN els |-> els[i].ruta]
Seleccion(els) == {els[i].ruta : i \in {j \in DOMAIN els : els[j].sel}}
Marca(els, rutas) == [i \in DOMAIN els |-> [els[i] EXCEPT !.sel = els[i].ruta \in rutas]]

Init ==
  /\ carpeta \in SUBSET (Ficheros \ ToSet(Nuevas)) /\ colores = {} /\ guardadas = <<>> /\ papelera = [ficheros |-> {}, fichas |-> {}]
  /\ rejilla \in Rejillas /\ visible = TRUE /\ arrastre = <<>> /\ gesto = Nada
  /\ elementos = Asignar(Leer(carpeta), guardadas, rejilla)
  /\ cambios = 0 /\ marcados = {}

\* releer: nothing if the list is the same; otherwise the selection is lost.
Releida(ficheros) ==
  IF ~visible \/ Rutas(Leer(ficheros)) = Rutas(elementos) THEN elementos
  ELSE Asignar(Leer(ficheros), guardadas, rejilla)
Relee(ficheros) ==
  /\ elementos' = Releida(ficheros)
  /\ marcados' = IF Rutas(elementos') = Rutas(elementos) THEN marcados ELSE {}

(***************************************************************************)
(* The folder changes, the beat reads it, the screen changes.              *)
(***************************************************************************)
Cambio == cambios < MaxCambios /\ cambios' = cambios + 1
Fuera ==
  /\ Cambio
  /\ \/ /\ \E f \in Ficheros \ ToSet(Nuevas) :
             carpeta' = IF f \in carpeta THEN carpeta \ {f} ELSE carpeta \cup {f}
        /\ UNCHANGED colores
     \/ /\ Explorador /\ UNCHANGED carpeta
        /\ \E f \in Carpetas : colores' = IF f \in colores THEN colores \ {f} ELSE colores \cup {f}
  /\ UNCHANGED <<guardadas, papelera, elementos, rejilla, visible, arrastre, gesto, marcados>>
\* Not while icons are dragged; a band is no obstacle.
Latido ==
  /\ arrastre = <<>> /\ (EnMedio \/ gesto.previa = <<>>)
  /\ Relee(carpeta)
  /\ UNCHANGED <<disco, rejilla, visible, arrastre, gesto, cambios>>
Recolocar ==
  /\ rejilla' \in Rejillas /\ elementos' = Asignar(elementos, guardadas, rejilla')
  /\ UNCHANGED <<disco, visible, arrastre, gesto, cambios, marcados>>
\* A session later: what is kept is what is on disk.
Arrancar ==
  /\ elementos' = IF visible THEN Asignar(Leer(carpeta), guardadas, rejilla) ELSE <<>>
  /\ arrastre' = <<>> /\ gesto' = Nada /\ marcados' = {}
  /\ UNCHANGED <<disco, rejilla, visible, cambios>>

(***************************************************************************)
(* The left button.                                                        *)
(***************************************************************************)
Libre == gesto = Nada
\* en: the one drawn last.
En(celda) ==
  LET quienes == {i \in DOMAIN elementos : elementos[i].celda = celda} IN
  IF quienes = {} THEN 0 ELSE CHOOSE i \in quienes : \A j \in quienes : j <= i
Elige(rutas) == elementos' = Marca(elementos, rutas) /\ marcados' = rutas
\* A second click in time opens it, and no gesture begins.
PulsarIcono(celda, ctrl) ==
  LET i == En(celda)  ruta == elementos[i].ruta  suya == Seleccion(elementos) IN
  /\ Libre /\ i # 0
  /\ gesto' = [Nada EXCEPT !.que = "iconos"]
  /\ IF ctrl THEN Elige(IF ruta \in suya THEN suya \ {ruta} ELSE suya \cup {ruta})
     ELSE IF elementos[i].sel THEN UNCHANGED <<elementos, marcados>> ELSE Elige({ruta})
  /\ UNCHANGED <<disco, rejilla, visible, arrastre, cambios>>
PulsarHueco(celda, ctrl) ==
  /\ Libre /\ En(celda) = 0
  /\ gesto' = [Nada EXCEPT !.que = "banda",
                           !.previa = IF ctrl THEN [i \in DOMAIN elementos |-> elementos[i].sel] ELSE <<>>,
                           !.marcadas = IF ctrl THEN marcados ELSE {}]
  /\ IF ctrl THEN UNCHANGED <<elementos, marcados>> ELSE Elige({})
  /\ UNCHANGED <<disco, rejilla, visible, arrastre, cambios>>
\* banda: what it touches and what was selected before it, place by place in the list.
Entre(a, b) == {c \in Celdas(rejilla) : \A k \in {1, 2} : (a[k] <= c[k] /\ c[k] <= b[k]) \/ (b[k] <= c[k] /\ c[k] <= a[k])}
MoverBanda ==
  /\ gesto.que = "banda"
  /\ \E a, b \in Celdas(rejilla) :
       /\ elementos' = [i \in DOMAIN elementos |->
            [elementos[i] EXCEPT !.sel =
               elementos[i].celda \in Entre(a, b) \/ (i \in DOMAIN gesto.previa /\ gesto.previa[i])]]
       /\ marcados' = gesto.marcadas \cup {elementos[i].ruta : i \in {j \in DOMAIN elementos : elementos[j].celda \in Entre(a, b)}}
  /\ UNCHANGED <<disco, rejilla, visible, arrastre, gesto, cambios>>
MoverIconos ==
  /\ gesto.que = "iconos"
  /\ gesto' = [gesto EXCEPT !.movido = TRUE]
  /\ \E paso \in {-1, 0, 1} \X {-1, 0, 1} : arrastre' = paso
  /\ UNCHANGED <<disco, elementos, rejilla, visible, cambios, marcados>>
Encaja(c, r) ==
  LET En1(v, n) == IF v < 0 THEN 0 ELSE IF v >= n THEN n - 1 ELSE v IN <<En1(c[1], r[1]), En1(c[2], r[2])>>
\* soltar: what is not dragged keeps its cell; a clash goes to the first hole.
Sueltos(paso) ==
  LET Fija(i) == ~elementos[i].sel
      Pone(s, i) ==
        LET ocupadas == {s[j].celda : j \in {k \in DOMAIN s : Fija(k) \/ k < i}}
            destino == Encaja(<<s[i].celda[1] + paso[1], s[i].celda[2] + paso[2]>>, rejilla)
        IN IF Fija(i) THEN s
           ELSE [s EXCEPT ![i].celda = IF destino \in ocupadas THEN PrimerHueco(ocupadas, rejilla) ELSE destino]
  IN FoldLeft(Pone, elementos, [i \in DOMAIN elementos |-> i])
\* guardar_escritorio: the whole file, with what there is now.
Posiciones(els) ==
  [n \in {Nombre[els[i].ruta] : i \in DOMAIN els} |->
     els[CHOOSE i \in DOMAIN els : Nombre[els[i].ruta] = n /\ \A j \in DOMAIN els : Nombre[els[j].ruta] = n => i <= j].celda]
\* On the button's release, and when the screen is locked.
SoltarEscritorio ==
  /\ gesto # Nada /\ gesto' = Nada
  /\ IF gesto.que = "iconos" /\ arrastre # <<>>
     THEN /\ arrastre' = <<>>
          /\ IF arrastre = Quieto THEN UNCHANGED <<elementos, guardadas>>
             ELSE elementos' = Sueltos(arrastre) /\ guardadas' = Posiciones(elementos')
     ELSE UNCHANGED <<elementos, guardadas, arrastre>>
  /\ UNCHANGED <<carpeta, colores, papelera, rejilla, visible, cambios, marcados>>

(***************************************************************************)
(* The right button, its menu and Supr.                                    *)
(***************************************************************************)
PulsarDerecho(celda) ==
  LET i == En(celda) IN
  /\ Libre
  /\ IF i = 0 THEN Elige({})
     ELSE IF elementos[i].sel THEN UNCHANGED <<elementos, marcados>> ELSE Elige({elementos[i].ruta})
  /\ UNCHANGED <<disco, rejilla, visible, arrastre, gesto, cambios>>
\* mover_a_papelera: the card first, with a name nobody has there, and then the file; it
\* may fail at any of the two, and takes the card away if the file does not go.
NombreLibre(f) == CHOOSE n \in {<<f, k>> : k \in 1..9} :
                    /\ n \notin papelera.ficheros \cup papelera.fichas
                    /\ \A k \in 1..(n[2] - 1) : <<f, k>> \in papelera.ficheros \cup papelera.fichas
EliminarSeleccion ==
  /\ Libre /\ Seleccion(elementos) # {}
  /\ \E van \in SUBSET (Seleccion(elementos) \cap carpeta) :
       /\ carpeta' = carpeta \ van
       /\ papelera' = [ficheros |-> papelera.ficheros \cup {NombreLibre(f) : f \in van},
                       fichas |-> papelera.fichas \cup {NombreLibre(f) : f \in van}]
       /\ IF van # {} THEN Relee(carpeta') ELSE UNCHANGED <<elementos, marcados>>
  /\ UNCHANGED <<colores, guardadas, rejilla, visible, arrastre, gesto, cambios>>
CrearCarpeta ==
  /\ Cambio /\ Libre /\ visible /\ ToSet(Nuevas) \ carpeta # {}
  /\ LET nueva == Nuevas[CHOOSE i \in DOMAIN Nuevas : Nuevas[i] \notin carpeta /\ \A j \in 1..(i - 1) : Nuevas[j] \in carpeta] IN
     /\ carpeta' = carpeta \cup {nueva}
     /\ elementos' = [i \in DOMAIN Releida(carpeta') |->
                        [Releida(carpeta')[i] EXCEPT !.sel = Nombre[Releida(carpeta')[i].ruta] = Nombre[nueva]]]
     /\ marcados' = {nueva}
  /\ UNCHANGED <<colores, guardadas, papelera, rejilla, visible, arrastre, gesto>>
Mostrar ==
  /\ Libre /\ visible' = ~visible /\ arrastre' = <<>> /\ marcados' = {}
  /\ elementos' = IF visible' THEN Asignar(Leer(carpeta), guardadas, rejilla) ELSE <<>>
  /\ UNCHANGED <<disco, rejilla, gesto, cambios>>
\* colorear: the folders of the selection; the file of the explorer is read just before.
Colorear(si) ==
  LET suyas == Seleccion(elementos) \cap Carpetas IN
  /\ Cambio /\ Libre /\ suyas # {} /\ Seleccion(elementos) \subseteq Carpetas
  /\ colores' = IF si THEN colores \cup suyas ELSE colores \ suyas
  /\ elementos' = [i \in DOMAIN elementos |->
                     IF elementos[i].ruta \in suyas THEN [elementos[i] EXCEPT !.color = si] ELSE elementos[i]]
  /\ UNCHANGED <<carpeta, guardadas, papelera, rejilla, visible, arrastre, gesto, marcados>>

Next ==
  \/ Fuera \/ Latido \/ Recolocar \/ Arrancar
  \/ \E celda \in Celdas(rejilla), ctrl \in BOOLEAN : PulsarIcono(celda, ctrl)
  \/ \E celda \in Celdas(rejilla), ctrl \in BOOLEAN : PulsarHueco(celda, ctrl)
  \/ MoverBanda \/ MoverIconos \/ SoltarEscritorio
  \/ \E celda \in Celdas(rejilla) : PulsarDerecho(celda)
  \/ EliminarSeleccion \/ CrearCarpeta \/ Mostrar
  \/ \E si \in BOOLEAN : Colorear(si)
Spec == Init /\ [][Next]_vars

(***************************************************************************)
(* Properties.                                                             *)
(***************************************************************************)
\* Every variable has its type.
TypeOK ==
  /\ carpeta \subseteq Ficheros /\ colores \subseteq Carpetas /\ rejilla \in Rejillas /\ visible \in BOOLEAN
  /\ \A i \in DOMAIN elementos : elementos[i].ruta \in Ficheros /\ elementos[i].sel \in BOOLEAN
  /\ gesto.que \in {"no", "banda", "iconos"} /\ marcados \subseteq Ficheros

\* Every icon is on the grid, and no two share a cell while there is one for each
\* (escritorio.rs: "perder un icono porque la pantalla es pequena es peor que solaparlo").
SinSolape ==
  /\ Ocupadas(elementos) \subseteq Celdas(rejilla)
  /\ Len(elementos) <= rejilla[1] * rejilla[2] => Cardinality(Ocupadas(elementos)) = Len(elementos)
\* An icon the user placed stays where it was left, whatever comes, goes or grows, while
\* its cell exists ("para que un icono nuevo no le quite el sitio a uno que el usuario coloco").
ColocadoQuieto ==
  \A i \in DOMAIN elementos :
    LET n == Nombre[elementos[i].ruta] IN
    (n \in DOMAIN guardadas /\ guardadas[n] \in Celdas(rejilla)) => elementos[i].celda = guardadas[n]
\* Nothing is selected that the user has not selected ("arrastrar de una seleccion fantasma
\* borraria o moveria otra cosa"): what Supr sends to the trash.
SinSeleccionFantasma == Seleccion(elementos) \subseteq marcados
\* What is in the trash has the card that says where it came from.
PapeleraConFicha == papelera.ficheros \subseteq papelera.fichas
\* The grid is whole and what is done to the selection is done to what was selected.
IconosEnOrden == SinSolape /\ ColocadoQuieto /\ SinSeleccionFantasma /\ PapeleraConFicha

\* A folder has the colour the explorer gives it ("los mismos que dibuja bookos-explorer").
ColorVeraz ==
  \A i \in DOMAIN elementos : elementos[i].ruta \in Carpetas => elementos[i].color = (elementos[i].ruta \in colores)
\* A position the user gave is not forgotten because the icon is away for a while.
PosicionGuardada == [][DOMAIN guardadas \subseteq DOMAIN guardadas']_vars
=============================================================================
