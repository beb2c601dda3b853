----------------------------- MODULE Launchpad -----------------------------
(***************************************************************************)
(* The grid of applications (bookos-shell, emergente/launchpad.rs): its    *)
(* folders, the applications taken off it, the order given by hand, the    *)
(* search, the open folder with its name and colour fields, the page, and  *)
(* the icon that is being dragged; and launchpad.conf, which is rewritten  *)
(* whole after every change and read again at the next opening.            *)
(*                                                                         *)
(* Geometry is reduced to what the code asks of a point: the cell of the   *)
(* page it falls in and on which side of its icon, the dock, or outside    *)
(* the grid.  A query is the list of what it finds.                        *)
(***************************************************************************)
EXTENDS Naturals, SequencesExt

CONSTANTS Instaladas,   \* the applications, in alphabetical order
          Nombres,      \* names a user may type for a folder
          Carpeta,      \* the name a folder is born with
          Colores,      \* the colours of the selector
          Hallazgos,    \* what each thing that can be typed finds
          PorPagina, PorPaginaCarpeta,  \* cells of a page, out of a folder and in one
          MaxCarpetas,  \* bound: folders that exist at once
          Discos,       \* what launchpad.conf may hold at the start
          Nada

VARIABLES abierto, carpetas, ocultas, orden, disco,
          editando, arrastre,
          dentro, renombrando, paleta_abierta,
          visibles, consulta, pagina

datos == <<carpetas, ocultas, orden, disco>>
campos == <<renombrando, paleta_abierta>>
vista == <<dentro, visibles, consulta, pagina>>
vars == <<abierto, datos, editando, arrastre, campos, vista>>

Apps == ToSet(Instaladas)
EsApp(x) == x \in Apps
Menor(a, b) == IF a < b THEN a ELSE b

\* launchpad.conf as it reads back
Conf(cs, oc, ord) == [carpetas |-> cs, ocultas |-> oc, orden |-> ord]

\* where the button can go down or up: a cell of the page, beside its icon or on it
Celdas == [celda : 1..PorPagina, lado : {"icono", "antes", "despues"}]
Lugares == Celdas \cup [celda : {0}, lado : {"dock", "fuera", "izquierda", "derecha"}]

Fuera == [celda |-> 0, lado |-> "fuera"]

PorPaginaEn(d) == IF d = Nada THEN PorPagina ELSE PorPaginaCarpeta
Paginas(vs, d) == IF vs = <<>> THEN 1 ELSE ((Len(vs) - 1) \div PorPaginaEn(d)) + 1

AppsDe(cs, d) == SelectSeq(cs[d].apps, EsApp)

(* What is in no folder and has not been taken off: first what the user    *)
(* has placed by hand, then the rest in alphabetical order.                *)
Sueltas(cs, oc, ord) ==
  LET EnCarpeta(a) == \E k \in DOMAIN cs : a \in ToSet(cs[k].apps)
      Suelta(a) == EsApp(a) /\ ~EnCarpeta(a) /\ a \notin oc
      SinOrden(a) == Suelta(a) /\ a \notin ToSet(ord)
  IN  SelectSeq(ord, Suelta) \o SelectSeq(Instaladas, SinOrden)

RehacerVisibles(cs, oc, ord, d, q, vs) ==
  CASE d # Nada -> AppsDe(cs, d)
    [] d = Nada /\ q # <<>> -> vs
    [] OTHER -> [k \in 1..Len(cs) |-> k] \o Sueltas(cs, oc, ord)

(* The cell a place names, as a position in visibles; 0 when it is none.   *)
PosicionEn(l, p, d) ==
  IF l.celda \in 1..PorPaginaEn(d) THEN p * PorPaginaEn(d) + l.celda ELSE 0
CeldaEn(l, p, d, vs) ==
  LET i == PosicionEn(l, p, d) IN IF i \in DOMAIN vs THEN i ELSE 0

-----------------------------------------------------------------------------
(* Opening, closing and what a change of the folders leaves.               *)

Recogido ==
  /\ editando' = FALSE /\ arrastre' = Nada
  /\ dentro' = Nada /\ renombrando' = Nada
  /\ paleta_abierta' = FALSE
  /\ consulta' = <<>> /\ pagina' = 0

Abrir ==
  /\ ~abierto /\ abierto' = TRUE
  /\ carpetas' = disco.carpetas /\ ocultas' = disco.ocultas /\ orden' = disco.orden
  /\ visibles' = RehacerVisibles(carpetas', ocultas', orden', Nada, <<>>, <<>>)
  /\ Recogido /\ UNCHANGED disco

(* Launching, Esc with nothing left to undo, or a click elsewhere.         *)
Cerrar ==
  /\ abierto /\ abierto' = FALSE
  /\ carpetas' = <<>> /\ ocultas' = {} /\ orden' = <<>> /\ visibles' = <<>>
  /\ Recogido /\ UNCHANGED disco

Guardar == disco' = Conf(carpetas', ocultas', orden')

(* tras_cambiar_carpetas, but for the page: folders of one application go, *)
(* and the open one is found again by its name.                            *)
Reajustar(cs) ==
  LET quedan == SelectSeq(cs, LAMBDA c : Len(c.apps) > 1)
      mismas == {k \in DOMAIN quedan : dentro # Nada /\ quedan[k].nombre = cs[dentro].nombre}
  IN  /\ carpetas' = quedan
      /\ dentro' = IF mismas = {} THEN Nada ELSE CHOOSE k \in mismas : \A j \in mismas : k <= j
      /\ visibles' = RehacerVisibles(quedan, ocultas', orden, dentro', consulta, visibles)
      /\ Guardar

SinPasarseOlvidado == pagina' = pagina                                       \* a slip

SinPasarse == pagina' = Menor(pagina, Paginas(visibles', dentro') - 1)

TrasCambiarCarpetas(cs) == Reajustar(cs) /\ SinPasarse

Sin(cs, a) == [k \in DOMAIN cs |-> [cs[k] EXCEPT !.apps = SelectSeq(cs[k].apps, LAMBDA b : b # a)]]

-----------------------------------------------------------------------------
(* The fields: the name and the colour of the open folder.                 *)

(* confirmar_nombre on the folders: an empty name leaves the old one.      *)
Renombradas ==
  IF renombrando # "" THEN [carpetas EXCEPT ![dentro].nombre = renombrando] ELSE carpetas

(* A press elsewhere confirms the name before anything else happens.       *)
ConfirmarNombre ==
  /\ renombrando' = Nada
  /\ IF dentro # Nada /\ renombrando # Nada /\ Renombradas # carpetas
     THEN Reajustar(Renombradas) /\ SinPasarse
     ELSE UNCHANGED <<carpetas, disco, dentro, visibles, pagina>>

PulsarTitulo ==
  /\ abierto /\ arrastre = Nada /\ dentro # Nada /\ ~paleta_abierta
  /\ renombrando' = carpetas[dentro].nombre
  /\ UNCHANGED <<abierto, datos, editando, arrastre, paleta_abierta, vista>>

EscribirNombre ==
  /\ abierto /\ renombrando # Nada
  /\ \E n \in Nombres \cup {""} : renombrando' = n
  /\ UNCHANGED <<abierto, datos, editando, arrastre, paleta_abierta, vista>>

IntroNombre ==
  /\ abierto /\ renombrando # Nada
  /\ UNCHANGED <<abierto, ocultas, orden, editando, arrastre, paleta_abierta, consulta>>
  /\ ConfirmarNombre

EscapeNombre ==
  /\ abierto /\ renombrando # Nada /\ renombrando' = Nada
  /\ UNCHANGED <<abierto, datos, editando, arrastre, paleta_abierta, vista>>

PulsarChip ==
  /\ abierto /\ arrastre = Nada /\ dentro # Nada
  /\ paleta_abierta' = ~paleta_abierta
  /\ UNCHANGED <<abierto, datos, editando, arrastre, renombrando, vista>>

(* The colour that is already on goes off.                                 *)
PonerColor(c) ==
  /\ carpetas' = [carpetas EXCEPT ![dentro].color = IF carpetas[dentro].color = c THEN Nada ELSE c]
  /\ Guardar

PulsarColor ==
  /\ abierto /\ arrastre = Nada /\ dentro # Nada /\ paleta_abierta
  /\ paleta_abierta' = FALSE
  /\ UNCHANGED <<abierto, ocultas, orden, editando, arrastre, renombrando, vista>>
  /\ \E c \in Colores : PonerColor(c)

PulsarFueraDePaleta ==
  /\ abierto /\ arrastre = Nada /\ dentro # Nada /\ paleta_abierta
  /\ paleta_abierta' = FALSE
  /\ UNCHANGED <<abierto, datos, editando, arrastre, renombrando, vista>>

(* The tab key, and Enter while the selector is open: with no folder open  *)
(* neither does anything.                                                  *)
Tabulador ==
  /\ abierto /\ renombrando = Nada /\ dentro # Nada
  /\ paleta_abierta' = ~paleta_abierta
  /\ UNCHANGED <<abierto, datos, editando, arrastre, renombrando, vista>>

IntroEnPaleta ==
  /\ abierto /\ renombrando = Nada /\ paleta_abierta /\ dentro # Nada
  /\ paleta_abierta' = FALSE
  /\ UNCHANGED <<abierto, ocultas, orden, editando, arrastre, renombrando, vista>>
  /\ \E c \in Colores : PonerColor(c)

-----------------------------------------------------------------------------
(* The search.                                                             *)

(* filtrar: nothing that was taken off comes out; the first is selected.   *)
Filtrar(q) ==
  /\ consulta' = q
  /\ visibles' = IF q # <<>> THEN SelectSeq(q[1], LAMBDA a : a \notin ocultas)
                 ELSE RehacerVisibles(carpetas, ocultas, orden, dentro', q, <<>>)
  /\ pagina' = 0

(* Typing leaves the folder and searches everything.                       *)
Caracter ==
  /\ abierto /\ renombrando = Nada
  /\ dentro' = Nada
  /\ \E h \in Hallazgos : Filtrar(<<h>>)
  /\ UNCHANGED <<abierto, datos, editando, arrastre, campos>>

(* The last letter goes: the ✕ of the field, Esc and the delete keys.      *)
BorrarConsulta ==
  /\ abierto /\ renombrando = Nada /\ UNCHANGED dentro
  /\ Filtrar(<<>>)
  /\ UNCHANGED <<abierto, datos, editando, arrastre, campos>>

PulsarLimpiar ==
  /\ abierto /\ arrastre = Nada /\ consulta # <<>> /\ dentro = Nada
  /\ UNCHANGED dentro /\ Filtrar(<<>>)
  /\ UNCHANGED <<abierto, datos, editando, arrastre, campos>>

-----------------------------------------------------------------------------
(* Esc undoes the last thing: the search, the selector, the edit mode, the *)
(* folder; and only then it closes.                                        *)

EscapeEnPaleta ==
  /\ abierto /\ renombrando = Nada /\ consulta = <<>> /\ paleta_abierta
  /\ paleta_abierta' = FALSE
  /\ UNCHANGED <<abierto, datos, editando, arrastre, renombrando, vista>>

EscapeEditando ==
  /\ abierto /\ renombrando = Nada /\ consulta = <<>> /\ ~paleta_abierta /\ editando
  /\ editando' = FALSE
  /\ UNCHANGED <<abierto, datos, arrastre, campos, vista>>

SalirDeCarpeta ==
  /\ abierto /\ renombrando = Nada /\ consulta = <<>> /\ ~paleta_abierta /\ ~editando
  /\ dentro # Nada /\ dentro' = Nada
  /\ consulta' = <<>> /\ pagina' = 0 /\ paleta_abierta' = FALSE
  /\ visibles' = RehacerVisibles(carpetas, ocultas, orden, Nada, <<>>, <<>>)
  /\ UNCHANGED <<abierto, datos, editando, arrastre, renombrando>>

AlternarEdicion ==
  /\ abierto /\ editando' = ~editando
  /\ UNCHANGED <<abierto, datos, arrastre, campos, vista>>

-----------------------------------------------------------------------------
(* Pages and the selection.                                                *)

AbrirCarpeta(k) ==
  /\ dentro' = k /\ pagina' = 0
  /\ visibles' = AppsDe(carpetas, k)
  /\ UNCHANGED <<abierto, datos, editando, campos, consulta>>

(* activar on a folder; on an application it launches, which is Cerrar.    *)
(* What is selected is left out: Enter may find any folder that is shown.  *)
Intro ==
  /\ abierto /\ renombrando = Nada /\ ~paleta_abierta
  /\ \E i \in DOMAIN visibles : ~EsApp(visibles[i]) /\ AbrirCarpeta(visibles[i])
  /\ UNCHANGED arrastre

(* The arrows, Home and End: the page goes after the selection.            *)
Mover ==
  /\ abierto /\ renombrando = Nada /\ ~paleta_abierta
  /\ \E i \in DOMAIN visibles : pagina' = (i - 1) \div PorPaginaEn(dentro)
  /\ UNCHANGED <<abierto, datos, editando, arrastre, campos, dentro, visibles, consulta>>

(* The page keys and the wheel.                                            *)
Vecinas == {p \in {pagina + 1} \cup (IF pagina > 0 THEN {pagina - 1} ELSE {}) :
              p < Paginas(visibles, dentro)}
PasarPagina ==
  /\ abierto /\ pagina' \in Vecinas
  /\ UNCHANGED <<abierto, datos, editando, arrastre, campos, dentro, visibles, consulta>>

-----------------------------------------------------------------------------
(* The pointer.  Nothing is launched on a press: it grabs.                 *)

PulsarQuitar ==
  /\ abierto /\ arrastre = Nada /\ editando
  /\ UNCHANGED <<abierto, orden, editando, arrastre, campos, consulta>>
  /\ \E l \in Celdas :
       LET i == CeldaEn(l, pagina, dentro, visibles)
       IN  /\ i # 0 /\ EsApp(visibles[i])
           /\ ocultas' = ocultas \cup {visibles[i]}
           /\ TrasCambiarCarpetas(Sin(carpetas, visibles[i]))

Pulsar ==
  /\ abierto /\ arrastre = Nada /\ ~(dentro # Nada /\ paleta_abierta)
  /\ UNCHANGED <<ocultas, orden>>
  /\ IF dentro # Nada THEN ConfirmarNombre
     ELSE UNCHANGED <<renombrando, carpetas, disco, dentro, visibles, pagina>>
  /\ \/ arrastre' = Nada
     \/ \E l \in Celdas :
          /\ CeldaEn(l, pagina', dentro', visibles') # 0
          /\ arrastre' = [origen |-> CeldaEn(l, pagina', dentro', visibles'),
                          movido |-> FALSE, lugar |-> Fuera]
  /\ UNCHANGED <<abierto, editando, paleta_abierta, consulta>>

(* Beyond the sides of the grid an icon in the air turns the page, at most *)
(* once every 700 ms (the clock is left out: it may or may not).           *)
PasarPorBorde(l) ==
  /\ dentro = Nada /\ consulta = <<>>
  /\ l.lado \in {"izquierda", "derecha"}
  /\ pagina' \in Vecinas /\ (pagina' > pagina <=> l.lado = "derecha")

Arrastrar ==
  /\ abierto /\ arrastre # Nada
  /\ \E l \in Lugares :
       /\ arrastre' = [arrastre EXCEPT !.movido = TRUE, !.lugar = l]
       /\ PasarPorBorde(l) \/ pagina' = pagina
  /\ UNCHANGED <<abierto, datos, editando, campos, dentro, visibles, consulta>>

(* What was grabbed, looked up when it is dropped: the position it had,    *)
(* in the list there is now; 0 when nothing is there.                      *)
Agarrada ==
  IF arrastre # Nada /\ arrastre.origen \in DOMAIN visibles
  THEN visibles[arrastre.origen] ELSE 0

(* Where what is dropped would go, before which position; 0 when it would  *)
(* not be moved.                                                           *)
HuecoEn(l) ==
  LET i == PosicionEn(l, pagina, dentro)
  IN  CASE dentro # Nada \/ consulta # <<>> \/ i = 0 -> 0
        [] dentro = Nada /\ i > Len(visibles) -> Len(visibles) + 1
        [] OTHER -> [icono |-> 0, antes |-> i, despues |-> i + 1][l.lado]

(* A click: it opens a folder (on an application it launches: Cerrar).     *)
SoltarClic ==
  /\ abierto /\ arrastre # Nada /\ ~arrastre.movido /\ arrastre' = Nada
  /\ IF arrastre.origen \in DOMAIN visibles /\ ~EsApp(visibles[arrastre.origen])
     THEN AbrirCarpeta(visibles[arrastre.origen])
     ELSE UNCHANGED <<abierto, datos, editando, campos, vista>>

(* Dropped on the dock it is pinned there and the grid does not change.    *)
SoltarEnDock ==
  /\ abierto /\ arrastre # Nada /\ arrastre.movido /\ arrastre.lugar.lado = "dock"
  /\ arrastre' = Nada
  /\ UNCHANGED <<abierto, datos, editando, campos, vista>>

(* Between two icons: the whole order of the loose ones is written.        *)
MoverA ==
  /\ abierto /\ arrastre # Nada /\ arrastre.movido /\ arrastre.lugar.lado # "dock"
  /\ arrastre' = Nada
  /\ LET hueco == HuecoEn(arrastre.lugar)
         n == Len(carpetas)
         desde == arrastre.origen - n
         sueltas == SelectSeq(visibles, EsApp)
         en == Menor((IF hueco > n THEN hueco - n ELSE 1)
                       - (IF desde < hueco - n THEN 1 ELSE 0), Len(sueltas))
         resto == RemoveAt(sueltas, desde)
     IN  /\ hueco # 0
         /\ IF EsApp(Agarrada)
            THEN /\ orden' = InsertAt(resto, en, sueltas[desde])
                 /\ visibles' = RehacerVisibles(carpetas, ocultas, orden', Nada, <<>>, <<>>)
                 /\ pagina' = (n + en - 1) \div PorPagina
                 /\ UNCHANGED <<carpetas, ocultas>>
                 /\ Guardar
            ELSE UNCHANGED <<datos, visibles, pagina>>
  /\ UNCHANGED <<abierto, editando, campos, dentro, consulta>>

(* On an icon, or outside.                                                 *)
SoltarEn(destino, A(_)) ==
  /\ abierto /\ arrastre # Nada /\ arrastre.movido /\ arrastre.lugar.lado # "dock"
  /\ HuecoEn(arrastre.lugar) = 0
  /\ EsApp(Agarrada) /\ destino # arrastre.origen /\ arrastre' = Nada
  /\ UNCHANGED <<abierto, ocultas, orden, editando, campos, consulta>>
  /\ A(Agarrada)

Destino == IF arrastre = Nada THEN 0 ELSE CeldaEn(arrastre.lugar, pagina, dentro, visibles)

(* On another application, out of a folder: a folder with the two, and it  *)
(* is shown.                                                               *)
CrearCarpeta ==
  LET Nueva(a) ==
        LET cs == Append(carpetas, [nombre |-> Carpeta, color |-> Nada,
                                    apps |-> <<visibles[Destino], a>>])
            con == {i \in DOMAIN visibles' :
                      ~EsApp(visibles'[i]) /\ visibles[Destino] \in ToSet(carpetas'[visibles'[i]].apps)}
            i == CHOOSE i \in con : \A j \in con : i <= j
        IN  /\ Reajustar(cs)
            /\ IF con = {} THEN SinPasarse ELSE pagina' = (i - 1) \div PorPaginaEn(dentro')
  IN  /\ Destino # 0 /\ EsApp(visibles[Destino]) /\ dentro = Nada
      /\ Len(carpetas) < MaxCarpetas
      /\ SoltarEn(Destino, Nueva)

MeterEnCarpeta ==
  LET k == visibles[Destino]
      Meter(a) == TrasCambiarCarpetas([Sin(carpetas, a) EXCEPT ![k].apps = Append(@, a)])
  IN  Destino # 0 /\ ~EsApp(k) /\ SoltarEn(Destino, Meter)

SacarDeCarpeta ==
  LET Sacar(a) == TrasCambiarCarpetas(
        [carpetas EXCEPT ![dentro].apps = SelectSeq(carpetas[dentro].apps, LAMBDA b : b # a)])
  IN  Destino = 0 /\ dentro # Nada /\ SoltarEn(0, Sacar)

(* What is left: nothing was grabbed any more, a folder was, it came down  *)
(* on itself, or on another icon of the same folder.                       *)
SoltarEnVano ==
  /\ abierto /\ arrastre # Nada /\ arrastre.movido /\ arrastre.lugar.lado # "dock"
  /\ HuecoEn(arrastre.lugar) = 0
  /\ \/ ~EsApp(Agarrada)
     \/ Destino = arrastre.origen
     \/ Destino = 0 /\ dentro = Nada
     \/ Destino # 0 /\ EsApp(visibles[Destino]) /\ dentro # Nada
  /\ arrastre' = Nada
  /\ UNCHANGED <<abierto, datos, editando, campos, vista>>

-----------------------------------------------------------------------------
Init ==
  /\ disco \in Discos /\ abierto = FALSE
  /\ carpetas = <<>> /\ ocultas = {} /\ orden = <<>> /\ visibles = <<>>
  /\ editando = FALSE /\ arrastre = Nada
  /\ dentro = Nada /\ renombrando = Nada /\ paleta_abierta = FALSE
  /\ consulta = <<>> /\ pagina = 0

Next ==
  \/ Abrir \/ Cerrar
  \/ PulsarTitulo \/ EscribirNombre \/ IntroNombre \/ EscapeNombre
  \/ PulsarChip \/ PulsarColor \/ PulsarFueraDePaleta
  \/ Tabulador \/ IntroEnPaleta
  \/ Caracter \/ BorrarConsulta \/ PulsarLimpiar
  \/ EscapeEnPaleta \/ EscapeEditando \/ SalirDeCarpeta \/ AlternarEdicion
  \/ Intro \/ Mover \/ PasarPagina
  \/ PulsarQuitar \/ Pulsar \/ Arrastrar
  \/ SoltarClic \/ SoltarEnDock \/ MoverA
  \/ CrearCarpeta \/ MeterEnCarpeta \/ SacarDeCarpeta \/ SoltarEnVano

Spec == Init /\ [][Next]_vars

-----------------------------------------------------------------------------
(* The page that is shown begins inside the list: preparar_pagina slices   *)
(* visibles from it, and a page left past the end panics the shell.        *)
PaginaConAlgo == pagina * PorPaginaEn(dentro) <= Len(visibles)

(* The open folder and the folder cells exist: they are indices into a     *)
(* list that every change of the folders shortens.                         *)
IndicesVivos ==
  /\ dentro # Nada => dentro \in DOMAIN carpetas
  /\ \A i \in DOMAIN visibles : EsApp(visibles[i]) \/ visibles[i] \in DOMAIN carpetas

(* No application is lost: out of a search and of a folder, each one is in *)
(* the grid, in a folder of the grid or taken off, and in the grid once.   *)
TodasAlcanzables ==
  abierto /\ dentro = Nada /\ consulta = <<>> =>
    /\ IsInjective(visibles)
    /\ \A a \in Apps :
         \/ a \in ToSet(visibles)
         \/ a \in ocultas
         \/ \E k \in DOMAIN carpetas : k \in ToSet(visibles) /\ a \in ToSet(carpetas[k].apps)

(* What is open and what would be read back say the same: each change of   *)
(* the folders, the order or what was taken off reached the file.          *)
DiscoAlDia == abierto => disco = Conf(carpetas, ocultas, orden)

(* No folder holds fewer than two applications.                            *)
CarpetasDeVerdad == \A k \in DOMAIN carpetas : Len(carpetas[k].apps) >= 2

RejillaEntera ==
  PaginaConAlgo /\ IndicesVivos /\ TodasAlcanzables /\ DiscoAlDia /\ CarpetasDeVerdad

(* An application is in a folder or in none, never in two                  *)
(* (launchpad.rs:1611).                                                    *)
UnaCarpeta ==
  \A j, k \in DOMAIN carpetas :
    j # k => ToSet(carpetas[j].apps) \cap ToSet(carpetas[k].apps) = {}

(* The open folder stays the same one until the user leaves it or it goes. *)
MismaCarpeta ==
  [][dentro # Nada /\ dentro' # Nada =>
       \E a \in ToSet(carpetas[dentro].apps) : a \in ToSet(carpetas'[dentro'].apps)]_vars

=============================================================================
