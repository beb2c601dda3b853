------------------------------- MODULE Scene -------------------------------
(***************************************************************************)
(* What a frame shows, from the front to the back (backend/mod.rs,         *)
(* componer; shell.rs, elements), and whom a click belongs to (contiene).  *)
(* Two pieces of code that have to agree, fed by the state of many others: *)
(* the lock, the cards, the overview of the desktops, whose windows travel *)
(* to their cells and back, the switcher, the capture layer, the notices   *)
(* and the windows.  The shell lives in the principal output, "p".         *)
(***************************************************************************)
EXTENDS Naturals, Sequences, FiniteSets, SequencesExt

CONSTANTS
  Ventanas,      \* the windows, those whose name is in Otras in the output "s"
  Otras,
  MaxPuestas     \* bound: how many of the free surfaces are up at once, or one more with the bars away

Nadie == "nadie"
Ninguna == "ninguna"
Salidas == {"p", "s"}
SalidaDe(w) == IF w \in Otras THEN "s" ELSE "p"
\* "buscador" stands for every card that leaves the screen in sight.
Tarjetas == {"escritorios", "launchpad", "buscador"}
\* Surfaces others raise and lower: the level bar, a notification, the island,
\* the diagnosis, a client's layer, the icon in the hand, the preview
\* of a zone, the elastic band.
Sueltas == {"osd", "toast", "isla", "diagnostico", "capa", "agarrado", "previa", "banda"}

VARIABLES
  bloqueo,      \* the lock is up, and its surface
  sale,         \* desbloqueo: its last image is fading
  abierta,      \* the card the shell has open, or Ninguna
  yendose,      \* the surface of the one it closed, still leaving
  vista,        \* TransicionVista: its phase, and the windows of its last grid
  arrastre,     \* arrastre_vista: the window taken in the overview, if it moves
  conmuta,      \* the switcher: "no", "apps" or "ventanas"
  captura,      \* the capture layer
  puestas,      \* which of Sueltas are up
  fuera,        \* the bars that dodge
  pila,         \* the windows of the desktops in sight, from below
  ventana       \* how each is: "cerrada", "sinsitio", "puesta", "encoge", "cierra", "lejos", "aparte"
vars == <<bloqueo, sale, abierta, yendose, vista, arrastre, conmuta, captura, puestas, fuera, pila, ventana>>

\* "completa" is kept apart: a window on the full screen is also "puesta".  In another
\* desktop it is "aparte", and any other "lejos".
Puesta(w) == ventana[w] \in {"puesta", "completa"}
Lejos(w) == ventana[w] \in {"lejos", "aparte"}
VistaAbierta == abierta = "escritorios"
TapaLaPantalla == abierta \in {"escritorios", "launchpad"}
HayPantallaCompletaEn(o) == \E w \in Ventanas : ventana[w] = "completa" /\ SalidaDe(w) = o
DockALaVista == ~TapaLaPantalla \/ abierta = "launchpad"
Velada == abierta \in {"launchpad", "buscador"}

(***************************************************************************)
(* The layers, each <<what, whose>>.                                       *)
(***************************************************************************)
Capa(que, si) == IF si THEN <<<<que, Nadie>>>> ELSE <<>>
DeVentanas(que, ws) == [i \in 1..Len(ws) |-> <<que, ws[i]>>]
DelanteAtras(Elige(_)) == Reverse(SelectSeq(pila, Elige))

Exposicion == {w \in Range(pila) : SalidaDe(w) = "p"}
\* expuestas_ahora: the grid while it is open, and the last one while it closes.
Expuestas == IF VistaAbierta THEN Exposicion
             ELSE IF vista.fase \in {"abierta", "cerrando"} THEN vista.rejilla \cap Range(pila) ELSE {}
EnLaMano == IF arrastre = Nadie THEN {} ELSE {arrastre}

\* The switcher: its live windows, the frame and label, the card behind.
Conmutadas == IF conmuta = "ventanas" THEN DeVentanas("conmutada", DelanteAtras(LAMBDA w : TRUE)) ELSE <<>>
ConmutadorExtras == Capa("extras", conmuta = "ventanas")
Modales == Conmutadas \o ConmutadorExtras \o Capa("selector", conmuta # "no")

BarraCaptura == Capa("captura", captura /\ ~bloqueo)
VeloCaptura == Capa("velocaptura", captura /\ ~bloqueo)
CapturaElements == BarraCaptura \o VeloCaptura

\* The overview: the window in the hand, the others in their miniatures.
Miniaturas ==
  IF ~VistaAbierta THEN <<>>
  ELSE DeVentanas("arrastrada", SetToSeq(EnLaMano))
       \o DeVentanas("mini", DelanteAtras(LAMBDA w : SalidaDe(w) = "p" /\ w # arrastre))
       \o DeVentanas("mini", SetToSeq({w \in Ventanas : Lejos(w) /\ w # arrastre}))

Rejilla ==
  Capa("cerrar", VistaAbierta /\ arrastre = Nadie /\ Expuestas # {})
    \o DeVentanas("expuesta", DelanteAtras(LAMBDA w : w \in Expuestas \ EnLaMano))

\* ShellHost::elements: what the lock lets through, then the rest.
DelBloqueo ==
  Capa("saliente", sale) \o Capa("bloqueo", bloqueo) \o Capa("osd", "osd" \in puestas)
    \o Capa("diagnostico", "diagnostico" \in puestas /\ ~bloqueo) \o Capa("toast", "toast" \in puestas)
CapaIsla(completa) == Capa("isla", "isla" \in puestas /\ ~bloqueo /\ ~completa)
Barras(completa) == ~bloqueo /\ ~completa /\ ~captura
DelEscritorio(completa) ==
  Capa("agarrado", "agarrado" \in puestas /\ ~bloqueo)
    \o Capa("dock", Barras(completa) /\ TapaLaPantalla /\ DockALaVista)
    \o Capa("tarjeta", (abierta # Ninguna \/ yendose) /\ ~bloqueo)
    \o Capa("panel", Barras(completa) /\ ~TapaLaPantalla)
    \o Capa("dock", Barras(completa) /\ ~TapaLaPantalla)
Elements(completa, conIsla) == DelBloqueo \o (IF conIsla THEN CapaIsla(completa) ELSE <<>>) \o DelEscritorio(completa)

\* zonas_cristal: what is frosted, by the name of what lies over it.
ZonasCristal ==
  IF bloqueo THEN <<>>
  ELSE IF TapaLaPantalla THEN <<<<"cristal", abierta>>>>
  ELSE IF "dock" \in fuera THEN <<>> ELSE <<<<"cristal", "dock">>>>

\* Where the window being dragged would fit.
CapaPrevia == Capa("previa", "previa" \in puestas)

Velos(o, completa) ==
  Capa("velo", conmuta = "ventanas") \o CapaPrevia \o Capa("velo", o = "p" /\ Velada)
    \o (IF o = "p" /\ (VistaAbierta \/ ~completa) THEN ZonasCristal ELSE <<>>)

Cierres(o) ==
  IF bloqueo THEN <<>>
  ELSE DeVentanas("cierre", SetToSeq({w \in Ventanas : ventana[w] = "cierra" /\ SalidaDe(w) = o}))

\* What alfa <= 0 leaves out is the window that has no place yet.
Pintadas(o) ==
  IF bloqueo THEN <<>>
  ELSE DeVentanas("ventana", DelanteAtras(LAMBDA w : SalidaDe(w) = o /\ w \notin Expuestas /\ ventana[w] # "sinsitio"))

Banda == Capa("banda", "banda" \in puestas)
Iconos == Capa("icono", TRUE)
Escritorio(completa) ==
  (IF bloqueo \/ completa THEN <<>> ELSE Banda \o Iconos) \o <<<<"fondo", Nadie>>>>

Capas == Capa("capa", "capa" \in puestas /\ ~bloqueo)

\* The lock is in the principal output; the others are covered.
Cubierta == Capa("cubierta", bloqueo)

\* componer.  The grid, the miniatures and the shell are in the principal's.
Escena(o) ==
  LET completa == ~bloqueo /\ HayPantallaCompletaEn(o) IN
  LET shell == Elements(completa /\ ~VistaAbierta, ~VistaAbierta)
      enP == o = "p" IN
  <<<<"cursor", Nadie>>>> \o (IF enP THEN Capas ELSE <<>>)
    \o (IF enP THEN Modales \o CapturaElements \o (IF VistaAbierta THEN CapaIsla(FALSE) ELSE <<>>)
                    \o Miniaturas \o Rejilla \o shell
        ELSE Cubierta)
    \o Velos(o, completa) \o Cierres(o) \o Pintadas(o) \o Escritorio(completa)
Que(o) == {c[1] : c \in Range(Escena(o))}

(***************************************************************************)
(* contiene: whether the shell takes a click, by what lies at the place.   *)
(***************************************************************************)
SobreToast(z) == z = "toast" /\ "toast" \in puestas
SobreActividad(z) == z = "isla" /\ "isla" \in puestas /\ "panel" \notin fuera
Sitios == {"panel", "dock", "isla", "toast", "centro"}
Contiene(z) ==
  \/ SobreToast(z)
  \/ HayPantallaCompletaEn("p") /\ abierta # Ninguna
  \/ /\ ~HayPantallaCompletaEn("p")
     /\ \/ SobreActividad(z)
        \/ abierta # Ninguna
        \/ z \in {"panel", "dock"} /\ z \notin fuera

(***************************************************************************)
(* The lock.                                                               *)
(***************************************************************************)
\* A slip the run must catch: the lock that leaves the switcher open.
BloquearConConmutador ==
  /\ ~bloqueo /\ bloqueo' = TRUE
  /\ abierta' = Ninguna /\ yendose' = (yendose \/ abierta # Ninguna)
  /\ captura' = FALSE /\ arrastre' = Nadie
  /\ puestas' = puestas \ {"agarrado", "previa", "banda"}
  /\ UNCHANGED <<sale, vista, conmuta, fuera, pila, ventana>>

\* keybinds.rs, bloquear: what was open is closed first.
Bloquear ==
  /\ ~bloqueo /\ bloqueo' = TRUE
  /\ abierta' = Ninguna /\ yendose' = (yendose \/ abierta # Ninguna)
  /\ conmuta' = "no" /\ captura' = FALSE /\ arrastre' = Nadie
  /\ puestas' = puestas \ {"agarrado", "previa", "banda"}
  /\ UNCHANGED <<sale, vista, fuera, pila, ventana>>

\* With reduced effects nothing fades.
Desbloquear ==
  /\ bloqueo
  /\ bloqueo' = FALSE
  /\ sale' \in BOOLEAN
  /\ UNCHANGED <<abierta, yendose, vista, arrastre, conmuta, captura, puestas, fuera, pila, ventana>>

(***************************************************************************)
(* The cards and the overview.                                             *)
(***************************************************************************)
Abrir(t) ==
  /\ ~bloqueo /\ abierta # t
  /\ abierta' = t /\ yendose' = FALSE
  /\ puestas' = puestas \ {"agarrado"}
  /\ UNCHANGED <<bloqueo, sale, vista, arrastre, conmuta, captura, fuera, pila, ventana>>

CerrarEmergente ==
  /\ abierta # Ninguna
  /\ abierta' = Ninguna /\ yendose' = TRUE
  /\ puestas' = puestas \ {"agarrado"}
  /\ UNCHANGED <<bloqueo, sale, vista, arrastre, conmuta, captura, fuera, pila, ventana>>

\* boton_en_vista and mover_en_vista: past the threshold it is a drag.
Coger(w) ==
  /\ VistaAbierta /\ arrastre = Nadie
  /\ w \in Range(pila) \/ Lejos(w)
  /\ SalidaDe(w) = "p"
  /\ arrastre' = w
  /\ UNCHANGED <<bloqueo, sale, abierta, yendose, vista, conmuta, captura, puestas, fuera, pila, ventana>>

\* Dropped in another desktop, trasladar takes it there; anywhere else, nothing.
Soltar ==
  /\ arrastre # Nadie
  /\ arrastre' = Nadie
  /\ \/ UNCHANGED <<pila, ventana>>
     \/ /\ VistaAbierta
        /\ IF Lejos(arrastre)
           THEN pila' = Append(pila, arrastre)
                /\ ventana' = [ventana EXCEPT ![arrastre] = IF @ = "lejos" THEN "puesta" ELSE "completa"]
           ELSE Puesta(arrastre) /\ pila' = Remove(pila, arrastre)
                /\ ventana' = [ventana EXCEPT ![arrastre] = IF @ = "puesta" THEN "lejos" ELSE "aparte"]
  /\ UNCHANGED <<bloqueo, sale, abierta, yendose, vista, conmuta, captura, puestas, fuera>>

(***************************************************************************)
(* A frame moves the overview along, and what has ended is let go of.      *)
(***************************************************************************)
Fotograma ==
  /\ vista' = IF VistaAbierta THEN [fase |-> "abierta", rejilla |-> Expuestas]
              ELSE IF vista.fase = "abierta" THEN [vista EXCEPT !.fase = "cerrando"]
              ELSE vista
  /\ vista' # vista
  /\ UNCHANGED <<bloqueo, sale, abierta, yendose, arrastre, conmuta, captura, puestas, fuera, pila, ventana>>

TerminaVista ==
  /\ vista.fase = "cerrando" /\ ~VistaAbierta
  /\ vista' = [fase |-> "cerrada", rejilla |-> {}]
  /\ UNCHANGED <<bloqueo, sale, abierta, yendose, arrastre, conmuta, captura, puestas, fuera, pila, ventana>>

\* fin_animacion, once nothing moves.
FinAnimacion ==
  /\ yendose \/ sale
  /\ yendose' = FALSE /\ sale' = FALSE
  /\ UNCHANGED <<bloqueo, abierta, vista, arrastre, conmuta, captura, puestas, fuera, pila, ventana>>

(***************************************************************************)
(* The switcher, the capture layer and the free surfaces.                  *)
(***************************************************************************)
Conmutar(modo) ==
  /\ ~bloqueo /\ conmuta = "no" /\ abierta = Ninguna /\ pila # <<>>
  /\ conmuta' = modo
  /\ UNCHANGED <<bloqueo, sale, abierta, yendose, vista, arrastre, captura, puestas, fuera, pila, ventana>>
CerrarConmutador ==
  /\ conmuta # "no" /\ conmuta' = "no"
  /\ UNCHANGED <<bloqueo, sale, abierta, yendose, vista, arrastre, captura, puestas, fuera, pila, ventana>>

AlternarCaptura ==
  /\ ~bloqueo /\ conmuta = "no"
  /\ captura' = ~captura
  /\ UNCHANGED <<bloqueo, sale, abierta, yendose, vista, arrastre, conmuta, puestas, fuera, pila, ventana>>

Cabe(ps, fs) == Cardinality(ps) <= MaxPuestas /\ (ps # {} => Cardinality(ps) + Cardinality(fs) <= MaxPuestas + 1)
Alterna(s) ==
  /\ puestas' = IF s \in puestas THEN puestas \ {s} ELSE puestas \cup {s}
  /\ Cabe(puestas', fuera)
  /\ UNCHANGED <<bloqueo, sale, abierta, yendose, vista, arrastre, conmuta, captura, fuera, pila, ventana>>

Osd == Alterna("osd")
Diagnostico == ~bloqueo /\ Alterna("diagnostico")
Isla == Alterna("isla")
Toast == Alterna("toast")
CapaDelCliente == Alterna("capa")
Agarrado == (abierta = "launchpad" \/ "agarrado" \in puestas) /\ Alterna("agarrado")
\* Both are the pointer's, over the windows or the desktop.
Arrastra(s) ==
  /\ s \in puestas \/ (~bloqueo /\ abierta = Ninguna /\ ~captura /\ conmuta = "no")
  /\ Alterna(s)

\* The bars dodge a window, and a card holds the panel.
Aparta(b) ==
  /\ b \in fuera \/ abierta = Ninguna
  /\ fuera' = IF b \in fuera THEN fuera \ {b} ELSE fuera \cup {b}
  /\ Cabe(puestas, fuera')
  /\ UNCHANGED <<bloqueo, sale, abierta, yendose, vista, arrastre, conmuta, captura, puestas, pila, ventana>>

(***************************************************************************)
(* The windows.                                                            *)
(***************************************************************************)
Cambia(w, como) ==
  /\ ventana' = [ventana EXCEPT ![w] = como]
  /\ UNCHANGED <<bloqueo, sale, abierta, yendose, vista, arrastre, conmuta, captura, puestas, fuera>>

Abre(w) == ventana[w] = "cerrada" /\ Cambia(w, "sinsitio") /\ pila' = Append(pila, w)
Coloca(w) == ventana[w] = "sinsitio" /\ Cambia(w, "puesta") /\ UNCHANGED pila
Completa(w) ==
  /\ Puesta(w)
  /\ Cambia(w, IF ventana[w] = "puesta" THEN "completa" ELSE "puesta")
  /\ UNCHANGED pila
Cierra(w) == Puesta(w) /\ Cambia(w, "cierra") /\ pila' = Remove(pila, w)
TerminaCierre(w) == ventana[w] = "cierra" /\ Cambia(w, "cerrada") /\ UNCHANGED pila
\* Minimized: it shrinks where it is, and then leaves the stack.
Encoge(w) == ventana[w] = "puesta" /\ ~VistaAbierta /\ Cambia(w, "encoge") /\ UNCHANGED pila
TerminaEncoge(w) ==
  ventana[w] = "encoge" /\ Cambia(w, "cerrada") /\ pila' = Remove(pila, w)

Init ==
  /\ bloqueo = FALSE /\ sale = FALSE
  /\ abierta = Ninguna /\ yendose = FALSE
  /\ vista = [fase |-> "cerrada", rejilla |-> {}]
  /\ arrastre = Nadie /\ conmuta = "no" /\ captura = FALSE
  /\ puestas = {} /\ fuera = {}
  /\ pila = <<>> /\ ventana = [w \in Ventanas |-> "cerrada"]

Next ==
  \/ Bloquear \/ Desbloquear \/ CerrarEmergente \/ Soltar \/ Fotograma \/ TerminaVista \/ FinAnimacion
  \/ CerrarConmutador \/ AlternarCaptura
  \/ \E t \in Tarjetas : Abrir(t)
  \/ \E m \in {"apps", "ventanas"} : Conmutar(m)
  \/ Osd \/ Diagnostico \/ Isla \/ Toast \/ CapaDelCliente \/ Agarrado
  \/ \E s \in {"previa", "banda"} : Arrastra(s)
  \/ \E b \in {"panel", "dock"} : Aparta(b)
  \/ \E w \in Ventanas :
       \/ Coger(w) \/ Abre(w) \/ Coloca(w) \/ Completa(w)
       \/ Cierra(w) \/ TerminaCierre(w) \/ Encoge(w) \/ TerminaEncoge(w)

Spec == Init /\ [][Next]_vars

(***************************************************************************)
(* What is expected of a frame.                                            *)
(***************************************************************************)
TypeOK ==
  /\ bloqueo \in BOOLEAN /\ sale \in BOOLEAN /\ yendose \in BOOLEAN /\ captura \in BOOLEAN
  /\ abierta \in Tarjetas \cup {Ninguna}
  /\ vista \in [fase : {"cerrada", "abierta", "cerrando"}, rejilla : SUBSET Ventanas]
  /\ arrastre \in Ventanas \cup {Nadie}
  /\ conmuta \in {"no", "apps", "ventanas"}
  /\ puestas \subseteq Sueltas /\ fuera \subseteq {"panel", "dock"}
  /\ ventana \in [Ventanas -> {"cerrada", "sinsitio", "puesta", "completa", "encoge", "cierra", "lejos", "aparte"}]
  /\ Range(pila) = {w \in Ventanas : ventana[w] \in {"sinsitio", "puesta", "completa", "encoge"}}

\* Under the lock no frame shows a window where it is, in its miniature or in the switcher, nor
\* anything of the desktop: the lock, what covers the other outputs, the level bar and the
\* notifications; and, in the principal output, the cells of an overview the lock caught open,
\* until it has closed, and no other window.
SoloElCandado ==
  bloqueo => /\ "bloqueo" \in Que("p") /\ "cubierta" \in Que("s")
             /\ Que("p") \ {"expuesta"} \subseteq {"cursor", "saliente", "bloqueo", "osd", "toast", "fondo"}
             /\ Que("s") \subseteq {"cursor", "cubierta", "fondo"}
             /\ \A w \in Ventanas : <<"expuesta", w>> \in Range(Escena("p"))
                                    => vista.fase # "cerrada" /\ w \in vista.rejilla

\* A window with a place is in the frame once, where it is, in its cell or in the hand: never
\* twice, and lost on the way only while it is held and the overview it was taken in is gone.
CadaVentanaUnaVez ==
  ~bloqueo => \A w \in Range(pila) : ventana[w] # "sinsitio" =>
    LET todas == Escena("p") \o Escena("s")
        veces == Cardinality({i \in DOMAIN todas : todas[i] \in {"ventana", "expuesta", "arrastrada"} \X {w}})
    IN veces <= 1 /\ (veces = 1 \/ (w = arrastre /\ ~VistaAbierta))

\* What is drawn at a place is what takes the click there, and with nothing
\* of the shell drawn there the click is the window's.
ClicDeQuienSeVe ==
  ~bloqueo /\ ~captura /\ conmuta = "no" /\ abierta = Ninguna =>
    /\ ~Contiene("centro")
    /\ LET hay == Que("p") IN \A z \in Sitios \ {"centro"} :
         Contiene(z) <=> /\ z \in hay /\ z \notin fuera
                         /\ z = "isla" => "panel" \notin fuera
EscenaEnOrden == SoloElCandado /\ CadaVentanaUnaVez /\ ClicDeQuienSeVe

\* Held against the code only in the configurations that say so.
\* shell.rs: "the overview's strip carries no glass"; its silhouette is not
\* left floating without the bar.
VistaSinCristal == VistaAbierta => "cristal" \notin Que("p")
CristalConSuBarra == <<"cristal", "dock">> \in Range(Escena("p")) => "dock" \in Que("p")
\* The lock is opaque from its first frame, and the size of the screen: it is
\* drawn with the alpha and at the height of the panel.
BloqueoOpaco == bloqueo => ~sale
BloqueoEnSuSitio == bloqueo => "panel" \notin fuera
=============================================================================
