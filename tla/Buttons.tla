------------------------------- MODULE Buttons --------------------------------
(***************************************************************************)
(* A button of the mouse (bookos-comp, input.rs: boton, set_pointer), which*)
(* a dozen owners may want: the capture layer, the lock, the switcher, the *)
(* overview, a menu, the desktop, the shell, a title bar, a window being   *)
(* dragged and, last, the client under the pointer.                        *)
(*                                                                         *)
(* Press and release are decided apart, each by what is open at that moment*)
(* and where the pointer is then: an owner takes the press and leaves a    *)
(* note for the release that will come.                                    *)
(***************************************************************************)
EXTENDS Naturals, FiniteSets

CONSTANTS MaxAbajo,     \* buttons held at once
          Interrumpe    \* the layer or the lock may come with one held

Botones == {"izq", "der"}
(* Where the pointer is: on the contents of a window, its bar, a button of *)
(* it, the bare desktop, the panel or the dock.                            *)
Zonas == {"ventana", "barra", "boton", "pelado", "dock"}
Tarjetas == {"no", "menu", "launchpad", "vista"}

VARIABLES abajo,       \* what the fingers hold
          zona,        \* pointer_location
          encima,      \* what is open over the desktop
          notas,       \* what a press left for its release
          cliente      \* smithay's pointer: buttons forwarded, its focus and its grab's

vars == <<abajo, zona, encima, notas, cliente>>

NadieEspera == [clic |-> FALSE, cierreVista |-> FALSE, vista |-> "no", menuSuelta |-> FALSE,
                banda |-> FALSE, dock |-> FALSE, pulsado |-> FALSE, arrastre |-> "no"]

-----------------------------------------------------------------------------
(* Who is under the pointer.                                               *)

(* A card takes the whole screen: pressing beside it closes it.            *)
ShellContiene(e, z) == z = "dock" \/ e.tarjeta # "no"
SurfaceUnder(e, z) ==
  IF ~e.bloqueada /\ ~ShellContiene(e, z) /\ z = "ventana" THEN "cliente" ELSE "nadie"

(* pointer.motion: with a button forwarded, ClickGrab keeps the focus it   *)
(* started with.                                                           *)
Motion(c, foco) == [c EXCEPT !.foco = IF c.pulsados = {} THEN foco ELSE c.agarre]

(* pointer.button, forwarded.                                              *)
Button(c, b) ==
  [c EXCEPT !.pulsados = @ \cup {b}, !.agarre = IF c.pulsados = {} THEN c.foco ELSE @]
Release(c, b) == [c EXCEPT !.pulsados = @ \ {b}, !.solo = b \notin c.pulsados /\ c.foco = "cliente"]

-----------------------------------------------------------------------------
(* A button goes down.                                                     *)

Sigue(e, n) == encima' = e /\ notas' = n /\ UNCHANGED cliente

(* captura_pulsar: the bar of the layer may take the picture, which closes *)
(* it.                                                                     *)
EnCaptura == \E sigue \in BOOLEAN : Sigue([encima EXCEPT !.captura = sigue], notas)

(* The switcher is decided or left, and the release of this is nobody's.   *)
EnConmutador ==
  Sigue([encima EXCEPT !.conmutador = FALSE], [notas EXCEPT !.clic = TRUE])

(* boton_en_vista: a window of a miniature is taken, or its cross pressed. *)
EnVista ==
  \/ Sigue(encima, [notas EXCEPT !.cierreVista = TRUE])
  \/ Sigue(encima, [notas EXCEPT !.vista = "quieta"])

(* Meta + button: empezar_arrastre.                                        *)
Agarrar == Sigue(encima, [notas EXCEPT !.arrastre = "nuestro"])

(* Shell::pulsar, with the left button: a widget or an icon opens a card;  *)
(* the open one acts, closes, or lets an icon of the dock be taken.        *)
EnElShell(b) ==
  \/ b = "izq" /\ encima.tarjeta = "no"
     /\ \E t \in {"no", "menu", "launchpad"} : Sigue([encima EXCEPT !.tarjeta = t], notas)
  \/ b = "izq" /\ encima.tarjeta # "no"
     /\ \E t \in {"no", encima.tarjeta} : Sigue([encima EXCEPT !.tarjeta = t], notas)
  \/ b = "izq" /\ encima.tarjeta = "launchpad" /\ zona = "dock"
     /\ Sigue(encima, [notas EXCEPT !.dock = TRUE])
  \/ b = "der" /\ zona = "dock" /\ encima.tarjeta = "no"     \* the menu of the icon
     /\ Sigue([encima EXCEPT !.tarjeta = "menu"], notas)
  \/ b = "der" /\ UNCHANGED <<encima, notas, cliente>>

(* A menu opens under the pointer and the release of this is nobody's.     *)
AbrirMenu == Sigue([encima EXCEPT !.tarjeta = "menu"], [notas EXCEPT !.menuSuelta = TRUE])

(* The bar we draw: a button of it, the window by it, or the second click. *)
EnLaBarra ==
  \/ zona = "boton" /\ Sigue(encima, [notas EXCEPT !.pulsado = TRUE])
  \/ zona = "barra" /\ Agarrar
  \/ zona = "barra" /\ UNCHANGED <<encima, notas, cliente>>

(* pulsar_escritorio: the band or the icons, or the second click.          *)
PulsarEscritorio ==
  \/ Sigue(encima, [notas EXCEPT !.banda = TRUE])
  \/ UNCHANGED <<encima, notas, cliente>>

AlCliente(b) == cliente' = Button(cliente, b) /\ UNCHANGED <<encima, notas>>

EnLaVentana(b) ==
  \/ AlCliente(b)
  \/ b = "izq" /\ UNCHANGED <<encima, notas, cliente>>    \* the second click at the top

Pulsar(b, logo) ==
  /\ b \notin abajo /\ Cardinality(abajo) < MaxAbajo
  /\ abajo' = abajo \cup {b}
  /\ UNCHANGED zona
  /\ IF encima.captura THEN EnCaptura
     ELSE IF encima.bloqueada THEN UNCHANGED <<encima, notas, cliente>>
     ELSE IF encima.conmutador THEN EnConmutador
     ELSE \/ b = "izq" /\ encima.tarjeta = "vista" /\ EnVista
          \/ IF logo /\ ~ShellContiene(encima, zona) /\ zona # "pelado" THEN Agarrar
             ELSE IF ShellContiene(encima, zona) THEN EnElShell(b)
             ELSE IF zona \in {"barra", "boton"}
                  THEN IF b = "der" THEN AbrirMenu ELSE EnLaBarra
             ELSE IF zona = "pelado"
                  THEN IF b = "der" THEN AbrirMenu ELSE PulsarEscritorio
             ELSE EnLaVentana(b)

-----------------------------------------------------------------------------
(* And comes up.                                                           *)

(* A window let go of in the overview: a click of it when it did not move. *)
SoltarEnVista ==
  LET quieta == notas.vista = "quieta" IN
  Sigue([encima EXCEPT !.tarjeta = IF ~quieta THEN @ ELSE IF @ = "vista" THEN "no" ELSE "vista"],
        [notas EXCEPT !.vista = "no"])

(* Shell::soltar lets go of the icon of the dock, the title bar of its     *)
(* button, and the window is left where it is; none of them keeps the      *)
(* event by itself.                                                        *)
Resto(b) ==
  LET acciona == notas.pulsado /\ zona = "boton"
      n == [notas EXCEPT !.dock = FALSE, !.pulsado = FALSE,
                         !.arrastre = IF acciona THEN @ ELSE "no"] IN
  \E t \in IF notas.dock THEN {encima.tarjeta, "no"} ELSE {encima.tarjeta} :
    LET e == [encima EXCEPT !.tarjeta = t] IN
    IF acciona \/ notas.arrastre = "nuestro" \/ ShellContiene(e, zona)
    THEN Sigue(e, n)
    ELSE encima' = e /\ notas' = n /\ cliente' = Release(cliente, b)

SoltarShellAntes(b) ==                                                 \* a slip
  IF b = "izq" /\ notas.cierreVista THEN Sigue(encima, [notas EXCEPT !.cierreVista = FALSE])
  ELSE IF b = "izq" /\ notas.vista # "no" THEN SoltarEnVista
  ELSE IF b = "der" /\ notas.menuSuelta THEN Sigue(encima, [notas EXCEPT !.menuSuelta = FALSE])
  ELSE IF ShellContiene(encima, zona) THEN UNCHANGED <<encima, notas, cliente>>
  ELSE IF notas.banda THEN Sigue(encima, [notas EXCEPT !.banda = FALSE])
  ELSE Resto(b)
(* boton, with Released, past the layer, the lock and the switcher.        *)
SoltarPorOrden(b) ==
  IF b = "izq" /\ notas.cierreVista THEN Sigue(encima, [notas EXCEPT !.cierreVista = FALSE])
  ELSE IF b = "izq" /\ notas.vista # "no" THEN SoltarEnVista
  ELSE IF b = "der" /\ notas.menuSuelta THEN Sigue(encima, [notas EXCEPT !.menuSuelta = FALSE])
  ELSE IF notas.banda THEN Sigue(encima, [notas EXCEPT !.banda = FALSE])
  ELSE Resto(b)

Soltar(b) ==
  /\ b \in abajo
  /\ abajo' = abajo \ {b}
  /\ UNCHANGED zona
  /\ IF encima.captura \/ encima.bloqueada THEN UNCHANGED <<encima, notas, cliente>>
     ELSE IF notas.clic THEN Sigue(encima, [notas EXCEPT !.clic = FALSE])
     ELSE SoltarPorOrden(b)

-----------------------------------------------------------------------------
(* set_pointer: a drag is the compositor's, the band is the desktop's; the *)
(* switcher leaves no hover below, and the layer sees it all.              *)
Mover(z) ==
  /\ zona' = z
  /\ IF notas.arrastre # "no" \/ notas.banda THEN UNCHANGED <<notas, cliente>>
     ELSE IF encima.conmutador
     THEN cliente' = Motion(cliente, "nadie") /\ UNCHANGED notas
     ELSE IF encima.captura THEN UNCHANGED <<notas, cliente>>
     ELSE /\ notas' = [notas EXCEPT !.vista = IF @ = "quieta" THEN "mueve" ELSE @]
          /\ cliente' = Motion(cliente, SurfaceUnder(encima, z))
  /\ UNCHANGED <<abajo, encima>>

-----------------------------------------------------------------------------
(* What comes in between.                                                  *)

(* xdg_toplevel.move and resize: of a client, whose serial is not looked at*)
MoveRequest ==
  /\ notas.arrastre = "no"
  /\ notas' = [notas EXCEPT !.arrastre = "cliente"]
  /\ UNCHANGED <<abajo, zona, encima, cliente>>

(* From the keyboard: a card, the overview, the switcher.                  *)
Teclado ==
  /\ ~encima.captura /\ ~encima.bloqueada
  /\ \/ \E t \in Tarjetas : encima' = [encima EXCEPT !.tarjeta = t]
     \/ encima.tarjeta # "vista" /\ encima' = [encima EXCEPT !.conmutador = TRUE]
     \/ encima' = [encima EXCEPT !.conmutador = FALSE]
  /\ UNCHANGED <<abajo, zona, notas, cliente>>

(* Accion::Captura: the Print key opens the layer and Escape closes it.    *)
Captura ==
  /\ ~encima.bloqueada
  /\ Interrumpe \/ abajo = {}
  /\ encima' = [encima EXCEPT !.captura = ~@]
  /\ cliente' = IF encima.captura THEN cliente ELSE Motion(cliente, "nadie")
  /\ UNCHANGED <<abajo, zona, notas>>

(* bloquear closes what is open and lets go of what is being dragged.      *)
Bloquear ==
  /\ ~encima.bloqueada
  /\ Interrumpe \/ abajo = {}
  /\ encima' = [tarjeta |-> "no", conmutador |-> FALSE, captura |-> FALSE, bloqueada |-> TRUE]
  /\ notas' = [notas EXCEPT !.arrastre = "no", !.banda = FALSE, !.vista = "no"]
  /\ cliente' = Motion(cliente, "nadie")
  /\ UNCHANGED <<abajo, zona>>

Desbloquear ==
  /\ encima.bloqueada
  /\ encima' = [encima EXCEPT !.bloqueada = FALSE]
  /\ UNCHANGED <<abajo, zona, notas, cliente>>

Init ==
  /\ abajo = {} /\ zona = "pelado"
  /\ encima = [tarjeta |-> "no", conmutador |-> FALSE, captura |-> FALSE, bloqueada |-> FALSE]
  /\ notas = NadieEspera
  /\ cliente = [pulsados |-> {}, foco |-> "nadie", agarre |-> "nadie", solo |-> FALSE]

Next ==
  \/ \E b \in Botones : Soltar(b) \/ \E logo \in BOOLEAN : Pulsar(b, logo)
  \/ \E z \in Zonas : Mover(z)
  \/ MoveRequest \/ Teclado \/ Captura \/ Bloquear \/ Desbloquear

Spec == Init /\ [][Next]_vars

-----------------------------------------------------------------------------
(* With no button down nothing waits for a release: no window, icon or band*)
(* follows the pointer and no note is left to swallow the release of       *)
(* another click (bloquear: "al desbloquear la llevaba pegada al cursor"). *)
(* A window whose client asked late for its move is the one exception the  *)
(* code writes down.                                                       *)
AgarreConBoton ==
  abajo = {} => \/ notas = NadieEspera
                \/ notas = [NadieEspera EXCEPT !.arrastre = "cliente"]

(* "ya vio la pulsacion y necesita ver el soltar -- sin eso se queda       *)
(* creyendo que sigues pulsando" (input.rs): the client that saw a press is*)
(* not left with it once the button is up.                                 *)
ClienteVeLaSuelta == abajo = {} /\ ~encima.bloqueada /\ ~encima.captura => cliente.pulsados = {}

(* "Reenviar solo el soltar le dejaria un boton que se levanta sin haberse *)
(* pulsado nunca" (input.rs).                                              *)
SueltaConPulsacion == ~cliente.solo

(* "Durante el bloqueo ... ademas de ocultarlas, hay que cortarles tambien *)
(* la entrada" (state.rs, surface_under): no client has the pointer then.  *)
PunteroBajoCandado == encima.bloqueada => cliente.foco = "nadie"

(* "Un arrastre a medias seguia moviendo la ventana bajo el candado"       *)
(* (keybinds.rs, bloquear).                                                *)
NadaSeMueveBajoCandado == encima.bloqueada => notas.arrastre = "no"
=============================================================================
