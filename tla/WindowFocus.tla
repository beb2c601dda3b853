---------------------------- MODULE WindowFocus ----------------------------
(***************************************************************************)
(* The windows that live and the keyboard (handlers.rs, xwayland.rs,       *)
(* ventanas.rs): a window is mapped, takes the keyboard when it has a      *)
(* size, gives way to others, goes to the dock and comes back, and dies,   *)
(* and whoever is on top inherits.  X11 windows come through XWayland,     *)
(* their surface later than themselves, and menus hold the keyboard while  *)
(* they are open.                                                          *)
(***************************************************************************)
EXTENDS Integers, Sequences, FiniteSets, SequencesExt

CONSTANTS
  Wayland, X11, Sueltas,  \* the windows: xdg toplevels, X11, X11 override-redirect
  Nadie,
  Deprisa,      \* whether anything is done while a window goes to the dock
  RetiraX11,       \* whether an X11 window is withdrawn while it is in the dock
  Menus,        \* the windows that open menus
  Entretanto    \* whether another window comes or goes while a menu is open

VARIABLES
  vida,         \* window -> "no", "nueva", "viva", "retirada" or "muerta"
  pila,         \* the space, from the bottom to the top
  minimizando, minimizadas,   \* those going to the dock, those there
  activas,      \* those told that they are active
  foco,         \* who has the keyboard
  asociada,     \* the X11 windows that have a surface
  conocida,     \* the windows that have said which application they are
  menu, enMenu, \* the window whose menu is open, and whether it has the keyboard
  xwm,          \* whether XWayland is there
  dock          \* the windows the dock counts
vars == <<vida, pila, minimizando, minimizadas, activas, foco, asociada, conocida, menu, enMenu, xwm, dock>>

Ventanas == Wayland \cup X11 \cup Sueltas
DeX(w) == w \in X11 \cup Sueltas
EnPila == ToSet(pila)
\* Those of s that are of T, in their order: SelectSeq, written as the function the proofs unfold.
Elegidas(s, T) ==
  LET f[i \in 0..Len(s)] ==
        IF i = 0 THEN <<>> ELSE IF s[i] \in T THEN Append(f[i - 1], s[i]) ELSE f[i - 1]
  IN f[Len(s)]
Sin(s, w) == Elegidas(s, ToSet(s) \ {w})
Viven(s, v) == Elegidas(s, {w \in Ventanas : v[w] \in {"nueva", "viva", "retirada"}})

Init ==
  /\ vida = [w \in Ventanas |-> "no"] /\ pila = <<>> /\ minimizando = <<>> /\ minimizadas = <<>>
  /\ activas = {} /\ foco = Nadie /\ asociada = {} /\ conocida = {} /\ menu = Nadie /\ enMenu = FALSE
  /\ xwm = TRUE /\ dock = {}

(***************************************************************************)
(* The keyboard.  A menu that is open ignores every change of focus.       *)
(***************************************************************************)
DarTeclado(w, men) ==
  foco' = IF men # Nadie THEN foco ELSE IF DeX(w) /\ w \notin asociada' THEN Nadie ELSE w
QuitarTeclado(men) == foco' = IF men # Nadie THEN foco ELSE Nadie
\* enfocar, over the space p.
Enfocar(w, p, men) ==
  /\ pila' = Append(Sin(p, w), w)
  /\ activas' = (activas \ ToSet(p)) \cup {w}
  /\ DarTeclado(w, men)
\* refocalizar: whoever is left on top, and still alive.
RefocalizarMuertas(p, men) ==
  IF p = <<>> THEN QuitarTeclado(men) /\ pila' = p /\ UNCHANGED activas ELSE Enfocar(p[Len(p)], p, men)

Refocalizar(p, men) ==
  LET vivas == Viven(p, vida') IN
  IF vivas = <<>> THEN QuitarTeclado(men) /\ pila' = p /\ UNCHANGED activas
  ELSE Enfocar(vivas[Len(vivas)], p, men)
\* actualizar_dock buries those that died in the dock and counts the rest; purgar does the
\* first too.
Purgar == minimizadas' = Viven(minimizadas, vida') /\ minimizando' = Viven(minimizando, vida')
Cuenta(p, m) == ToSet(Viven(p, vida')) \cup ToSet(m)
ActualizarDock(p) == Purgar /\ dock' = Cuenta(p, minimizadas') \cap conocida'
Libre == (Deprisa \/ minimizando = <<>>) /\ (Entretanto \/ menu = Nadie)
LibreDe(w) == (Deprisa \/ minimizando = <<>>) /\ (Entretanto \/ menu \in {Nadie, w})
\* The user acts in a later turn of the loop than the one in which a window died.
Quieto == Libre /\ \A w \in Ventanas : vida[w] # "muerta"
\* The menu goes with its window.
MenuSin(w) == IF menu = w THEN Nadie ELSE menu
CierraMenu(w) == menu' = MenuSin(w) /\ enMenu' = (enMenu /\ menu # w)

(***************************************************************************)
(* Windows of Wayland.                                                     *)
(***************************************************************************)
NewToplevel(w) ==
  /\ w \in Wayland /\ vida[w] = "no" /\ vida' = [vida EXCEPT ![w] = "nueva"]
  /\ pila' = Append(pila, w) /\ activas' = activas \cup {w} /\ conocida' = conocida \ {w}
  /\ ActualizarDock(pila')
  /\ UNCHANGED <<foco, asociada, menu, enMenu, xwm>>
AppIdChanged(w) ==
  /\ w \in Wayland /\ vida[w] \in {"nueva", "viva"} /\ w \notin conocida /\ conocida' = conocida \cup {w}
  /\ UNCHANGED <<vida, pila, activas, foco, asociada, menu, enMenu, xwm>>
  /\ ActualizarDock(pila)
\* The first commit with a size: placed, and with the keyboard.
Commit(w) ==
  /\ Libre /\ w \in Wayland /\ vida[w] = "nueva" /\ vida' = [vida EXCEPT ![w] = "viva"]
  /\ UNCHANGED <<minimizando, minimizadas, asociada, conocida, menu, enMenu, xwm, dock>>
  /\ Enfocar(w, pila, menu)
ToplevelDestroyed(w) ==
  /\ LibreDe(w) /\ w \in Wayland /\ vida[w] \in {"nueva", "viva"} /\ vida' = [vida EXCEPT ![w] = "muerta"]
  /\ CierraMenu(w) /\ UNCHANGED <<asociada, conocida, xwm>>
  /\ Refocalizar(pila, menu') /\ ActualizarDock(pila)
\* refresh, at the end of every turn of the loop.
Refresh ==
  /\ \E w \in Ventanas : vida[w] = "muerta"
  /\ vida' = [w \in Ventanas |-> IF vida[w] = "muerta" THEN "no" ELSE vida[w]]
  /\ pila' = Viven(pila, vida)
  /\ activas' = activas \ {w \in Ventanas : vida[w] = "muerta"}
  /\ UNCHANGED <<minimizando, minimizadas, foco, asociada, conocida, menu, enMenu, xwm, dock>>

(***************************************************************************)
(* Windows of X11.                                                         *)
(***************************************************************************)
MapWindowRequest(w) ==
  /\ xwm /\ w \in X11 /\ vida[w] \in {"no", "retirada"} /\ vida' = [vida EXCEPT ![w] = "nueva"]
  /\ w \notin ToSet(minimizadas) \cup ToSet(minimizando)
  /\ pila' = Append(pila, w) /\ conocida' = conocida \cup {w}
  /\ ActualizarDock(pila')
  /\ UNCHANGED <<activas, foco, asociada, menu, enMenu, xwm>>
MapWindowNotify(w) ==
  /\ Libre /\ xwm /\ w \in X11 /\ vida[w] = "nueva" /\ vida' = [vida EXCEPT ![w] = "viva"]
  /\ UNCHANGED <<minimizando, minimizadas, asociada, conocida, menu, enMenu, xwm, dock>>
  /\ Enfocar(w, pila, menu)
\* The surface of a window that is active: it could not be given the keyboard before.
SurfaceAssociated(w) ==
  /\ Libre /\ xwm /\ DeX(w) /\ vida[w] \in {"nueva", "viva"} /\ w \notin asociada
  /\ asociada' = asociada \cup {w}
  /\ UNCHANGED <<vida, minimizando, minimizadas, conocida, menu, enMenu, xwm, dock>>
  /\ IF w \in activas /\ w \in EnPila THEN Enfocar(w, pila, menu) ELSE UNCHANGED <<pila, activas, foco>>
MappedOverrideRedirect(w) ==
  /\ xwm /\ w \in Sueltas /\ vida[w] = "no" /\ vida' = [vida EXCEPT ![w] = "viva"]
  /\ pila' = Append(pila, w) /\ activas' = activas \ {w}
  /\ UNCHANGED <<minimizando, minimizadas, foco, asociada, conocida, menu, enMenu, xwm, dock>>
UnmappedWindow(w) ==
  /\ LibreDe(w) /\ xwm /\ DeX(w) /\ vida[w] \in {"nueva", "viva"} /\ (w \in EnPila \/ RetiraX11)
  /\ vida' = [vida EXCEPT ![w] = IF w \in Sueltas THEN "no" ELSE "retirada"]
  /\ asociada' = asociada \ {w} /\ CierraMenu(w) /\ UNCHANGED <<conocida, xwm>>
  /\ Refocalizar(Sin(pila, w), menu') /\ ActualizarDock(Sin(pila, w))
DestroyedWindow(w) ==
  /\ Libre /\ xwm /\ w \in X11 /\ vida[w] = "retirada" /\ vida' = [vida EXCEPT ![w] = "no"]
  /\ UNCHANGED <<asociada, conocida, menu, enMenu, xwm>>
  /\ Refocalizar(pila, menu) /\ ActualizarDock(pila)
\* XWayland goes, with everything it had.
Disconnected ==
  /\ xwm /\ xwm' = FALSE /\ asociada' = {}
  /\ vida' = [w \in Ventanas |-> IF DeX(w) /\ vida[w] # "no" THEN "muerta" ELSE vida[w]]
  /\ UNCHANGED <<pila, minimizando, minimizadas, activas, foco, conocida, menu, enMenu, dock>>

(***************************************************************************)
(* What the user does.                                                     *)
(***************************************************************************)
Pulsar(w) ==
  /\ Quieto /\ w \in EnPila /\ vida[w] = "viva" /\ menu = Nadie
  /\ UNCHANGED <<vida, minimizando, minimizadas, asociada, conocida, menu, enMenu, xwm, dock>>
  /\ Enfocar(w, pila, menu)
Desenfocar ==
  /\ Quieto /\ menu = Nadie /\ activas' = activas \ EnPila /\ QuitarTeclado(menu)
  /\ UNCHANGED <<vida, pila, minimizando, minimizadas, asociada, conocida, menu, enMenu, xwm, dock>>
\* A token of activation that has not expired.
RequestActivation(w) ==
  /\ Quieto /\ w \in Wayland /\ w \in EnPila /\ vida[w] # "muerta"
  /\ UNCHANGED <<vida, minimizando, minimizadas, asociada, conocida, menu, enMenu, xwm, dock>>
  /\ Enfocar(w, pila, menu)
Minimizar(w) ==
  /\ Quieto /\ w \in EnPila \ (Sueltas \cup ToSet(minimizando)) /\ vida[w] = "viva"
  /\ UNCHANGED <<vida, asociada, conocida, menu, enMenu, xwm>>
  /\ LET otras == Sin(pila, w) IN
     IF otras = <<>> THEN QuitarTeclado(menu) /\ UNCHANGED <<pila, activas>>
     ELSE Enfocar(otras[Len(otras)], pila, menu)
  /\ minimizando' = Append(Viven(minimizando, vida), w) /\ minimizadas' = Viven(minimizadas, vida)
  /\ dock' = Cuenta(pila, minimizadas') \cap conocida
AnimarMinimizados ==
  /\ minimizando # <<>>
  /\ pila' = Sin(pila, Head(minimizando))
  /\ minimizando' = Viven(Tail(minimizando), vida)
  /\ minimizadas' = Viven(Append(minimizadas, Head(minimizando)), vida)
  /\ dock' = (ToSet(Viven(pila', vida)) \cup ToSet(minimizadas')) \cap conocida
  /\ UNCHANGED <<vida, activas, foco, asociada, conocida, menu, enMenu, xwm>>
RestaurarMinimizada(w) ==
  /\ Quieto /\ w \in ToSet(minimizadas) /\ minimizadas' = Sin(minimizadas, w)
  /\ UNCHANGED <<vida, minimizando, asociada, conocida, menu, enMenu, xwm, dock>>
  /\ Enfocar(w, Append(pila, w), menu)

\* A menu takes the keyboard with the first key, and gives it back to its window.
Grab(w) ==
  /\ Quieto /\ w \in Menus /\ menu = Nadie /\ w \in EnPila /\ vida[w] = "viva" /\ foco = w
  /\ menu' = w /\ enMenu' = FALSE
  /\ UNCHANGED <<vida, pila, minimizando, minimizadas, activas, foco, asociada, conocida, xwm, dock>>
Tecla ==
  /\ menu # Nadie /\ ~enMenu /\ enMenu' = TRUE
  /\ UNCHANGED <<vida, pila, minimizando, minimizadas, activas, foco, asociada, conocida, menu, xwm, dock>>
PopupDestroyed ==
  /\ menu # Nadie /\ menu' = Nadie /\ enMenu' = FALSE
  /\ foco' = IF enMenu THEN menu ELSE foco
  /\ UNCHANGED <<vida, pila, minimizando, minimizadas, activas, asociada, conocida, xwm, dock>>

Next ==
  \/ \E w \in Wayland : NewToplevel(w) \/ AppIdChanged(w) \/ Commit(w) \/ ToplevelDestroyed(w) \/ RequestActivation(w)
  \/ \E w \in X11 : MapWindowRequest(w) \/ MapWindowNotify(w) \/ DestroyedWindow(w)
  \/ \E w \in X11 \cup Sueltas : SurfaceAssociated(w) \/ UnmappedWindow(w)
  \/ \E w \in Sueltas : MappedOverrideRedirect(w)
  \/ \E w \in Ventanas : Pulsar(w) \/ Minimizar(w) \/ RestaurarMinimizada(w) \/ Grab(w)
  \/ Refresh \/ Disconnected \/ Desenfocar \/ AnimarMinimizados \/ Tecla \/ PopupDestroyed
Spec == Init /\ [][Next]_vars

(***************************************************************************)
(* Properties.                                                             *)
(***************************************************************************)
\* Every variable has its type.
TypeOK ==
  /\ vida \in [Ventanas -> {"no", "nueva", "viva", "retirada", "muerta"}]
  /\ EnPila \subseteq Ventanas /\ Len(pila) = Cardinality(EnPila)
  /\ activas \subseteq Ventanas /\ foco \in Ventanas \cup {Nadie} /\ menu \in Ventanas \cup {Nadie}
  /\ {enMenu, xwm} \subseteq BOOLEAN /\ asociada \subseteq Ventanas /\ dock \subseteq conocida

\* The keyboard is in a window that is alive and in sight, or in none: "si no se reasigna,
\* las que siguen abiertas dejan de recibir teclas" (handlers.rs:441-444).
FocoVivo == foco # Nadie => foco \in EnPila /\ vida[foco] \in {"nueva", "viva"}
FocoVivoMientrasHayX == (xwm \/ ~DeX(foco)) => FocoVivo
\* With no menu open, the window that has the keyboard is the one that is told it is active.
ActivaConTeclado ==
  (foco \in EnPila /\ menu = Nadie)
    => {w \in EnPila : w \in activas /\ vida[w] = "viva"} \subseteq {foco} /\ foco \in activas
\* What is in the dock can come back.
SinFantasmas == \A i \in DOMAIN minimizadas : vida[minimizadas[i]] = "viva"
\* The dock has a mark for every window that is open, in sight or not (handlers.rs:224-238).
DockVeraz ==
  {w \in Ventanas \ Sueltas : w \in conocida /\ vida[w] \in {"nueva", "viva"}} \subseteq dock
FocoEnOrden == FocoVivoMientrasHayX /\ ActivaConTeclado /\ (xwm => SinFantasmas) /\ DockVeraz

\* The keyboard is not in a window that is on its way to the dock: "dejarselo a una ventana
\* que se esta yendo al dock significa escribir a ciegas en ella" (ventanas.rs:238-239).
FocoNoSeVa == foco \notin ToSet(minimizando)
\* Nor in a menu or a tooltip of X11, on which the manager has no say (xwayland.rs:259-260).
FocoDeVentana == foco \notin Sueltas
\* The dock counts nothing that is gone.
DockSinMuertos == dock \subseteq {w \in Ventanas : vida[w] \in {"nueva", "viva"}}
=============================================================================
