------------------------------ MODULE MCWindows ------------------------------
(***************************************************************************)
(* The windows, the icons and the image under them, and the order in which *)
(* they are drawn, side by side as in MCSeat.                              *)
(***************************************************************************)
EXTENDS Integers, Sequences, FiniteSets, TLC, FiniteSetTheorems, WellFoundedInduction, TLAPS

\* Assumptions about the surroundings: see the modules.
CONSTANTS Lento, EnMedio, Explorador, Deprisa, RetiraX11, Entretanto, OtraVez,
          Solapan, Tarjeta

\* Of the wallpaper: what is in each file, what may be chosen, the installed ones and the bounds;
\* of what is published: the files, the images, those that are published, their lengths, the
\* settings and the bound.
CONSTANTS Clase, Elecciones, DeSerie, MaxProcesos, MaxCargas,
          Destinos, Fotos, Valen, Tam, Ajustes, MaxHilos

\* Of the keyboard: the windows of Wayland, of X11, those of X11 that no manager rules, nobody,
\* and those that open menus.
CONSTANTS Wayland, X11, Menudas, NoHay, Menus

\* Where the pointer may be on two screens of twelve by eight.
Punto(x, y) == [x |-> x, y |-> y]
Marco(x) == [x |-> x, y |-> 0, w |-> 12, h |-> 8]

\* A photograph and a foreign video that has to be converted.
MCClase == "foto" :> "foto" @@ "video" :> "ajeno" @@ "webp" :> "webp"
MCElecciones == {[ambos |-> "nada", claro |-> "video", oscuro |-> "foto"],
                 [ambos |-> "video", claro |-> "nada", oscuro |-> "nada"],
                 [ambos |-> "nada", claro |-> "nada", oscuro |-> "nada"]}
MCDeSerie == [claro |-> "webp", oscuro |-> "foto"]
\* Two images and a video.
MCFicheros == <<"panel", "fondo">>
MCTam == "azul" :> 1 @@ "verde" :> 2 @@ "video" :> 3

VARIABLE parte        \* the machine this behaviour is of
nada == "-"

\* WindowPlaces: two screens of twelve by eight and a window of two sizes.
VARIABLES loc, tam, pedido, colocada, zona, completa, restaurar, decorada, esquivan, puntero,
          arrastreP, cambiosP, flotante, hecho
P == INSTANCE WindowPlaces WITH
       Salidas <- {Marco(0), Marco(12)}, Puntos <- {Punto(0, 4), Punto(18, 4)},
       Tamanos <- {[w |-> 5, h |-> 3], [w |-> 7, h |-> 4]}, PANEL <- 1, DOCK <- 1, ALTO <- 1,
       BORDE <- 0, VISIBLE <- 2, MINIMO <- 2, MaxCambios <- 1, Nace <- [w |-> 5, h |-> 3],
       Flechas <- {"izquierda"},
       arrastre <- arrastreP, cambios <- cambiosP
deWindowPlaces == <<loc, tam, pedido, colocada, zona, completa, restaurar, decorada, esquivan,
    puntero, arrastreP, cambiosP, flotante, hecho>>
SinWindowPlaces == loc = nada /\ tam = nada /\ pedido = nada /\ colocada = nada /\ zona = nada /\
    completa = nada /\ restaurar = nada /\ decorada = nada /\ esquivan = nada /\
    puntero = nada /\ arrastreP = nada /\ cambiosP = nada /\ flotante = nada /\ hecho = nada

\* WindowFocus.
VARIABLES vida, pilaFo, minimizando, minimizadas, activas, foco, asociada, conocida, menu,
          enMenu, xwm, dock
Fo == INSTANCE WindowFocus WITH Sueltas <- Menudas, Nadie <- NoHay, pila <- pilaFo
deWindowFocus == <<vida, pilaFo, minimizando, minimizadas, activas, foco, asociada, conocida,
    menu, enMenu, xwm, dock>>
SinWindowFocus == vida = nada /\ pilaFo = nada /\ minimizando = nada /\ minimizadas = nada /\
    activas = nada /\ foco = nada /\ asociada = nada /\ conocida = nada /\ menu = nada /\
    enMenu = nada /\ xwm = nada /\ dock = nada

\* DesktopIcons: a folder, a new one and a file, on small grids.
VARIABLES carpeta, colores, guardadas, papelera, elementos, rejilla, visible, arrastreI, gesto,
          cambiosI, marcados
I == INSTANCE DesktopIcons WITH
       Orden <- <<"c", "n", "f">>, Carpetas <- {"c", "n"}, Nuevas <- <<"n">>,
       Nombre <- [x \in {"c", "n", "f"} |-> x], Rejillas <- {<<2, 2>>, <<3, 1>>},
       MaxCambios <- 1, arrastre <- arrastreI, cambios <- cambiosI
deDesktopIcons == <<carpeta, colores, guardadas, papelera, elementos, rejilla, visible,
    arrastreI, gesto, cambiosI, marcados>>
SinDesktopIcons == carpeta = nada /\ colores = nada /\ guardadas = nada /\ papelera = nada /\
    elementos = nada /\ rejilla = nada /\ visible = nada /\ arrastreI = nada /\ gesto = nada /\
    cambiosI = nada /\ marcados = nada

\* Scene: a window in each of two outputs.
VARIABLES bloqueo, sale, abierta, yendose, vista, arrastreS, conmuta, captura, puestas, fuera,
          pilaS, ventana
S == INSTANCE Scene WITH
       Ventanas <- {"w1", "w2"}, Otras <- {"w2"}, MaxPuestas <- 1, arrastre <- arrastreS,
       pila <- pilaS
deScene == <<bloqueo, sale, abierta, yendose, vista, arrastreS, conmuta, captura, puestas, fuera,
    pilaS, ventana>>
SinScene == bloqueo = nada /\ sale = nada /\ abierta = nada /\ yendose = nada /\ vista = nada /\
    arrastreS = nada /\ conmuta = nada /\ captura = nada /\ puestas = nada /\ fuera = nada /\
    pilaS = nada /\ ventana = nada

\* Wallpaper.
VARIABLES eleccion, tema, recargar, cargas, fallida, fondo, saliente, tick, vencido, pinta,
          reducidos, encendida, tapado, activa, vivos, sueltos, convertidos
Wp == INSTANCE Wallpaper
deWallpaper == <<eleccion, tema, recargar, cargas, fallida, fondo, saliente, tick, vencido,
    pinta, reducidos, encendida, tapado, activa, vivos, sueltos, convertidos>>
SinWallpaper == eleccion = nada /\ tema = nada /\ recargar = nada /\ cargas = nada /\
    fallida = nada /\ fondo = nada /\ saliente = nada /\ tick = nada /\ vencido = nada /\
    pinta = nada /\ reducidos = nada /\ encendida = nada /\ tapado = nada /\ activa = nada /\
    vivos = nada /\ sueltos = nada /\ convertidos = nada

\* Publish.
VARIABLES ajustes, ruta, sinPublicar, hilos, temporal, puesto, dentro
Pu == INSTANCE Publish WITH Ficheros <- Destinos, Rutas <- Fotos
dePublish == <<ajustes, ruta, sinPublicar, hilos, temporal, puesto, dentro>>
SinPublish == ajustes = nada /\ ruta = nada /\ sinPublicar = nada /\ hilos = nada /\
    temporal = nada /\ puesto = nada /\ dentro = nada

Init ==
  \/ parte = "places" /\ P!Init /\ SinWindowFocus /\ SinDesktopIcons /\ SinScene /\
     SinWallpaper /\ SinPublish
  \/ parte = "focus" /\ Fo!Init /\ SinWindowPlaces /\ SinDesktopIcons /\ SinScene /\
     SinWallpaper /\ SinPublish
  \/ parte = "icons" /\ I!Init /\ SinWindowPlaces /\ SinWindowFocus /\ SinScene /\
     SinWallpaper /\ SinPublish
  \/ parte = "scene" /\ S!Init /\ SinWindowPlaces /\ SinWindowFocus /\ SinDesktopIcons /\
     SinWallpaper /\ SinPublish
  \/ parte = "wallpaper" /\ Wp!Init /\ SinWindowPlaces /\ SinWindowFocus /\ SinDesktopIcons /\
     SinScene /\ SinPublish
  \/ parte = "publish" /\ Pu!Init /\ SinWindowPlaces /\ SinWindowFocus /\ SinDesktopIcons /\
     SinScene /\ SinWallpaper

EnWindowPlaces(A) == parte = "places" /\ A /\ UNCHANGED <<parte, deWindowFocus, deDesktopIcons,
    deScene, deWallpaper, dePublish>>
EnWindowFocus(A) == parte = "focus" /\ A /\ UNCHANGED <<parte, deWindowPlaces, deDesktopIcons,
    deScene, deWallpaper, dePublish>>
EnDesktopIcons(A) == parte = "icons" /\ A /\ UNCHANGED <<parte, deWindowPlaces, deWindowFocus,
    deScene, deWallpaper, dePublish>>
EnScene(A) == parte = "scene" /\ A /\ UNCHANGED <<parte, deWindowPlaces, deWindowFocus,
    deDesktopIcons, deWallpaper, dePublish>>
EnWallpaper(A) == parte = "wallpaper" /\ A /\ UNCHANGED <<parte, deWindowPlaces, deWindowFocus,
    deDesktopIcons, deScene, dePublish>>
EnPublish(A) == parte = "publish" /\ A /\ UNCHANGED <<parte, deWindowPlaces, deWindowFocus,
    deDesktopIcons, deScene, deWallpaper>>

Next ==
  \/ EnWindowPlaces(P!Colocar) \/ EnWindowPlaces(P!Crece) \/ EnWindowPlaces(P!Decorar)
  \/ EnWindowPlaces(P!Responder) \/ EnWindowPlaces(P!Maximizar)
  \/ EnWindowPlaces(P!PedirMaximizada) \/ EnWindowPlaces(P!PedirCompleta)
  \/ EnWindowPlaces(P!AlternarBarra) \/ EnWindowPlaces(P!MoverAMonitor)
  \/ EnWindowPlaces(\E hacia \in {"arriba", "abajo", "izquierda", "derecha"} : P!Flecha(hacia))
  \/ EnWindowPlaces(P!Agarrar) \/ EnWindowPlaces(P!AgarrarBorde) \/ EnWindowPlaces(P!MetaMover)
  \/ EnWindowPlaces(P!MetaRedimensionar) \/ EnWindowPlaces(P!Mover) \/ EnWindowPlaces(P!Soltar)
  \/ EnWindowFocus(\E w \in Wayland : Fo!NewToplevel(w))
  \/ EnWindowFocus(\E w \in Wayland : Fo!AppIdChanged(w))
  \/ EnWindowFocus(\E w \in Wayland : Fo!Commit(w))
  \/ EnWindowFocus(\E w \in Wayland : Fo!ToplevelDestroyed(w))
  \/ EnWindowFocus(\E w \in Wayland : Fo!RequestActivation(w))
  \/ EnWindowFocus(\E w \in X11 : Fo!MapWindowRequest(w))
  \/ EnWindowFocus(\E w \in X11 : Fo!MapWindowNotify(w))
  \/ EnWindowFocus(\E w \in X11 : Fo!DestroyedWindow(w))
  \/ EnWindowFocus(\E w \in X11 \cup Menudas : Fo!SurfaceAssociated(w))
  \/ EnWindowFocus(\E w \in X11 \cup Menudas : Fo!UnmappedWindow(w))
  \/ EnWindowFocus(\E w \in Menudas : Fo!MappedOverrideRedirect(w))
  \/ EnWindowFocus(\E w \in Fo!Ventanas : Fo!Pulsar(w))
  \/ EnWindowFocus(\E w \in Fo!Ventanas : Fo!Minimizar(w))
  \/ EnWindowFocus(\E w \in Fo!Ventanas : Fo!RestaurarMinimizada(w))
  \/ EnWindowFocus(\E w \in Fo!Ventanas : Fo!Grab(w)) \/ EnWindowFocus(Fo!Refresh)
  \/ EnWindowFocus(Fo!Disconnected) \/ EnWindowFocus(Fo!Desenfocar)
  \/ EnWindowFocus(Fo!AnimarMinimizados) \/ EnWindowFocus(Fo!Tecla)
  \/ EnWindowFocus(Fo!PopupDestroyed)
  \/ EnDesktopIcons(I!Fuera) \/ EnDesktopIcons(I!Latido) \/ EnDesktopIcons(I!Recolocar)
  \/ EnDesktopIcons(I!Arrancar)
  \/ EnDesktopIcons(\E celda \in I!Celdas(rejilla), ctrl \in BOOLEAN : I!PulsarIcono(celda, ctrl))
  \/ EnDesktopIcons(\E celda \in I!Celdas(rejilla), ctrl \in BOOLEAN : I!PulsarHueco(celda, ctrl))
  \/ EnDesktopIcons(I!MoverBanda) \/ EnDesktopIcons(I!MoverIconos)
  \/ EnDesktopIcons(I!SoltarEscritorio)
  \/ EnDesktopIcons(\E celda \in I!Celdas(rejilla) : I!PulsarDerecho(celda))
  \/ EnDesktopIcons(I!EliminarSeleccion) \/ EnDesktopIcons(I!CrearCarpeta)
  \/ EnDesktopIcons(I!Mostrar) \/ EnDesktopIcons(\E si \in BOOLEAN : I!Colorear(si))
  \/ EnScene(S!Bloquear) \/ EnScene(S!Desbloquear) \/ EnScene(S!CerrarEmergente)
  \/ EnScene(S!Soltar) \/ EnScene(S!Fotograma) \/ EnScene(S!TerminaVista)
  \/ EnScene(S!FinAnimacion) \/ EnScene(S!CerrarConmutador) \/ EnScene(S!AlternarCaptura)
  \/ EnScene(\E t \in S!Tarjetas : S!Abrir(t))
  \/ EnScene(\E m \in {"apps", "ventanas"} : S!Conmutar(m)) \/ EnScene(S!Osd)
  \/ EnScene(S!Diagnostico) \/ EnScene(S!Isla) \/ EnScene(S!Toast) \/ EnScene(S!CapaDelCliente)
  \/ EnScene(S!Agarrado) \/ EnScene(\E s \in {"previa", "banda"} : S!Arrastra(s))
  \/ EnScene(\E b \in {"panel", "dock"} : S!Aparta(b))
  \/ EnScene(\E w \in {"w1", "w2"} : S!Coger(w)) \/ EnScene(\E w \in {"w1", "w2"} : S!Abre(w))
  \/ EnScene(\E w \in {"w1", "w2"} : S!Coloca(w))
  \/ EnScene(\E w \in {"w1", "w2"} : S!Completa(w))
  \/ EnScene(\E w \in {"w1", "w2"} : S!Cierra(w))
  \/ EnScene(\E w \in {"w1", "w2"} : S!TerminaCierre(w))
  \/ EnScene(\E w \in {"w1", "w2"} : S!Encoge(w))
  \/ EnScene(\E w \in {"w1", "w2"} : S!TerminaEncoge(w))
  \/ EnWallpaper(Wp!Cuadro) \/ EnWallpaper(Wp!Temporizador) \/ EnWallpaper(Wp!Vence)
  \/ EnWallpaper(Wp!ConvierteYa) \/ EnWallpaper(Wp!Abre) \/ EnWallpaper(Wp!Elegir)
  \/ EnWallpaper(Wp!CambiarTema) \/ EnWallpaper(Wp!RecargarAjustes)
  \/ EnWallpaper(Wp!AlternarEfectos) \/ EnWallpaper(Wp!EfectosDeBateria)
  \/ EnWallpaper(Wp!Pantallas) \/ EnWallpaper(Wp!Pintar)
  \/ EnPublish(Pu!Publicar) \/ EnPublish(Pu!Elegir)
  \/ EnPublish(\E n \in DOMAIN hilos : Pu!Copiar(n))
  \/ EnPublish(\E n \in DOMAIN hilos : Pu!Escribir(n))
  \/ EnPublish(\E n \in DOMAIN hilos : Pu!Renombrar(n))

Spec == Init /\ [][Next]_<<parte, deWindowPlaces, deWindowFocus, deDesktopIcons, deScene,
    deWallpaper, dePublish>>

\* A window is where its state says: restored, tiled, maximized or in full screen.
VentanaEnSuSitio == parte = "places" => P!TypeOK /\ P!VentanaEnSuSitio

\* The keyboard, the stack and the dock agree on the window in use.
FocoEnOrden == parte = "focus" => Fo!TypeOK /\ Fo!FocoEnOrden

\* Every file has a cell of its own, and what was arranged by hand stays.
IconosEnOrden == parte = "icons" => I!TypeOK /\ I!IconosEnOrden

\* What is drawn over what: each window once, and under the lock the lock alone.
EscenaEnOrden == parte = "scene" => S!TypeOK /\ S!EscenaEnOrden

\* The wallpaper in view is the one chosen or what stands in for it, no process is left behind,
\* and what is published is whole.
FondoEnOrden == 
    /\ parte = "wallpaper" => Wp!TypeOK /\ Wp!FondoEnOrden
    /\ parte = "publish" => Pu!TypeOK /\ Pu!PublicacionEntera

-----------------------------------------------------------------------------
Temas == {"claro", "oscuro"}
\* What is chosen and what is installed are files.
ASSUME FondoAssumption ==
  /\ MaxProcesos \in Nat /\ MaxCargas \in Nat /\ "nada" \notin DOMAIN Clase
  /\ Elecciones \subseteq [ambos : DOMAIN Clase \cup {"nada"}, claro : DOMAIN Clase \cup {"nada"},
                           oscuro : DOMAIN Clase \cup {"nada"}]
  /\ DeSerie \in [Temas -> DOMAIN Clase]

\* The settings come first and the wallpaper after; what is in the files is neither nothing nor
\* half of it; and two images of one length are the same (publicar.rs compares lengths).
ASSUME PublicacionAssumption ==
  /\ Destinos = <<"panel", "fondo">> /\ MaxHilos \in Nat
  /\ Valen \subseteq Fotos /\ {"nada", "medio"} \cap (Ajustes \cup Fotos) = {}
  /\ \A r, s \in Valen : Tam[r] = Tam[s] => r = s

\* A window is of one kind, and no window is nobody.
ASSUME FocoAssumption ==
  /\ Wayland \cap X11 = {} /\ Wayland \cap Menudas = {} /\ X11 \cap Menudas = {}
  /\ NoHay \notin Wayland \cup X11 \cup Menudas /\ Menus \subseteq Wayland \cup X11 \cup Menudas

-----------------------------------------------------------------------------
(***************************************************************************)
(* The identities of the new processes are not those of any that runs.     *)
(***************************************************************************)
MenorQue == {p \in Nat \X Nat : p[1] < p[2]}
\* A set of naturals that is not empty has a least one.
LEMMA Minimo ==
  ASSUME NEW T, T \subseteq Nat, T # {}
  PROVE  \E x \in T : \A y \in T : x <= y
<1>1. IsWellFoundedOn(MenorQue, Nat)
  BY NatLessThanWellFounded DEF OpToRel, MenorQue
<1>2. PICK x \in T : \A y \in T : ~ (<<y, x>> \in MenorQue)
  BY <1>1, WFMin
<1>3. \A y \in T : x <= y
  <2>. TAKE y \in T
  <2>1. x \in Nat /\ y \in Nat
    OBVIOUS
  <2>2. <<y, x>> \notin MenorQue
    BY <1>2
  <2>3. ~ (y < x)
    BY <2>1, <2>2 DEF MenorQue
  <2>. QED BY <2>1, <2>3
<1>. QED BY <1>3

Menores(T, p) == {q \in T : q < p}
\* Three naturals at least: one with none below, one with one and one with two.
LEMMA TresDistintos ==
  ASSUME NEW T, T \subseteq Nat, IsFiniteSet(T), Cardinality(T) >= 3
  PROVE  \A n \in 1..3 : \E p \in T : Cardinality(Menores(T, p)) = n - 1
<1>1. Cardinality(T) \in Nat
  BY FS_CardinalityType
<1>2. T # {}
  BY <1>1, FS_EmptySet
<1>3. PICK a \in T : \A y \in T : a <= y
  BY <1>2, Minimo
<1>4. IsFiniteSet(T \ {a}) /\ Cardinality(T \ {a}) = Cardinality(T) - 1
  BY <1>3, FS_RemoveElement
<1>5. T \ {a} # {}
  BY <1>1, <1>4, FS_EmptySet
<1>6. PICK b \in T \ {a} : \A y \in T \ {a} : b <= y
  BY <1>5, Minimo
<1>7. IsFiniteSet((T \ {a}) \ {b}) /\ Cardinality((T \ {a}) \ {b}) = Cardinality(T) - 2
  <2>1. /\ IsFiniteSet((T \ {a}) \ {b})
        /\ Cardinality((T \ {a}) \ {b}) = Cardinality(T \ {a}) - 1
    BY <1>4, <1>6, FS_RemoveElement
  <2>2. Cardinality(T) - 1 - 1 = Cardinality(T) - 2
    BY <1>1
  <2>. QED BY <1>4, <2>1, <2>2
<1>8. (T \ {a}) \ {b} # {}
  BY <1>1, <1>7, FS_EmptySet
<1>9. PICK c \in (T \ {a}) \ {b} : \A y \in (T \ {a}) \ {b} : c <= y
  BY <1>8, Minimo
<1>10. \A y \in T : y \in Nat
  OBVIOUS
<1>11. Menores(T, a) = {}
  <2>1. \A q \in T : ~(q < a)
    BY <1>3, <1>10
  <2>. QED BY <2>1 DEF Menores
<1>12. Menores(T, b) = {a}
  <2>1. a < b
    BY <1>3, <1>6, <1>10
  <2>2. \A q \in T : q < b => q = a
    BY <1>6, <1>10
  <2>. QED BY <2>1, <2>2 DEF Menores
<1>13. Menores(T, c) = {a, b}
  <2>1. a < c /\ b < c
    BY <1>3, <1>6, <1>9, <1>10
  <2>2. \A q \in T : q < c => q \in {a, b}
    BY <1>9, <1>10
  <2>. QED BY <2>1, <2>2 DEF Menores
<1>14. Cardinality({}) = 0 /\ Cardinality({a}) = 1
  BY FS_EmptySet, FS_Singleton
<1>15. Cardinality({a, b}) = 2
  <2>1. IsFiniteSet({a}) /\ b \notin {a} /\ {a, b} = {a} \cup {b}
    BY <1>6, FS_Singleton
  <2>2. Cardinality({a} \cup {b}) = Cardinality({a}) + 1
    BY <2>1, FS_AddElement
  <2>. QED BY <1>14, <2>1, <2>2
<1>16. \A n \in 1..3 : n = 1 \/ n = 2 \/ n = 3
  OBVIOUS
<1>17. Cardinality(Menores(T, a)) = 1 - 1 /\ Cardinality(Menores(T, b)) = 2 - 1
         /\ Cardinality(Menores(T, c)) = 3 - 1
  BY <1>11, <1>12, <1>13, <1>14, <1>15
<1>. QED BY <1>6, <1>9, <1>16, <1>17

\* The wallpaper counts as anybody does.
LEMMA MismaCuenta == ASSUME NEW T PROVE Wp!Cardinality(T) = Cardinality(T)
BY DEF Wp!Cardinality, Cardinality

Hueco == Cardinality(vivos) + 3 <= MaxProcesos
\* The three identities are free, and different.
LEMMA Libres ==
  ASSUME vivos \subseteq 1..MaxProcesos, Hueco
  PROVE  /\ \A n \in 1..3 : Wp!Libre(n) \in (1..MaxProcesos) \ vivos
         /\ Wp!Libre(1) # Wp!Libre(2) /\ Wp!Libre(1) # Wp!Libre(3) /\ Wp!Libre(2) # Wp!Libre(3)
<1>. DEFINE T == (1..MaxProcesos) \ vivos
<1>1. IsFiniteSet(1..MaxProcesos) /\ Cardinality(1..MaxProcesos) = MaxProcesos
  BY FondoAssumption, FS_Interval
<1>2. IsFiniteSet(vivos) /\ Cardinality(vivos) \in Nat
  BY <1>1, FS_Subset, FS_CardinalityType
<1>3. IsFiniteSet(T) /\ Cardinality(T) = Cardinality(1..MaxProcesos) - Cardinality((1..MaxProcesos) \cap vivos)
  BY <1>1, FS_Difference
<1>4. (1..MaxProcesos) \cap vivos = vivos
  OBVIOUS
<1>5. Cardinality(T) >= 3
  <2>. HIDE DEF T
  <2>1. Cardinality(T) = MaxProcesos - Cardinality(vivos)
    BY <1>1, <1>3, <1>4
  <2>2. MaxProcesos \in Nat /\ Cardinality(vivos) + 3 <= MaxProcesos
    BY FondoAssumption DEF Hueco
  <2>. QED BY <1>2, <2>1, <2>2
<1>6. T \subseteq Nat
  OBVIOUS
<1>. HIDE DEF T
<1>7. \A n \in 1..3 : \E p \in T : Cardinality(Menores(T, p)) = n - 1
  BY <1>3, <1>5, <1>6, TresDistintos
<1>8. \A n : Wp!Libre(n) = CHOOSE p \in T : Cardinality(Menores(T, p)) = n - 1
  <2>1. \A n : Wp!Libre(n) = CHOOSE p \in T : Wp!Cardinality(Menores(T, p)) = n - 1
    BY DEF Wp!Libre, T, Menores
  <2>2. \A p : Wp!Cardinality(Menores(T, p)) = Cardinality(Menores(T, p))
    BY MismaCuenta
  <2>. QED BY <2>1, <2>2
<1>9. \A n \in 1..3 : Wp!Libre(n) \in T /\ Cardinality(Menores(T, Wp!Libre(n))) = n - 1
  <2>. TAKE n \in 1..3
  <2>1. \E p \in T : Cardinality(Menores(T, p)) = n - 1
    BY <1>7
  <2>. QED BY <1>8, <2>1
<1>10. 1 \in 1..3 /\ 2 \in 1..3 /\ 3 \in 1..3
  OBVIOUS
<1>11. /\ Cardinality(Menores(T, Wp!Libre(1))) = 0 /\ Cardinality(Menores(T, Wp!Libre(2))) = 1
       /\ Cardinality(Menores(T, Wp!Libre(3))) = 2
  <2>1. 1 - 1 = 0 /\ 2 - 1 = 1 /\ 3 - 1 = 2
    OBVIOUS
  <2>. QED BY <1>9, <1>10, <2>1
<1>12. Wp!Libre(1) # Wp!Libre(2) /\ Wp!Libre(1) # Wp!Libre(3) /\ Wp!Libre(2) # Wp!Libre(3)
  BY <1>11
<1>. QED BY <1>9, <1>12 DEF T

(***************************************************************************)
(* A wallpaper and its processes.                                          *)
(***************************************************************************)
ConOtro == {"convirtiendo", "abriendo", "abierto"}
EsFondo(f) ==
  /\ f \in Wp!Fondos
  /\ f.conv \in ConOtro <=> f.otro # 0
  /\ f.anim = "video" <=> f.proceso # 0
  /\ f.proceso # 0 => f.proceso # f.otro /\ f.ruta \in DOMAIN Clase
  /\ f.conv # "no" => f.proceso # 0

\* What the constructors build.
LEMMA Hechuras ==
  /\ Wp!Ninguno = [ruta |-> "nada", anim |-> "no", proceso |-> 0, conv |-> "no", otro |-> 0]
  /\ \A r : Wp!Quieto(r) = [ruta |-> r, anim |-> "no", proceso |-> 0, conv |-> "no", otro |-> 0]
  /\ \A r, p : Wp!Video(r, p) = [ruta |-> r, anim |-> "video", proceso |-> p, conv |-> "no", otro |-> 0]
<1>1. Wp!Ninguno = [ruta |-> "nada", anim |-> "no", proceso |-> 0, conv |-> "no", otro |-> 0]
  BY DEF Wp!Ninguno
<1>2. \A r : Wp!Quieto(r) = [ruta |-> r, anim |-> "no", proceso |-> 0, conv |-> "no", otro |-> 0]
  BY <1>1 DEF Wp!Quieto
<1>3. \A r, p : Wp!Video(r, p) = [ruta |-> r, anim |-> "video", proceso |-> p, conv |-> "no", otro |-> 0]
  <2>. TAKE r, p
  <2>1. Wp!Video(r, p) = [[ruta |-> r, anim |-> "no", proceso |-> 0, conv |-> "no", otro |-> 0]
                         EXCEPT !.anim = "video", !.proceso = p]
    BY <1>2 DEF Wp!Video
  <2>. QED BY <2>1
<1>. QED BY <1>1, <1>2, <1>3

Conversiones == {"no", "convirtiendo", "bien", "mal", "abriendo", "abierto", "nada"}
ConConv(f, c, o) == [ruta |-> f.ruta, anim |-> f.anim, proceso |-> f.proceso, conv |-> c, otro |-> o]
\* The conversion of a wallpaper is changed, and the rest is as it was.
LEMMA ConElOtro ==
  ASSUME NEW f \in Wp!Fondos, NEW c \in Conversiones, NEW o \in 0..MaxProcesos
  PROVE  [f EXCEPT !.conv = c, !.otro = o] = ConConv(f, c, o) /\ [f EXCEPT !.conv = c] = ConConv(f, c, f.otro)
<1>1. f = [ruta |-> f.ruta, anim |-> f.anim, proceso |-> f.proceso, conv |-> f.conv, otro |-> f.otro]
  BY DEF Wp!Fondos
<1>3. [f EXCEPT !.conv = c]
        = [[ruta |-> f.ruta, anim |-> f.anim, proceso |-> f.proceso, conv |-> f.conv, otro |-> f.otro]
             EXCEPT !.conv = c]
  BY <1>1
<1>5. [f EXCEPT !.conv = c] = ConConv(f, c, f.otro)
  BY <1>3 DEF ConConv
<1>4. [f EXCEPT !.conv = c, !.otro = o] = ConConv(f, c, o)
  <2>1. [f EXCEPT !.conv = c, !.otro = o] = [[f EXCEPT !.conv = c] EXCEPT !.otro = o]
    OBVIOUS
  <2>2. [f EXCEPT !.conv = c, !.otro = o]
          = [[ruta |-> f.ruta, anim |-> f.anim, proceso |-> f.proceso, conv |-> c, otro |-> f.otro] EXCEPT !.otro = o]
    BY <1>5, <2>1 DEF ConConv
  <2>. QED BY <2>2 DEF ConConv
<1>. QED BY <1>4, <1>5

\* A wallpaper whose conversion changes.
LEMMA ConBien ==
  ASSUME NEW f, EsFondo(f), NEW c \in Conversiones, NEW o \in 0..MaxProcesos, f.proceso # 0,
         c \in ConOtro <=> o # 0, o # f.proceso
  PROVE  /\ EsFondo(ConConv(f, c, o)) /\ ConConv(f, c, o).ruta = f.ruta /\ ConConv(f, c, o).anim = f.anim
         /\ ConConv(f, c, o).conv = c /\ ConConv(f, c, o).otro = o
         /\ Wp!Suyos(ConConv(f, c, o)) = {f.proceso} \cup ({o} \ {0})
<1>1. /\ ConConv(f, c, o).ruta = f.ruta /\ ConConv(f, c, o).anim = f.anim
        /\ ConConv(f, c, o).proceso = f.proceso
      /\ ConConv(f, c, o).conv = c /\ ConConv(f, c, o).otro = o
  BY DEF ConConv
<1>2. f.ruta \in DOMAIN Clase \cup {"nada"} /\ f.anim \in {"no", "webp", "video"}
        /\ f.proceso \in 0..MaxProcesos
  BY DEF EsFondo, Wp!Fondos
<1>3. ConConv(f, c, o) \in Wp!Fondos
  BY <1>2 DEF ConConv, Wp!Fondos, Conversiones
<1>4. EsFondo(ConConv(f, c, o))
  BY <1>1, <1>3 DEF EsFondo
<1>. QED BY <1>1, <1>4 DEF Wp!Suyos

\* An image.
LEMMA QuietoBien ==
  ASSUME NEW r \in DOMAIN Clase \cup {"nada"}
  PROVE  EsFondo(Wp!Quieto(r)) /\ Wp!Quieto(r).ruta = r /\ Wp!Suyos(Wp!Quieto(r)) = {}
<1>1. 0 \in 0..MaxProcesos
  BY FondoAssumption
<1>2. Wp!Quieto(r) \in Wp!Fondos
  BY <1>1, Hechuras DEF Wp!Fondos
<1>3. Wp!Quieto(r).conv = "no" /\ Wp!Quieto(r).otro = 0 /\ Wp!Quieto(r).proceso = 0
        /\ Wp!Quieto(r).anim = "no" /\ Wp!Quieto(r).ruta = r
  BY Hechuras
<1>. QED BY <1>2, <1>3 DEF EsFondo, Wp!Suyos, ConOtro

\* No wallpaper.
LEMMA NingunoBien == EsFondo(Wp!Ninguno) /\ Wp!Suyos(Wp!Ninguno) = {} /\ Wp!Ninguno.anim = "no" /\ Wp!Ninguno.ruta = "nada"
<1>1. Wp!Ninguno = Wp!Quieto("nada")
  BY Hechuras
<1>2. Wp!Ninguno.anim = "no"
  BY Hechuras
<1>. QED BY <1>1, <1>2, QuietoBien

\* A video.
LEMMA VideoBien ==
  ASSUME NEW r \in DOMAIN Clase, NEW p \in 1..MaxProcesos
  PROVE  EsFondo(Wp!Video(r, p)) /\ Wp!Video(r, p).ruta = r /\ Wp!Suyos(Wp!Video(r, p)) = {p} /\ Wp!Video(r, p).proceso = p
<1>1. 0 \in 0..MaxProcesos /\ p \in 0..MaxProcesos /\ p # 0
  BY FondoAssumption
<1>2. Wp!Video(r, p) \in Wp!Fondos
  BY <1>1, Hechuras DEF Wp!Fondos
<1>3. Wp!Video(r, p).conv = "no" /\ Wp!Video(r, p).otro = 0 /\ Wp!Video(r, p).proceso = p
        /\ Wp!Video(r, p).anim = "video" /\ Wp!Video(r, p).ruta = r
  BY Hechuras
<1>. QED BY <1>1, <1>2, <1>3 DEF EsFondo, Wp!Suyos, ConOtro

\* Of what a wallpaper has, what is not killed is left to its thread.
LEMMA MatarSuelta ==
  ASSUME NEW f, EsFondo(f)
  PROVE  /\ Wp!Suyos(f) = (Wp!Mata(f) \ {0}) \cup Wp!Suelta(f) /\ Wp!Mata(f) \cap Wp!Suelta(f) = {}
         /\ Wp!Suyos(f) \subseteq 1..MaxProcesos
<1>1. Wp!Suyos(f) \subseteq 1..MaxProcesos
  BY DEF Wp!Suyos, EsFondo, Wp!Fondos
<1>2. CASE f.conv \in {"convirtiendo", "abierto"}
  BY <1>1, <1>2 DEF EsFondo, Wp!Mata, Wp!Suelta, Wp!Suyos, ConOtro
<1>3. CASE f.conv = "abriendo"
  BY <1>1, <1>3 DEF EsFondo, Wp!Mata, Wp!Suelta, Wp!Suyos, ConOtro
<1>4. CASE f.conv \notin ConOtro
  BY <1>1, <1>4 DEF EsFondo, Wp!Mata, Wp!Suelta, Wp!Suyos, ConOtro
<1>. QED BY <1>1, <1>2, <1>3, <1>4 DEF ConOtro

-----------------------------------------------------------------------------
TiposFondo ==
  /\ eleccion \in Elecciones /\ tema \in Temas /\ cargas \in 0..MaxCargas
  /\ recargar \in BOOLEAN /\ fallida \in BOOLEAN /\ tick \in BOOLEAN /\ vencido \in BOOLEAN
  /\ pinta \in BOOLEAN /\ reducidos \in BOOLEAN /\ encendida \in BOOLEAN /\ tapado \in BOOLEAN /\ activa \in BOOLEAN
  /\ EsFondo(fondo) /\ EsFondo(saliente)
  /\ vivos \subseteq 1..MaxProcesos /\ convertidos \subseteq DOMAIN Clase
FondoInv == TiposFondo /\ Wp!NuncaCongelado /\ Wp!SinHuerfanos /\ Wp!DeLoElegido

\* The invariant says what the property asks of the wallpaper.
LEMMA FondoBasta == FondoInv => Wp!TypeOK /\ Wp!FondoEnOrden
<1>. SUFFICES ASSUME FondoInv PROVE Wp!TypeOK /\ Wp!FondoEnOrden
  OBVIOUS
<1>1. sueltos \subseteq vivos
  BY DEF FondoInv, Wp!SinHuerfanos
<1>2. fondo \in Wp!Fondos /\ saliente \in Wp!Fondos
  BY DEF FondoInv, TiposFondo, EsFondo
<1>3. /\ eleccion \in Elecciones /\ tema \in {"claro", "oscuro"}
        /\ {recargar, fallida, tick, vencido} \subseteq BOOLEAN
      /\ {pinta, reducidos, encendida, tapado, activa} \subseteq BOOLEAN /\ cargas \in 0..MaxCargas
      /\ vivos \subseteq 1..MaxProcesos /\ convertidos \subseteq DOMAIN Clase
  BY Zenon DEF FondoInv, TiposFondo, Temas
<1>. QED BY <1>1, <1>2, <1>3 DEF Wp!TypeOK, FondoInv, Wp!FondoEnOrden

\* There is none at the start.
LEMMA FondoInicial == Wp!Init => FondoInv
<1>. SUFFICES ASSUME Wp!Init PROVE FondoInv
  OBVIOUS
<1>1. TiposFondo
  <2>1. EsFondo(fondo) /\ EsFondo(saliente)
    BY NingunoBien DEF Wp!Init
  <2>2. cargas \in 0..MaxCargas
    BY FondoAssumption DEF Wp!Init
  <2>. QED BY <2>1, <2>2 DEF Wp!Init, TiposFondo, Temas
<1>. QED BY <1>1, NingunoBien DEF Wp!Init, FondoInv, Wp!NuncaCongelado, Wp!SinHuerfanos, Wp!DeLoElegido

\* What is chosen for a theme is a file.
LEMMA ElegidoEsFichero ==
  ASSUME NEW e \in Elecciones, NEW t \in Temas
  PROVE  Wp!ParaElTema(e, t) \in DOMAIN Clase
<1>1. e.ambos \in DOMAIN Clase \cup {"nada"} /\ e.claro \in DOMAIN Clase \cup {"nada"}
        /\ e.oscuro \in DOMAIN Clase \cup {"nada"}
  BY FondoAssumption
<1>2. DeSerie[t] \in DOMAIN Clase
  BY FondoAssumption
<1>. QED BY <1>1, <1>2 DEF Wp!ParaElTema, Wp!Propio, Wp!Buscar

(***************************************************************************)
(* A frame.                                                                *)
(***************************************************************************)
\* What loading gives.
CargaBien(n) == /\ EsFondo(n) /\ Wp!Suyos(n) \subseteq {Wp!Libre(2), Wp!Libre(3)}
                /\ n # Wp!Ninguno => recargar /\ n.ruta = Wp!ParaElTema(eleccion, tema)
\* What a step of the animation leaves of the wallpaper in sight.
PasoBien(p) ==
  /\ EsFondo(p.antes) /\ EsFondo(p.queda) /\ p.queda.ruta = fondo.ruta
  /\ Wp!Suyos(fondo) \subseteq Wp!Suyos(p.antes) /\ Wp!Suyos(p.antes) \subseteq Wp!Suyos(fondo) \cup {Wp!Libre(1)}
  /\ Wp!Suyos(p.antes) = Wp!Suyos(p.queda) \cup (p.mata \ {0}) \cup p.suelta
  /\ Wp!Suyos(p.queda) \cap p.mata = {} /\ Wp!Suyos(p.queda) \cap p.suelta = {} /\ p.mata \cap p.suelta = {}
  /\ p.antes.conv = "abriendo" => fondo.ruta \in DOMAIN Clase

\* A foreign video, with its conversion or without.
LEMMA VideosBien ==
  ASSUME NEW r \in DOMAIN Clase, NEW p \in 1..MaxProcesos, NEW q \in 1..MaxProcesos, p # q,
          NEW n \in Wp!Convertir(Wp!Video(r, p)),
         Wp!Libre(3) = q
  PROVE  EsFondo(n) /\ n.ruta = r /\ Wp!Suyos(n) \subseteq {p, q}
<1>1. EsFondo(Wp!Video(r, p)) /\ Wp!Video(r, p).ruta = r /\ Wp!Suyos(Wp!Video(r, p)) = {p}
        /\ Wp!Video(r, p).proceso = p
  BY VideoBien
<1>2. Wp!Video(r, p) \in Wp!Fondos
  BY <1>1 DEF EsFondo
<1>3. q \in 0..MaxProcesos /\ q # 0 /\ p # 0 /\ "convirtiendo" \in Conversiones /\ "convirtiendo" \in ConOtro
  BY DEF Conversiones, ConOtro
<1>4. [Wp!Video(r, p) EXCEPT !.conv = "convirtiendo", !.otro = q] = ConConv(Wp!Video(r, p), "convirtiendo", q)
  BY <1>2, <1>3, ConElOtro
<1>5. /\ EsFondo(ConConv(Wp!Video(r, p), "convirtiendo", q))
        /\ ConConv(Wp!Video(r, p), "convirtiendo", q).ruta = r
      /\ Wp!Suyos(ConConv(Wp!Video(r, p), "convirtiendo", q)) = {p} \cup ({q} \ {0})
  BY <1>1, <1>3, ConBien
<1>6. n = ConConv(Wp!Video(r, p), "convirtiendo", q) \/ n = Wp!Video(r, p)
  BY <1>4 DEF Wp!Convertir
<1>. QED BY <1>1, <1>5, <1>6

\* What opening a file gives.
LEMMA AbiertosBien ==
  ASSUME vivos \subseteq 1..MaxProcesos, Hueco, NEW r \in DOMAIN Clase, NEW n \in Wp!Abiertos(r)
  PROVE  EsFondo(n) /\ Wp!Suyos(n) \subseteq {Wp!Libre(2), Wp!Libre(3)} /\ (n # Wp!Ninguno => n.ruta = r)
<1>1. Wp!Libre(2) \in 1..MaxProcesos /\ Wp!Libre(3) \in 1..MaxProcesos /\ Wp!Libre(2) # Wp!Libre(3)
  <2>1. 2 \in 1..3 /\ 3 \in 1..3
    OBVIOUS
  <2>. QED BY <2>1, Libres
<1>2. EsFondo(Wp!Ninguno) /\ Wp!Suyos(Wp!Ninguno) = {}
  BY NingunoBien
<1>3. CASE n = Wp!Quieto(r)
  BY <1>3, QuietoBien
<1>4. CASE n = [Wp!Quieto(r) EXCEPT !.anim = "webp"]
  <2>1. n = [ruta |-> r, anim |-> "webp", proceso |-> 0, conv |-> "no", otro |-> 0]
    <3>1. n = [[ruta |-> r, anim |-> "no", proceso |-> 0, conv |-> "no", otro |-> 0] EXCEPT !.anim = "webp"]
      BY <1>4, Hechuras
    <3>. QED BY <3>1
  <2>2. 0 \in 0..MaxProcesos
    BY FondoAssumption
  <2>3. n \in Wp!Fondos
    BY <2>1, <2>2 DEF Wp!Fondos
  <2>4. n.conv = "no" /\ n.otro = 0 /\ n.proceso = 0 /\ n.anim = "webp" /\ n.ruta = r
    BY <2>1
  <2>. QED BY <2>3, <2>4 DEF EsFondo, Wp!Suyos, ConOtro
<1>5. CASE n \in Wp!AbrirVideo(r)
  <2>1. CASE n = Wp!Ninguno
    BY <1>2, <2>1
  <2>2. CASE n = Wp!Video(r, Wp!Libre(2))
    BY <1>1, <2>2, VideoBien
  <2>3. CASE n \in Wp!Convertir(Wp!Video(r, Wp!Libre(2)))
    BY <1>1, <2>3, VideosBien
  <2>. QED BY <1>5, <2>1, <2>2, <2>3 DEF Wp!AbrirVideo, Wp!Reproducir
<1>6. CASE n = Wp!Ninguno
  BY <1>2, <1>6
<1>. QED BY <1>3, <1>4, <1>5, <1>6 DEF Wp!Abiertos

\* What a frame loads.
LEMMA CargasBien ==
  ASSUME TiposFondo, Hueco, NEW n \in Wp!Cargas
  PROVE  CargaBien(n)
<1>1. CASE recargar
  <2>1. Wp!ParaElTema(eleccion, tema) \in DOMAIN Clase
    BY ElegidoEsFichero DEF TiposFondo
  <2>2. n \in Wp!Abiertos(Wp!ParaElTema(eleccion, tema)) /\ vivos \subseteq 1..MaxProcesos
    BY <1>1 DEF Wp!Cargas, TiposFondo
  <2>3. EsFondo(n) /\ Wp!Suyos(n) \subseteq {Wp!Libre(2), Wp!Libre(3)}
          /\ (n # Wp!Ninguno => n.ruta = Wp!ParaElTema(eleccion, tema))
    BY <2>1, <2>2, AbiertosBien
  <2>. QED BY <1>1, <2>3 DEF CargaBien
<1>2. CASE ~recargar
  <2>1. n = Wp!Ninguno
    BY <1>2 DEF Wp!Cargas
  <2>. QED BY <2>1, NingunoBien DEF CargaBien
<1>. QED BY <1>1, <1>2

\* The step after the conversion.
LEMMA SeguidaBien ==
  ASSUME TiposFondo, Hueco, NEW f, EsFondo(f), Wp!Suyos(f) \subseteq vivos, NEW g \in Wp!Seguida(f)
  PROVE  /\ EsFondo(g) /\ g.ruta = f.ruta
         /\ Wp!Suyos(f) \subseteq Wp!Suyos(g) /\ Wp!Suyos(g) \subseteq Wp!Suyos(f) \cup {Wp!Libre(1)}
         /\ g.conv = "abriendo" => f.ruta \in DOMAIN Clase
<1>1. Wp!Libre(1) \in (1..MaxProcesos) \ vivos
  <2>1. 1 \in 1..3
    OBVIOUS
  <2>. QED BY <2>1, Libres DEF TiposFondo
<1>2. f \in Wp!Fondos /\ f.conv \in Conversiones /\ f.proceso \in 0..MaxProcesos /\ f.otro \in 0..MaxProcesos
  BY DEF EsFondo, Wp!Fondos, Conversiones
<1>3. f.conv # "no" => f.proceso # 0 /\ f.ruta \in DOMAIN Clase
  BY DEF EsFondo
<1>4. CASE g = f
  BY <1>3, <1>4
<1>5. CASE f.conv \in {"bien", "mal", "nada"} /\ g = [f EXCEPT !.conv = "no"]
  <2>1. f.otro = 0 /\ f.proceso # 0
    BY <1>5 DEF EsFondo, ConOtro
  <2>2. "no" \in Conversiones /\ "no" \notin ConOtro
    BY DEF Conversiones, ConOtro
  <2>3. g = ConConv(f, "no", f.otro)
    BY <1>2, <1>5, <2>2, ConElOtro
  <2>4. EsFondo(g) /\ g.ruta = f.ruta /\ g.conv = "no" /\ Wp!Suyos(g) = {f.proceso} \cup ({f.otro} \ {0})
    BY <1>2, <2>1, <2>2, <2>3, ConBien
  <2>. QED BY <2>1, <2>4 DEF Wp!Suyos
<1>6. CASE f.conv = "bien" /\ g = [f EXCEPT !.conv = "abriendo", !.otro = Wp!Libre(1)]
  <2>1. f.otro = 0 /\ f.proceso # 0
    BY <1>6 DEF EsFondo, ConOtro
  <2>2. "abriendo" \in Conversiones /\ "abriendo" \in ConOtro /\ Wp!Libre(1) # 0
          /\ Wp!Libre(1) \in 0..MaxProcesos
    BY <1>1 DEF Conversiones, ConOtro
  <2>3. g = ConConv(f, "abriendo", Wp!Libre(1))
    BY <1>2, <1>6, <2>2, ConElOtro
  <2>4. f.proceso \in vivos
    BY <2>1 DEF Wp!Suyos
  <2>5. EsFondo(g) /\ g.ruta = f.ruta /\ Wp!Suyos(g) = {f.proceso} \cup ({Wp!Libre(1)} \ {0})
    BY <1>1, <1>2, <2>1, <2>2, <2>3, <2>4, ConBien
  <2>. QED BY <1>3, <1>6, <2>1, <2>5 DEF Wp!Suyos
<1>. QED BY <1>4, <1>5, <1>6 DEF Wp!Seguida

PasoDe(a, q, m, s) == [antes |-> a, queda |-> q, mata |-> m, suelta |-> s]
\* What a step of the animation leaves, whatever it does.
LEMMA AvancesBien ==
  ASSUME TiposFondo, Wp!SinHuerfanos, Hueco, NEW p \in Wp!Avances
  PROVE  PasoBien(p)
<1>. DEFINE f == fondo
<1>1. EsFondo(f) /\ Wp!Suyos(f) \subseteq vivos /\ f.ruta \in DOMAIN Clase \cup {"nada"}
  BY DEF TiposFondo, Wp!SinHuerfanos, EsFondo, Wp!Fondos
<1>2. f.conv # "no" => f.ruta \in DOMAIN Clase
  BY <1>1 DEF EsFondo
<1>3. 0 \notin Wp!Suyos(f)
  BY DEF Wp!Suyos
<1>4. CASE p = PasoDe(f, f, {}, {})
  BY <1>1, <1>2, <1>4 DEF PasoBien, PasoDe
<1>5. CASE f.conv = "abierto" /\ p = PasoDe(f, Wp!Video(f.ruta, f.otro), {f.proceso}, {})
  <2>1. f.otro \in 1..MaxProcesos /\ f.proceso # 0 /\ f.proceso # f.otro
    BY <1>1, <1>5 DEF EsFondo, Wp!Fondos, ConOtro
  <2>2. EsFondo(Wp!Video(f.ruta, f.otro)) /\ Wp!Video(f.ruta, f.otro).ruta = f.ruta
          /\ Wp!Suyos(Wp!Video(f.ruta, f.otro)) = {f.otro}
    BY <1>2, <1>5, <2>1, VideoBien
  <2>3. Wp!Suyos(f) = {f.proceso, f.otro}
    BY <2>1 DEF Wp!Suyos
  <2>. QED BY <1>1, <1>5, <2>1, <2>2, <2>3 DEF PasoBien, PasoDe
<1>6. ASSUME NEW g \in Wp!Seguida(f), p \in {PasoDe(g, g, {}, {}), PasoDe(g, Wp!Quieto(f.ruta), Wp!Mata(g),
        Wp!Suelta(g))} PROVE PasoBien(p)
  <2>1. /\ EsFondo(g) /\ g.ruta = f.ruta
        /\ Wp!Suyos(f) \subseteq Wp!Suyos(g) /\ Wp!Suyos(g) \subseteq Wp!Suyos(f) \cup {Wp!Libre(1)}
        /\ g.conv = "abriendo" => f.ruta \in DOMAIN Clase
    BY <1>1, SeguidaBien
  <2>2. CASE p = PasoDe(g, g, {}, {})
    <3>1. p.antes = g /\ p.queda = g /\ p.mata = {} /\ p.suelta = {}
      BY <2>2 DEF PasoDe
    <3>. QED BY <2>1, <3>1 DEF PasoBien
  <2>3. CASE p = PasoDe(g, Wp!Quieto(f.ruta), Wp!Mata(g), Wp!Suelta(g))
    <3>1. p.antes = g /\ p.queda = Wp!Quieto(f.ruta) /\ p.mata = Wp!Mata(g) /\ p.suelta = Wp!Suelta(g)
      BY <2>3 DEF PasoDe
    <3>2. EsFondo(Wp!Quieto(f.ruta)) /\ Wp!Quieto(f.ruta).ruta = f.ruta /\ Wp!Suyos(Wp!Quieto(f.ruta)) = {}
      BY <1>1, QuietoBien
    <3>3. Wp!Suyos(g) = (Wp!Mata(g) \ {0}) \cup Wp!Suelta(g) /\ Wp!Mata(g) \cap Wp!Suelta(g) = {}
      BY <2>1, MatarSuelta
    <3>. QED BY <2>1, <3>1, <3>2, <3>3 DEF PasoBien
  <2>. QED BY <1>6, <2>2, <2>3
<1>7. CASE p \in Wp!Pasos(f)
  <2>1. CASE f.conv = "abierto"
    BY <1>5, <1>7, <2>1 DEF Wp!Pasos, PasoDe
  <2>2. CASE f.conv # "abierto"
    <3>1. PICK g \in Wp!Seguida(f) : p \in {PasoDe(g, g, {}, {}), PasoDe(g, Wp!Quieto(f.ruta), Wp!Mata(g),
            Wp!Suelta(g))}
      BY <1>7, <2>2 DEF Wp!Pasos, PasoDe
    <3>. QED BY <1>6, <3>1
  <2>. QED BY <2>1, <2>2
<1>. QED BY <1>4, <1>7 DEF Wp!Avances, Wp!SinPaso, PasoDe

\* What is dropped with the frame.
Idos(paso, nuevo) ==
  (IF nuevo # Wp!Ninguno /\ saliente # Wp!Ninguno THEN {saliente} ELSE {})
    \cup (IF saliente' = Wp!Ninguno THEN {IF nuevo = Wp!Ninguno THEN saliente ELSE paso.queda} ELSE {})
MatanA(F) == UNION {Wp!Mata(f) : f \in F}
SueltanA(F) == UNION {Wp!Suelta(f) : f \in F}

\* None is not a process.
LEMMA SinCero ==
  ASSUME NEW T, NEW M, NEW K, 0 \notin T
  PROVE  T \ (M \cup K) = T \ ((M \ {0}) \cup (K \ {0}))
OBVIOUS

\* What is not killed is of one of the three.
LEMMA Cuentas ==
  ASSUME NEW A, NEW B, NEW C, NEW Q, NEW m, NEW s, NEW N, NEW l, NEW X, NEW Y, NEW K, NEW D, NEW V,
         V = A \cup B \cup C, A \cap B = {}, (A \cup B) \cap C = {},
         A \subseteq Q \cup m \cup s, Q \cup m \cup s \subseteq A \cup {l}, l \notin V,
         Q \cap m = {}, Q \cap s = {}, m \cap s = {}, N \cap (V \cup {l}) = {},
         X \cup Y \cup K \cup D = Q \cup N \cup B,
         X \cap Y = {}, X \cap K = {}, X \cap D = {}, Y \cap K = {}, Y \cap D = {}, K \cap D = {}
  PROVE  /\ (V \cup (Q \cup m \cup s) \cup N) \ (m \cup K) = X \cup Y \cup (C \cup s \cup D)
         /\ X \cap Y = {} /\ (X \cup Y) \cap (C \cup s \cup D) = {}
<1>1. Q \cap N = {} /\ m \cap N = {} /\ s \cap N = {}
  OBVIOUS
<1>2. /\ Q \cap B = {} /\ m \cap B = {} /\ s \cap B = {}
      /\ Q \cap C = {} /\ m \cap C = {} /\ s \cap C = {} /\ N \cap B = {} /\ N \cap C = {} /\ B \cap C = {}
  OBVIOUS
<1>3. (X \cup Y \cup K \cup D) \cap (m \cup s \cup C) = {}
  BY <1>1, <1>2
<1>4. (X \cup Y) \cap (C \cup s \cup D) = {}
  BY <1>3
<1>5. V \cup (Q \cup m \cup s) \cup N = (X \cup Y \cup K \cup D) \cup m \cup s \cup C
  OBVIOUS
<1>6. ((X \cup Y \cup K \cup D) \cup m \cup s \cup C) \ (m \cup K) = X \cup Y \cup (C \cup s \cup D)
  BY <1>3, m \cap s = {}, <1>2
<1>. QED BY <1>4, <1>5, <1>6

\* The processes of a frame: every one that runs is of one wallpaper, or of a thread.
LEMMA ProcesosBien ==
  ASSUME TiposFondo, Wp!SinHuerfanos, Hueco, NEW p, PasoBien(p), NEW n, CargaBien(n), Wp!Poner(p, n),
         vivos' = (vivos \cup Wp!Suyos(p.antes) \cup Wp!Suyos(n)) \ (p.mata \cup MatanA(Idos(p, n))),
         sueltos' = sueltos \cup p.suelta \cup SueltanA(Idos(p, n))
  PROVE  Wp!SinHuerfanos' /\ vivos' \subseteq 1..MaxProcesos
<1>. DEFINE A == Wp!Suyos(fondo)
            B == Wp!Suyos(saliente)
            Q == Wp!Suyos(p.queda)
            N == Wp!Suyos(n)
            l == Wp!Libre(1)
<1>1. /\ Wp!Libre(1) \in (1..MaxProcesos) \ vivos /\ Wp!Libre(2) \in (1..MaxProcesos) \ vivos
      /\ Wp!Libre(3) \in (1..MaxProcesos) \ vivos
      /\ Wp!Libre(1) # Wp!Libre(2) /\ Wp!Libre(1) # Wp!Libre(3)
  <2>1. 1 \in 1..3 /\ 2 \in 1..3 /\ 3 \in 1..3
    OBVIOUS
  <2>. QED BY <2>1, Libres DEF TiposFondo
<1>2. vivos = A \cup B \cup sueltos /\ A \cap B = {} /\ (A \cup B) \cap sueltos = {}
  BY DEF Wp!SinHuerfanos
<1>3. /\ A \subseteq Wp!Suyos(p.antes) /\ Wp!Suyos(p.antes) \subseteq A \cup {l} /\ l \notin vivos
      /\ Wp!Suyos(p.antes) = Q \cup (p.mata \ {0}) \cup p.suelta
      /\ Q \cap p.mata = {} /\ Q \cap p.suelta = {} /\ p.mata \cap p.suelta = {}
  BY <1>1 DEF PasoBien
<1>4. N \cap (vivos \cup {l}) = {}
  BY <1>1 DEF CargaBien
<1>5. 0 \notin A /\ 0 \notin B /\ 0 \notin Q /\ 0 \notin N
  BY DEF Wp!Suyos
<1>6. 0 \notin vivos
  BY DEF TiposFondo
<1>7. /\ B = (Wp!Mata(saliente) \ {0}) \cup Wp!Suelta(saliente)
        /\ Wp!Mata(saliente) \cap Wp!Suelta(saliente) = {}
      /\ Q = (Wp!Mata(p.queda) \ {0}) \cup Wp!Suelta(p.queda) /\ Wp!Mata(p.queda) \cap Wp!Suelta(p.queda) = {}
  BY MatarSuelta DEF TiposFondo, PasoBien
<1>8. Wp!Suyos(Wp!Ninguno) = {}
  BY NingunoBien
<1>9. \A f, g : MatanA({f}) = Wp!Mata(f) /\ SueltanA({f}) = Wp!Suelta(f)
                /\ MatanA({f, g}) = Wp!Mata(f) \cup Wp!Mata(g) /\ SueltanA({f, g}) = Wp!Suelta(f) \cup Wp!Suelta(g)
  BY DEF MatanA, SueltanA
<1>10. MatanA({}) = {} /\ SueltanA({}) = {}
  BY DEF MatanA, SueltanA
<1>11. vivos' \subseteq 1..MaxProcesos
  <2>1. Wp!Suyos(p.antes) \subseteq 1..MaxProcesos /\ N \subseteq 1..MaxProcesos
          /\ vivos \subseteq 1..MaxProcesos
    BY MatarSuelta DEF TiposFondo, CargaBien, PasoBien
  <2>. QED BY <2>1
<1>. DEFINE m == p.mata \ {0}
            s == p.suelta
            K == MatanA(Idos(p, n)) \ {0}
            D == SueltanA(Idos(p, n))
            MB == Wp!Mata(saliente) \ {0}
            MQ == Wp!Mata(p.queda) \ {0}
            SB == Wp!Suelta(saliente)
            SQ == Wp!Suelta(p.queda)
<1>12. ASSUME NEW X, NEW Y, X \cup Y \cup K \cup D = Q \cup N \cup B,
              X \cap Y = {}, X \cap K = {}, X \cap D = {}, Y \cap K = {}, Y \cap D = {}, K \cap D = {},
              Wp!Suyos(fondo)' = X, Wp!Suyos(saliente)' = Y
       PROVE  Wp!SinHuerfanos'
  <2>1. vivos' = (vivos \cup (Q \cup m \cup s) \cup N) \ (m \cup K)
    <3>1. 0 \notin vivos \cup Wp!Suyos(p.antes) \cup N
      BY <1>5, <1>6 DEF Wp!Suyos
    <3>2. vivos' = (vivos \cup Wp!Suyos(p.antes) \cup N) \ (m \cup K)
      BY <3>1, SinCero
    <3>3. Wp!Suyos(p.antes) = Q \cup m \cup s
      BY <1>3
    <3>. HIDE DEF m, K, Q, s, N
    <3>. QED BY <3>2, <3>3
  <2>2. sueltos' = sueltos \cup s \cup D
    OBVIOUS
  <2>3. A \subseteq Q \cup m \cup s /\ Q \cup m \cup s \subseteq A \cup {l} /\ Q \cap m = {}
          /\ Q \cap s = {} /\ m \cap s = {}
    BY <1>3
  <2>. HIDE DEF A, B, Q, N, l, m, s, K, D
  <2>4. /\ (vivos \cup (Q \cup m \cup s) \cup N) \ (m \cup K) = X \cup Y \cup (sueltos \cup s \cup D)
        /\ X \cap Y = {} /\ (X \cup Y) \cap (sueltos \cup s \cup D) = {}
    BY <1>2, <1>3, <1>4, <1>12, <2>3, Cuentas
  <2>. QED BY <1>12, <2>1, <2>2, <2>4 DEF Wp!SinHuerfanos
<1>13. /\ Q \cap N = {} /\ Q \cap B = {} /\ N \cap B = {}
       /\ B = MB \cup SB /\ MB \cap SB = {} /\ Q = MQ \cup SQ /\ MQ \cap SQ = {}
  <2>1. Q \subseteq A \cup {l}
    BY <1>3
  <2>2. B \subseteq vivos
    BY <1>2
  <2>3. Q \cap N = {} /\ N \cap B = {}
    BY <1>2, <1>4, <2>1, <2>2
  <2>4. Q \cap B = {}
    BY <1>2, <1>3, <2>1, <2>2
  <2>. QED BY <1>7, <2>3, <2>4
<1>14. CASE n = Wp!Ninguno
  <2>1. Wp!Suyos(fondo)' = Q
    BY <1>14 DEF Wp!Poner, Wp!Suyos
  <2>2. N = {}
    BY <1>8, <1>14
  <2>3. CASE saliente' = Wp!Ninguno
    <3>1. Idos(p, n) = {saliente}
      BY <1>14, <2>3 DEF Idos
    <3>2. Wp!Suyos(saliente)' = {}
      BY <1>8, <2>3 DEF Wp!Suyos
    <3>3. K = MB /\ D = SB
      BY <1>9, <3>1
    <3>. HIDE DEF K, D, MB, SB, Q, B, N
    <3>4. Q \cup {} \cup K \cup D = Q \cup N \cup B
      BY <1>13, <2>2, <3>3
    <3>5. Q \cap {} = {} /\ Q \cap K = {} /\ Q \cap D = {} /\ {} \cap K = {} /\ {} \cap D = {} /\ K \cap D = {}
      BY <1>13, <3>3
    <3>. QED BY <1>11, <1>12, <2>1, <3>2, <3>4, <3>5, Zenon
  <2>4. CASE saliente' # Wp!Ninguno
    <3>1. Idos(p, n) = {}
      BY <1>14, <2>4 DEF Idos
    <3>2. Wp!Suyos(saliente)' = B
      BY <1>14, <2>4 DEF Wp!Suyos, Wp!Poner
    <3>3. K = {} /\ D = {}
      BY <1>10, <3>1
    <3>. HIDE DEF K, D, Q, B, N
    <3>4. Q \cup B \cup K \cup D = Q \cup N \cup B
      BY <2>2, <3>3
    <3>5. Q \cap B = {} /\ Q \cap K = {} /\ Q \cap D = {} /\ B \cap K = {} /\ B \cap D = {} /\ K \cap D = {}
      BY <1>13, <3>3
    <3>. QED BY <1>11, <1>12, <2>1, <3>2, <3>4, <3>5, Zenon
  <2>. QED BY <2>3, <2>4
<1>15. CASE n # Wp!Ninguno
  <2>1. Wp!Suyos(fondo)' = N
    BY <1>15 DEF Wp!Poner, Wp!Suyos
  <2>2. /\ MatanA(IF saliente # Wp!Ninguno THEN {saliente} ELSE {}) \ {0} = MB
        /\ SueltanA(IF saliente # Wp!Ninguno THEN {saliente} ELSE {}) = SB
    <3>1. CASE saliente # Wp!Ninguno
      BY <1>9, <3>1
    <3>2. CASE saliente = Wp!Ninguno
      <4>1. B = {}
        BY <1>8, <3>2
      <4>. HIDE DEF B
      <4>2. MB = {} /\ SB = {}
        BY <1>13, <4>1
      <4>. QED BY <1>10, <3>2, <4>2
    <3>. QED BY <3>1, <3>2
  <2>3. CASE saliente' = Wp!Ninguno
    <3>1. Wp!Suyos(saliente)' = {}
      BY <1>8, <2>3 DEF Wp!Suyos
    <3>2. Idos(p, n) = (IF saliente # Wp!Ninguno THEN {saliente} ELSE {}) \cup {p.queda}
      BY <1>15, <2>3 DEF Idos
    <3>3. \A F, f : MatanA(F \cup {f}) = MatanA(F) \cup Wp!Mata(f)
            /\ SueltanA(F \cup {f}) = SueltanA(F) \cup Wp!Suelta(f)
      BY DEF MatanA, SueltanA
    <3>4. K = MB \cup MQ /\ D = SB \cup SQ
      <4>. DEFINE F == IF saliente # Wp!Ninguno THEN {saliente} ELSE {}
      <4>1. MatanA(Idos(p, n)) = MatanA(F) \cup Wp!Mata(p.queda) /\ D = SueltanA(F) \cup SQ
        BY <3>2, <3>3, Zenon
      <4>2. MatanA(F) \ {0} = MB /\ SueltanA(F) = SB
        BY <2>2
      <4>. HIDE DEF F
      <4>. QED BY <4>1, <4>2
    <3>. HIDE DEF K, D, MB, SB, MQ, SQ, Q, B, N
    <3>5. N \cup {} \cup K \cup D = Q \cup N \cup B
      BY <1>13, <3>4
    <3>6. N \cap {} = {} /\ N \cap K = {} /\ N \cap D = {} /\ {} \cap K = {} /\ {} \cap D = {} /\ K \cap D = {}
      BY <1>13, <3>4
    <3>. QED BY <1>11, <1>12, <2>1, <3>1, <3>5, <3>6, Zenon
  <2>4. CASE saliente' # Wp!Ninguno
    <3>1. Wp!Suyos(saliente)' = Q
      BY <1>15, <2>4 DEF Wp!Suyos, Wp!Poner
    <3>2. Idos(p, n) = IF saliente # Wp!Ninguno THEN {saliente} ELSE {}
      BY <1>15, <2>4 DEF Idos
    <3>3. K = MB /\ D = SB
      BY <2>2, <3>2
    <3>. HIDE DEF K, D, MB, SB, MQ, SQ, Q, B, N
    <3>4. N \cup Q \cup K \cup D = Q \cup N \cup B
      BY <1>13, <3>3
    <3>5. N \cap Q = {} /\ N \cap K = {} /\ N \cap D = {} /\ Q \cap K = {} /\ Q \cap D = {} /\ K \cap D = {}
      BY <1>13, <3>3
    <3>. QED BY <1>11, <1>12, <2>1, <3>1, <3>4, <3>5, Zenon
  <2>. QED BY <2>3, <2>4
<1>. QED BY <1>14, <1>15

\* A frame.
LEMMA CuadroBien == ASSUME FondoInv, Wp!Cuadro PROVE FondoInv'
<1>1. TiposFondo /\ Wp!SinHuerfanos /\ Hueco
  BY MismaCuenta DEF FondoInv, Wp!Cuadro, Hueco
<1>2. PICK p \in Wp!Avances, n \in Wp!Cargas :
         /\ Wp!Poner(p, n)
         /\ LET idos == (IF n # Wp!Ninguno /\ saliente # Wp!Ninguno THEN {saliente} ELSE {})
                          \cup (IF saliente' = Wp!Ninguno
                                THEN {IF n = Wp!Ninguno THEN saliente ELSE p.queda} ELSE {})
            IN /\ vivos' = (vivos \cup Wp!Suyos(p.antes) \cup Wp!Suyos(n))
                             \ (p.mata \cup UNION {Wp!Mata(f) : f \in idos})
               /\ sueltos' = sueltos \cup p.suelta \cup UNION {Wp!Suelta(f) : f \in idos}
         /\ convertidos' = convertidos \cup (IF p.antes.conv = "abriendo" THEN {fondo.ruta} ELSE {})
         /\ fallida' = IF recargar THEN n = Wp!Ninguno ELSE fallida
  BY DEF Wp!Cuadro
<1>3. /\ vivos' = (vivos \cup Wp!Suyos(p.antes) \cup Wp!Suyos(n)) \ (p.mata \cup MatanA(Idos(p, n)))
      /\ sueltos' = sueltos \cup p.suelta \cup SueltanA(Idos(p, n))
  BY <1>2 DEF MatanA, SueltanA, Idos
<1>4. PasoBien(p) /\ CargaBien(n)
  BY <1>1, AvancesBien, CargasBien
<1>5. Wp!SinHuerfanos' /\ vivos' \subseteq 1..MaxProcesos
  BY <1>1, <1>2, <1>3, <1>4, ProcesosBien
<1>6. /\ recargar' = FALSE /\ pinta' = FALSE /\ encendida
      /\ UNCHANGED <<eleccion, tema, cargas, reducidos, encendida, tapado, activa>>
  BY DEF Wp!Cuadro
<1>7. EsFondo(p.queda) /\ EsFondo(n) /\ EsFondo(saliente) /\ EsFondo(Wp!Ninguno)
  BY <1>1, <1>4, NingunoBien DEF PasoBien, CargaBien, TiposFondo
<1>8. EsFondo(fondo') /\ EsFondo(saliente') /\ tick' \in BOOLEAN /\ vencido' \in BOOLEAN
  BY <1>1, <1>2, <1>7 DEF Wp!Poner, Wp!HayPlazo, TiposFondo
<1>9. fallida' \in BOOLEAN /\ convertidos' \subseteq DOMAIN Clase
  BY <1>1, <1>2, <1>4 DEF PasoBien, TiposFondo
<1>10. TiposFondo'
  BY <1>1, <1>5, <1>6, <1>8, <1>9 DEF TiposFondo, EsFondo
<1>11. Wp!NuncaCongelado'
  <2>1. CASE n = Wp!Ninguno
    BY <1>1, <1>2, <1>6, <2>1 DEF Wp!Poner, Wp!NuncaCongelado, Wp!Visible, Wp!HayPlazo, TiposFondo
  <2>2. CASE n # Wp!Ninguno
    BY <1>1, <1>2, <1>6, <2>2 DEF Wp!Poner, Wp!NuncaCongelado, Wp!Visible, Wp!HayPlazo, TiposFondo
  <2>. QED BY <2>1, <2>2
<1>12. Wp!DeLoElegido'
  <2>0. Wp!ParaElTema(eleccion, tema)' = Wp!ParaElTema(eleccion, tema)
    BY <1>6 DEF Wp!ParaElTema, Wp!Propio, Wp!Buscar
  <2>1. CASE n = Wp!Ninguno
    <3>1. fondo' = p.queda /\ p.queda.ruta = fondo.ruta
      BY <1>2, <1>4, <2>1 DEF Wp!Poner, PasoBien
    <3>2. ~fallida' => ~recargar /\ ~fallida
      BY <1>2, <2>1
    <3>. QED BY <2>0, <3>1, <3>2 DEF Wp!DeLoElegido, FondoInv
  <2>2. CASE n # Wp!Ninguno
    <3>1. fondo' = n /\ n.ruta = Wp!ParaElTema(eleccion, tema)
      BY <1>2, <1>4, <2>2 DEF Wp!Poner, CargaBien
    <3>. QED BY <2>0, <3>1 DEF Wp!DeLoElegido
  <2>. QED BY <2>1, <2>2
<1>. QED BY <1>5, <1>10, <1>11, <1>12 DEF FondoInv

(***************************************************************************)
(* The conversions and the threads.                                        *)
(***************************************************************************)
\* A conversion, or the thread after it, that ends with nothing to show.
LEMMA SinOtro ==
  ASSUME NEW f, EsFondo(f), f.conv \in ConOtro, NEW c \in {"bien", "mal", "nada"},
         NEW g, g = [f EXCEPT !.conv = c, !.otro = 0]
  PROVE  EsFondo(g) /\ g.ruta = f.ruta /\ g.anim = f.anim /\ Wp!Suyos(g) = Wp!Suyos(f) \ {f.otro}
<1>1. f \in Wp!Fondos /\ f.otro \in 0..MaxProcesos /\ f.proceso \in 0..MaxProcesos /\ 0 \in 0..MaxProcesos
  BY FondoAssumption DEF EsFondo, Wp!Fondos
<1>2. f.proceso # 0 /\ f.otro # 0 /\ f.proceso # f.otro
  BY DEF EsFondo, ConOtro
<1>3. c \in Conversiones /\ c \notin ConOtro
  BY DEF Conversiones, ConOtro
<1>4. g = ConConv(f, c, 0)
  BY <1>1, <1>3, ConElOtro
<1>5. EsFondo(g) /\ g.ruta = f.ruta /\ g.anim = f.anim /\ Wp!Suyos(g) = {f.proceso} \cup ({0} \ {0})
  BY <1>1, <1>2, <1>3, <1>4, ConBien
<1>. QED BY <1>2, <1>5 DEF Wp!Suyos

\* The thread gives the converted video.
LEMMA ConOtroYa ==
  ASSUME NEW f, EsFondo(f), f.conv = "abriendo", NEW g, g = [f EXCEPT !.conv = "abierto"]
  PROVE  EsFondo(g) /\ g.ruta = f.ruta /\ g.anim = f.anim /\ Wp!Suyos(g) = Wp!Suyos(f)
<1>1. f \in Wp!Fondos /\ f.otro \in 0..MaxProcesos
  BY DEF EsFondo, Wp!Fondos
<1>2. f.proceso # 0 /\ f.otro # 0 /\ f.proceso # f.otro
  BY DEF EsFondo, ConOtro
<1>3. "abierto" \in Conversiones /\ "abierto" \in ConOtro
  BY DEF Conversiones, ConOtro
<1>4. g = ConConv(f, "abierto", f.otro)
  BY <1>1, <1>3, ConElOtro
<1>5. EsFondo(g) /\ g.ruta = f.ruta /\ g.anim = f.anim /\ Wp!Suyos(g) = {f.proceso} \cup ({f.otro} \ {0})
  BY <1>1, <1>2, <1>3, <1>4, ConBien
<1>. QED BY <1>2, <1>5 DEF Wp!Suyos

\* A process that ends is nobody's, and nothing else changes.
LEMMA AcabaBien ==
  ASSUME FondoInv, UNCHANGED <<Wp!pedido, Wp!pantalla, tick, vencido, pinta, reducidos>>,
         EsFondo(fondo)', EsFondo(saliente)', convertidos' = convertidos,
         fondo'.ruta = fondo.ruta, fondo'.anim = fondo.anim,
         NEW p, vivos' = vivos \ p, sueltos' \subseteq sueltos,
         Wp!Suyos(fondo)' = Wp!Suyos(fondo) \ p, Wp!Suyos(saliente)' = Wp!Suyos(saliente) \ p, sueltos' = sueltos \ p
  PROVE  FondoInv'
<1>1. UNCHANGED <<eleccion, tema, recargar, cargas, fallida, encendida, tapado, activa, tick, vencido, pinta,
        reducidos>>
  BY DEF Wp!pedido, Wp!pantalla
<1>2. TiposFondo'
  BY <1>1 DEF FondoInv, TiposFondo, EsFondo
<1>3. Wp!NuncaCongelado'
  BY <1>1 DEF FondoInv, Wp!NuncaCongelado, Wp!Visible, Wp!HayPlazo
<1>4. Wp!DeLoElegido'
  <2>1. Wp!ParaElTema(eleccion, tema)' = Wp!ParaElTema(eleccion, tema)
    BY <1>1 DEF Wp!ParaElTema, Wp!Propio, Wp!Buscar
  <2>. QED BY <1>1, <2>1 DEF FondoInv, Wp!DeLoElegido
<1>5. Wp!SinHuerfanos'
  <2>1. Wp!SinHuerfanos
    BY DEF FondoInv
  <2>. QED BY <2>1 DEF Wp!SinHuerfanos
<1>. QED BY <1>2, <1>3, <1>4, <1>5 DEF FondoInv

\* The process of one wallpaper is not of the other.
LEMMA DeOtros ==
  ASSUME FondoInv
  PROVE  /\ fondo.conv \in ConOtro => Wp!Suyos(saliente) \ {fondo.otro} = Wp!Suyos(saliente) /\ sueltos \ {fondo.otro} = sueltos
         /\ saliente.conv \in ConOtro => Wp!Suyos(fondo) \ {saliente.otro} = Wp!Suyos(fondo) /\ sueltos \ {saliente.otro} = sueltos
<1>1. EsFondo(fondo) /\ EsFondo(saliente)
  BY DEF FondoInv, TiposFondo
<1>2. \A f : EsFondo(f) /\ f.conv \in ConOtro => f.otro \in Wp!Suyos(f)
  BY DEF EsFondo, Wp!Suyos
<1>. QED BY <1>1, <1>2 DEF FondoInv, Wp!SinHuerfanos

\* A conversion ends.
LEMMA ConvierteYaBien == ASSUME FondoInv, Wp!ConvierteYa PROVE FondoInv'
<1>1. EsFondo(fondo) /\ EsFondo(saliente)
  BY DEF FondoInv, TiposFondo
<1>2. PICK a \in {"bien", "mal"} :
        \/ /\ fondo.conv = "convirtiendo" /\ fondo' = [fondo EXCEPT !.conv = a, !.otro = 0]
           /\ vivos' = vivos \ {fondo.otro} /\ UNCHANGED saliente
        \/ /\ saliente.conv = "convirtiendo" /\ saliente' = [saliente EXCEPT !.conv = a, !.otro = 0]
           /\ vivos' = vivos \ {saliente.otro} /\ UNCHANGED fondo
  BY DEF Wp!ConvierteYa, Wp!Convertido
<1>3. UNCHANGED <<Wp!pedido, Wp!pantalla, tick, vencido, pinta, reducidos, sueltos, convertidos>>
        /\ "convirtiendo" \in ConOtro
  BY DEF Wp!ConvierteYa, ConOtro
<1>4. CASE /\ fondo.conv = "convirtiendo" /\ fondo' = [fondo EXCEPT !.conv = a, !.otro = 0]
           /\ vivos' = vivos \ {fondo.otro} /\ UNCHANGED saliente
  <2>1. EsFondo(fondo') /\ fondo'.ruta = fondo.ruta /\ fondo'.anim = fondo.anim
          /\ Wp!Suyos(fondo') = Wp!Suyos(fondo) \ {fondo.otro}
    BY <1>1, <1>3, <1>4, SinOtro
  <2>2. Wp!Suyos(saliente) \ {fondo.otro} = Wp!Suyos(saliente) /\ sueltos \ {fondo.otro} = sueltos
    BY <1>3, <1>4, DeOtros
  <2>3. EsFondo(fondo)' /\ EsFondo(saliente)' /\ Wp!Suyos(fondo)' = Wp!Suyos(fondo) \ {fondo.otro}
          /\ Wp!Suyos(saliente)' = Wp!Suyos(saliente)
    BY <1>1, <1>4, <2>1 DEF EsFondo, Wp!Suyos
  <2>. QED BY <1>3, <1>4, <2>1, <2>2, <2>3, AcabaBien
<1>5. CASE /\ saliente.conv = "convirtiendo" /\ saliente' = [saliente EXCEPT !.conv = a, !.otro = 0]
           /\ vivos' = vivos \ {saliente.otro} /\ UNCHANGED fondo
  <2>1. EsFondo(saliente') /\ Wp!Suyos(saliente') = Wp!Suyos(saliente) \ {saliente.otro}
    BY <1>1, <1>3, <1>5, SinOtro
  <2>2. Wp!Suyos(fondo) \ {saliente.otro} = Wp!Suyos(fondo) /\ sueltos \ {saliente.otro} = sueltos
    BY <1>3, <1>5, DeOtros
  <2>3. EsFondo(fondo)' /\ EsFondo(saliente)' /\ Wp!Suyos(saliente)' = Wp!Suyos(saliente) \ {saliente.otro} /\ Wp!Suyos(fondo)' = Wp!Suyos(fondo)
    BY <1>1, <1>5, <2>1 DEF EsFondo, Wp!Suyos
  <2>. QED BY <1>3, <1>5, <2>2, <2>3, AcabaBien
<1>. QED BY <1>2, <1>4, <1>5

\* A thread ends.
LEMMA AbreBien == ASSUME FondoInv, Wp!Abre PROVE FondoInv'
<1>1. EsFondo(fondo) /\ EsFondo(saliente)
  BY DEF FondoInv, TiposFondo
<1>2. /\ UNCHANGED <<Wp!pedido, Wp!pantalla, tick, vencido, pinta, reducidos, convertidos>>
        /\ "abriendo" \in ConOtro
      /\ "nada" \in {"bien", "mal", "nada"}
  BY DEF Wp!Abre, ConOtro
<1>3. vivos \ {} = vivos /\ sueltos \ {} = sueltos /\ Wp!Suyos(fondo) \ {} = Wp!Suyos(fondo)
        /\ Wp!Suyos(saliente) \ {} = Wp!Suyos(saliente)
  OBVIOUS
<1>4. CASE fondo.conv = "abriendo" /\ fondo' = [fondo EXCEPT !.conv = "abierto"]
        /\ UNCHANGED <<vivos, saliente, sueltos>>
  <2>1. EsFondo(fondo') /\ fondo'.ruta = fondo.ruta /\ fondo'.anim = fondo.anim
          /\ Wp!Suyos(fondo') = Wp!Suyos(fondo)
    BY <1>1, <1>4, ConOtroYa
  <2>2. EsFondo(fondo)' /\ EsFondo(saliente)' /\ Wp!Suyos(fondo)' = Wp!Suyos(fondo)
          /\ Wp!Suyos(saliente)' = Wp!Suyos(saliente)
    BY <1>1, <1>4, <2>1 DEF EsFondo, Wp!Suyos
  <2>. QED BY <1>2, <1>3, <1>4, <2>1, <2>2, AcabaBien
<1>5. CASE /\ fondo.conv = "abriendo" /\ fondo' = [fondo EXCEPT !.conv = "nada", !.otro = 0]
           /\ vivos' = vivos \ {fondo.otro} /\ UNCHANGED <<saliente, sueltos>>
  <2>1. EsFondo(fondo') /\ fondo'.ruta = fondo.ruta /\ fondo'.anim = fondo.anim
          /\ Wp!Suyos(fondo') = Wp!Suyos(fondo) \ {fondo.otro}
    BY <1>1, <1>2, <1>5, SinOtro
  <2>2. Wp!Suyos(saliente) \ {fondo.otro} = Wp!Suyos(saliente) /\ sueltos \ {fondo.otro} = sueltos
    BY <1>2, <1>5, DeOtros
  <2>3. EsFondo(fondo)' /\ EsFondo(saliente)' /\ Wp!Suyos(fondo)' = Wp!Suyos(fondo) \ {fondo.otro}
          /\ Wp!Suyos(saliente)' = Wp!Suyos(saliente)
    BY <1>1, <1>5, <2>1 DEF EsFondo, Wp!Suyos
  <2>. QED BY <1>2, <1>5, <2>1, <2>2, <2>3, AcabaBien
<1>6. CASE saliente.conv = "abriendo" /\ saliente' = [saliente EXCEPT !.conv = "abierto"]
        /\ UNCHANGED <<vivos, fondo, sueltos>>
  <2>1. EsFondo(saliente') /\ Wp!Suyos(saliente') = Wp!Suyos(saliente)
    BY <1>1, <1>6, ConOtroYa
  <2>2. EsFondo(fondo)' /\ EsFondo(saliente)' /\ Wp!Suyos(fondo)' = Wp!Suyos(fondo)
          /\ Wp!Suyos(saliente)' = Wp!Suyos(saliente)
    BY <1>1, <1>6, <2>1 DEF EsFondo, Wp!Suyos
  <2>. QED BY <1>2, <1>3, <1>6, <2>2, AcabaBien
<1>7. CASE /\ saliente.conv = "abriendo" /\ saliente' = [saliente EXCEPT !.conv = "nada", !.otro = 0]
           /\ vivos' = vivos \ {saliente.otro} /\ UNCHANGED <<fondo, sueltos>>
  <2>1. EsFondo(saliente') /\ Wp!Suyos(saliente') = Wp!Suyos(saliente) \ {saliente.otro}
    BY <1>1, <1>2, <1>7, SinOtro
  <2>2. Wp!Suyos(fondo) \ {saliente.otro} = Wp!Suyos(fondo) /\ sueltos \ {saliente.otro} = sueltos
    BY <1>2, <1>7, DeOtros
  <2>3. EsFondo(fondo)' /\ EsFondo(saliente)' /\ Wp!Suyos(saliente)' = Wp!Suyos(saliente) \ {saliente.otro} /\ Wp!Suyos(fondo)' = Wp!Suyos(fondo)
    BY <1>1, <1>7, <2>1 DEF EsFondo, Wp!Suyos
  <2>. QED BY <1>2, <1>7, <2>2, <2>3, AcabaBien
<1>8. ASSUME NEW p \in sueltos, sueltos' = sueltos \ {p}, vivos' = vivos \ {p}, UNCHANGED <<fondo,
        saliente>> PROVE FondoInv'
  <2>1. Wp!Suyos(fondo) \ {p} = Wp!Suyos(fondo) /\ Wp!Suyos(saliente) \ {p} = Wp!Suyos(saliente)
    BY DEF FondoInv, Wp!SinHuerfanos
  <2>2. EsFondo(fondo)' /\ EsFondo(saliente)' /\ Wp!Suyos(saliente)' = Wp!Suyos(saliente)
          /\ Wp!Suyos(fondo)' = Wp!Suyos(fondo)
    BY <1>1, <1>8 DEF EsFondo, Wp!Suyos
  <2>. QED BY <1>2, <1>8, <2>1, <2>2, AcabaBien
<1>. QED BY <1>4, <1>5, <1>6, <1>7, <1>8 DEF Wp!Abre, Wp!Abierto

(***************************************************************************)
(* Everything else leaves the processes alone.                             *)
(***************************************************************************)
\* A step that leaves the wallpapers and their processes as they were.
LEMMA ConLosMismos ==
  ASSUME FondoInv, UNCHANGED Wp!procesos, eleccion' \in Elecciones, tema' \in Temas, cargas' \in 0..MaxCargas,
         recargar' \in BOOLEAN, fallida' \in BOOLEAN, tick' \in BOOLEAN, vencido' \in BOOLEAN, pinta' \in BOOLEAN,
         reducidos' \in BOOLEAN, encendida' \in BOOLEAN, tapado' \in BOOLEAN, activa' \in BOOLEAN,
         Wp!NuncaCongelado', Wp!DeLoElegido'
  PROVE  FondoInv'
<1>1. UNCHANGED <<fondo, saliente, vivos, sueltos, convertidos>>
  BY DEF Wp!procesos
<1>2. TiposFondo'
  BY <1>1 DEF FondoInv, TiposFondo, EsFondo
<1>3. Wp!SinHuerfanos'
  BY <1>1 DEF FondoInv, Wp!SinHuerfanos, Wp!Suyos
<1>. QED BY <1>2, <1>3 DEF FondoInv

\* The timer, the effects, the screens, a request to draw.
LEMMA RestoBien ==
  ASSUME FondoInv, \/ Wp!Temporizador \/ Wp!Vence \/ Wp!AlternarEfectos \/ Wp!EfectosDeBateria \/ Wp!Pantallas \/ Wp!Pintar
  PROVE  FondoInv'
<1>. USE DEF FondoInv, TiposFondo
<1>1. UNCHANGED <<eleccion, tema, recargar, cargas, fallida>> /\ UNCHANGED Wp!procesos
  BY DEF Wp!Temporizador, Wp!Vence, Wp!AlternarEfectos, Wp!EfectosDeBateria, Wp!Pantallas, Wp!Pintar, Wp!pedido
<1>2. fondo' = fondo
  BY <1>1 DEF Wp!procesos
<1>3. Wp!DeLoElegido'
  <2>1. Wp!ParaElTema(eleccion, tema)' = Wp!ParaElTema(eleccion, tema)
    BY <1>1 DEF Wp!ParaElTema, Wp!Propio, Wp!Buscar
  <2>. QED BY <1>1, <1>2, <2>1 DEF Wp!DeLoElegido
<1>4. /\ eleccion' \in Elecciones /\ tema' \in Temas /\ cargas' \in 0..MaxCargas
      /\ recargar' \in BOOLEAN /\ fallida' \in BOOLEAN
  BY <1>1
<1>5. ASSUME tick' \in BOOLEAN, vencido' \in BOOLEAN, pinta' \in BOOLEAN,
             reducidos' \in BOOLEAN, encendida' \in BOOLEAN, tapado' \in BOOLEAN, activa' \in BOOLEAN, Wp!NuncaCongelado'
      PROVE  FondoInv'
  BY <1>1, <1>3, <1>4, <1>5, ConLosMismos
<1>. USE DEF Wp!NuncaCongelado, Wp!Visible, Wp!HayPlazo, Wp!pantalla
<1>6. CASE Wp!Temporizador
  BY <1>2, <1>5, <1>6 DEF Wp!Temporizador
<1>7. CASE Wp!Vence
  BY <1>2, <1>5, <1>7 DEF Wp!Vence
<1>8. CASE Wp!AlternarEfectos
  BY <1>2, <1>5, <1>8 DEF Wp!AlternarEfectos
<1>9. CASE Wp!EfectosDeBateria
  BY <1>2, <1>5, <1>9 DEF Wp!EfectosDeBateria
<1>10. CASE Wp!Pantallas
  <2>1. CASE Wp!Tapar
    BY <1>2, <1>5, <1>10, <2>1 DEF Wp!Pantallas, Wp!Tapar
  <2>2. CASE Wp!Apagar
    BY <1>2, <1>5, <1>10, <2>2 DEF Wp!Pantallas, Wp!Apagar
  <2>3. CASE Wp!Irse
    BY <1>2, <1>5, <1>10, <2>3 DEF Wp!Pantallas, Wp!Irse
  <2>. QED BY <1>10, <2>1, <2>2, <2>3 DEF Wp!Pantallas
<1>11. CASE Wp!Pintar
  BY <1>2, <1>5, <1>11 DEF Wp!Pintar
<1>. QED BY <1>6, <1>7, <1>8, <1>9, <1>10, <1>11

\* The bound of the choices.
LEMMA CargandoBien == ASSUME FondoInv, Wp!Cargando PROVE cargas' \in 0..MaxCargas
BY FondoAssumption DEF FondoInv, TiposFondo, Wp!Cargando

\* Another choice.
LEMMA ElegirBien == ASSUME FondoInv, Wp!Elegir PROVE FondoInv'
<1>1. cargas' \in 0..MaxCargas
  BY CargandoBien DEF Wp!Elegir
<1>2. eleccion' \in Elecciones /\ recargar' = TRUE /\ pinta' = TRUE
      /\ UNCHANGED <<tema, fallida, encendida, tapado, activa, tick, vencido, reducidos>> /\ UNCHANGED Wp!procesos
  BY DEF Wp!Elegir, Wp!pantalla
<1>3. Wp!NuncaCongelado' /\ Wp!DeLoElegido'
  BY <1>2 DEF Wp!NuncaCongelado, Wp!DeLoElegido
<1>. QED BY <1>1, <1>2, <1>3, ConLosMismos DEF FondoInv, TiposFondo

\* A reload of the settings.
LEMMA RecargarAjustesBien == ASSUME FondoInv, Wp!RecargarAjustes PROVE FondoInv'
<1>1. cargas' \in 0..MaxCargas
  BY CargandoBien DEF Wp!RecargarAjustes
<1>2. recargar' = TRUE /\ pinta' = TRUE /\ tick' \in BOOLEAN
      /\ UNCHANGED <<eleccion, tema, fallida, encendida, tapado, activa, vencido, reducidos>> /\ UNCHANGED Wp!procesos
  BY DEF Wp!RecargarAjustes, Wp!pantalla, Wp!HayPlazo, FondoInv, TiposFondo
<1>3. Wp!NuncaCongelado' /\ Wp!DeLoElegido'
  BY <1>2 DEF Wp!NuncaCongelado, Wp!DeLoElegido
<1>. QED BY <1>1, <1>2, <1>3, ConLosMismos DEF FondoInv, TiposFondo

\* A choice that does not depend on the theme is the same for both.
LEMMA CambiarTemaBien == ASSUME FondoInv, Wp!CambiarTema PROVE FondoInv'
<1>1. cargas' \in 0..MaxCargas
  BY CargandoBien DEF Wp!CambiarTema
<1>2. tema' \in Temas /\ recargar' = (recargar \/ Wp!DependeDelTema(eleccion)) /\ pinta' = TRUE
      /\ UNCHANGED <<eleccion, fallida, encendida, tapado, activa, tick, vencido, reducidos>> /\ UNCHANGED Wp!procesos
  BY DEF Wp!CambiarTema, Wp!pantalla, Temas
<1>3. recargar' \in BOOLEAN
  BY <1>2 DEF Wp!DependeDelTema, FondoInv, TiposFondo
<1>4. Wp!NuncaCongelado'
  BY <1>2 DEF Wp!NuncaCongelado
<1>5. Wp!DeLoElegido'
  <2>. SUFFICES ASSUME ~recargar', ~fallida' PROVE fondo'.ruta = Wp!ParaElTema(eleccion, tema)'
    BY DEF Wp!DeLoElegido
  <2>1. ~recargar /\ ~Wp!DependeDelTema(eleccion) /\ ~fallida
    BY <1>2
  <2>2. fondo'.ruta = Wp!ParaElTema(eleccion, tema)
    BY <1>2, <2>1 DEF FondoInv, Wp!DeLoElegido, Wp!procesos
  <2>3. Wp!ParaElTema(eleccion, tema)' = eleccion.ambos /\ Wp!ParaElTema(eleccion, tema) = eleccion.ambos
    BY <1>2, <2>1 DEF Wp!ParaElTema, Wp!Propio, Wp!DependeDelTema
  <2>. QED BY <2>2, <2>3
<1>. QED BY <1>1, <1>2, <1>3, <1>4, <1>5, ConLosMismos DEF FondoInv, TiposFondo

\* A step that changes nothing.
LEMMA FondoQuieto == ASSUME FondoInv, UNCHANGED Wp!vars PROVE FondoInv'
<1>1. UNCHANGED <<eleccion, tema, recargar, cargas, fallida, tick, vencido, pinta, reducidos, encendida,
        tapado, activa>>
      /\ UNCHANGED Wp!procesos /\ fondo' = fondo
  BY DEF Wp!vars, Wp!procesos
<1>2. Wp!NuncaCongelado'
  BY <1>1 DEF FondoInv, Wp!NuncaCongelado, Wp!Visible, Wp!HayPlazo
<1>3. Wp!DeLoElegido'
  <2>1. Wp!ParaElTema(eleccion, tema)' = Wp!ParaElTema(eleccion, tema)
    BY <1>1 DEF Wp!ParaElTema, Wp!Propio, Wp!Buscar
  <2>. QED BY <1>1, <2>1 DEF FondoInv, Wp!DeLoElegido
<1>. QED BY <1>1, <1>2, <1>3, ConLosMismos DEF FondoInv, TiposFondo

\* Every step of the wallpaper keeps the invariant.
LEMMA FondoPaso == ASSUME FondoInv, [Wp!Next]_(Wp!vars) PROVE FondoInv'
BY CuadroBien, ConvierteYaBien, AbreBien, RestoBien, ElegirBien, RecargarAjustesBien, CambiarTemaBien, FondoQuieto DEF Wp!Next

-----------------------------------------------------------------------------
(***************************************************************************)
(* What is published: one thread at a time, with a file of its own.        *)
(***************************************************************************)
PartesPub == {"panel", "fondo"}
ParteDe(i) == IF i = 1 THEN "panel" ELSE "fondo"
TipoHilo == [fase : {"elige", "escribe", "renombra"}, i : 1..3, ruta : Fotos, dato : {"nada"} \cup Ajustes \cup Fotos,
          nodo : Nat]
EsHilo(h) == h \in TipoHilo
EnObra(h) == h.i \in {1, 2} /\ h.fase \in {"escribe", "renombra"}
Contenido(i, r) == IF i = 1 THEN ajustes ELSE r

TiposPub ==
  /\ ajustes \in Ajustes /\ ruta \in Fotos /\ sinPublicar \in BOOLEAN
  /\ hilos \in Seq(TipoHilo) /\ Len(hilos) <= MaxHilos
  /\ \A n \in DOMAIN hilos : EsHilo(hilos[n]) /\ hilos[n].nodo <= Len(dentro)
  /\ dentro \in Seq({"medio"} \cup Ajustes \cup Fotos)
  /\ temporal \in [PartesPub -> 0..Len(dentro)] /\ puesto \in [PartesPub -> 0..Len(dentro)]
\* One thread at a time.
UnoSolo == /\ \A n, m \in DOMAIN hilos : hilos[n].i # 3 /\ hilos[m].i # 3 => n = m
           /\ \A n \in DOMAIN hilos : hilos[n].i = 3 => hilos[n].fase = "elige"
\* What is written beside is of the thread that runs, and of nobody else.
SoloSuyo ==
  /\ \A n \in DOMAIN hilos : EnObra(hilos[n]) =>
       /\ hilos[n].nodo = temporal[ParteDe(hilos[n].i)] /\ hilos[n].nodo # 0
       /\ hilos[n].dato = Contenido(hilos[n].i, hilos[n].ruta) /\ (hilos[n].i = 2 => hilos[n].ruta \in Valen)
       /\ hilos[n].fase = "renombra" => dentro[hilos[n].nodo] = hilos[n].dato
  /\ \A f \in PartesPub : temporal[f] # 0 => \E n \in DOMAIN hilos : EnObra(hilos[n]) /\ ParteDe(hilos[n].i) = f
  /\ \A f, g \in PartesPub : temporal[f] # 0 => temporal[f] # puesto[g]
  /\ \A f, g \in PartesPub : puesto[f] # 0 /\ puesto[f] = puesto[g] => f = g
\* What is in place.
Dado(f) == IF puesto[f] = 0 THEN "nada" ELSE dentro[puesto[f]]
Hecho ==
  /\ \A f \in PartesPub : Dado(f) # "medio"
  /\ ~sinPublicar => hilos # <<>> /\ \A n \in DOMAIN hilos : hilos[n].i # 3 => hilos[n].ruta = ruta
  /\ (hilos # <<>> /\ \A n \in DOMAIN hilos : hilos[n].i # 1) => Dado("panel") = ajustes
  /\ (~sinPublicar /\ \A n \in DOMAIN hilos : hilos[n].i = 3)
        => Dado("fondo") = IF ruta \in Valen THEN ruta ELSE "nada"
PublicacionInv == TiposPub /\ UnoSolo /\ SoloSuyo /\ Hecho

\* The invariant says what the property asks of the publications.
LEMMA PublicacionBasta == PublicacionInv => Pu!TypeOK /\ Pu!PublicacionEntera
<1>. SUFFICES ASSUME PublicacionInv PROVE Pu!TypeOK /\ Pu!PublicacionEntera
  OBVIOUS
<1>1. Destinos[1] = "panel" /\ Destinos[2] = "fondo" /\ Len(Destinos) = 2 /\ DOMAIN Destinos = 1..2
  BY PublicacionAssumption
<1>2. Pu!Nombres = PartesPub
  BY <1>1 DEF Pu!Nombres, PartesPub
<1>3. \A f : Pu!EnDisco(f) = Dado(f)
  BY DEF Pu!EnDisco, Dado
<1>4. Pu!TypeOK
  BY <1>1, <1>2 DEF Pu!TypeOK, PublicacionInv, TiposPub, TipoHilo, EsHilo
<1>5. Pu!NuncaMedio
  BY <1>2, <1>3 DEF Pu!NuncaMedio, PublicacionInv, Hecho
<1>6. \A n \in DOMAIN hilos : Pu!Acabado(hilos[n]) <=> hilos[n].i = 3
  <2>1. \A n \in DOMAIN hilos : hilos[n].i \in 1..3
    BY DEF PublicacionInv, TiposPub, TipoHilo, EsHilo
  <2>. QED BY <1>1, <2>1 DEF Pu!Acabado
<1>7. Pu!Publicado
  <2>. SUFFICES ASSUME ~sinPublicar, \A n \in DOMAIN hilos : Pu!Acabado(hilos[n])
                PROVE Pu!EnDisco("panel") = ajustes /\ Pu!EnDisco("fondo") = IF ruta \in Valen THEN ruta ELSE "nada"
    BY DEF Pu!Publicado
  <2>. QED BY <1>3, <1>6 DEF PublicacionInv, Hecho
<1>. QED BY <1>4, <1>5, <1>7 DEF Pu!PublicacionEntera

\* Nothing is published at the start.
LEMMA PublicacionInicial == Pu!Init => PublicacionInv
<1>. SUFFICES ASSUME Pu!Init PROVE PublicacionInv
  OBVIOUS
<1>1. {Destinos[i] : i \in DOMAIN Destinos} = PartesPub
  <2>1. DOMAIN Destinos = {1, 2} /\ Destinos[1] = "panel" /\ Destinos[2] = "fondo"
    BY PublicacionAssumption
  <2>. QED BY <2>1 DEF PartesPub
<1>2. DOMAIN hilos = {} /\ Len(dentro) = 0
  BY DEF Pu!Init
<1>3. temporal = [f \in PartesPub |-> 0] /\ puesto = [f \in PartesPub |-> 0]
  BY <1>1 DEF Pu!Init
<1>4. TiposPub
  BY <1>2, <1>3, PublicacionAssumption DEF Pu!Init, TiposPub
<1>. QED BY <1>2, <1>3, <1>4, PublicacionAssumption DEF Pu!Init, PublicacionInv, UnoSolo, SoloSuyo, Hecho,
        Dado, PartesPub

\* The number of the file a thread is at.
LEMMA Sitios ==
  ASSUME NEW h, EsHilo(h)
  PROVE  /\ Pu!Acabado(h) <=> h.i = 3
         /\ ~Pu!Acabado(h) => h.i \in {1, 2} /\ Pu!Fichero(h) = ParteDe(h.i) /\ ParteDe(h.i) \in PartesPub
         /\ Pu!Siguiente(h).i = h.i + 1 /\ Pu!Siguiente(h).fase = "elige"
         /\ Pu!Siguiente(h).ruta = h.ruta /\ Pu!Siguiente(h).nodo = h.nodo
         /\ h.i # 3 => EsHilo(Pu!Siguiente(h))
<1>1. Destinos[1] = "panel" /\ Destinos[2] = "fondo" /\ Len(Destinos) = 2
  BY PublicacionAssumption
<1>2. h.i \in 1..3
  BY DEF TipoHilo, TipoHilo, EsHilo
<1>3. Pu!Acabado(h) <=> h.i = 3
  BY <1>1, <1>2 DEF Pu!Acabado
<1>4. ~Pu!Acabado(h) => h.i \in {1, 2} /\ Pu!Fichero(h) = ParteDe(h.i) /\ ParteDe(h.i) \in PartesPub
  BY <1>1, <1>2, <1>3 DEF Pu!Fichero, ParteDe, PartesPub
<1>5. /\ Pu!Siguiente(h).i = h.i + 1 /\ Pu!Siguiente(h).fase = "elige"
      /\ Pu!Siguiente(h).ruta = h.ruta /\ Pu!Siguiente(h).nodo = h.nodo /\ Pu!Siguiente(h).dato = h.dato
  BY DEF TipoHilo, TipoHilo, EsHilo, Pu!Siguiente
<1>6. h.i # 3 => EsHilo(Pu!Siguiente(h))
  <2>1. h.i # 3 => h.i + 1 \in 1..3
    BY <1>2
  <2>. QED BY <1>5, <2>1 DEF TipoHilo, TipoHilo, EsHilo, Pu!Siguiente
<1>. QED BY <1>3, <1>4, <1>5, <1>6

\* A publication starts when the others are over.
LEMMA PublicarBien == ASSUME PublicacionInv, Solapan = FALSE, Pu!Publicar PROVE PublicacionInv'
<1>1. PICK a \in Ajustes, r \in Fotos : ajustes' = a /\ ruta' = r /\ hilos' = Append(hilos, Pu!Hilo(r))
  BY DEF Pu!Publicar
<1>2. /\ sinPublicar' = FALSE /\ temporal' = temporal /\ puesto' = puesto /\ dentro' = dentro
      /\ Len(hilos) < MaxHilos
  BY DEF Pu!Publicar
<1>3. \A n \in DOMAIN hilos : hilos[n].i = 3
  BY Sitios DEF Pu!Publicar, PublicacionInv, TiposPub
<1>4. EsHilo(Pu!Hilo(r)) /\ Pu!Hilo(r).i = 1 /\ Pu!Hilo(r).fase = "elige" /\ Pu!Hilo(r).nodo = 0
        /\ Pu!Hilo(r).ruta = r
  BY DEF TipoHilo, EsHilo, TipoHilo, Pu!Hilo
<1>5. /\ Len(hilos') = Len(hilos) + 1 /\ Len(hilos) \in Nat /\ DOMAIN hilos = 1..Len(hilos)
      /\ DOMAIN hilos' = 1..(Len(hilos) + 1) /\ hilos'[Len(hilos) + 1] = Pu!Hilo(r)
      /\ \A n \in DOMAIN hilos : hilos'[n] = hilos[n]
  BY <1>1 DEF PublicacionInv, TiposPub
<1>6. Len(dentro) \in Nat
  BY DEF PublicacionInv, TiposPub
<1>7. hilos' \in Seq(TipoHilo)
  BY <1>1, <1>4 DEF PublicacionInv, TiposPub, EsHilo
<1>8. TiposPub'
  <2>1. Len(hilos') <= MaxHilos
    BY <1>2, <1>5, PublicacionAssumption
  <2>2. \A n \in DOMAIN hilos' : EsHilo(hilos'[n]) /\ hilos'[n].nodo <= Len(dentro)
    BY <1>4, <1>5, <1>6 DEF PublicacionInv, TiposPub
  <2>. QED BY <1>1, <1>2, <1>7, <2>1, <2>2 DEF PublicacionInv, TiposPub
<1>9. UnoSolo'
  BY <1>3, <1>4, <1>5 DEF UnoSolo, PublicacionInv
<1>10. SoloSuyo'
  BY <1>2, <1>3, <1>4, <1>5 DEF SoloSuyo, PublicacionInv, EnObra
<1>11. Hecho'
  <2>1. hilos' # <<>>
    BY <1>5
  <2>. QED BY <1>1, <1>2, <1>3, <1>4, <1>5, <2>1 DEF Hecho, PublicacionInv, Dado
<1>. QED BY <1>8, <1>9, <1>10, <1>11 DEF PublicacionInv

\* Choosing on the card publishes nothing.
LEMMA ElegirPubBien == ASSUME PublicacionInv, Pu!Elegir PROVE PublicacionInv'
BY DEF Pu!Elegir, PublicacionInv, TiposPub, UnoSolo, SoloSuyo, Hecho, Dado, Contenido

\* What a step of the thread n leaves of the threads.
LEMMA HiloCambiado ==
  ASSUME TiposPub, NEW n \in DOMAIN hilos, NEW h, EsHilo(h), hilos' = [hilos EXCEPT ![n] = h]
  PROVE  /\ DOMAIN hilos' = DOMAIN hilos /\ Len(hilos') = Len(hilos) /\ hilos'[n] = h
         /\ \A m \in DOMAIN hilos : m # n => hilos'[m] = hilos[m]
         /\ hilos' # <<>> /\ hilos # <<>>
         /\ hilos' \in Seq(TipoHilo)
<1>1. hilos \in Seq(TipoHilo)
  BY DEF TiposPub
<1>2. DOMAIN hilos = 1..Len(hilos) /\ Len(hilos) \in Nat
  BY <1>1
<1>. QED BY <1>1, <1>2 DEF EsHilo

\* A thread that starts to write.
EnMano(h, dato, x) == [h EXCEPT !.fase = "escribe", !.dato = dato, !.nodo = x + 1]
\* What a thread that starts to write becomes.
LEMMA HiloEscrito ==
  ASSUME NEW h, EsHilo(h), NEW dato, dato \in Ajustes \cup Fotos, NEW x, x \in Nat
  PROVE  /\ EsHilo(EnMano(h, dato, x)) /\ EnMano(h, dato, x).fase = "escribe" /\ EnMano(h, dato, x).dato = dato
         /\ EnMano(h, dato, x).nodo = x + 1 /\ EnMano(h, dato, x).i = h.i /\ EnMano(h, dato, x).ruta = h.ruta
<1>1. x + 1 \in Nat
  OBVIOUS
<1>2. h.i \in 1..3 /\ h.ruta \in Fotos
  BY DEF EsHilo, TipoHilo
<1>3. EnMano(h, dato, x) = [fase |-> "escribe", i |-> h.i, ruta |-> h.ruta, dato |-> dato, nodo |-> x + 1]
  <2>1. h = [fase |-> h.fase, i |-> h.i, ruta |-> h.ruta, dato |-> h.dato, nodo |-> h.nodo]
    BY DEF EsHilo, TipoHilo
  <2>2. EnMano(h, dato, x) = [[fase |-> h.fase, i |-> h.i, ruta |-> h.ruta, dato |-> h.dato, nodo |-> h.nodo]
                                EXCEPT !.fase = "escribe", !.dato = dato, !.nodo = x + 1]
    BY <2>1 DEF EnMano
  <2>. QED BY <2>2
<1>. QED BY <1>1, <1>2, <1>3 DEF EsHilo, TipoHilo

\* Starting a file: it is written beside, in a file of its own.
LEMMA EmpiezaBien ==
  ASSUME PublicacionInv, NEW n \in DOMAIN hilos, hilos[n].i \in {1, 2}, hilos[n].fase = "elige",
         NEW dato, dato = Contenido(hilos[n].i, hilos[n].ruta), hilos[n].i = 2 => hilos[n].ruta \in Valen,
         Pu!Empieza(n, dato), UNCHANGED <<ajustes, ruta, sinPublicar>>
  PROVE  PublicacionInv'
<1>. DEFINE h == hilos[n]
            e == EnMano(h, dato, Len(dentro))
<1>1. TiposPub /\ EsHilo(h) /\ ~Pu!Acabado(h) /\ Pu!Fichero(h) = ParteDe(h.i)
        /\ ParteDe(h.i) \in PartesPub /\ Len(dentro) \in Nat
  BY Sitios DEF PublicacionInv, TiposPub
<1>2. \A f \in PartesPub : temporal[f] = 0
  BY DEF PublicacionInv, UnoSolo, SoloSuyo, EnObra
<1>3. /\ hilos' = [hilos EXCEPT ![n] = e] /\ temporal' = [temporal EXCEPT ![ParteDe(h.i)] = Len(dentro) + 1]
      /\ dentro' = Append(dentro, "medio") /\ puesto' = puesto
  <2>1. temporal[Pu!Fichero(hilos[n])] = 0 /\ Len(dentro) + 1 > Len(dentro)
    BY <1>1, <1>2
  <2>. QED BY <1>1, <2>1 DEF Pu!Empieza, EnMano
<1>4. dato \in Ajustes \cup Fotos
  BY <1>1 DEF Contenido, EsHilo, TipoHilo, PublicacionInv, TiposPub
<1>5. /\ EsHilo(e) /\ e.fase = "escribe" /\ e.dato = dato /\ e.nodo = Len(dentro) + 1
      /\ e.i = h.i /\ e.ruta = h.ruta
  BY <1>1, <1>4, HiloEscrito
<1>. HIDE DEF e
<1>6. /\ DOMAIN hilos' = DOMAIN hilos /\ Len(hilos') = Len(hilos) /\ hilos'[n] = e
      /\ \A m \in DOMAIN hilos : m # n => hilos'[m] = hilos[m]
      /\ hilos' # <<>> /\ hilos # <<>> /\ hilos' \in Seq(TipoHilo)
  BY <1>1, <1>3, <1>5, HiloCambiado
<1>7. /\ Len(dentro') = Len(dentro) + 1 /\ dentro' \in Seq({"medio"} \cup Ajustes \cup Fotos)
      /\ \A x \in 1..Len(dentro) : dentro'[x] = dentro[x]
  BY <1>1, <1>3 DEF TiposPub
<1>8. /\ \A f \in PartesPub : temporal'[f] = IF f = ParteDe(h.i) THEN Len(dentro) + 1 ELSE 0
      /\ temporal' \in [PartesPub -> 0..Len(dentro')]
      /\ puesto' \in [PartesPub -> 0..Len(dentro')]
  BY <1>1, <1>2, <1>3, <1>7 DEF TiposPub
<1>9. TiposPub'
  <2>1. \A m \in DOMAIN hilos' : EsHilo(hilos'[m]) /\ hilos'[m].nodo <= Len(dentro')
    <3>1. \A m \in DOMAIN hilos : EsHilo(hilos[m]) /\ hilos[m].nodo \in Nat /\ hilos[m].nodo <= Len(dentro)
      BY <1>1 DEF TiposPub, EsHilo, TipoHilo
    <3>. QED BY <1>1, <1>5, <1>6, <1>7, <3>1
  <2>. QED BY <1>1, <1>6, <1>7, <1>8, <2>1 DEF TiposPub
<1>10. UnoSolo'
  BY <1>5, <1>6 DEF PublicacionInv, UnoSolo
<1>11. \A m \in DOMAIN hilos : m # n => ~EnObra(hilos'[m])
  BY <1>6 DEF PublicacionInv, UnoSolo, EnObra
<1>12. SoloSuyo'
  <2>1. \A m \in DOMAIN hilos' : EnObra(hilos'[m]) => m = n
    BY <1>6, <1>11
  <2>2. EnObra(hilos'[n])
    BY <1>5, <1>6 DEF EnObra
  <2>3. \A f \in PartesPub : puesto'[f] \in 0..Len(dentro)
    BY <1>1, <1>3 DEF TiposPub
  <2>4. Contenido(h.i, h.ruta)' = Contenido(h.i, h.ruta)'
    OBVIOUS
  <2>5. \A m \in DOMAIN hilos' : EnObra(hilos'[m]) =>
       /\ hilos'[m].nodo = temporal'[ParteDe(hilos'[m].i)] /\ hilos'[m].nodo # 0
       /\ hilos'[m].dato = (IF hilos'[m].i = 1 THEN ajustes' ELSE hilos'[m].ruta) /\ (hilos'[m].i = 2 => hilos'[m].ruta \in Valen)
       /\ hilos'[m].fase = "renombra" => dentro'[hilos'[m].nodo] = hilos'[m].dato
    BY <1>1, <1>5, <1>6, <1>8, <2>1 DEF Contenido
  <2>6. \A f \in PartesPub : temporal'[f] # 0 => EnObra(hilos'[n]) /\ ParteDe(hilos'[n].i) = f
    BY <1>5, <1>6, <1>8, <2>2
  <2>7. \A f, g \in PartesPub : temporal'[f] # 0 => temporal'[f] # puesto'[g]
    BY <1>1, <1>8, <2>3
  <2>8. \A f, g \in PartesPub : puesto'[f] # 0 /\ puesto'[f] = puesto'[g] => f = g
    BY <1>3 DEF PublicacionInv, SoloSuyo
  <2>. QED BY <1>6, <2>5, <2>6, <2>7, <2>8 DEF SoloSuyo, Contenido
<1>13. Hecho'
  <2>1. \A f \in PartesPub : Dado(f)' = Dado(f)
    BY <1>1, <1>3, <1>7 DEF Dado, TiposPub
  <2>2. "panel" \in PartesPub /\ "fondo" \in PartesPub
    BY DEF PartesPub
  <2>. QED BY <1>5, <1>6, <2>1, <2>2 DEF PublicacionInv, Hecho
<1>. QED BY <1>9, <1>10, <1>12, <1>13 DEF PublicacionInv

\* What a file written long ago holds is the same: a step that only moves the threads.
LEMMA TiposDeHilos ==
  ASSUME PublicacionInv, NEW n \in DOMAIN hilos, NEW h, EsHilo(h), h.nodo <= Len(dentro),
          hilos' = [hilos EXCEPT ![n] = h],
         UNCHANGED <<ajustes, ruta, sinPublicar>>, dentro' \in Seq({"medio"} \cup Ajustes \cup Fotos),
         Len(dentro') = Len(dentro),
         temporal' \in [PartesPub -> 0..Len(dentro)], puesto' \in [PartesPub -> 0..Len(dentro)]
  PROVE  TiposPub'
<1>1. /\ DOMAIN hilos' = DOMAIN hilos /\ Len(hilos') = Len(hilos) /\ hilos'[n] = h
      /\ \A m \in DOMAIN hilos : m # n => hilos'[m] = hilos[m]
      /\ hilos' \in Seq(TipoHilo)
  BY HiloCambiado DEF PublicacionInv
<1>2. \A m \in DOMAIN hilos' : EsHilo(hilos'[m]) /\ hilos'[m].nodo <= Len(dentro')
  BY <1>1 DEF PublicacionInv, TiposPub
<1>. QED BY <1>1, <1>2 DEF PublicacionInv, TiposPub

\* The wallpaper is taken away or left as it is.
LEMMA SaltaBien ==
  ASSUME PublicacionInv, NEW n \in DOMAIN hilos, hilos[n].i = 2, hilos[n].fase = "elige",
         \/ hilos[n].ruta \notin Valen /\ Pu!Retira(n)
         \/ hilos[n].ruta \in Valen /\ Pu!AlDia(hilos[n].ruta) /\ Pu!YaEsta(n),
         UNCHANGED <<ajustes, ruta, sinPublicar>>
  PROVE  PublicacionInv'
<1>. DEFINE h == hilos[n]
            s == Pu!Siguiente(h)
<1>1. TiposPub /\ EsHilo(h) /\ Len(dentro) \in Nat /\ h.nodo <= Len(dentro)
  BY DEF PublicacionInv, TiposPub
<1>2. EsHilo(s) /\ s.i = 3 /\ s.fase = "elige" /\ s.ruta = h.ruta /\ s.nodo = h.nodo
  BY <1>1, Sitios
<1>3. hilos' = [hilos EXCEPT ![n] = s] /\ temporal' = temporal /\ dentro' = dentro
  BY DEF Pu!Retira, Pu!YaEsta
<1>. HIDE DEF s
<1>4. /\ DOMAIN hilos' = DOMAIN hilos /\ hilos'[n] = s
      /\ \A m \in DOMAIN hilos : m # n => hilos'[m] = hilos[m]
      /\ hilos' # <<>> /\ hilos # <<>>
  BY <1>1, <1>2, <1>3, HiloCambiado
<1>5. "panel" \in PartesPub /\ "fondo" \in PartesPub /\ "panel" # "fondo"
  BY DEF PartesPub
<1>6. /\ puesto' \in [PartesPub -> 0..Len(dentro)] /\ puesto'["panel"] = puesto["panel"]
      /\ \A f \in PartesPub : puesto'[f] \in {0, puesto[f]}
      /\ puesto'["fondo"] = IF h.ruta \in Valen THEN puesto["fondo"] ELSE 0
  BY <1>1, <1>5 DEF Pu!Retira, Pu!YaEsta, TiposPub
<1>7. TiposPub'
  BY <1>1, <1>2, <1>3, <1>6, TiposDeHilos DEF TiposPub
<1>8. UnoSolo'
  BY <1>2, <1>4 DEF PublicacionInv, UnoSolo
<1>9. \A m \in DOMAIN hilos : ~EnObra(hilos[m]) /\ ~EnObra(hilos'[m])
  BY <1>2, <1>4 DEF PublicacionInv, UnoSolo, EnObra
<1>10. SoloSuyo'
  BY <1>3, <1>4, <1>6, <1>9 DEF PublicacionInv, SoloSuyo
<1>11. Dado("fondo")' = IF h.ruta \in Valen THEN h.ruta ELSE "nada"
  <2>1. CASE h.ruta \notin Valen
    BY <1>6, <2>1 DEF Dado
  <2>2. CASE h.ruta \in Valen
    <3>1. Pu!EnDisco("fondo") \in Valen /\ Tam[Pu!EnDisco("fondo")] = Tam[h.ruta]
      BY <2>2 DEF Pu!AlDia
    <3>2. Pu!EnDisco("fondo") = h.ruta
      BY <2>2, <3>1, PublicacionAssumption
    <3>. QED BY <1>3, <1>6, <2>2, <3>2 DEF Dado, Pu!EnDisco
  <2>. QED BY <2>1, <2>2
<1>12. Hecho'
  <2>1. \A f \in PartesPub : Dado(f)' # "medio"
    BY <1>3, <1>6 DEF PublicacionInv, Hecho, Dado
  <2>2. Dado("panel")' = Dado("panel")
    BY <1>3, <1>6 DEF Dado
  <2>3. \A m \in DOMAIN hilos : m # n => hilos[m].i = 3
    BY DEF PublicacionInv, UnoSolo
  <2>4. Dado("panel") = ajustes
    <3>1. \A m \in DOMAIN hilos : hilos[m].i # 1
      BY <2>3
    <3>. QED BY <1>4, <3>1 DEF PublicacionInv, Hecho
  <2>5. ~sinPublicar => h.ruta = ruta
    BY DEF PublicacionInv, Hecho
  <2>. QED BY <1>2, <1>4, <1>11, <2>1, <2>2, <2>3, <2>4, <2>5 DEF Hecho
<1>. QED BY <1>7, <1>8, <1>10, <1>12 DEF PublicacionInv

\* A thread starts a file, or has nothing to do with it.
LEMMA CopiarBien == ASSUME PublicacionInv, NEW n \in DOMAIN hilos, Pu!Copiar(n) PROVE PublicacionInv'
<1>1. EsHilo(hilos[n]) /\ hilos[n].i \in 1..3
  BY DEF PublicacionInv, TiposPub, EsHilo, TipoHilo
<1>2. hilos[n].i \in {1, 2} /\ Pu!Fichero(hilos[n]) = ParteDe(hilos[n].i) /\ hilos[n].fase = "elige"
        /\ UNCHANGED <<ajustes, ruta, sinPublicar>>
  BY <1>1, Sitios DEF Pu!Copiar
<1>3. CASE hilos[n].i = 1
  <2>1. Pu!Empieza(n, ajustes)
    BY <1>2, <1>3 DEF Pu!Copiar, ParteDe
  <2>. QED BY <1>2, <1>3, <2>1, EmpiezaBien DEF Contenido
<1>4. CASE hilos[n].i = 2
  <2>1. Pu!Fichero(hilos[n]) # "panel"
    BY <1>2, <1>4 DEF ParteDe
  <2>2. CASE hilos[n].ruta \notin Valen
    <3>1. Pu!Retira(n)
      BY <2>1, <2>2 DEF Pu!Copiar
    <3>. QED BY <1>2, <1>4, <2>2, <3>1, SaltaBien
  <2>3. CASE hilos[n].ruta \in Valen /\ Pu!AlDia(hilos[n].ruta)
    <3>1. Pu!YaEsta(n)
      BY <2>1, <2>3 DEF Pu!Copiar
    <3>. QED BY <1>2, <1>4, <2>3, <3>1, SaltaBien
  <2>4. CASE hilos[n].ruta \in Valen /\ ~Pu!AlDia(hilos[n].ruta)
    <3>1. Pu!Empieza(n, hilos[n].ruta)
      BY <2>1, <2>4 DEF Pu!Copiar
    <3>2. hilos[n].ruta = Contenido(hilos[n].i, hilos[n].ruta)
      BY <1>4 DEF Contenido
    <3>. QED BY <1>2, <2>4, <3>1, <3>2, EmpiezaBien
  <2>. QED BY <2>2, <2>3, <2>4
<1>. QED BY <1>2, <1>3, <1>4

\* A thread writes what it has to write, in a file of its own.
LEMMA EscribirBien == ASSUME PublicacionInv, NEW n \in DOMAIN hilos, Pu!Escribir(n) PROVE PublicacionInv'
<1>. DEFINE h == hilos[n]
            e == [h EXCEPT !.fase = "renombra"]
<1>1. TiposPub /\ EsHilo(h) /\ Len(dentro) \in Nat /\ h.nodo <= Len(dentro) /\ h.fase = "escribe"
        /\ h.i \in 1..3
  BY DEF PublicacionInv, TiposPub, EsHilo, TipoHilo, Pu!Escribir
<1>2. h.i \in {1, 2} /\ EnObra(h)
  BY <1>1 DEF PublicacionInv, UnoSolo, EnObra
<1>3. /\ h.nodo = temporal[ParteDe(h.i)] /\ h.nodo # 0 /\ h.dato = Contenido(h.i, h.ruta)
      /\ h.i = 2 => h.ruta \in Valen
      /\ ParteDe(h.i) \in PartesPub
  BY <1>2 DEF PublicacionInv, SoloSuyo, ParteDe, PartesPub
<1>4. h.nodo \in 1..Len(dentro)
  BY <1>1, <1>3 DEF EsHilo, TipoHilo
<1>5. EsHilo(e) /\ e.fase = "renombra" /\ e.i = h.i /\ e.ruta = h.ruta /\ e.dato = h.dato /\ e.nodo = h.nodo
  BY <1>1 DEF EsHilo, TipoHilo
<1>6. /\ hilos' = [hilos EXCEPT ![n] = e] /\ dentro' = [dentro EXCEPT ![h.nodo] = h.dato]
      /\ UNCHANGED <<ajustes, ruta, sinPublicar, temporal, puesto>>
  BY DEF Pu!Escribir
<1>. HIDE DEF e
<1>7. /\ DOMAIN hilos' = DOMAIN hilos /\ hilos'[n] = e
      /\ \A m \in DOMAIN hilos : m # n => hilos'[m] = hilos[m]
      /\ hilos' # <<>> /\ hilos # <<>>
  BY <1>1, <1>5, <1>6, HiloCambiado
<1>8. h.dato \in Ajustes \cup Fotos
  BY <1>1, <1>3 DEF Contenido, EsHilo, TipoHilo, TiposPub
<1>9. /\ dentro' \in Seq({"medio"} \cup Ajustes \cup Fotos) /\ Len(dentro') = Len(dentro)
      /\ dentro'[h.nodo] = h.dato /\ \A x \in 1..Len(dentro) : x # h.nodo => dentro'[x] = dentro[x]
  BY <1>1, <1>4, <1>6, <1>8 DEF TiposPub
<1>10. TiposPub'
  BY <1>1, <1>5, <1>6, <1>9, TiposDeHilos DEF TiposPub
<1>11. UnoSolo'
  BY <1>1, <1>2, <1>5, <1>7 DEF PublicacionInv, UnoSolo
<1>12. \A m \in DOMAIN hilos : EnObra(hilos[m]) \/ EnObra(hilos'[m]) => m = n
  BY <1>2, <1>7 DEF PublicacionInv, UnoSolo, EnObra
<1>13. EnObra(e)
  BY <1>2, <1>5 DEF EnObra
<1>14. SoloSuyo'
  <2>1. \A m \in DOMAIN hilos' : EnObra(hilos'[m]) =>
       /\ hilos'[m].nodo = temporal[ParteDe(hilos'[m].i)] /\ hilos'[m].nodo # 0
       /\ hilos'[m].dato = Contenido(hilos'[m].i, hilos'[m].ruta) /\ (hilos'[m].i = 2 => hilos'[m].ruta \in Valen)
       /\ hilos'[m].fase = "renombra" => dentro'[hilos'[m].nodo] = hilos'[m].dato
    BY <1>3, <1>5, <1>7, <1>9, <1>12
  <2>2. \A f \in PartesPub : temporal[f] # 0 => EnObra(e) /\ ParteDe(e.i) = f
    <3>. SUFFICES ASSUME NEW f \in PartesPub, temporal[f] # 0 PROVE EnObra(e) /\ ParteDe(e.i) = f
      OBVIOUS
    <3>1. PICK m \in DOMAIN hilos : EnObra(hilos[m]) /\ ParteDe(hilos[m].i) = f
      BY DEF PublicacionInv, SoloSuyo
    <3>. QED BY <1>5, <1>12, <1>13, <3>1
  <2>3. \A i, r : Contenido(i, r)' = Contenido(i', r')
    BY <1>6 DEF Contenido
  <2>. QED BY <1>6, <1>7, <2>1, <2>2 DEF PublicacionInv, SoloSuyo, Contenido
<1>15. \A f \in PartesPub : Dado(f)' = Dado(f)
  <2>1. \A f \in PartesPub : puesto[f] # 0 => puesto[f] # h.nodo /\ puesto[f] \in 1..Len(dentro)
    BY <1>1, <1>3 DEF PublicacionInv, SoloSuyo, TiposPub
  <2>. QED BY <1>6, <1>9, <2>1 DEF Dado
<1>16. Hecho'
  <2>1. "panel" \in PartesPub /\ "fondo" \in PartesPub
    BY DEF PartesPub
  <2>. QED BY <1>5, <1>6, <1>7, <1>15, <2>1 DEF PublicacionInv, Hecho
<1>. QED BY <1>10, <1>11, <1>14, <1>16 DEF PublicacionInv

\* What was written is put in its place whole.
LEMMA RenombrarBien == ASSUME PublicacionInv, NEW n \in DOMAIN hilos, Pu!Renombrar(n) PROVE PublicacionInv'
<1>. DEFINE h == hilos[n]
            s == Pu!Siguiente(h)
<1>1. TiposPub /\ EsHilo(h) /\ Len(dentro) \in Nat /\ h.nodo <= Len(dentro) /\ h.fase = "renombra"
        /\ h.i \in 1..3
  BY DEF PublicacionInv, TiposPub, EsHilo, TipoHilo, Pu!Renombrar
<1>2. h.i \in {1, 2} /\ EnObra(h)
  BY <1>1 DEF PublicacionInv, UnoSolo, EnObra
<1>3. /\ h.nodo = temporal[ParteDe(h.i)] /\ h.nodo # 0 /\ h.dato = Contenido(h.i, h.ruta)
      /\ h.i = 2 => h.ruta \in Valen
      /\ dentro[h.nodo] = h.dato /\ ParteDe(h.i) \in PartesPub
  BY <1>1, <1>2 DEF PublicacionInv, SoloSuyo, ParteDe, PartesPub
<1>4. ~Pu!Acabado(h) /\ Pu!Fichero(h) = ParteDe(h.i) /\ EsHilo(s) /\ s.i = h.i + 1 /\ s.fase = "elige"
        /\ s.ruta = h.ruta /\ s.nodo = h.nodo
  BY <1>1, <1>2, Sitios
<1>5. /\ hilos' = [hilos EXCEPT ![n] = s]
      /\ puesto' = [puesto EXCEPT ![ParteDe(h.i)] = h.nodo] /\ temporal' = [temporal EXCEPT ![ParteDe(h.i)] = 0]
      /\ UNCHANGED <<ajustes, ruta, sinPublicar, dentro>>
  BY <1>3, <1>4 DEF Pu!Renombrar
<1>. HIDE DEF s
<1>6. /\ DOMAIN hilos' = DOMAIN hilos /\ hilos'[n] = s
      /\ \A m \in DOMAIN hilos : m # n => hilos'[m] = hilos[m]
      /\ hilos' # <<>> /\ hilos # <<>>
  BY <1>1, <1>4, <1>5, HiloCambiado
<1>7. h.nodo \in 1..Len(dentro)
  BY <1>1, <1>3 DEF EsHilo, TipoHilo
<1>8. /\ temporal' \in [PartesPub -> 0..Len(dentro)] /\ puesto' \in [PartesPub -> 0..Len(dentro)]
      /\ puesto'[ParteDe(h.i)] = h.nodo /\ temporal'[ParteDe(h.i)] = 0
      /\ \A f \in PartesPub : f # ParteDe(h.i) => puesto'[f] = puesto[f] /\ temporal'[f] = temporal[f]
  BY <1>1, <1>3, <1>5, <1>7 DEF TiposPub
<1>9. TiposPub'
  BY <1>1, <1>4, <1>5, <1>8, TiposDeHilos DEF TiposPub
<1>10. \A m \in DOMAIN hilos : m # n => hilos[m].i = 3 /\ hilos'[m].i = 3 /\ hilos'[m].fase = "elige"
  BY <1>2, <1>6 DEF PublicacionInv, UnoSolo
<1>11. UnoSolo'
  BY <1>4, <1>6, <1>10 DEF PublicacionInv, UnoSolo
<1>12. \A m \in DOMAIN hilos : ~EnObra(hilos'[m]) /\ (EnObra(hilos[m]) => m = n)
  BY <1>4, <1>6, <1>10 DEF EnObra
<1>13. \A f \in PartesPub : temporal'[f] = 0
  <2>. SUFFICES ASSUME NEW f \in PartesPub, f # ParteDe(h.i), temporal[f] # 0 PROVE FALSE
    BY <1>8
  <2>1. PICK m \in DOMAIN hilos : EnObra(hilos[m]) /\ ParteDe(hilos[m].i) = f
    BY DEF PublicacionInv, SoloSuyo
  <2>. QED BY <1>12, <2>1
<1>14. \A f, g \in PartesPub : puesto'[f] # 0 /\ puesto'[f] = puesto'[g] => f = g
  <2>1. \A g \in PartesPub : puesto[g] # h.nodo
    BY <1>3 DEF PublicacionInv, SoloSuyo
  <2>. QED BY <1>8, <2>1 DEF PublicacionInv, SoloSuyo
<1>15. SoloSuyo'
  BY <1>6, <1>12, <1>13, <1>14 DEF SoloSuyo
<1>16. \A f \in PartesPub : Dado(f)' = IF f = ParteDe(h.i) THEN h.dato ELSE Dado(f)
  BY <1>3, <1>5, <1>8 DEF Dado
<1>17. h.dato # "medio" /\ (h.i = 1 => h.dato = ajustes) /\ (h.i = 2 => h.dato = h.ruta)
  BY <1>1, <1>2, <1>3, PublicacionAssumption DEF Contenido, TiposPub, EsHilo, TipoHilo
<1>18. "panel" \in PartesPub /\ "fondo" \in PartesPub /\ (h.i = 1 => ParteDe(h.i) = "panel")
         /\ (h.i = 2 => ParteDe(h.i) = "fondo")
  BY DEF PartesPub, ParteDe
<1>19. Hecho'
  <2>1. \A f \in PartesPub : Dado(f)' # "medio"
    BY <1>16, <1>17 DEF PublicacionInv, Hecho
  <2>2. ~sinPublicar => \A m \in DOMAIN hilos : hilos'[m].i # 3 => hilos'[m].ruta = ruta
    BY <1>2, <1>4, <1>6, <1>10 DEF PublicacionInv, Hecho
  <2>3. Dado("panel")' = ajustes
    <3>1. CASE h.i = 1
      BY <1>16, <1>17, <1>18, <3>1
    <3>2. CASE h.i = 2
      <4>1. \A m \in DOMAIN hilos : hilos[m].i # 1
        BY <1>10, <3>2
      <4>. QED BY <1>6, <1>16, <1>18, <3>2, <4>1 DEF PublicacionInv, Hecho
    <3>. QED BY <1>2, <3>1, <3>2
  <2>4. (~sinPublicar /\ \A m \in DOMAIN hilos : hilos'[m].i = 3)
           => Dado("fondo")' = IF ruta \in Valen THEN ruta ELSE "nada"
    <3>. SUFFICES ASSUME ~sinPublicar, \A m \in DOMAIN hilos : hilos'[m].i = 3
                  PROVE Dado("fondo")' = IF ruta \in Valen THEN ruta ELSE "nada"
      OBVIOUS
    <3>1. h.i = 2
      BY <1>2, <1>4, <1>6
    <3>2. h.ruta = ruta
      BY <1>2 DEF PublicacionInv, Hecho
    <3>. QED BY <1>3, <1>16, <1>17, <1>18, <3>1, <3>2
  <2>. QED BY <1>5, <1>6, <2>1, <2>2, <2>3, <2>4 DEF Hecho
<1>. QED BY <1>9, <1>11, <1>15, <1>19 DEF PublicacionInv

\* A step that changes nothing.
LEMMA PublicacionQuieta == ASSUME PublicacionInv, UNCHANGED Pu!vars PROVE PublicacionInv'
BY DEF Pu!vars, PublicacionInv, TiposPub, UnoSolo, SoloSuyo, Hecho, Dado, Contenido

\* Every step of the publications keeps the invariant.
LEMMA PublicacionPaso == ASSUME PublicacionInv, Solapan = FALSE, [Pu!Next]_(Pu!vars) PROVE PublicacionInv'
BY PublicarBien, ElegirPubBien, CopiarBien, EscribirBien, RenombrarBien, PublicacionQuieta DEF Pu!Next

-----------------------------------------------------------------------------
(***************************************************************************)
(* The keyboard: first, what filtering a sequence gives, by induction.     *)
(***************************************************************************)
\* A step of the filter, and what a function that follows it up to n is.
Otra(s, T, f, i) == IF i = 0 THEN <<>> ELSE IF s[i] \in T THEN Append(f[i - 1], s[i]) ELSE f[i - 1]
Sigue(s, T, f, n) == f = [i \in 0..n |-> Otra(s, T, f, i)]


\* There is such a function up to any length: otherwise there would be a first one without it.
LEMMA HayQuien ==
  ASSUME NEW s, NEW T, NEW n \in Nat
  PROVE  \E f : Sigue(s, T, f, n)
<1>. DEFINE Malos == {m \in Nat : ~\E f : Sigue(s, T, f, m)}
<1>. SUFFICES ASSUME Malos # {} PROVE FALSE
  OBVIOUS
<1>1. PICK m \in Malos : \A k \in Malos : m <= k
  BY Minimo
<1>2. m \in Nat /\ ~\E f : Sigue(s, T, f, m)
  OBVIOUS
<1>3. CASE m = 0
  <2>. DEFINE f == [i \in 0..0 |-> <<>>]
  <2>1. \A i \in 0..0 : Otra(s, T, f, i) = <<>>
    BY DEF Otra
  <2>2. Sigue(s, T, f, 0)
    BY <2>1 DEF Sigue
  <2>. QED BY <1>2, <1>3, <2>2
<1>4. CASE m > 0
  <2>1. m - 1 \in Nat /\ m - 1 \notin Malos
    BY <1>1, <1>2, <1>4
  <2>2. PICK f : Sigue(s, T, f, m - 1)
    BY <2>1
  <2>. DEFINE g == [i \in 0..m |-> IF i = m THEN Otra(s, T, f, m) ELSE f[i]]
  <2>3. \A i \in 0..m : i = m \/ i \in 0..(m - 1)
    BY <1>2, <1>4
  <2>4. \A i \in 0..m : i # 0 => i - 1 \in 0..(m - 1) /\ i - 1 # m /\ i - 1 \in 0..m
    BY <1>2, <1>4
  <2>5. \A i \in 0..m : i # 0 => g[i - 1] = f[i - 1]
    BY <2>4
  <2>6. \A i \in 0..m : Otra(s, T, g, i) = Otra(s, T, f, i)
    <3>. HIDE DEF g
    <3>. QED BY <2>5 DEF Otra
  <2>7. \A i \in 0..m : g[i] = Otra(s, T, g, i)
    <3>1. \A i \in 0..(m - 1) : f[i] = Otra(s, T, f, i)
      BY <2>2 DEF Sigue
    <3>. QED BY <2>3, <2>6, <3>1
  <2>8. g = [i \in 0..m |-> Otra(s, T, g, i)]
    BY <2>7
  <2>9. Sigue(s, T, g, m)
    BY <2>8, Zenon DEF Sigue
  <2>. QED BY <1>2, <2>9
<1>. QED BY <1>2, <1>3, <1>4

Ninguna(s) == \A i, j \in DOMAIN s : s[i] = s[j] => i = j
\* What filtering gives: those of the set, none twice if none was, and no more.
Filtrado(s, T, Z, i, r) ==
  /\ r \in Seq(Z) /\ Len(r) <= i
  /\ \A x : (\E k \in DOMAIN r : r[k] = x) <=> (x \in T /\ \E j \in 1..i : s[j] = x)
  /\ Ninguna(s) => Ninguna(r)
\* One more element is looked at.
LEMMA UnoMasFiltrado ==
  ASSUME NEW Z, NEW s \in Seq(Z), NEW T, NEW i \in 1..Len(s), NEW r, Filtrado(s, T, Z, i - 1, r)
  PROVE  /\ s[i] \in T => Filtrado(s, T, Z, i, Append(r, s[i]))
         /\ s[i] \notin T => Filtrado(s, T, Z, i, r)
<1>. DEFINE a == Append(r, s[i])
<1>1. r \in Seq(Z) /\ Len(r) \in Nat /\ Len(r) <= i - 1 /\ s[i] \in Z /\ i \in Nat /\ i >= 1
        /\ DOMAIN r = 1..Len(r)
  BY DEF Filtrado
<1>2. \A j : j \in 1..i <=> (j \in 1..(i - 1) \/ j = i)
  BY <1>1
<1>3. ASSUME s[i] \in T PROVE Filtrado(s, T, Z, i, a)
  <2>1. /\ a \in Seq(Z) /\ Len(a) = Len(r) + 1 /\ DOMAIN a = 1..(Len(r) + 1) /\ a[Len(r) + 1] = s[i]
        /\ \A k \in DOMAIN r : a[k] = r[k]
    BY <1>1
  <2>2. \A k : k \in DOMAIN a <=> (k \in DOMAIN r \/ k = Len(r) + 1)
    BY <1>1, <2>1
  <2>3. Len(a) <= i
    BY <1>1, <2>1
  <2>. HIDE DEF a
  <2>4. \A x : (\E k \in DOMAIN a : a[k] = x) <=> ((\E k \in DOMAIN r : r[k] = x) \/ x = s[i])
    BY <2>1, <2>2
  <2>5. \A x : (\E k \in DOMAIN a : a[k] = x) <=> (x \in T /\ \E j \in 1..i : s[j] = x)
    BY <1>2, <1>3, <2>4 DEF Filtrado
  <2>6. Ninguna(s) => Ninguna(a)
    <3>. SUFFICES ASSUME Ninguna(s), NEW k \in DOMAIN a, NEW l \in DOMAIN a, a[k] = a[l] PROVE k = l
      BY DEF Ninguna
    <3>1. Ninguna(r)
      BY DEF Filtrado
    <3>2. \A q \in DOMAIN r : r[q] # s[i]
      <4>. SUFFICES ASSUME NEW q \in DOMAIN r, r[q] = s[i] PROVE FALSE
        OBVIOUS
      <4>1. PICK j \in 1..(i - 1) : s[j] = s[i]
        BY DEF Filtrado
      <4>2. j \in DOMAIN s /\ i \in DOMAIN s /\ j # i
        BY <1>1
      <4>. QED BY <4>1, <4>2 DEF Ninguna
    <3>. QED BY <2>1, <2>2, <3>1, <3>2 DEF Ninguna
  <2>. QED BY <2>1, <2>3, <2>5, <2>6 DEF Filtrado
<1>4. ASSUME s[i] \notin T PROVE Filtrado(s, T, Z, i, r)
  <2>1. Len(r) <= i
    BY <1>1
  <2>2. \A x : (\E k \in DOMAIN r : r[k] = x) <=> (x \in T /\ \E j \in 1..i : s[j] = x)
    BY <1>2, <1>4 DEF Filtrado
  <2>. QED BY <2>1, <2>2 DEF Filtrado
<1>. QED BY <1>3, <1>4

\* What Elegidas returns, for any sequence and set.
LEMMA Filtra ==
  ASSUME NEW Z, NEW s \in Seq(Z), NEW T
  PROVE  /\ Fo!Elegidas(s, T) \in Seq(Z) /\ Len(Fo!Elegidas(s, T)) <= Len(s)
         /\ Fo!ToSet(Fo!Elegidas(s, T)) = Fo!ToSet(s) \cap T
         /\ Ninguna(s) => Ninguna(Fo!Elegidas(s, T))
<1>. DEFINE f == CHOOSE g : Sigue(s, T, g, Len(s))
<1>1. Fo!Elegidas(s, T) = f[Len(s)] /\ Len(s) \in Nat /\ DOMAIN s = 1..Len(s)
  BY DEF Fo!Elegidas, Sigue, Otra
<1>2. Sigue(s, T, f, Len(s))
  BY <1>1, HayQuien
<1>. HIDE DEF f
<1>3. \A i \in 0..Len(s) : f[i] = Otra(s, T, f, i)
  BY <1>2 DEF Sigue
<1>. DEFINE Malos == {i \in 0..Len(s) : ~Filtrado(s, T, Z, i, f[i])}
<1>4. Malos = {}
  <2>. SUFFICES ASSUME Malos # {} PROVE FALSE
    OBVIOUS
  <2>0. Malos \subseteq Nat
    OBVIOUS
  <2>1. PICK i \in Malos : \A k \in Malos : i <= k
    <3>. HIDE DEF Malos
    <3>. QED BY <2>0, Minimo
  <2>2. i \in 0..Len(s) /\ ~Filtrado(s, T, Z, i, f[i])
    OBVIOUS
  <2>3. CASE i = 0
    <3>1. f[0] = <<>>
      BY <1>3, <2>2, <2>3 DEF Otra
    <3>2. Filtrado(s, T, Z, 0, <<>>)
      BY DEF Filtrado, Ninguna
    <3>. QED BY <2>2, <2>3, <3>1, <3>2
  <2>4. CASE i # 0
    <3>1. i - 1 \in 0..Len(s) /\ i - 1 \notin Malos /\ i \in 1..Len(s)
      BY <1>1, <2>1, <2>2, <2>4
    <3>2. Filtrado(s, T, Z, i - 1, f[i - 1])
      BY <3>1
    <3>3. f[i] = IF s[i] \in T THEN Append(f[i - 1], s[i]) ELSE f[i - 1]
      BY <1>3, <2>2, <2>4 DEF Otra
    <3>. QED BY <2>2, <3>1, <3>2, <3>3, UnoMasFiltrado
  <2>. QED BY <2>3, <2>4
<1>5. Filtrado(s, T, Z, Len(s), f[Len(s)])
  BY <1>1, <1>4
<1>6. Fo!ToSet(Fo!Elegidas(s, T)) = Fo!ToSet(s) \cap T
  BY <1>1, <1>5 DEF Filtrado, Fo!ToSet
<1>. QED BY <1>1, <1>5, <1>6 DEF Filtrado

-----------------------------------------------------------------------------
\* The stack without a window.
LEMMA DeSin ==
  ASSUME NEW s \in Seq(Fo!Ventanas), NEW w
  PROVE  /\ Fo!Sin(s, w) \in Seq(Fo!Ventanas) /\ Fo!ToSet(Fo!Sin(s, w)) = Fo!ToSet(s) \ {w} /\ Len(Fo!Sin(s, w)) <= Len(s)
         /\ Ninguna(s) => Ninguna(Fo!Sin(s, w))
<1>1. Fo!ToSet(s) \cap (Fo!ToSet(s) \ {w}) = Fo!ToSet(s) \ {w}
  OBVIOUS
<1>. QED BY <1>1, Filtra DEF Fo!Sin

EnPie(v) == {w \in Fo!Ventanas : v[w] \in {"nueva", "viva", "retirada"}}
\* Those of a sequence that are alive.
LEMMA DeViven ==
  ASSUME NEW s \in Seq(Fo!Ventanas), NEW v
  PROVE  /\ Fo!Viven(s, v) \in Seq(Fo!Ventanas) /\ Fo!ToSet(Fo!Viven(s, v)) = Fo!ToSet(s) \cap EnPie(v)
         /\ Len(Fo!Viven(s, v)) <= Len(s)
         /\ Ninguna(s) => Ninguna(Fo!Viven(s, v))
BY Filtra DEF Fo!Viven, EnPie

\* One more on top.
LEMMA DeAppend ==
  ASSUME NEW s \in Seq(Fo!Ventanas), NEW w \in Fo!Ventanas
  PROVE  /\ Append(s, w) \in Seq(Fo!Ventanas) /\ Fo!ToSet(Append(s, w)) = Fo!ToSet(s) \cup {w}
         /\ Ninguna(s) /\ w \notin Fo!ToSet(s) => Ninguna(Append(s, w))
         /\ Len(Append(s, w)) = Len(s) + 1
<1>1. /\ Append(s, w) \in Seq(Fo!Ventanas) /\ Len(Append(s, w)) = Len(s) + 1 /\ Len(s) \in Nat
      /\ DOMAIN s = 1..Len(s) /\ DOMAIN Append(s, w) = 1..(Len(s) + 1) /\ Append(s, w)[Len(s) + 1] = w
      /\ \A k \in DOMAIN s : Append(s, w)[k] = s[k]
  OBVIOUS
<1>2. \A k : k \in DOMAIN Append(s, w) <=> (k \in DOMAIN s \/ k = Len(s) + 1)
  BY <1>1
<1>3. Fo!ToSet(Append(s, w)) = Fo!ToSet(s) \cup {w}
  <2>. DEFINE a == Append(s, w)
  <2>1. \A x : (\E k \in DOMAIN a : a[k] = x) <=> ((\E k \in DOMAIN s : s[k] = x) \/ x = w)
    <3>. HIDE DEF a
    <3>. QED BY <1>1, <1>2 DEF a
  <2>2. \A x : (x \in Fo!ToSet(a) <=> \E k \in DOMAIN a : a[k] = x)
          /\ (x \in Fo!ToSet(s) <=> \E k \in DOMAIN s : s[k] = x)
    BY DEF Fo!ToSet
  <2>. HIDE DEF a
  <2>. QED BY <2>1, <2>2 DEF a
<1>4. ASSUME Ninguna(s), w \notin Fo!ToSet(s) PROVE Ninguna(Append(s, w))
  <2>1. \A k \in DOMAIN s : s[k] # w
    BY <1>4 DEF Fo!ToSet
  <2>. QED BY <1>1, <1>2, <1>4, <2>1 DEF Ninguna
<1>. QED BY <1>1, <1>3, <1>4

\* Whoever is on top is there.
LEMMA DeUltima == ASSUME NEW s \in Seq(Fo!Ventanas), s # <<>> PROVE s[Len(s)] \in Fo!ToSet(s) /\ Fo!ToSet(s) \subseteq Fo!Ventanas
<1>1. Len(s) \in DOMAIN s
  OBVIOUS
<1>. QED BY <1>1 DEF Fo!ToSet

\* Nobody.
LEMMA DeVacia == Fo!ToSet(<<>>) = {} /\ Ninguna(<<>>) /\ \A Z : <<>> \in Seq(Z)
BY DEF Fo!ToSet, Ninguna

\* A sequence of windows.
LEMMA DeSeq == ASSUME NEW s \in Seq(Fo!Ventanas) PROVE Fo!ToSet(s) \subseteq Fo!Ventanas /\ (s = <<>> <=> Fo!ToSet(s) = {}) /\ Len(s) \in Nat
<1>1. s # <<>> => s[Len(s)] \in Fo!ToSet(s)
  BY DeUltima
<1>2. s = <<>> => Fo!ToSet(s) = {}
  BY DeVacia
<1>. QED BY <1>1, <1>2 DEF Fo!ToSet

\* The keyboard counts as anybody does.
LEMMA LaMismaCuenta == ASSUME NEW T PROVE Fo!Cardinality(T) = Cardinality(T)
BY DEF Fo!Cardinality, Cardinality

\* A stack without repetitions is as high as the windows it has.
LEMMA DeLargo == ASSUME NEW s \in Seq(Fo!Ventanas), Ninguna(s) PROVE Len(s) = Cardinality(Fo!ToSet(s))
<1>1. Len(s) \in Nat /\ DOMAIN s = 1..Len(s)
  OBVIOUS
<1>2. IsFiniteSet(1..Len(s)) /\ Cardinality(1..Len(s)) = Len(s)
  BY <1>1, FS_Interval
<1>3. s \in Bijection(1..Len(s), Fo!ToSet(s))
  <2>1. s \in [1..Len(s) -> Fo!ToSet(s)]
    BY <1>1 DEF Fo!ToSet
  <2>2. \A x \in Fo!ToSet(s) : \E k \in 1..Len(s) : s[k] = x
    BY <1>1 DEF Fo!ToSet
  <2>. QED BY <1>1, <2>1, <2>2 DEF Bijection, Injection, Surjection, IsInjective, Ninguna
<1>4. ExistsBijection(1..Len(s), Fo!ToSet(s))
  BY <1>3 DEF ExistsBijection
<1>5. Cardinality(1..Len(s)) = Cardinality(Fo!ToSet(s))
  BY <1>2, <1>4, FS_Bijection
<1>. QED BY <1>2, <1>5

-----------------------------------------------------------------------------
Estados == {"no", "nueva", "viva", "retirada", "muerta"}
Yendo == Fo!ToSet(minimizando)
EnDock == Fo!ToSet(minimizadas)
TiposFoco ==
  /\ vida \in [Fo!Ventanas -> Estados]
  /\ pilaFo \in Seq(Fo!Ventanas) /\ Ninguna(pilaFo) /\ minimizando \in Seq(Fo!Ventanas) /\ minimizadas \in Seq(Fo!Ventanas)
  /\ Len(minimizando) <= 1
  /\ activas \subseteq Fo!Ventanas /\ foco \in Fo!Ventanas \cup {NoHay} /\ menu \in Fo!Ventanas \cup {NoHay}
  /\ enMenu \in BOOLEAN /\ xwm \in BOOLEAN /\ asociada \subseteq Fo!Ventanas /\ dock \subseteq conocida
\* The windows of the stack are alive, or died in this turn, or were of the XWayland that went.
Sitio == \A w \in Fo!EnPila : vida[w] \in {"nueva", "viva", "muerta"} \/ (vida[w] = "no" /\ ~xwm /\ Fo!DeX(w))
SinX == ~xwm => asociada = {} /\ \A w \in Fo!Ventanas : Fo!DeX(w) => vida[w] \in {"no", "muerta"}
\* Those of the dock are not in the stack, and are alive while their server is.
EnElDock == \A w \in EnDock : w \notin Menudas /\ w \notin Fo!EnPila /\ (xwm \/ ~Fo!DeX(w) => vida[w] = "viva")
Yendose == \A w \in Yendo : w \notin Menudas /\ (xwm \/ ~Fo!DeX(w) => vida[w] = "viva")
EnAlgunSitio == \A w \in Fo!Ventanas \ Menudas : vida[w] \in {"nueva", "viva"} => w \in Fo!EnPila \cup EnDock
\* The window that is told it is active is the one with the keyboard, with or without menus.
Activa == foco \in Fo!EnPila => {w \in Fo!EnPila : w \in activas /\ vida[w] = "viva"} \subseteq {foco} /\ foco \in activas
\* An open menu is of the window that has the keyboard, and nothing goes to the dock meanwhile.
DelMenu == menu # NoHay => foco = menu /\ minimizando = <<>>
FocoInv == /\ TiposFoco /\ Sitio /\ SinX /\ EnElDock /\ Yendose /\ EnAlgunSitio /\ Activa /\ DelMenu
           /\ Fo!FocoVivoMientrasHayX /\ Fo!FocoNoSeVa /\ Fo!DockVeraz

\* The invariant says what the property asks.
LEMMA FocoBasta == FocoInv => Fo!TypeOK /\ Fo!FocoEnOrden
<1>. SUFFICES ASSUME FocoInv PROVE Fo!TypeOK /\ Fo!FocoEnOrden
  OBVIOUS
<1>1. TiposFoco
  BY DEF FocoInv
<1>2. Len(pilaFo) = Fo!Cardinality(Fo!EnPila) /\ Fo!EnPila \subseteq Fo!Ventanas
  BY <1>1, LaMismaCuenta, DeLargo, DeSeq DEF TiposFoco, Fo!EnPila
<1>3. {enMenu, xwm} \subseteq BOOLEAN
  BY <1>1, Zenon DEF TiposFoco
<1>4. Fo!TypeOK
  BY <1>1, <1>2, <1>3 DEF Fo!TypeOK, TiposFoco, Estados
<1>5. Fo!ActivaConTeclado
  BY DEF FocoInv, Activa, Fo!ActivaConTeclado
<1>6. xwm => Fo!SinFantasmas
  <2>. SUFFICES ASSUME xwm, NEW i \in DOMAIN minimizadas PROVE vida[minimizadas[i]] = "viva"
    BY DEF Fo!SinFantasmas
  <2>1. minimizadas[i] \in EnDock
    BY DEF EnDock, Fo!ToSet
  <2>. QED BY <2>1 DEF FocoInv, EnElDock
<1>. QED BY <1>4, <1>5, <1>6 DEF Fo!FocoEnOrden, FocoInv

\* Nobody at the start.
LEMMA FocoInicial == Fo!Init => FocoInv
<1>. SUFFICES ASSUME Fo!Init PROVE FocoInv
  OBVIOUS
<1>1. Fo!EnPila = {} /\ EnDock = {} /\ Yendo = {} /\ Ninguna(pilaFo) /\ pilaFo \in Seq(Fo!Ventanas)
  BY DeVacia DEF Fo!Init, Fo!EnPila, EnDock, Yendo
<1>2. TiposFoco
  <2>1. <<>> \in Seq(Fo!Ventanas) /\ Len(<<>>) = 0
    BY DeVacia
  <2>2. vida \in [Fo!Ventanas -> Estados]
    BY DEF Fo!Init, Estados
  <2>3. pilaFo = <<>> /\ minimizando = <<>> /\ minimizadas = <<>> /\ Len(minimizando) <= 1
    BY <2>1 DEF Fo!Init
  <2>4. pilaFo \in Seq(Fo!Ventanas) /\ minimizando \in Seq(Fo!Ventanas) /\ minimizadas \in Seq(Fo!Ventanas)
    BY <2>1, <2>3
  <2>5. /\ activas \subseteq Fo!Ventanas /\ foco \in Fo!Ventanas \cup {NoHay}
          /\ menu \in Fo!Ventanas \cup {NoHay}
        /\ asociada \subseteq Fo!Ventanas /\ dock \subseteq conocida
    BY DEF Fo!Init
  <2>6. enMenu \in BOOLEAN /\ xwm \in BOOLEAN
    BY Zenon DEF Fo!Init
  <2>. QED BY <1>1, <2>2, <2>3, <2>4, <2>5, <2>6, Zenon DEF TiposFoco
<1>. QED BY <1>1, <1>2 DEF Fo!Init, FocoInv, Fo!FocoNoSeVa, Yendo, EnDock, Fo!EnPila, Sitio, SinX, EnElDock,
        Yendose, EnAlgunSitio, Activa, DelMenu, Fo!FocoVivoMientrasHayX, Fo!FocoVivo,
         Fo!DockVeraz

(***************************************************************************)
(* What the keyboard, the dock and the clean-up do.                        *)
(***************************************************************************)
\* What enfocar leaves.
LEMMA Enfocada ==
  ASSUME NEW p \in Seq(Fo!Ventanas), NEW w \in Fo!Ventanas, Ninguna(p), Fo!Enfocar(w, p, NoHay)
  PROVE  /\ pilaFo' \in Seq(Fo!Ventanas) /\ Ninguna(pilaFo)' /\ Fo!EnPila' = Fo!ToSet(p) \cup {w}
         /\ activas' = (activas \ Fo!ToSet(p)) \cup {w}
         /\ foco' = IF Fo!DeX(w) /\ w \notin asociada' THEN NoHay ELSE w
<1>1. pilaFo' = Append(Fo!Sin(p, w), w)
  BY DEF Fo!Enfocar
<1>2. Fo!Sin(p, w) \in Seq(Fo!Ventanas) /\ Fo!ToSet(Fo!Sin(p, w)) = Fo!ToSet(p) \ {w} /\ Ninguna(Fo!Sin(p, w))
  BY DeSin
<1>3. pilaFo' \in Seq(Fo!Ventanas) /\ Fo!ToSet(pilaFo') = Fo!ToSet(Fo!Sin(p, w)) \cup {w} /\ Ninguna(pilaFo')
  BY <1>1, <1>2, DeAppend
<1>4. Fo!EnPila' = Fo!ToSet(p) \cup {w}
  BY <1>2, <1>3 DEF Fo!EnPila
<1>5. Ninguna(pilaFo)'
  BY <1>3 DEF Ninguna
<1>. QED BY <1>3, <1>4, <1>5 DEF Fo!Enfocar, Fo!DarTeclado

\* The keyboard in a window that is alive, the only one that is told so.
LEMMA ConTeclado ==
  ASSUME NEW w \in Fo!Ventanas, w \in Fo!EnPila', activas' \cap Fo!EnPila' \subseteq {w}, w \in activas',
          foco' \in {w, NoHay},
         foco' = w => vida'[w] \in {"nueva", "viva"}, Fo!EnPila' \subseteq Fo!Ventanas
  PROVE  Activa' /\ Fo!FocoVivoMientrasHayX'
<1>1. NoHay \notin Fo!Ventanas
  BY FocoAssumption DEF Fo!Ventanas
<1>2. Activa'
  BY <1>1 DEF Activa
<1>3. Fo!FocoVivo'
  BY <1>1 DEF Fo!FocoVivo
<1>. QED BY <1>2, <1>3 DEF Fo!FocoVivoMientrasHayX

\* The keyboard in none.
LEMMA SinTeclado ==
  ASSUME foco' = NoHay, Fo!EnPila' \subseteq Fo!Ventanas
  PROVE  Activa' /\ Fo!FocoVivoMientrasHayX'
<1>1. NoHay \notin Fo!Ventanas
  BY FocoAssumption DEF Fo!Ventanas
<1>. QED BY <1>1 DEF Activa, Fo!FocoVivoMientrasHayX, Fo!FocoVivo

\* Giving the keyboard to a window that is alive.
LEMMA EnfocadaBien ==
  ASSUME NEW p \in Seq(Fo!Ventanas), NEW w \in Fo!Ventanas, Ninguna(p), Fo!Enfocar(w, p, NoHay),
          activas \subseteq Fo!Ventanas,
         (~Fo!DeX(w) \/ w \in asociada') => vida'[w] \in {"nueva", "viva"}
  PROVE  /\ pilaFo' \in Seq(Fo!Ventanas) /\ Ninguna(pilaFo)' /\ Fo!EnPila' = Fo!ToSet(p) \cup {w}
         /\ activas' \subseteq Fo!Ventanas /\ foco' \in Fo!Ventanas \cup {NoHay} /\ Activa' /\ Fo!FocoVivoMientrasHayX'
<1>1. /\ pilaFo' \in Seq(Fo!Ventanas) /\ Ninguna(pilaFo)' /\ Fo!EnPila' = Fo!ToSet(p) \cup {w}
      /\ activas' = (activas \ Fo!ToSet(p)) \cup {w}
      /\ foco' = IF Fo!DeX(w) /\ w \notin asociada' THEN NoHay ELSE w
  BY Enfocada
<1>2. Fo!ToSet(p) \subseteq Fo!Ventanas
  BY DeSeq
<1>3. Activa' /\ Fo!FocoVivoMientrasHayX'
  <2>1. w \in Fo!EnPila' /\ activas' \cap Fo!EnPila' \subseteq {w} /\ w \in activas'
          /\ foco' \in {w, NoHay} /\ Fo!EnPila' \subseteq Fo!Ventanas
    BY <1>1, <1>2
  <2>2. NoHay # w
    BY FocoAssumption DEF Fo!Ventanas
  <2>3. foco' = w => vida'[w] \in {"nueva", "viva"}
    BY <1>1, <2>2
  <2>. QED BY <2>1, <2>3, ConTeclado
<1>. QED BY <1>1, <1>2, <1>3

\* Whoever is left on top inherits.
LEMMA RefocalizarBien ==
  ASSUME NEW p \in Seq(Fo!Ventanas), Ninguna(p), Fo!Refocalizar(p, NoHay), activas \subseteq Fo!Ventanas,
          pilaFo \in Seq(Fo!Ventanas),
         \A w \in Fo!ToSet(p) : vida'[w] # "retirada"
  PROVE  /\ pilaFo' \in Seq(Fo!Ventanas) /\ Ninguna(pilaFo)' /\ Fo!EnPila' = Fo!ToSet(p)
         /\ activas' \subseteq Fo!Ventanas /\ foco' \in Fo!Ventanas \cup {NoHay} /\ Activa' /\ Fo!FocoVivoMientrasHayX'
<1>. DEFINE vivas == Fo!Viven(p, vida')
<1>1. vivas \in Seq(Fo!Ventanas) /\ Fo!ToSet(vivas) = Fo!ToSet(p) \cap EnPie(vida')
  BY DeViven
<1>2. CASE vivas = <<>>
  <2>1. foco' = NoHay /\ pilaFo' = p /\ activas' = activas
    BY <1>2 DEF Fo!Refocalizar, Fo!QuitarTeclado
  <2>2. Fo!EnPila' = Fo!ToSet(p) /\ Fo!ToSet(p) \subseteq Fo!Ventanas
    BY <2>1, DeSeq DEF Fo!EnPila
  <2>3. Ninguna(pilaFo)'
    BY <2>1 DEF Ninguna
  <2>. QED BY <2>1, <2>2, <2>3, SinTeclado
<1>3. CASE vivas # <<>>
  <2>1. Fo!Enfocar(vivas[Len(vivas)], p, NoHay)
    BY <1>3 DEF Fo!Refocalizar
  <2>2. vivas[Len(vivas)] \in Fo!ToSet(vivas)
    BY <1>1, <1>3, DeUltima
  <2>. DEFINE w == vivas[Len(vivas)]
  <2>3. w \in Fo!Ventanas /\ w \in Fo!ToSet(p) /\ vida'[w] \in {"nueva", "viva"}
    BY <1>1, <2>2 DEF EnPie
  <2>. HIDE DEF w, vivas
  <2>4. Fo!Enfocar(w, p, NoHay)
    BY <2>1 DEF w
  <2>5. Fo!ToSet(p) \cup {w} = Fo!ToSet(p)
    BY <2>3
  <2>. QED BY <2>3, <2>4, <2>5, EnfocadaBien
<1>. QED BY <1>2, <1>3

\* What actualizar_dock leaves.
LEMMA DockAlDia ==
  ASSUME NEW p \in Seq(Fo!Ventanas), minimizando \in Seq(Fo!Ventanas), minimizadas \in Seq(Fo!Ventanas),
          Len(minimizando) <= 1,
         Fo!ActualizarDock(p)
  PROVE  /\ minimizando' \in Seq(Fo!Ventanas) /\ minimizadas' \in Seq(Fo!Ventanas) /\ Len(minimizando)' <= 1
         /\ Yendo' = Yendo \cap EnPie(vida') /\ EnDock' = EnDock \cap EnPie(vida')
         /\ minimizando = <<>> => minimizando' = <<>>
         /\ dock' = ((Fo!ToSet(p) \cap EnPie(vida')) \cup EnDock') \cap conocida'
<1>1. minimizadas' = Fo!Viven(minimizadas, vida') /\ minimizando' = Fo!Viven(minimizando, vida')
  BY DEF Fo!ActualizarDock, Fo!Purgar
<1>2. /\ minimizando' \in Seq(Fo!Ventanas) /\ minimizadas' \in Seq(Fo!Ventanas)
        /\ Len(minimizando') <= Len(minimizando)
      /\ Fo!ToSet(minimizando') = Fo!ToSet(minimizando) \cap EnPie(vida')
      /\ Fo!ToSet(minimizadas') = Fo!ToSet(minimizadas) \cap EnPie(vida')
  BY <1>1, DeViven
<1>3. Len(minimizando') <= 1 /\ (minimizando = <<>> => minimizando' = <<>>)
  <2>1. Len(minimizando) \in Nat /\ Len(minimizando') \in Nat
    BY <1>2
  <2>2. minimizando = <<>> => Fo!ToSet(minimizando) = {}
    BY DeSeq
  <2>3. minimizando' = <<>> <=> Fo!ToSet(minimizando') = {}
    BY <1>2, DeSeq
  <2>. QED BY <1>2, <2>1, <2>2, <2>3
<1>4. Yendo' = Yendo \cap EnPie(vida') /\ EnDock' = EnDock \cap EnPie(vida')
  BY <1>2 DEF Yendo, EnDock
<1>5. dock' = ((Fo!ToSet(p) \cap EnPie(vida')) \cup EnDock') \cap conocida'
  <2>1. Fo!ToSet(Fo!Viven(p, vida')) = Fo!ToSet(p) \cap EnPie(vida')
    BY DeViven
  <2>. QED BY <2>1 DEF Fo!ActualizarDock, Fo!Cuenta, EnDock
<1>. QED BY <1>2, <1>3, <1>4, <1>5

\* The dock has counted what is in sight and what is in it.
LEMMA DockBien ==
  ASSUME EnAlgunSitio', dock' = ((Fo!EnPila' \cap EnPie(vida')) \cup EnDock') \cap conocida'
  PROVE  Fo!DockVeraz' /\ dock' \subseteq conocida'
BY DEF EnAlgunSitio, Fo!DockVeraz, EnPie

\* When nothing is done while a window goes to the dock or a menu is open, and no window of
\* X11 is withdrawn from the dock.
Calma == Deprisa = FALSE /\ RetiraX11 = FALSE /\ Entretanto = FALSE
\* Nothing is on its way to the dock, and no menu is open.
LEMMA EnCalma == ASSUME Calma PROVE (Fo!Libre => minimizando = <<>> /\ Yendo = {} /\ menu = NoHay)
  /\ (\A w : Fo!LibreDe(w) => minimizando = <<>> /\ Yendo = {} /\ menu \in {NoHay, w})
<1>1. minimizando = <<>> => Yendo = {}
  BY DeVacia DEF Yendo
<1>. QED BY <1>1 DEF Calma, Fo!Libre, Fo!LibreDe

\* What the types of the invariant say of the stack, the dock and the windows.
LEMMA Casa == ASSUME FocoInv PROVE
  /\ NoHay \notin Fo!Ventanas /\ pilaFo \in Seq(Fo!Ventanas) /\ Ninguna(pilaFo) /\ Fo!EnPila = Fo!ToSet(pilaFo) /\ Fo!EnPila \subseteq Fo!Ventanas
  /\ minimizando \in Seq(Fo!Ventanas) /\ minimizadas \in Seq(Fo!Ventanas) /\ Yendo \subseteq Fo!Ventanas /\ EnDock \subseteq Fo!Ventanas
  /\ activas \subseteq Fo!Ventanas /\ vida \in [Fo!Ventanas -> Estados]
<1>1. /\ pilaFo \in Seq(Fo!Ventanas) /\ minimizando \in Seq(Fo!Ventanas)
        /\ minimizadas \in Seq(Fo!Ventanas) /\ Ninguna(pilaFo)
      /\ activas \subseteq Fo!Ventanas /\ vida \in [Fo!Ventanas -> Estados]
  BY DEF FocoInv, TiposFoco
<1>2. Fo!EnPila \subseteq Fo!Ventanas /\ Yendo \subseteq Fo!Ventanas /\ EnDock \subseteq Fo!Ventanas
  BY <1>1, DeSeq DEF Fo!EnPila, Yendo, EnDock
<1>. QED BY <1>1, <1>2, FocoAssumption DEF Fo!EnPila, Fo!Ventanas

-----------------------------------------------------------------------------
\* A window of Wayland is born.
LEMMA NewToplevelP == ASSUME Calma, FocoInv, NEW w \in Wayland, Fo!NewToplevel(w) PROVE FocoInv'
<1>0. w \in Fo!Ventanas /\ ~Fo!DeX(w) /\ w \notin Menudas
  BY FocoAssumption DEF Fo!Ventanas, Fo!DeX
<1>1. vida[w] = "no" /\ vida' = [vida EXCEPT ![w] = "nueva"] /\ pilaFo' = Append(pilaFo, w)
  BY DEF Fo!NewToplevel
<1>2. w \notin Fo!EnPila /\ w \notin EnDock /\ w \notin Yendo /\ foco # w
  BY <1>0, <1>1, Casa DEF FocoInv, Sitio, EnElDock, Yendose, Fo!FocoVivoMientrasHayX, Fo!FocoVivo
<1>3. pilaFo' \in Seq(Fo!Ventanas) /\ Fo!ToSet(pilaFo') = Fo!EnPila \cup {w} /\ Ninguna(pilaFo')
        /\ Fo!EnPila' = Fo!EnPila \cup {w}
  BY <1>0, <1>1, <1>2, Casa, DeAppend DEF Fo!EnPila
<1>4. /\ minimizando' \in Seq(Fo!Ventanas) /\ minimizadas' \in Seq(Fo!Ventanas) /\ Len(minimizando)' <= 1
      /\ Yendo' = Yendo \cap EnPie(vida') /\ EnDock' = EnDock \cap EnPie(vida')
      /\ minimizando = <<>> => minimizando' = <<>>
      /\ dock' = ((Fo!EnPila' \cap EnPie(vida')) \cup EnDock') \cap conocida'
  <2>1. Fo!ActualizarDock(pilaFo') /\ Len(minimizando) <= 1
    BY DEF Fo!NewToplevel, FocoInv, TiposFoco
  <2>. QED BY <1>3, <2>1, Casa, DockAlDia
<1>5. /\ vida' \in [Fo!Ventanas -> Estados] /\ vida'[w] = "nueva"
        /\ \A u \in Fo!Ventanas \ {w} : vida'[u] = vida[u]
  BY <1>0, <1>1, Casa DEF Estados
<1>6. EnAlgunSitio'
  BY <1>3, <1>4, <1>5 DEF FocoInv, EnAlgunSitio, EnPie
<1>7. Fo!DockVeraz' /\ dock' \subseteq conocida'
  BY <1>4, <1>6, DockBien
<1>8. TiposFoco'
  <2>1. Ninguna(pilaFo)'
    BY <1>3 DEF Ninguna
  <2>. QED BY <1>0, <1>3, <1>4, <1>5, <1>7, <2>1 DEF Fo!NewToplevel, FocoInv, TiposFoco
<1>9. Sitio' /\ SinX' /\ EnElDock' /\ Yendose'
  BY <1>0, <1>2, <1>3, <1>4, <1>5, Casa DEF Fo!NewToplevel, FocoInv, Sitio, SinX, EnElDock, Yendose
<1>10. Activa' /\ Fo!FocoVivoMientrasHayX' /\ Fo!FocoNoSeVa'
  BY <1>0, <1>2, <1>3, <1>4, <1>5, Casa DEF Fo!NewToplevel, FocoInv, Activa, Fo!FocoVivoMientrasHayX, Fo!FocoVivo, Fo!FocoNoSeVa, Yendo
<1>11. DelMenu'
  BY <1>4 DEF Fo!NewToplevel, FocoInv, DelMenu
<1>. QED BY <1>6, <1>7, <1>8, <1>9, <1>10, <1>11 DEF FocoInv

\* It says which application it is.
LEMMA AppIdChangedP == ASSUME Calma, FocoInv, NEW w \in Wayland, Fo!AppIdChanged(w) PROVE FocoInv'
<1>1. UNCHANGED <<vida, pilaFo, activas, foco, asociada, menu, enMenu, xwm>> /\ conocida' = conocida \cup {w}
  BY DEF Fo!AppIdChanged
<1>2. Fo!EnPila' = Fo!EnPila
  BY <1>1 DEF Fo!EnPila
<1>4. /\ minimizando' \in Seq(Fo!Ventanas) /\ minimizadas' \in Seq(Fo!Ventanas) /\ Len(minimizando)' <= 1
      /\ Yendo' = Yendo \cap EnPie(vida') /\ EnDock' = EnDock \cap EnPie(vida')
      /\ minimizando = <<>> => minimizando' = <<>>
      /\ dock' = ((Fo!EnPila' \cap EnPie(vida')) \cup EnDock') \cap conocida'
  <2>1. Fo!ActualizarDock(pilaFo) /\ Len(minimizando) <= 1
    BY DEF Fo!AppIdChanged, FocoInv, TiposFoco
  <2>. QED BY <1>2, <2>1, Casa, DockAlDia
<1>6. EnAlgunSitio'
  BY <1>1, <1>2, <1>4 DEF FocoInv, EnAlgunSitio, EnPie
<1>7. Fo!DockVeraz' /\ dock' \subseteq conocida'
  BY <1>4, <1>6, DockBien
<1>8. TiposFoco'
  <2>1. Ninguna(pilaFo)'
    BY <1>1, Casa DEF Ninguna
  <2>. QED BY <1>1, <1>4, <1>7, <2>1 DEF FocoInv, TiposFoco
<1>9. Sitio' /\ SinX' /\ EnElDock' /\ Yendose'
  BY <1>1, <1>2, <1>4 DEF FocoInv, Sitio, SinX, EnElDock, Yendose
<1>10. Activa' /\ Fo!FocoVivoMientrasHayX' /\ Fo!FocoNoSeVa'
  BY <1>1, <1>2, <1>4 DEF FocoInv, Activa, Fo!FocoVivoMientrasHayX, Fo!FocoVivo, Fo!FocoNoSeVa, Yendo
<1>11. DelMenu'
  BY <1>1, <1>4 DEF FocoInv, DelMenu
<1>. QED BY <1>6, <1>7, <1>8, <1>9, <1>10, <1>11 DEF FocoInv

\* Giving the keyboard to a window of the stack that is alive, or was born, in calm.
LEMMA EnfocarP ==
  ASSUME FocoInv, minimizando = <<>>, Yendo = {}, menu = NoHay, NEW w \in Fo!EnPila, Fo!Enfocar(w, pilaFo,
          menu),
         UNCHANGED <<minimizando, minimizadas, conocida, menu, enMenu, xwm, dock>>, asociada' \subseteq Fo!Ventanas,
         xwm \/ asociada' = asociada,
         vida' \in [Fo!Ventanas -> Estados], \A u \in Fo!Ventanas \ {w} : vida'[u] = vida[u],
         vida'[w] = vida[w] \/ (vida[w] = "nueva" /\ vida'[w] = "viva" /\ (xwm \/ ~Fo!DeX(w))),
         (~Fo!DeX(w) \/ w \in asociada') => vida'[w] \in {"nueva", "viva"}
  PROVE  FocoInv'
<1>1. /\ pilaFo' \in Seq(Fo!Ventanas) /\ Ninguna(pilaFo)' /\ Fo!EnPila' = Fo!EnPila
      /\ activas' \subseteq Fo!Ventanas /\ foco' \in Fo!Ventanas \cup {NoHay} /\ Activa' /\ Fo!FocoVivoMientrasHayX'
  <2>1. Fo!Enfocar(w, pilaFo, NoHay) /\ w \in Fo!Ventanas
    BY Casa
  <2>2. Fo!ToSet(pilaFo) \cup {w} = Fo!EnPila
    BY Casa
  <2>. QED BY <2>1, <2>2, Casa, EnfocadaBien
<1>2. Yendo' = {} /\ EnDock' = EnDock /\ w \in Fo!Ventanas /\ Yendo' = Fo!ToSet(minimizando)'
  BY Casa DEF Yendo, EnDock
<1>3. TiposFoco'
  BY <1>1 DEF FocoInv, TiposFoco
<1>4. Sitio' /\ SinX' /\ EnElDock' /\ Yendose'
  BY <1>1, <1>2, Casa DEF FocoInv, Sitio, SinX, EnElDock, Yendose
<1>5. EnAlgunSitio' /\ Fo!DockVeraz'
  BY <1>1, <1>2, Casa DEF FocoInv, EnAlgunSitio, Fo!DockVeraz
<1>6. DelMenu' /\ Fo!FocoNoSeVa'
  BY <1>2 DEF DelMenu, Fo!FocoNoSeVa
<1>. QED BY <1>1, <1>3, <1>4, <1>5, <1>6 DEF FocoInv

\* It has a size.
LEMMA CommitP == ASSUME Calma, FocoInv, NEW w \in Wayland, Fo!Commit(w) PROVE FocoInv'
<1>0. w \in Fo!Ventanas /\ ~Fo!DeX(w) /\ w \notin Menudas
  BY FocoAssumption DEF Fo!Ventanas, Fo!DeX
<1>1. minimizando = <<>> /\ Yendo = {} /\ menu = NoHay
  BY EnCalma DEF Fo!Commit
<1>2. vida[w] = "nueva" /\ w \in Fo!EnPila
  BY <1>0 DEF Fo!Commit, FocoInv, EnAlgunSitio, EnElDock
<1>3. /\ vida' \in [Fo!Ventanas -> Estados] /\ vida'[w] = "viva"
        /\ \A u \in Fo!Ventanas \ {w} : vida'[u] = vida[u]
  BY <1>0, Casa DEF Fo!Commit, Estados
<1>4. asociada' \subseteq Fo!Ventanas /\ asociada' = asociada
  BY DEF Fo!Commit, FocoInv, TiposFoco
<1>5. Fo!Enfocar(w, pilaFo, menu) /\ UNCHANGED <<minimizando, minimizadas, conocida, menu, enMenu, xwm, dock>>
  BY DEF Fo!Commit
<1>. QED BY <1>0, <1>1, <1>2, <1>3, <1>4, <1>5, EnfocarP

\* The X server has mapped a window.
LEMMA MapWindowNotifyP == ASSUME Calma, FocoInv, NEW w \in X11, Fo!MapWindowNotify(w) PROVE FocoInv'
<1>0. w \in Fo!Ventanas /\ w \notin Menudas
  BY FocoAssumption DEF Fo!Ventanas
<1>1. minimizando = <<>> /\ Yendo = {} /\ menu = NoHay
  BY EnCalma DEF Fo!MapWindowNotify
<1>2. vida[w] = "nueva" /\ w \in Fo!EnPila /\ xwm
  BY <1>0 DEF Fo!MapWindowNotify, FocoInv, EnAlgunSitio, EnElDock
<1>3. /\ vida' \in [Fo!Ventanas -> Estados] /\ vida'[w] = "viva"
        /\ \A u \in Fo!Ventanas \ {w} : vida'[u] = vida[u]
  BY <1>0, Casa DEF Fo!MapWindowNotify, Estados
<1>4. asociada' \subseteq Fo!Ventanas /\ asociada' = asociada
  BY DEF Fo!MapWindowNotify, FocoInv, TiposFoco
<1>5. Fo!Enfocar(w, pilaFo, menu) /\ UNCHANGED <<minimizando, minimizadas, conocida, menu, enMenu, xwm, dock>>
  BY DEF Fo!MapWindowNotify
<1>. QED BY <1>0, <1>1, <1>2, <1>3, <1>4, <1>5, EnfocarP

\* A token of activation.
LEMMA RequestActivationP == ASSUME Calma, FocoInv, NEW w \in Wayland, Fo!RequestActivation(w) PROVE FocoInv'
<1>0. w \in Fo!Ventanas /\ ~Fo!DeX(w)
  BY FocoAssumption DEF Fo!Ventanas, Fo!DeX
<1>1. minimizando = <<>> /\ Yendo = {} /\ menu = NoHay
  BY EnCalma DEF Fo!RequestActivation, Fo!Quieto
<1>2. w \in Fo!EnPila /\ vida' = vida /\ asociada' = asociada /\ vida[w] \in {"nueva", "viva"}
  BY <1>0 DEF Fo!RequestActivation, FocoInv, Sitio
<1>3. asociada' \subseteq Fo!Ventanas /\ vida' \in [Fo!Ventanas -> Estados]
        /\ \A u \in Fo!Ventanas : vida'[u] = vida[u]
  BY <1>2, Casa DEF FocoInv, TiposFoco
<1>5. Fo!Enfocar(w, pilaFo, menu) /\ UNCHANGED <<minimizando, minimizadas, conocida, menu, enMenu, xwm, dock>>
  BY DEF Fo!RequestActivation
<1>. QED BY <1>0, <1>1, <1>2, <1>3, <1>5, EnfocarP

\* A press on a window.
LEMMA PulsarP == ASSUME Calma, FocoInv, NEW w \in Fo!Ventanas, Fo!Pulsar(w) PROVE FocoInv'
<1>1. minimizando = <<>> /\ Yendo = {} /\ menu = NoHay
  BY EnCalma DEF Fo!Pulsar, Fo!Quieto
<1>2. w \in Fo!EnPila /\ vida' = vida /\ asociada' = asociada /\ vida[w] = "viva"
  BY DEF Fo!Pulsar
<1>3. asociada' \subseteq Fo!Ventanas /\ vida' \in [Fo!Ventanas -> Estados]
        /\ \A u \in Fo!Ventanas : vida'[u] = vida[u]
  BY <1>2, Casa DEF FocoInv, TiposFoco
<1>5. Fo!Enfocar(w, pilaFo, menu) /\ UNCHANGED <<minimizando, minimizadas, conocida, menu, enMenu, xwm, dock>>
  BY DEF Fo!Pulsar
<1>. QED BY <1>1, <1>2, <1>3, <1>5, EnfocarP

\* A window of Wayland dies.
LEMMA ToplevelDestroyedP == ASSUME Calma, FocoInv, NEW w \in Wayland, Fo!ToplevelDestroyed(w) PROVE FocoInv'
<1>0. w \in Fo!Ventanas /\ ~Fo!DeX(w)
  BY FocoAssumption DEF Fo!Ventanas, Fo!DeX
<1>1. minimizando = <<>> /\ Yendo = {} /\ menu \in {NoHay, w} /\ menu' = NoHay
  BY EnCalma DEF Fo!ToplevelDestroyed, Fo!CierraMenu, Fo!MenuSin
<1>2. /\ vida' \in [Fo!Ventanas -> Estados] /\ vida'[w] = "muerta"
        /\ \A u \in Fo!Ventanas \ {w} : vida'[u] = vida[u]
  BY <1>0, Casa DEF Fo!ToplevelDestroyed, Estados
<1>3. UNCHANGED <<asociada, conocida, xwm>>
  BY DEF Fo!ToplevelDestroyed
<1>4. /\ pilaFo' \in Seq(Fo!Ventanas) /\ Ninguna(pilaFo)' /\ Fo!EnPila' = Fo!EnPila
      /\ activas' \subseteq Fo!Ventanas /\ foco' \in Fo!Ventanas \cup {NoHay} /\ Activa' /\ Fo!FocoVivoMientrasHayX'
  <2>1. Fo!Refocalizar(pilaFo, NoHay)
    BY <1>1 DEF Fo!ToplevelDestroyed
  <2>2. \A u \in Fo!ToSet(pilaFo) : vida'[u] # "retirada"
    BY <1>2, Casa DEF FocoInv, Sitio
  <2>. QED BY <2>1, <2>2, Casa, RefocalizarBien
<1>5. /\ minimizando' \in Seq(Fo!Ventanas) /\ minimizadas' \in Seq(Fo!Ventanas) /\ Len(minimizando)' <= 1
      /\ Yendo' = {} /\ EnDock' = EnDock \cap EnPie(vida') /\ minimizando' = <<>>
      /\ dock' = ((Fo!EnPila' \cap EnPie(vida')) \cup EnDock') \cap conocida'
  <2>1. Fo!ActualizarDock(pilaFo) /\ Len(minimizando) <= 1
    BY DEF Fo!ToplevelDestroyed, FocoInv, TiposFoco
  <2>. QED BY <1>1, <1>4, <2>1, Casa, DockAlDia
<1>6. EnAlgunSitio'
  BY <1>0, <1>2, <1>4, <1>5 DEF FocoInv, EnAlgunSitio, EnPie
<1>7. Fo!DockVeraz' /\ dock' \subseteq conocida'
  BY <1>5, <1>6, DockBien
<1>8. TiposFoco'
  <2>1. enMenu' \in BOOLEAN
    BY Zenon DEF Fo!ToplevelDestroyed, Fo!CierraMenu
  <2>. QED BY <1>1, <1>2, <1>3, <1>4, <1>5, <1>7, <2>1 DEF FocoInv, TiposFoco
<1>9. Sitio' /\ SinX' /\ EnElDock' /\ Yendose'
  BY <1>0, <1>2, <1>3, <1>4, <1>5, Casa DEF FocoInv, Sitio, SinX, EnElDock, Yendose, EnPie
<1>10. DelMenu' /\ Fo!FocoNoSeVa'
  BY <1>1, <1>5 DEF DelMenu, Fo!FocoNoSeVa, Yendo
<1>. QED BY <1>4, <1>6, <1>7, <1>8, <1>9, <1>10 DEF FocoInv

\* A withdrawn window of X11 dies.
LEMMA DestroyedWindowP == ASSUME Calma, FocoInv, NEW w \in X11, Fo!DestroyedWindow(w) PROVE FocoInv'
<1>0. w \in Fo!Ventanas /\ Fo!DeX(w) /\ w \notin Menudas
  BY FocoAssumption DEF Fo!Ventanas, Fo!DeX
<1>1. minimizando = <<>> /\ Yendo = {} /\ menu = NoHay /\ menu' = NoHay
  BY EnCalma DEF Fo!DestroyedWindow
<1>2. /\ vida' \in [Fo!Ventanas -> Estados] /\ vida'[w] = "no"
        /\ \A u \in Fo!Ventanas \ {w} : vida'[u] = vida[u]
      /\ xwm /\ vida[w] = "retirada"
  BY <1>0, Casa DEF Fo!DestroyedWindow, Estados
<1>3. UNCHANGED <<asociada, conocida, menu, enMenu, xwm>>
  BY DEF Fo!DestroyedWindow
<1>a. w \notin Fo!EnPila /\ w \notin EnDock
  BY <1>0, <1>2 DEF FocoInv, Sitio, EnElDock
<1>4. /\ pilaFo' \in Seq(Fo!Ventanas) /\ Ninguna(pilaFo)' /\ Fo!EnPila' = Fo!EnPila
      /\ activas' \subseteq Fo!Ventanas /\ foco' \in Fo!Ventanas \cup {NoHay} /\ Activa' /\ Fo!FocoVivoMientrasHayX'
  <2>1. Fo!Refocalizar(pilaFo, NoHay)
    BY <1>1 DEF Fo!DestroyedWindow
  <2>2. \A u \in Fo!ToSet(pilaFo) : vida'[u] # "retirada"
    BY <1>2, Casa DEF FocoInv, Sitio
  <2>. QED BY <2>1, <2>2, Casa, RefocalizarBien
<1>5. /\ minimizando' \in Seq(Fo!Ventanas) /\ minimizadas' \in Seq(Fo!Ventanas) /\ Len(minimizando)' <= 1
      /\ Yendo' = {} /\ EnDock' = EnDock \cap EnPie(vida') /\ minimizando' = <<>>
      /\ dock' = ((Fo!EnPila' \cap EnPie(vida')) \cup EnDock') \cap conocida'
  <2>1. Fo!ActualizarDock(pilaFo) /\ Len(minimizando) <= 1
    BY DEF Fo!DestroyedWindow, FocoInv, TiposFoco
  <2>. QED BY <1>1, <1>4, <2>1, Casa, DockAlDia
<1>6. EnAlgunSitio'
  BY <1>0, <1>2, <1>4, <1>5 DEF FocoInv, EnAlgunSitio, EnPie
<1>7. Fo!DockVeraz' /\ dock' \subseteq conocida'
  BY <1>5, <1>6, DockBien
<1>8. TiposFoco'
  BY <1>1, <1>2, <1>3, <1>4, <1>5, <1>7 DEF FocoInv, TiposFoco
<1>9. Sitio' /\ SinX' /\ EnElDock' /\ Yendose'
  BY <1>0, <1>2, <1>3, <1>4, <1>5, <1>a, Casa DEF FocoInv, Sitio, SinX, EnElDock, Yendose
<1>10. DelMenu' /\ Fo!FocoNoSeVa'
  BY <1>1, <1>5 DEF DelMenu, Fo!FocoNoSeVa, Yendo
<1>. QED BY <1>4, <1>6, <1>7, <1>8, <1>9, <1>10 DEF FocoInv

\* A window of X11 is withdrawn.
LEMMA UnmappedWindowP == ASSUME Calma, FocoInv, NEW w \in X11 \cup Menudas, Fo!UnmappedWindow(w) PROVE FocoInv'
<1>0. w \in Fo!Ventanas /\ Fo!DeX(w)
  BY FocoAssumption DEF Fo!Ventanas, Fo!DeX
<1>1. minimizando = <<>> /\ Yendo = {} /\ menu' = NoHay
  BY EnCalma DEF Fo!UnmappedWindow, Fo!CierraMenu, Fo!MenuSin
<1>2. /\ vida' \in [Fo!Ventanas -> Estados] /\ vida'[w] \in {"no", "retirada"}
        /\ \A u \in Fo!Ventanas \ {w} : vida'[u] = vida[u]
      /\ xwm /\ w \in Fo!EnPila
  BY <1>0, Casa DEF Fo!UnmappedWindow, Estados, Calma
<1>3. UNCHANGED <<conocida, xwm>> /\ asociada' = asociada \ {w}
  BY DEF Fo!UnmappedWindow
<1>a. /\ Fo!Sin(pilaFo, w) \in Seq(Fo!Ventanas) /\ Fo!ToSet(Fo!Sin(pilaFo, w)) = Fo!EnPila \ {w}
        /\ Ninguna(Fo!Sin(pilaFo, w)) /\ w \notin EnDock
  BY <1>2, Casa, DeSin DEF FocoInv, EnElDock
<1>4. /\ pilaFo' \in Seq(Fo!Ventanas) /\ Ninguna(pilaFo)' /\ Fo!EnPila' = Fo!EnPila \ {w}
      /\ activas' \subseteq Fo!Ventanas /\ foco' \in Fo!Ventanas \cup {NoHay} /\ Activa' /\ Fo!FocoVivoMientrasHayX'
  <2>1. Fo!Refocalizar(Fo!Sin(pilaFo, w), NoHay)
    BY <1>1 DEF Fo!UnmappedWindow
  <2>2. \A u \in Fo!ToSet(Fo!Sin(pilaFo, w)) : vida'[u] # "retirada"
    BY <1>2, <1>a, Casa DEF FocoInv, Sitio
  <2>. QED BY <1>a, <2>1, <2>2, Casa, RefocalizarBien
<1>5. /\ minimizando' \in Seq(Fo!Ventanas) /\ minimizadas' \in Seq(Fo!Ventanas) /\ Len(minimizando)' <= 1
      /\ Yendo' = {} /\ EnDock' = EnDock \cap EnPie(vida') /\ minimizando' = <<>>
      /\ dock' = ((Fo!EnPila' \cap EnPie(vida')) \cup EnDock') \cap conocida'
  <2>1. Fo!ActualizarDock(Fo!Sin(pilaFo, w)) /\ Len(minimizando) <= 1
    BY DEF Fo!UnmappedWindow, FocoInv, TiposFoco
  <2>. QED BY <1>1, <1>4, <1>a, <2>1, Casa, DockAlDia
<1>6. EnAlgunSitio'
  BY <1>0, <1>2, <1>4, <1>5 DEF FocoInv, EnAlgunSitio, EnPie
<1>7. Fo!DockVeraz' /\ dock' \subseteq conocida'
  BY <1>5, <1>6, DockBien
<1>8. TiposFoco'
  <2>1. enMenu' \in BOOLEAN
    BY Zenon DEF Fo!UnmappedWindow, Fo!CierraMenu
  <2>2. asociada' \subseteq Fo!Ventanas
    BY <1>3 DEF FocoInv, TiposFoco
  <2>. QED BY <1>1, <1>2, <1>3, <1>4, <1>5, <1>7, <2>1, <2>2 DEF FocoInv, TiposFoco
<1>9. Sitio' /\ SinX' /\ EnElDock' /\ Yendose'
  BY <1>0, <1>2, <1>3, <1>4, <1>5, <1>a, Casa DEF FocoInv, Sitio, SinX, EnElDock, Yendose
<1>10. DelMenu' /\ Fo!FocoNoSeVa'
  BY <1>1, <1>5 DEF DelMenu, Fo!FocoNoSeVa, Yendo
<1>. QED BY <1>4, <1>6, <1>7, <1>8, <1>9, <1>10 DEF FocoInv

\* A window of X11 asks to be mapped.
LEMMA MapWindowRequestP == ASSUME Calma, FocoInv, NEW w \in X11, Fo!MapWindowRequest(w) PROVE FocoInv'
<1>0. w \in Fo!Ventanas /\ Fo!DeX(w) /\ w \notin Menudas
  BY FocoAssumption DEF Fo!Ventanas, Fo!DeX
<1>1. vida[w] \in {"no", "retirada"} /\ vida' = [vida EXCEPT ![w] = "nueva"]
        /\ pilaFo' = Append(pilaFo, w) /\ xwm
  BY DEF Fo!MapWindowRequest
<1>2. w \notin Fo!EnPila /\ w \notin EnDock /\ w \notin Yendo /\ foco # w
  BY <1>0, <1>1, Casa DEF FocoInv, Sitio, EnElDock, Yendose, Fo!FocoVivoMientrasHayX, Fo!FocoVivo
<1>3. pilaFo' \in Seq(Fo!Ventanas) /\ Fo!ToSet(pilaFo') = Fo!EnPila \cup {w} /\ Ninguna(pilaFo')
        /\ Fo!EnPila' = Fo!EnPila \cup {w}
  BY <1>0, <1>1, <1>2, Casa, DeAppend DEF Fo!EnPila
<1>4. /\ minimizando' \in Seq(Fo!Ventanas) /\ minimizadas' \in Seq(Fo!Ventanas) /\ Len(minimizando)' <= 1
      /\ Yendo' = Yendo \cap EnPie(vida') /\ EnDock' = EnDock \cap EnPie(vida')
      /\ minimizando = <<>> => minimizando' = <<>>
      /\ dock' = ((Fo!EnPila' \cap EnPie(vida')) \cup EnDock') \cap conocida'
  <2>1. Fo!ActualizarDock(pilaFo') /\ Len(minimizando) <= 1
    BY DEF Fo!MapWindowRequest, FocoInv, TiposFoco
  <2>. QED BY <1>3, <2>1, Casa, DockAlDia
<1>5. /\ vida' \in [Fo!Ventanas -> Estados] /\ vida'[w] = "nueva"
        /\ \A u \in Fo!Ventanas \ {w} : vida'[u] = vida[u]
  BY <1>0, <1>1, Casa DEF Estados
<1>6. EnAlgunSitio'
  BY <1>3, <1>4, <1>5 DEF FocoInv, EnAlgunSitio, EnPie
<1>7. Fo!DockVeraz' /\ dock' \subseteq conocida'
  BY <1>4, <1>6, DockBien
<1>8. TiposFoco'
  <2>1. Ninguna(pilaFo)'
    BY <1>3 DEF Ninguna
  <2>. QED BY <1>0, <1>3, <1>4, <1>5, <1>7, <2>1 DEF Fo!MapWindowRequest, FocoInv, TiposFoco
<1>9. Sitio' /\ SinX' /\ EnElDock' /\ Yendose'
  BY <1>0, <1>1, <1>2, <1>3, <1>4, <1>5, Casa DEF Fo!MapWindowRequest, FocoInv, Sitio, SinX, EnElDock, Yendose
<1>10. Activa' /\ Fo!FocoVivoMientrasHayX' /\ Fo!FocoNoSeVa'
  BY <1>0, <1>2, <1>3, <1>4, <1>5, Casa DEF Fo!MapWindowRequest, FocoInv, Activa, Fo!FocoVivoMientrasHayX, Fo!FocoVivo, Fo!FocoNoSeVa, Yendo
<1>11. DelMenu'
  BY <1>4 DEF Fo!MapWindowRequest, FocoInv, DelMenu
<1>. QED BY <1>6, <1>7, <1>8, <1>9, <1>10, <1>11 DEF FocoInv

\* A window of X11 gets its surface.
LEMMA SurfaceAssociatedP == ASSUME Calma, FocoInv, NEW w \in X11 \cup Menudas, Fo!SurfaceAssociated(w) PROVE FocoInv'
<1>0. w \in Fo!Ventanas /\ Fo!DeX(w)
  BY DEF Fo!Ventanas, Fo!DeX
<1>1. minimizando = <<>> /\ Yendo = {} /\ menu = NoHay /\ xwm
  BY EnCalma DEF Fo!SurfaceAssociated
<1>2. vida[w] \in {"nueva", "viva"} /\ vida' = vida
  BY DEF Fo!SurfaceAssociated
<1>3. UNCHANGED <<minimizando, minimizadas, conocida, menu, enMenu, xwm, dock>>
  BY DEF Fo!SurfaceAssociated
<1>4. asociada' \subseteq Fo!Ventanas /\ vida' \in [Fo!Ventanas -> Estados]
        /\ \A u \in Fo!Ventanas \ {w} : vida'[u] = vida[u]
  BY <1>0, <1>2, Casa DEF Fo!SurfaceAssociated, FocoInv, TiposFoco
<1>5. CASE w \in activas /\ w \in Fo!EnPila
  <2>1. Fo!Enfocar(w, pilaFo, menu)
    BY <1>5 DEF Fo!SurfaceAssociated
  <2>. QED BY <1>1, <1>2, <1>3, <1>4, <1>5, <2>1, EnfocarP
<1>6. CASE ~(w \in activas /\ w \in Fo!EnPila)
  <2>1. UNCHANGED <<vida, pilaFo, activas, foco>> /\ Fo!EnPila' = Fo!EnPila /\ Yendo' = Yendo
          /\ EnDock' = EnDock
    BY <1>2, <1>3, <1>6 DEF Fo!SurfaceAssociated, Fo!EnPila, Yendo, EnDock
  <2>2. Ninguna(pilaFo)'
    BY <2>1, Casa DEF Ninguna
  <2>3. TiposFoco'
    BY <1>3, <1>4, <2>1, <2>2 DEF FocoInv, TiposFoco
  <2>4. Sitio' /\ SinX' /\ EnElDock' /\ Yendose' /\ EnAlgunSitio'
    BY <1>1, <1>3, <2>1 DEF FocoInv, Sitio, SinX, EnElDock, Yendose, EnAlgunSitio
  <2>5. Activa' /\ Fo!FocoVivoMientrasHayX' /\ Fo!FocoNoSeVa' /\ DelMenu' /\ Fo!DockVeraz'
    BY <1>1, <1>3, <2>1 DEF FocoInv, Activa, Fo!FocoVivoMientrasHayX, Fo!FocoVivo, Fo!FocoNoSeVa, DelMenu, Fo!DockVeraz
  <2>. QED BY <2>3, <2>4, <2>5 DEF FocoInv
<1>. QED BY <1>5, <1>6

\* A window of X11 that asks nobody.
LEMMA MappedOverrideRedirectP == ASSUME Calma, FocoInv, NEW w \in Menudas, Fo!MappedOverrideRedirect(w) PROVE FocoInv'
<1>0. w \in Fo!Ventanas /\ Fo!DeX(w)
  BY DEF Fo!Ventanas, Fo!DeX
<1>1. /\ vida[w] = "no" /\ vida' = [vida EXCEPT ![w] = "viva"] /\ pilaFo' = Append(pilaFo, w) /\ xwm
        /\ activas' = activas \ {w}
      /\ UNCHANGED <<minimizando, minimizadas, foco, asociada, conocida, menu, enMenu, xwm, dock>>
  BY DEF Fo!MappedOverrideRedirect
<1>2. w \notin Fo!EnPila /\ w \notin EnDock /\ w \notin Yendo /\ foco # w
  BY <1>0, <1>1, Casa DEF FocoInv, Sitio, EnElDock, Yendose, Fo!FocoVivoMientrasHayX, Fo!FocoVivo
<1>3. pilaFo' \in Seq(Fo!Ventanas) /\ Fo!ToSet(pilaFo') = Fo!EnPila \cup {w} /\ Ninguna(pilaFo')
        /\ Fo!EnPila' = Fo!EnPila \cup {w}
  BY <1>0, <1>1, <1>2, Casa, DeAppend DEF Fo!EnPila
<1>4. Yendo' = Yendo /\ EnDock' = EnDock
  BY <1>1 DEF Yendo, EnDock
<1>5. /\ vida' \in [Fo!Ventanas -> Estados] /\ vida'[w] = "viva"
        /\ \A u \in Fo!Ventanas \ {w} : vida'[u] = vida[u]
  BY <1>0, <1>1, Casa DEF Estados
<1>6. EnAlgunSitio' /\ Fo!DockVeraz'
  BY <1>1, <1>3, <1>4, <1>5 DEF FocoInv, EnAlgunSitio, Fo!DockVeraz
<1>8. TiposFoco'
  <2>1. Ninguna(pilaFo)'
    BY <1>3 DEF Ninguna
  <2>. QED BY <1>1, <1>3, <1>5, <2>1 DEF FocoInv, TiposFoco
<1>9. Sitio' /\ SinX' /\ EnElDock' /\ Yendose'
  BY <1>0, <1>1, <1>2, <1>3, <1>4, <1>5, Casa DEF FocoInv, Sitio, SinX, EnElDock, Yendose
<1>10. Activa' /\ Fo!FocoVivoMientrasHayX' /\ Fo!FocoNoSeVa'
  BY <1>0, <1>1, <1>2, <1>3, <1>4, <1>5, Casa DEF FocoInv, Activa, Fo!FocoVivoMientrasHayX, Fo!FocoVivo, Fo!FocoNoSeVa, Yendo
<1>11. DelMenu'
  BY <1>1 DEF FocoInv, DelMenu
<1>. QED BY <1>6, <1>8, <1>9, <1>10, <1>11 DEF FocoInv

\* A window leaves for the dock.
LEMMA MinimizarP == ASSUME Calma, FocoInv, NEW w \in Fo!Ventanas, Fo!Minimizar(w) PROVE FocoInv'
<1>1. minimizando = <<>> /\ Yendo = {} /\ menu = NoHay /\ \A u \in Fo!Ventanas : vida[u] # "muerta"
  BY EnCalma DEF Fo!Minimizar, Fo!Quieto
<1>2. w \in Fo!EnPila /\ w \notin Menudas /\ vida[w] = "viva"
        /\ UNCHANGED <<vida, asociada, conocida, menu, enMenu, xwm>>
  BY DEF Fo!Minimizar
<1>. DEFINE otras == Fo!Sin(pilaFo, w)
<1>3. otras \in Seq(Fo!Ventanas) /\ Fo!ToSet(otras) = Fo!EnPila \ {w}
  BY Casa, DeSin
<1>4. /\ pilaFo' \in Seq(Fo!Ventanas) /\ Ninguna(pilaFo)' /\ Fo!EnPila' = Fo!EnPila /\ foco' # w
      /\ activas' \subseteq Fo!Ventanas /\ foco' \in Fo!Ventanas \cup {NoHay} /\ Activa' /\ Fo!FocoVivoMientrasHayX'
  <2>1. CASE otras = <<>>
    <3>1. foco' = NoHay /\ pilaFo' = pilaFo /\ activas' = activas
      BY <1>1, <2>1 DEF Fo!Minimizar, Fo!QuitarTeclado
    <3>2. Fo!EnPila' = Fo!EnPila /\ Ninguna(pilaFo)' /\ Fo!EnPila' \subseteq Fo!Ventanas
      BY <3>1, Casa DEF Fo!EnPila, Ninguna
    <3>. QED BY <3>1, <3>2, Casa, SinTeclado
  <2>2. CASE otras # <<>>
    <3>. DEFINE u == otras[Len(otras)]
    <3>1. Fo!Enfocar(otras[Len(otras)], pilaFo, NoHay)
      BY <1>1, <2>2 DEF Fo!Minimizar
    <3>2. otras[Len(otras)] \in Fo!ToSet(otras)
      BY <1>3, <2>2, DeUltima
    <3>. HIDE DEF otras, u
    <3>3. u \in Fo!EnPila /\ u # w /\ u \in Fo!Ventanas /\ Fo!Enfocar(u, pilaFo, NoHay)
      BY <1>3, <3>1, <3>2, Casa DEF u
    <3>4. (~Fo!DeX(u) \/ u \in asociada') => vida'[u] \in {"nueva", "viva"}
      BY <1>1, <1>2, <3>3 DEF FocoInv, Sitio, SinX
    <3>5. Fo!ToSet(pilaFo) \cup {u} = Fo!EnPila
      BY <3>3, Casa
    <3>6. /\ pilaFo' \in Seq(Fo!Ventanas) /\ Ninguna(pilaFo)' /\ Fo!EnPila' = Fo!EnPila
          /\ activas' \subseteq Fo!Ventanas /\ foco' \in Fo!Ventanas \cup {NoHay} /\ Activa' /\ Fo!FocoVivoMientrasHayX'
      BY <3>3, <3>4, <3>5, Casa, EnfocadaBien
    <3>7. foco' \in {u, NoHay}
      BY <3>3 DEF Fo!Enfocar, Fo!DarTeclado
    <3>. QED BY <1>2, <3>3, <3>6, <3>7, Casa
  <2>. QED BY <2>1, <2>2
<1>5. /\ minimizando' \in Seq(Fo!Ventanas) /\ minimizadas' \in Seq(Fo!Ventanas) /\ Len(minimizando)' <= 1
      /\ Yendo' = {w} /\ EnDock' = EnDock \cap EnPie(vida')
      /\ dock' = ((Fo!EnPila' \cap EnPie(vida')) \cup EnDock') \cap conocida'
  <2>1. minimizando' = Append(Fo!Viven(minimizando, vida), w) /\ minimizadas' = Fo!Viven(minimizadas, vida)
    BY DEF Fo!Minimizar
  <2>2. Fo!Viven(minimizando, vida) = <<>> /\ Fo!Viven(minimizando, vida) \in Seq(Fo!Ventanas)
    <3>1. Fo!Viven(minimizando, vida) \in Seq(Fo!Ventanas)
            /\ Fo!ToSet(Fo!Viven(minimizando, vida)) = Fo!ToSet(minimizando) \cap EnPie(vida)
      BY Casa, DeViven
    <3>2. Fo!ToSet(minimizando) = {}
      BY <1>1 DEF Yendo
    <3>. QED BY <3>1, <3>2, DeSeq
  <2>3. minimizando' = <<w>> /\ w \in Fo!Ventanas
    BY <1>2, <2>1, <2>2, Casa
  <2>4. minimizando' \in Seq(Fo!Ventanas) /\ Len(minimizando') = 1 /\ Fo!ToSet(minimizando') = {w}
    BY <2>3 DEF Fo!ToSet
  <2>5. minimizadas' \in Seq(Fo!Ventanas) /\ Fo!ToSet(minimizadas') = Fo!ToSet(minimizadas) \cap EnPie(vida)
    BY <2>1, Casa, DeViven
  <2>6. Fo!ToSet(Fo!Viven(pilaFo, vida')) = Fo!EnPila \cap EnPie(vida')
    BY Casa, DeViven
  <2>7. dock' = (Fo!ToSet(Fo!Viven(pilaFo, vida')) \cup Fo!ToSet(minimizadas')) \cap conocida
    BY DEF Fo!Minimizar, Fo!Cuenta
  <2>8. vida' = vida /\ conocida' = conocida /\ Fo!ToSet(minimizadas') = EnDock'
          /\ EnDock = Fo!ToSet(minimizadas) /\ Yendo' = Fo!ToSet(minimizando')
    BY <1>2 DEF EnDock, Yendo
  <2>. QED BY <1>4, <2>4, <2>5, <2>6, <2>7, <2>8
<1>. HIDE DEF otras
<1>6. EnAlgunSitio'
  BY <1>2, <1>4, <1>5 DEF FocoInv, EnAlgunSitio, EnPie
<1>7. Fo!DockVeraz' /\ dock' \subseteq conocida'
  BY <1>5, <1>6, DockBien
<1>8. TiposFoco'
  BY <1>2, <1>4, <1>5, <1>7 DEF FocoInv, TiposFoco
<1>9. Sitio' /\ SinX' /\ EnElDock' /\ Yendose'
  BY <1>2, <1>4, <1>5, Casa DEF FocoInv, Sitio, SinX, EnElDock, Yendose
<1>10. DelMenu' /\ Fo!FocoNoSeVa'
  BY <1>1, <1>2, <1>4, <1>5 DEF DelMenu, Fo!FocoNoSeVa, Yendo
<1>. QED BY <1>4, <1>6, <1>7, <1>8, <1>9, <1>10 DEF FocoInv

\* It comes back.
LEMMA RestaurarMinimizadaP == ASSUME Calma, FocoInv, NEW w \in Fo!Ventanas, Fo!RestaurarMinimizada(w) PROVE FocoInv'
<1>1. minimizando = <<>> /\ Yendo = {} /\ menu = NoHay
  BY EnCalma DEF Fo!RestaurarMinimizada, Fo!Quieto
<1>2. /\ w \in EnDock /\ UNCHANGED <<vida, minimizando, asociada, conocida, menu, enMenu, xwm, dock>>
      /\ minimizadas' = Fo!Sin(minimizadas, w)
  BY DEF Fo!RestaurarMinimizada, EnDock
<1>3. w \notin Fo!EnPila /\ w \notin Menudas /\ (xwm \/ ~Fo!DeX(w) => vida[w] = "viva")
  BY <1>2 DEF FocoInv, EnElDock
<1>4. /\ pilaFo' \in Seq(Fo!Ventanas) /\ Ninguna(pilaFo)' /\ Fo!EnPila' = Fo!EnPila \cup {w}
      /\ activas' \subseteq Fo!Ventanas /\ foco' \in Fo!Ventanas \cup {NoHay} /\ Activa' /\ Fo!FocoVivoMientrasHayX'
  <2>1. Append(pilaFo, w) \in Seq(Fo!Ventanas) /\ Ninguna(Append(pilaFo, w))
          /\ Fo!ToSet(Append(pilaFo, w)) = Fo!EnPila \cup {w}
    BY <1>3, Casa, DeAppend
  <2>2. Fo!Enfocar(w, Append(pilaFo, w), NoHay)
    BY <1>1 DEF Fo!RestaurarMinimizada
  <2>3. (~Fo!DeX(w) \/ w \in asociada') => vida'[w] \in {"nueva", "viva"}
    BY <1>2, <1>3 DEF FocoInv, SinX
  <2>4. Fo!ToSet(Append(pilaFo, w)) \cup {w} = Fo!EnPila \cup {w}
    BY <2>1
  <2>. QED BY <2>1, <2>2, <2>3, <2>4, Casa, EnfocadaBien
<1>5. minimizadas' \in Seq(Fo!Ventanas) /\ EnDock' = EnDock \ {w} /\ Yendo' = {}
  <2>1. Fo!Sin(minimizadas, w) \in Seq(Fo!Ventanas)
          /\ Fo!ToSet(Fo!Sin(minimizadas, w)) = Fo!ToSet(minimizadas) \ {w}
    BY Casa, DeSin
  <2>. QED BY <1>1, <1>2, <2>1 DEF EnDock, Yendo
<1>6. EnAlgunSitio' /\ Fo!DockVeraz'
  BY <1>2, <1>4, <1>5 DEF FocoInv, EnAlgunSitio, Fo!DockVeraz
<1>8. TiposFoco'
  BY <1>2, <1>4, <1>5 DEF FocoInv, TiposFoco
<1>9. Sitio' /\ SinX' /\ EnElDock' /\ Yendose'
  BY <1>2, <1>3, <1>4, <1>5, Casa DEF FocoInv, Sitio, SinX, EnElDock, Yendose, Estados
<1>10. DelMenu' /\ Fo!FocoNoSeVa'
  BY <1>1, <1>2, <1>5 DEF DelMenu, Fo!FocoNoSeVa, Yendo
<1>. QED BY <1>4, <1>6, <1>8, <1>9, <1>10 DEF FocoInv

\* It arrives there.
LEMMA AnimarMinimizadosP == ASSUME Calma, FocoInv, Fo!AnimarMinimizados PROVE FocoInv'
<1>1. UNCHANGED <<vida, activas, foco, asociada, conocida, menu, enMenu, xwm>> /\ minimizando # <<>>
  BY DEF Fo!AnimarMinimizados
<1>. DEFINE h == Head(minimizando)
<1>2. h \in Fo!Ventanas /\ Yendo = {h} /\ Tail(minimizando) = <<>>
  <2>1. Len(minimizando) <= 1 /\ Len(minimizando) \in Nat /\ Len(minimizando) # 0
          /\ minimizando \in Seq(Fo!Ventanas)
    BY <1>1, Casa DEF FocoInv, TiposFoco
  <2>a. Len(minimizando) = 1
    <3>. DEFINE n == Len(minimizando)
    <3>1. n \in Nat /\ n <= 1 /\ n # 0
      BY <2>1
    <3>. HIDE DEF n
    <3>2. n = 1
      BY <3>1
    <3>. QED BY <3>2 DEF n
  <2>2. DOMAIN minimizando = 1..Len(minimizando) /\ Len(minimizando) = 1
    BY <2>1, <2>a
  <2>3. DOMAIN minimizando = {1} /\ h = minimizando[1]
    BY <2>1, <2>2
  <2>4. Yendo = {h}
    BY <2>3 DEF Yendo, Fo!ToSet
  <2>5. Tail(minimizando) \in Seq(Fo!Ventanas) /\ Len(Tail(minimizando)) = Len(minimizando) - 1
    BY <1>1, <2>1
  <2>6. Len(Tail(minimizando)) = 0
    BY <2>5, <2>a
  <2>7. Tail(minimizando) = <<>>
    <3>. DEFINE t == Tail(minimizando)
    <3>1. t \in Seq(Fo!Ventanas) /\ Len(t) = 0
      BY <2>5, <2>6
    <3>. HIDE DEF t
    <3>2. t = <<>>
      BY <3>1
    <3>. QED BY <3>2 DEF t
  <2>8. h \in Yendo
    BY <2>4
  <2>. QED BY <2>4, <2>7, <2>8, Casa
<1>. HIDE DEF h
<1>3. pilaFo' \in Seq(Fo!Ventanas) /\ Ninguna(pilaFo)' /\ Fo!EnPila' = Fo!EnPila \ {h}
  <2>1. pilaFo' = Fo!Sin(pilaFo, h)
    BY DEF Fo!AnimarMinimizados, h
  <2>2. pilaFo' \in Seq(Fo!Ventanas) /\ Ninguna(pilaFo') /\ Fo!ToSet(pilaFo') = Fo!EnPila \ {h}
    BY <2>1, Casa, DeSin
  <2>. QED BY <2>2 DEF Fo!EnPila, Ninguna
<1>4. minimizando' \in Seq(Fo!Ventanas) /\ minimizando' = <<>> /\ Yendo' = {} /\ Len(minimizando)' <= 1
  <2>1. minimizando' = Fo!Viven(<<>>, vida)
    BY <1>2 DEF Fo!AnimarMinimizados
  <2>2. <<>> \in Seq(Fo!Ventanas) /\ Fo!ToSet(<<>>) = {}
    BY DeVacia
  <2>3. minimizando' \in Seq(Fo!Ventanas) /\ Fo!ToSet(minimizando') = {}
    BY <2>1, <2>2, DeViven
  <2>4. minimizando' = <<>>
    BY <2>3, DeSeq
  <2>. QED BY <2>3, <2>4 DEF Yendo
<1>5. minimizadas' \in Seq(Fo!Ventanas) /\ EnDock' = (EnDock \cup {h}) \cap EnPie(vida')
  <2>1. minimizadas' = Fo!Viven(Append(minimizadas, h), vida)
    BY DEF Fo!AnimarMinimizados, h
  <2>2. Append(minimizadas, h) \in Seq(Fo!Ventanas)
          /\ Fo!ToSet(Append(minimizadas, h)) = Fo!ToSet(minimizadas) \cup {h}
    BY <1>2, Casa, DeAppend
  <2>3. minimizadas' \in Seq(Fo!Ventanas) /\ Fo!ToSet(minimizadas') = (Fo!ToSet(minimizadas) \cup {h}) \cap EnPie(vida)
    BY <2>1, <2>2, DeViven
  <2>. QED BY <1>1, <2>3 DEF EnDock
<1>6. dock' = ((Fo!EnPila' \cap EnPie(vida')) \cup EnDock') \cap conocida'
  <2>1. dock' = (Fo!ToSet(Fo!Viven(pilaFo', vida)) \cup Fo!ToSet(minimizadas')) \cap conocida
    BY DEF Fo!AnimarMinimizados
  <2>2. Fo!ToSet(Fo!Viven(pilaFo', vida)) = Fo!ToSet(pilaFo') \cap EnPie(vida)
    BY <1>3, DeViven
  <2>. QED BY <1>1, <2>1, <2>2 DEF Fo!EnPila, EnDock
<1>7. EnAlgunSitio'
  BY <1>1, <1>2, <1>3, <1>5 DEF FocoInv, EnAlgunSitio, EnPie
<1>8. Fo!DockVeraz' /\ dock' \subseteq conocida'
  BY <1>6, <1>7, DockBien
<1>9. TiposFoco'
  BY <1>1, <1>3, <1>4, <1>5, <1>8 DEF FocoInv, TiposFoco
<1>10. Sitio' /\ SinX' /\ EnElDock' /\ Yendose'
  BY <1>1, <1>2, <1>3, <1>4, <1>5, Casa DEF FocoInv, Sitio, SinX, EnElDock, Yendose, EnPie
<1>11. foco # h
  BY <1>2 DEF FocoInv, Fo!FocoNoSeVa, Yendo
<1>12. Activa' /\ Fo!FocoVivoMientrasHayX' /\ Fo!FocoNoSeVa'
  BY <1>1, <1>3, <1>4, <1>11 DEF FocoInv, Activa, Fo!FocoVivoMientrasHayX, Fo!FocoVivo, Fo!FocoNoSeVa, Yendo
<1>13. DelMenu'
  BY <1>1 DEF FocoInv, DelMenu
<1>. QED BY <1>7, <1>8, <1>9, <1>10, <1>12, <1>13 DEF FocoInv

\* The dead are swept.
LEMMA RefreshP == ASSUME FocoInv, Fo!Refresh PROVE FocoInv'
<1>1. /\ UNCHANGED <<minimizando, minimizadas, foco, asociada, conocida, menu, enMenu, xwm, dock>>
      /\ vida' = [w \in Fo!Ventanas |-> IF vida[w] = "muerta" THEN "no" ELSE vida[w]]
      /\ activas' = activas \ {w \in Fo!Ventanas : vida[w] = "muerta"}
  BY DEF Fo!Refresh
<1>2. pilaFo' \in Seq(Fo!Ventanas) /\ Ninguna(pilaFo)' /\ Fo!EnPila' = Fo!EnPila \cap EnPie(vida)
  <2>1. pilaFo' = Fo!Viven(pilaFo, vida)
    BY DEF Fo!Refresh
  <2>2. pilaFo' \in Seq(Fo!Ventanas) /\ Ninguna(pilaFo') /\ Fo!ToSet(pilaFo') = Fo!EnPila \cap EnPie(vida)
    BY <2>1, Casa, DeViven
  <2>. QED BY <2>2 DEF Fo!EnPila, Ninguna
<1>3. vida' \in [Fo!Ventanas -> Estados] /\ \A w \in Fo!Ventanas : vida'[w] = IF vida[w] = "muerta" THEN "no" ELSE vida[w]
  BY <1>1, Casa DEF Estados
<1>4. Yendo' = Yendo /\ EnDock' = EnDock
  BY <1>1 DEF Yendo, EnDock
<1>5. TiposFoco'
  BY <1>1, <1>2, <1>3 DEF FocoInv, TiposFoco
<1>6. Sitio' /\ SinX' /\ EnElDock' /\ Yendose'
  BY <1>1, <1>2, <1>3, <1>4, Casa DEF FocoInv, Sitio, SinX, EnElDock, Yendose, EnPie
<1>7. EnAlgunSitio' /\ Fo!DockVeraz'
  BY <1>1, <1>2, <1>3, <1>4, Casa DEF FocoInv, EnAlgunSitio, Fo!DockVeraz, EnPie
<1>8. Activa' /\ Fo!FocoVivoMientrasHayX' /\ Fo!FocoNoSeVa'
  BY <1>1, <1>2, <1>3, <1>4, Casa DEF FocoInv, Activa, Fo!FocoVivoMientrasHayX, Fo!FocoVivo, Fo!FocoNoSeVa, Yendo, EnPie
<1>9. DelMenu'
  BY <1>1 DEF FocoInv, DelMenu
<1>. QED BY <1>5, <1>6, <1>7, <1>8, <1>9 DEF FocoInv

\* XWayland goes.
LEMMA DisconnectedP == ASSUME FocoInv, Fo!Disconnected PROVE FocoInv'
<1>1. /\ UNCHANGED <<pilaFo, minimizando, minimizadas, activas, foco, conocida, menu, enMenu, dock>>
      /\ vida' = [w \in Fo!Ventanas |-> IF Fo!DeX(w) /\ vida[w] # "no" THEN "muerta" ELSE vida[w]]
      /\ xwm' = FALSE /\ asociada' = {}
  BY DEF Fo!Disconnected
<1>2. Fo!EnPila' = Fo!EnPila /\ Yendo' = Yendo /\ EnDock' = EnDock /\ Ninguna(pilaFo)'
  BY <1>1, Casa DEF Fo!EnPila, Yendo, EnDock, Ninguna
<1>3. vida' \in [Fo!Ventanas -> Estados] /\ \A w \in Fo!Ventanas : vida'[w] = IF Fo!DeX(w)
        /\ vida[w] # "no" THEN "muerta" ELSE vida[w]
  BY <1>1, Casa DEF Estados
<1>5. TiposFoco'
  BY <1>1, <1>2, <1>3 DEF FocoInv, TiposFoco
<1>6. Sitio' /\ SinX' /\ EnElDock' /\ Yendose'
  BY <1>1, <1>2, <1>3, Casa DEF FocoInv, Sitio, SinX, EnElDock, Yendose
<1>7. EnAlgunSitio' /\ Fo!DockVeraz'
  BY <1>1, <1>2, <1>3, Casa DEF FocoInv, EnAlgunSitio, Fo!DockVeraz
<1>8. Activa' /\ Fo!FocoVivoMientrasHayX' /\ Fo!FocoNoSeVa'
  BY <1>1, <1>2, <1>3, Casa DEF FocoInv, Activa, Fo!FocoVivoMientrasHayX, Fo!FocoVivo, Fo!FocoNoSeVa, Yendo
<1>9. DelMenu'
  BY <1>1 DEF FocoInv, DelMenu
<1>. QED BY <1>5, <1>6, <1>7, <1>8, <1>9 DEF FocoInv

\* A press on the desktop.
LEMMA DesenfocarP == ASSUME Calma, FocoInv, Fo!Desenfocar PROVE FocoInv'
<1>1. minimizando = <<>> /\ Yendo = {} /\ menu = NoHay
  BY EnCalma DEF Fo!Desenfocar, Fo!Quieto
<1>2. /\ UNCHANGED <<vida, pilaFo, minimizando, minimizadas, asociada, conocida, menu, enMenu, xwm, dock>>
      /\ foco' = NoHay /\ activas' = activas \ Fo!EnPila
  BY <1>1 DEF Fo!Desenfocar, Fo!QuitarTeclado
<1>3. Fo!EnPila' = Fo!EnPila /\ Yendo' = {} /\ EnDock' = EnDock /\ Ninguna(pilaFo)'
  BY <1>1, <1>2, Casa DEF Fo!EnPila, Yendo, EnDock, Ninguna
<1>4. TiposFoco'
  BY <1>2, <1>3 DEF FocoInv, TiposFoco
<1>5. Sitio' /\ SinX' /\ EnElDock' /\ Yendose' /\ EnAlgunSitio' /\ Fo!DockVeraz'
  BY <1>2, <1>3 DEF FocoInv, Sitio, SinX, EnElDock, Yendose, EnAlgunSitio, Fo!DockVeraz
<1>6. Activa' /\ Fo!FocoVivoMientrasHayX'
  BY <1>2, <1>3, Casa, SinTeclado
<1>7. DelMenu' /\ Fo!FocoNoSeVa'
  BY <1>1, <1>2, <1>3 DEF DelMenu, Fo!FocoNoSeVa, Yendo
<1>. QED BY <1>4, <1>5, <1>6, <1>7 DEF FocoInv

\* A menu comes, takes the keyboard and goes: the keyboard is its window's all along.
LEMMA MenuP ==
  ASSUME FocoInv, UNCHANGED <<vida, pilaFo, minimizando, minimizadas, activas, foco, asociada, conocida, xwm,
          dock>>,
         menu' \in Fo!Ventanas \cup {NoHay}, enMenu' \in BOOLEAN, DelMenu'
  PROVE  FocoInv'
<1>1. Fo!EnPila' = Fo!EnPila /\ Yendo' = Yendo /\ EnDock' = EnDock /\ Ninguna(pilaFo)'
  BY Casa DEF Fo!EnPila, Yendo, EnDock, Ninguna
<1>2. TiposFoco'
  BY <1>1 DEF FocoInv, TiposFoco
<1>3. Sitio' /\ SinX' /\ EnElDock' /\ Yendose' /\ EnAlgunSitio' /\ Fo!DockVeraz'
  BY <1>1 DEF FocoInv, Sitio, SinX, EnElDock, Yendose, EnAlgunSitio, Fo!DockVeraz
<1>4. Activa' /\ Fo!FocoVivoMientrasHayX' /\ Fo!FocoNoSeVa'
  BY <1>1 DEF FocoInv, Activa, Fo!FocoVivoMientrasHayX, Fo!FocoVivo, Fo!FocoNoSeVa, Yendo
<1>. QED BY <1>2, <1>3, <1>4 DEF FocoInv

\* A menu is opened.
LEMMA GrabP == ASSUME Calma, FocoInv, NEW w \in Fo!Ventanas, Fo!Grab(w) PROVE FocoInv'
<1>1. minimizando = <<>>
  BY EnCalma DEF Fo!Grab, Fo!Quieto
<1>2. UNCHANGED <<vida, pilaFo, minimizando, minimizadas, activas, foco, asociada, conocida, xwm, dock>>
        /\ menu' = w /\ foco = w
  BY DEF Fo!Grab
<1>3. DelMenu'
  BY <1>1, <1>2 DEF DelMenu
<1>4. enMenu' \in BOOLEAN
  BY Zenon DEF Fo!Grab
<1>. QED BY <1>2, <1>3, <1>4, MenuP

\* It gets the keyboard.
LEMMA TeclaP == ASSUME FocoInv, Fo!Tecla PROVE FocoInv'
<1>1. UNCHANGED <<vida, pilaFo, minimizando, minimizadas, activas, foco, asociada, conocida, menu, xwm, dock>>
  BY DEF Fo!Tecla
<1>2. DelMenu' /\ menu' \in Fo!Ventanas \cup {NoHay}
  BY <1>1 DEF DelMenu, FocoInv, TiposFoco
<1>3. enMenu' \in BOOLEAN
  BY Zenon DEF Fo!Tecla
<1>. QED BY <1>1, <1>2, <1>3, MenuP

\* It is closed.
LEMMA PopupDestroyedP == ASSUME FocoInv, Fo!PopupDestroyed PROVE FocoInv'
<1>1. UNCHANGED <<vida, pilaFo, minimizando, minimizadas, activas, asociada, conocida, xwm, dock>>
        /\ menu' = NoHay
  BY DEF Fo!PopupDestroyed
<1>2. foco' = foco
  BY DEF Fo!PopupDestroyed, FocoInv, DelMenu
<1>3. DelMenu'
  BY <1>1 DEF DelMenu
<1>4. enMenu' \in BOOLEAN
  BY Zenon DEF Fo!PopupDestroyed
<1>. QED BY <1>1, <1>2, <1>3, <1>4, MenuP

\* A step that changes nothing.
LEMMA FocoQuieto == ASSUME FocoInv, UNCHANGED Fo!vars PROVE FocoInv'
<1>1. UNCHANGED <<vida, pilaFo, minimizando, minimizadas, activas, foco, asociada, conocida, menu, xwm, dock>>
  BY DEF Fo!vars
<1>2. DelMenu' /\ menu' \in Fo!Ventanas \cup {NoHay}
  BY <1>1 DEF DelMenu, FocoInv, TiposFoco
<1>3. enMenu' \in BOOLEAN
  BY Zenon DEF Fo!vars, FocoInv, TiposFoco
<1>. QED BY <1>1, <1>2, <1>3, MenuP

\* Every step of the windows keeps the invariant.
LEMMA FocoPaso == ASSUME Calma, FocoInv, [Fo!Next]_(Fo!vars) PROVE FocoInv'
<1>1. ASSUME NEW w \in Wayland, Fo!NewToplevel(w) \/ Fo!AppIdChanged(w) \/ Fo!Commit(w) \/ Fo!ToplevelDestroyed(w) \/ Fo!RequestActivation(w)
      PROVE FocoInv'
  BY <1>1, NewToplevelP, AppIdChangedP, CommitP, ToplevelDestroyedP, RequestActivationP
<1>2. ASSUME NEW w \in X11, Fo!MapWindowRequest(w) \/ Fo!MapWindowNotify(w) \/ Fo!DestroyedWindow(w)
        PROVE FocoInv'
  BY <1>2, MapWindowRequestP, MapWindowNotifyP, DestroyedWindowP
<1>3. ASSUME NEW w \in X11 \cup Menudas, Fo!SurfaceAssociated(w) \/ Fo!UnmappedWindow(w) PROVE FocoInv'
  BY <1>3, SurfaceAssociatedP, UnmappedWindowP
<1>4. ASSUME NEW w \in Menudas, Fo!MappedOverrideRedirect(w) PROVE FocoInv'
  BY <1>4, MappedOverrideRedirectP
<1>5. ASSUME NEW w \in Fo!Ventanas, Fo!Pulsar(w) \/ Fo!Minimizar(w) \/ Fo!RestaurarMinimizada(w) \/ Fo!Grab(w) PROVE FocoInv'
  BY <1>5, PulsarP, MinimizarP, RestaurarMinimizadaP, GrabP
<1>6. Fo!Refresh \/ Fo!Disconnected \/ Fo!Desenfocar \/ Fo!AnimarMinimizados \/ Fo!Tecla \/ Fo!PopupDestroyed => FocoInv'
  BY RefreshP, DisconnectedP, DesenfocarP, AnimarMinimizadosP, TeclaP, PopupDestroyedP
<1>. QED BY <1>1, <1>2, <1>3, <1>4, <1>5, <1>6, FocoQuieto DEF Fo!Next

-----------------------------------------------------------------------------
\* The machines do not touch each other: a step of the whole is, for the wallpaper, one of its own
\* or none.
LEMMA FondoAparte ==
  ASSUME [Next]_<<parte, deWindowPlaces, deWindowFocus, deDesktopIcons, deScene,
        deWallpaper, dePublish>>,
         parte' = "wallpaper"
  PROVE  parte = "wallpaper" /\ (Wp!Next \/ UNCHANGED Wp!vars)
<1>1. UNCHANGED <<parte, deWallpaper>> => parte' = parte /\ UNCHANGED Wp!vars
  BY DEF deWallpaper, Wp!vars
<1>2. Next => parte' = parte /\ (parte = "wallpaper" => Wp!Next)
  BY DEF Next, EnWindowPlaces, EnWindowFocus, EnDesktopIcons, EnScene, EnWallpaper, EnPublish, Wp!Next
<1>. QED BY <1>1, <1>2

\* And for the publications.
LEMMA PublicacionAparte ==
  ASSUME [Next]_<<parte, deWindowPlaces, deWindowFocus, deDesktopIcons, deScene,
        deWallpaper, dePublish>>,
         parte' = "publish"
  PROVE  parte = "publish" /\ (Pu!Next \/ UNCHANGED Pu!vars)
<1>1. UNCHANGED <<parte, dePublish>> => parte' = parte /\ UNCHANGED Pu!vars
  BY DEF dePublish, Pu!vars
<1>2. Next => parte' = parte /\ (parte = "publish" => Pu!Next)
  BY DEF Next, EnWindowPlaces, EnWindowFocus, EnDesktopIcons, EnScene, EnWallpaper, EnPublish, Pu!Next
<1>. QED BY <1>1, <1>2

\* And for the windows and the keyboard.
LEMMA FocoAparte ==
  ASSUME [Next]_<<parte, deWindowPlaces, deWindowFocus, deDesktopIcons, deScene,
        deWallpaper, dePublish>>,
         parte' = "focus"
  PROVE  parte = "focus" /\ (Fo!Next \/ UNCHANGED Fo!vars)
<1>1. UNCHANGED <<parte, deWindowFocus>> => parte' = parte /\ UNCHANGED Fo!vars
  BY DEF deWindowFocus, Fo!vars
<1>2. Next => parte' = parte /\ (parte = "focus" => Fo!Next)
  BY DEF Next, EnWindowPlaces, EnWindowFocus, EnDesktopIcons, EnScene, EnWallpaper, EnPublish, Fo!Next
<1>. QED BY <1>1, <1>2

\* The keyboard, the stack and the dock agree on the window in use, with any windows of any kind:
\* while XWayland is there, or the window is of Wayland, the keyboard is in one that is alive and in
\* sight, or in none, and it alone is told that it is active; what is in the dock can come back;
\* and the dock has a mark for every window that is open.
THEOREM FocoBien == ASSUME Calma PROVE Spec => []FocoEnOrden
<1>. DEFINE Inv == parte = "focus" => FocoInv
<1>1. Init => Inv
  BY FocoInicial DEF Init
<1>2. Calma /\ Inv /\ [Next]_<<parte, deWindowPlaces, deWindowFocus, deDesktopIcons, deScene,
        deWallpaper, dePublish>>
        => Inv'
  BY FocoPaso, FocoAparte
<1>3. Inv => FocoEnOrden
  BY FocoBasta DEF FocoEnOrden
<1>4. Inv /\ [Next]_<<parte, deWindowPlaces, deWindowFocus, deDesktopIcons, deScene,
        deWallpaper, dePublish>>
        => Inv'
  BY <1>2
<1>. HIDE DEF Inv
<1>. QED BY <1>1, <1>3, <1>4, PTL DEF Spec

\* The two together.
ImagenInv == /\ parte = "wallpaper" => FondoInv
             /\ parte = "publish" => PublicacionInv

\* The wallpaper in sight is the one chosen for the theme there is, an animated one moves, every
\* process is of one wallpaper or of the thread that will drop it; and what the access screen
\* reads is never half a file, and is what there was to publish once the threads are over: with
\* any files, choices and bounds, if a publication starts when the others are over.
THEOREM FondoBien == ASSUME Solapan = FALSE PROVE Spec => []FondoEnOrden
<1>1. Init => ImagenInv
  BY FondoInicial, PublicacionInicial DEF Init, ImagenInv
<1>2. ImagenInv /\ [Next]_<<parte, deWindowPlaces, deWindowFocus, deDesktopIcons, deScene,
        deWallpaper, dePublish>>
        => ImagenInv'
  BY FondoPaso, PublicacionPaso, FondoAparte, PublicacionAparte DEF ImagenInv
<1>3. ImagenInv => FondoEnOrden
  BY FondoBasta, PublicacionBasta DEF ImagenInv, FondoEnOrden
<1>. QED BY <1>1, <1>2, <1>3, PTL DEF Spec
==============================================================================
