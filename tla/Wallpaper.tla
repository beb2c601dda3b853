----------------------------- MODULE Wallpaper ------------------------------
(***************************************************************************)
(* The wallpaper (fondo.rs, and avanzar_animaciones, recargar_fondo and    *)
(* programar_fondo_animado of backend/mod.rs): an image, an animated one   *)
(* or a video that an ffmpeg decodes.  A video of another codec is shown   *)
(* as it is while a second ffmpeg converts it, once, and a thread opens    *)
(* the result.  What leaves stays, with its processes, until it has faded. *)
(***************************************************************************)
EXTENDS Naturals, FiniteSets

CONSTANTS
  Clase,        \* what is in each file: foto, webp, directo, ajeno, nada
  Elecciones,   \* what may be chosen: records [ambos, claro, oscuro], "nada" for none
  DeSerie,      \* the installed wallpaper of each theme
  MaxProcesos,  \* bound: processes at once
  MaxCargas,    \* bound: choices, changes of theme and reloads
  OtraVez       \* whether the settings may be reloaded with nothing changed

VARIABLES
  eleccion, tema,   \* what is chosen, and the theme there is
  recargar,         \* whether the next frame loads the wallpaper
  cargas,           \* counts towards MaxCargas
  fallida,          \* whether the last load found nothing to show
  fondo, saliente,  \* the one in sight and the one that fades
  tick,             \* whether the timer of the next image is armed
  vencido,          \* whether the image in sight has had its time
  pinta,            \* needs_redraw
  reducidos,        \* whether the effects are reduced
  encendida, tapado, activa,  \* the screens, a full screen window, the terminal
  vivos,            \* the processes that run
  sueltos,          \* those of a thread nobody waits for
  convertidos       \* the videos whose conversion is in the cache
vars == <<eleccion, tema, recargar, cargas, fallida, fondo, saliente, tick, vencido, pinta, reducidos,
          encendida, tapado, activa, vivos, sueltos, convertidos>>
pedido == <<eleccion, tema, recargar, cargas, fallida>>
pantalla == <<encendida, tapado, activa>>
procesos == <<fondo, saliente, vivos, sueltos, convertidos>>

\* anim: no, webp, video.  conv: no, convirtiendo, bien, mal, abriendo, abierto, nada.
Ninguno == [ruta |-> "nada", anim |-> "no", proceso |-> 0, conv |-> "no", otro |-> 0]
Quieto(ruta) == [Ninguno EXCEPT !.ruta = ruta]
Video(ruta, proceso) == [Quieto(ruta) EXCEPT !.anim = "video", !.proceso = proceso]

Propio(e, t) == IF t = "claro" THEN e.claro ELSE e.oscuro
Buscar(t) == DeSerie[t]
ParaElTema(e, t) ==
  IF Propio(e, t) # "nada" THEN Propio(e, t) ELSE IF e.ambos # "nada" THEN e.ambos ELSE Buscar(t)
DependeDelTema(e) == e.claro # "nada" \/ e.oscuro # "nada" \/ e.ambos = "nada"

\* Identities for the processes an action starts: three at the most.
Libre(n) == CHOOSE p \in (1..MaxProcesos) \ vivos :
              Cardinality({q \in (1..MaxProcesos) \ vivos : q < p}) = n - 1

\* Slip: only the decoder is killed.
MataSoloAlLector(f) == {f.proceso}
(***************************************************************************)
(* Dropping a wallpaper kills its decoder, its conversion and the video it *)
(* was handed and had not put yet; a thread that is opening one goes on,   *)
(* and drops it when it finds nobody to give it to.                        *)
(***************************************************************************)
Mata(f) == {f.proceso} \cup (IF f.conv \in {"convirtiendo", "abierto"} THEN {f.otro} ELSE {})
Suelta(f) == IF f.conv = "abriendo" THEN {f.otro} ELSE {}
Suyos(f) == {f.proceso, f.otro} \ {0}

\* Whatever the file should be, an ffmpeg may give no image of it, and is killed.
Reproducir(ruta) == {Video(ruta, Libre(2)), Ninguno}
\* With the conversion in the cache that is shown; otherwise the original, with a second
\* ffmpeg after it, if it can be launched.
Convertir(video) == {[video EXCEPT !.conv = "convirtiendo", !.otro = Libre(3)], video}
AbrirVideo(ruta) ==
  IF Clase[ruta] = "directo" \/ ruta \in convertidos THEN Reproducir(ruta)
  ELSE {Ninguno} \cup Convertir(Video(ruta, Libre(2)))
\* Fondo::cargar.
Abiertos(ruta) ==
  CASE Clase[ruta] = "foto" -> {Quieto(ruta)}
    [] Clase[ruta] = "webp" -> {[Quieto(ruta) EXCEPT !.anim = "webp"]}
    [] Clase[ruta] \in {"directo", "ajeno"} -> AbrirVideo(ruta)
    [] OTHER -> {Ninguno}

\* relevo: one step after the conversion.  The result is renamed if it ended well.
Seguida(f) ==
  CASE f.conv = "bien" -> {[f EXCEPT !.conv = "abriendo", !.otro = Libre(1)], [f EXCEPT !.conv = "no"]}
    [] f.conv \in {"mal", "nada"} -> {[f EXCEPT !.conv = "no"]}
    [] OTHER -> {f}
\* Animacion::avanzar: the converted one takes its place at once, with no other image
\* read; otherwise there is an image, or not yet, or no more.
Pasos(f) ==
  IF f.conv = "abierto" THEN {[antes |-> f, queda |-> Video(f.ruta, f.otro), mata |-> {f.proceso}, suelta |-> {}]}
  ELSE UNION {{[antes |-> g, queda |-> g, mata |-> {}, suelta |-> {}],
               [antes |-> g, queda |-> Quieto(f.ruta), mata |-> Mata(g), suelta |-> Suelta(g)]}
              : g \in Seguida(f)}
SinPaso(f) == {[antes |-> f, queda |-> f, mata |-> {}, suelta |-> {}]}

HayPlazo(f) == f.anim # "no" /\ ~reducidos
Visible == encendida /\ ~tapado

Init ==
  /\ eleccion \in Elecciones /\ tema \in {"claro", "oscuro"} /\ recargar = TRUE /\ cargas = 0
  /\ fallida = FALSE /\ fondo = Ninguno /\ saliente = Ninguno /\ tick = FALSE /\ vencido = FALSE
  /\ pinta = TRUE /\ reducidos \in BOOLEAN /\ encendida = TRUE /\ tapado = FALSE /\ activa = TRUE
  /\ vivos = {} /\ sueltos = {} /\ convertidos = {}

(***************************************************************************)
(* A frame: avanzar_animaciones, then recargar_fondo, and the scene, that  *)
(* ends the fade when it has had its time.                                 *)
(***************************************************************************)
Avances == IF HayPlazo(fondo) /\ vencido /\ Visible THEN Pasos(fondo) ELSE SinPaso(fondo)
Cargas == IF recargar THEN Abiertos(ParaElTema(eleccion, tema)) ELSE {Ninguno}
\* With nothing to load what there was stays; otherwise it fades, and if something was
\* fading already it is dropped.
Poner(paso, nuevo) ==
  IF nuevo = Ninguno
  THEN /\ fondo' = paso.queda
       /\ saliente' \in {saliente, Ninguno}
       /\ tick' = IF Visible /\ ~tick THEN HayPlazo(paso.queda) ELSE tick
       /\ vencido' = IF HayPlazo(paso.queda) /\ paso \notin SinPaso(fondo) THEN FALSE ELSE vencido
  ELSE /\ fondo' = nuevo
       /\ saliente' \in {paso.queda, Ninguno}
       /\ tick' = HayPlazo(nuevo) /\ vencido' = FALSE
Cuadro ==
  /\ activa /\ encendida /\ (pinta \/ saliente # Ninguno)
  /\ Cardinality(vivos) + 3 <= MaxProcesos
  /\ \E paso \in Avances, nuevo \in Cargas :
       /\ Poner(paso, nuevo)
       /\ LET idos == (IF nuevo # Ninguno /\ saliente # Ninguno THEN {saliente} ELSE {})
                        \cup (IF saliente' = Ninguno
                              THEN {IF nuevo = Ninguno THEN saliente ELSE paso.queda} ELSE {})
          IN /\ vivos' = (vivos \cup Suyos(paso.antes) \cup Suyos(nuevo))
                           \ (paso.mata \cup UNION {Mata(f) : f \in idos})
             /\ sueltos' = sueltos \cup paso.suelta \cup UNION {Suelta(f) : f \in idos}
       /\ convertidos' = convertidos \cup (IF paso.antes.conv = "abriendo" THEN {fondo.ruta} ELSE {})
       /\ fallida' = IF recargar THEN nuevo = Ninguno ELSE fallida
  /\ recargar' = FALSE /\ pinta' = FALSE
  /\ UNCHANGED <<eleccion, tema, cargas, reducidos, encendida, tapado, activa>>

\* The timer: with nothing to animate, or nothing of it in sight, it stops; a frame
\* arms it again.
Temporizador ==
  /\ tick
  /\ IF HayPlazo(fondo) /\ Visible
     THEN pinta' = (pinta \/ vencido) /\ UNCHANGED tick
     ELSE tick' = FALSE /\ UNCHANGED pinta
  /\ UNCHANGED <<pedido, pantalla, procesos, vencido, reducidos>>
Vence ==
  /\ fondo.anim # "no" /\ ~vencido /\ vencido' = TRUE
  /\ UNCHANGED <<pedido, pantalla, procesos, tick, pinta, reducidos>>

\* An ffmpeg that converts ends, well or badly; a thread opens the result, or cannot.
Cambia(f, de, a, otro) == IF f.conv = de THEN [f EXCEPT !.conv = a, !.otro = otro] ELSE f
Convertido ==
  \E a \in {"bien", "mal"} :
    \/ /\ fondo.conv = "convirtiendo" /\ fondo' = [fondo EXCEPT !.conv = a, !.otro = 0]
       /\ vivos' = vivos \ {fondo.otro} /\ UNCHANGED saliente
    \/ /\ saliente.conv = "convirtiendo" /\ saliente' = [saliente EXCEPT !.conv = a, !.otro = 0]
       /\ vivos' = vivos \ {saliente.otro} /\ UNCHANGED fondo
ConvierteYa ==
  /\ Convertido
  /\ UNCHANGED <<pedido, pantalla, tick, vencido, pinta, reducidos, sueltos, convertidos>>
Abierto ==
  \/ /\ fondo.conv = "abriendo"
     /\ \/ fondo' = [fondo EXCEPT !.conv = "abierto"] /\ UNCHANGED vivos
        \/ fondo' = [fondo EXCEPT !.conv = "nada", !.otro = 0] /\ vivos' = vivos \ {fondo.otro}
     /\ UNCHANGED <<saliente, sueltos>>
  \/ /\ saliente.conv = "abriendo"
     /\ \/ saliente' = [saliente EXCEPT !.conv = "abierto"] /\ UNCHANGED vivos
        \/ saliente' = [saliente EXCEPT !.conv = "nada", !.otro = 0] /\ vivos' = vivos \ {saliente.otro}
     /\ UNCHANGED <<fondo, sueltos>>
  \/ \E p \in sueltos : sueltos' = sueltos \ {p} /\ vivos' = vivos \ {p} /\ UNCHANGED <<fondo, saliente>>
Abre ==
  /\ Abierto
  /\ UNCHANGED <<pedido, pantalla, tick, vencido, pinta, reducidos, convertidos>>

(***************************************************************************)
(* What asks for another wallpaper.                                        *)
(***************************************************************************)
Cargando == cargas < MaxCargas /\ cargas' = cargas + 1
Elegir ==
  /\ Cargando
  /\ \E e \in Elecciones : eleccion' = e
  /\ recargar' = TRUE /\ pinta' = TRUE
  /\ UNCHANGED <<tema, fallida, pantalla, procesos, tick, vencido, reducidos>>
CambiarTema ==
  /\ Cargando
  /\ tema' = IF tema = "claro" THEN "oscuro" ELSE "claro"
  /\ recargar' = (recargar \/ DependeDelTema(eleccion)) /\ pinta' = TRUE
  /\ UNCHANGED <<eleccion, fallida, pantalla, procesos, tick, vencido, reducidos>>
\* Any section that holds the wallpaper loads it again, changed or not, and the timer
\* is armed for the one there is.
RecargarAjustes ==
  /\ OtraVez /\ Cargando
  /\ recargar' = TRUE /\ pinta' = TRUE /\ tick' = HayPlazo(fondo)
  /\ UNCHANGED <<eleccion, tema, fallida, pantalla, procesos, vencido, reducidos>>

\* The user's reduced effects arm the timer again; the battery's only draw.
AlternarEfectos ==
  /\ reducidos' = ~reducidos /\ pinta' = TRUE
  /\ tick' = (fondo.anim # "no" /\ ~reducidos')
  /\ UNCHANGED <<pedido, pantalla, procesos, vencido>>
EfectosDeBateria ==
  /\ reducidos' = ~reducidos /\ pinta' = TRUE
  /\ UNCHANGED <<pedido, pantalla, procesos, vencido, tick>>

\* A window over everything, the screens off, another terminal in front.  What uncovers
\* the wallpaper always draws.
Tapar == tapado' = ~tapado /\ pinta' = TRUE /\ UNCHANGED <<encendida, activa>>
Apagar == encendida' = ~encendida /\ pinta' = (pinta \/ ~encendida) /\ UNCHANGED <<tapado, activa>>
Irse == activa' = ~activa /\ pinta' = (pinta \/ ~activa) /\ UNCHANGED <<encendida, tapado>>
Pantallas ==
  /\ Tapar \/ Apagar \/ Irse
  /\ UNCHANGED <<pedido, procesos, tick, vencido, reducidos>>
\* Anything else asks for a frame.
Pintar ==
  /\ ~pinta /\ pinta' = TRUE
  /\ UNCHANGED <<pedido, pantalla, procesos, tick, vencido, reducidos>>

Next ==
  \/ Cuadro \/ Temporizador \/ Vence \/ ConvierteYa \/ Abre
  \/ Elegir \/ CambiarTema \/ RecargarAjustes \/ AlternarEfectos \/ EfectosDeBateria
  \/ Pantallas \/ Pintar
Spec == Init /\ [][Next]_vars

(***************************************************************************)
(* Properties.                                                             *)
(***************************************************************************)
Fondos == [ruta : DOMAIN Clase \cup {"nada"}, anim : {"no", "webp", "video"}, proceso : 0..MaxProcesos,
           conv : {"no", "convirtiendo", "bien", "mal", "abriendo", "abierto", "nada"}, otro : 0..MaxProcesos]
\* Every variable has its type.
TypeOK ==
  /\ eleccion \in Elecciones /\ tema \in {"claro", "oscuro"} /\ {recargar, fallida, tick, vencido} \subseteq BOOLEAN
  /\ fondo \in Fondos /\ saliente \in Fondos /\ cargas \in 0..MaxCargas
  /\ {pinta, reducidos, encendida, tapado, activa} \subseteq BOOLEAN
  /\ vivos \subseteq 1..MaxProcesos /\ sueltos \subseteq vivos /\ convertidos \subseteq DOMAIN Clase

\* An animated wallpaper in sight moves: its timer is armed, or a frame that arms it is due.
NuncaCongelado == (Visible /\ HayPlazo(fondo) /\ ~pinta) => tick
\* Every ffmpeg belongs to the wallpaper in sight, to the one that fades or to a thread
\* that will drop it, and to one only.
SinHuerfanos ==
  /\ vivos = Suyos(fondo) \cup Suyos(saliente) \cup sueltos
  /\ Suyos(fondo) \cap Suyos(saliente) = {} /\ (Suyos(fondo) \cup Suyos(saliente)) \cap sueltos = {}
\* What is in sight is what is chosen for the theme there is.
DeLoElegido == (~recargar /\ ~fallida) => fondo.ruta = ParaElTema(eleccion, tema)
\* The animation never stops on its own, no process outlives what it draws for, and the
\* wallpaper in sight is the chosen one (fondo.rs, backend/mod.rs:1586-1621).
FondoEnOrden == NuncaCongelado /\ SinHuerfanos /\ DeLoElegido

\* The partial file of a conversion has one writer (fondo.rs:428-433 counts on the one
\* that was being dead before the next).
UnSoloEscritor ==
  (fondo.conv = "convirtiendo" /\ saliente.conv = "convirtiendo") => fondo.ruta # saliente.ruta
=============================================================================
