------------------------------- MODULE MCShell -------------------------------
(***************************************************************************)
(* What the shell keeps over the windows, side by side as in MCSeat: each  *)
(* behaviour is of the machine that parte names.                           *)
(***************************************************************************)
EXTENDS Integers, Sequences, FiniteSets, TLC, FiniteSetTheorems, WellFoundedInduction, TLAPS

\* Assumptions about the surroundings: see the modules.
CONSTANTS Impaciente, MismoSegundo, TeclaEnArrastre, Tardon, Deprisa,
          MenuYMusica, ConfigEnMenu, Reducidos

CONSTANTS a1, a2, a3, Vacio

\* The parameters of the machines the theorems below are about: the widgets of the panel; the
\* control center's points, backlight, systems, what others change and bounds; the lock's
\* menu, compositions, frames of an animation, screen, layout, points and bounds; the identifiers
\* of the notifications, the length of the queue, the toasts in sight and the bus; the screen of
\* the capture, its layout in units and the scale, its points and bounds; the windows of the
\* switcher, the cells of its row of icons, the screens of its grid and the bound.
CONSTANTS
  Ventanas, Nadie, MAXIMO, Pantallas, ActosFila,
  Ids, Maximo, Visibles, MaxBus,
  AnchoCaptura, AltoCaptura, MINIMO, AGARRE, CELDA_W, CELDA_H, CELDA_HUECO, DIVISOR_HUECO,
  BARRA_PADDING, BARRA_ALTO, BARRA_MARGEN, PASTILLA_ANCHO, PASTILLA_ALTO, PASTILLA_HUECO,
  PuntosCaptura, UNIDAD, EscN, EscD, Volteada, PulsosCaptura, MaxFotos,
  Widgets,
  PuntosCentro, Sensor, MaxCrudo, Sistemas, DeFuera, PulsosCentro, CambiosCentro, AperturasCentro,
  Entradas, ConfigsBloqueo, FASES, AnchoHoja, AltoHoja, LADO_ENERGIA, MARGEN_ENERGIA, ANCHO_MENU,
  ALTO_ENTRADA, MEDIOS_ALTO, MEDIOS_PAD, MEDIOS_CONTROL, MEDIOS_PASO, MARGEN_MEDIOS, AccesoFin,
  MediosY, ConfAncho, ConfAlto, ConfBotonY, ConfBotonAlto, ConfMitad, PuntosBloqueo, ActosHoja,
  MaxBloqueos

\* The lock: the button, each row of the menu, the card of the music settled and
\* entering, both answers of the question, the bare screen.
MCPuntosBloqueo == {<<1, 14>>, <<1, 9>>, <<2, 11>>, <<1, 13>>, <<6, 12>>, <<6, 14>>, <<8, 13>>,
                    <<4, 8>>, <<7, 8>>, <<12, 0>>}
MCConfigsBloqueo == {[energia |-> TRUE, medios |-> TRUE, animaciones |-> TRUE],
                     [energia |-> FALSE, medios |-> TRUE, animaciones |-> FALSE]}
MCEntradas == <<"apagar", "suspender">>

\* The capture: one point per cell, the bar's rim, the veil, both sides of the screen.
MCPuntosCaptura == {<<0, 0>>, <<4, 3>>, <<13, 6>>, <<2, 8>>, <<9, 8>>, <<1, 7>>}

\* The switcher: four screens, one of them on its side.
MCPantallas == {<<1646, 1029>>, <<1280, 720>>, <<720, 1280>>, <<3840, 2160>>}

\* The control center: a point of every zone, the sliders at both ends and the middle;
\* a whole machine and one with hardly anything.
MCPuntosCentro == {<<300, 320>>, <<300, 364>>, <<68, 322>>, <<169, 322>>, <<270, 322>>,
                   <<68, 364>>, <<169, 364>>, <<30, 100>>, <<120, 100>>, <<300, 100>>,
                   <<60, 180>>, <<200, 180>>, <<40, 250>>, <<60, 30>>, <<176, 540>>}
Equipo == [audio |-> TRUE, wifi |-> "con", bt |-> "si", vol |-> 50, mudo |-> FALSE, crudo |-> 4,
           auto |-> FALSE, perfil |-> "balanced", noche |-> FALSE, despierto |-> FALSE,
           dnd |-> FALSE, suena |-> [clase |-> "cancion", toca |-> TRUE]]
Pelado == [Equipo EXCEPT !.wifi = "no", !.bt = "nada", !.suena = [clase |-> "nada"]]
MCSistemas == {Equipo, Pelado}
MCDeFuera == {[vol |-> 100], [wifi |-> "si"], [mudo |-> TRUE],
              [suena |-> [clase |-> "cancion", toca |-> FALSE]]}

VARIABLE parte        \* the machine this behaviour is of
nada == "-"

\* Launchpad: three applications on pages of two cells, one colour, one new name.
VARIABLES abierto, carpetas, ocultas, orden, disco, editando, arrastreL, dentro, renombrando,
          paleta_abierta, visibles, consultaL, pagina
L == INSTANCE Launchpad WITH
       Instaladas <- <<a1, a2, a3>>, Hallazgos <- {<<a2>>},
       Discos <- {[carpetas |-> <<>>, ocultas |-> {}, orden |-> <<>>]}, Nombres <- {"Mia"},
       Carpeta <- "Carpeta", Colores <- {"verde"}, PorPagina <- 2, PorPaginaCarpeta <- 1,
       MaxCarpetas <- 2, Nada <- Vacio, arrastre <- arrastreL, consulta <- consultaL
deLaunchpad == <<abierto, carpetas, ocultas, orden, disco, editando, arrastreL, dentro,
    renombrando, paleta_abierta, visibles, consultaL, pagina>>
SinLaunchpad == abierto = nada /\ carpetas = nada /\ ocultas = nada /\ orden = nada /\
    disco = nada /\ editando = nada /\ arrastreL = nada /\ dentro = nada /\ renombrando = nada /\
    paleta_abierta = nada /\ visibles = nada /\ consultaL = nada /\ pagina = nada

\* Notifications: the queue, the toasts and the bus.
VARIABLES siguiente, bus, lista, toasts, emergente, silencio, despierto, avisadas
N == INSTANCE Notifications WITH ALaVista <- Visibles, Nada <- Vacio
deNotifications == <<siguiente, bus, lista, toasts, emergente, silencio, despierto, avisadas>>
SinNotifications == siguiente = nada /\ bus = nada /\ lista = nada /\ toasts = nada /\
    emergente = nada /\ silencio = nada /\ despierto = nada /\ avisadas = nada

\* Cards: the widgets of the panel with a card each.
VARIABLES tarjetaC, pendiente, barras, mueve, isla, punteroC, ventana, bloqueada
C == INSTANCE Cards WITH
       tarjeta <- tarjetaC, puntero <- punteroC
deCards == <<tarjetaC, pendiente, barras, mueve, isla, punteroC, ventana, bloqueada>>
SinCards == tarjetaC = nada /\ pendiente = nada /\ barras = nada /\ mueve = nada /\
    isla = nada /\ punteroC = nada /\ ventana = nada /\ bloqueada = nada

\* ControlCenter: somebody else may touch the system too.
VARIABLES sis, cola, escritor, tCC, pintadaCC, consultaCC, lectura, dedo, fresca, pulsosCC,
          cambios, aperturas
CC == INSTANCE ControlCenter WITH
       Puntos <- PuntosCentro, Ajenos <- DeFuera, MaxPulsos <- PulsosCentro,
       MaxCambios <- CambiosCentro, MaxAperturas <- AperturasCentro, t <- tCC,
       pintada <- pintadaCC, consulta <- consultaCC, pulsos <- pulsosCC
deControlCenter == <<sis, cola, escritor, tCC, pintadaCC, consultaCC, lectura, dedo, fresca,
    pulsosCC, cambios, aperturas>>
SinControlCenter == sis = nada /\ cola = nada /\ escritor = nada /\ tCC = nada /\
    pintadaCC = nada /\ consultaCC = nada /\ lectura = nada /\ dedo = nada /\ fresca = nada /\
    pulsosCC = nada /\ cambios = nada /\ aperturas = nada

\* Switcher: the windows and the screens.
VARIABLES mapa, fuera, apartadas, uso, foco, cW, destinos, modoW, pegado, mods, clic,
          vista, tarjetaW, realce, rotulo, moviendo, actosW
W == INSTANCE Switcher WITH
       MaxActos <- ActosFila, c <- cW, modo <- modoW, tarjeta <- tarjetaW, actos <- actosW
deSwitcher == <<mapa, fuera, apartadas, uso, foco, cW, destinos, modoW, pegado, mods,
    clic, vista, tarjetaW, realce, rotulo, moviendo, actosW>>
SinSwitcher == mapa = nada /\ fuera = nada /\ apartadas = nada /\ uso = nada /\ foco = nada /\
    cW = nada /\ destinos = nada /\ modoW = nada /\ pegado = nada /\
    mods = nada /\ clic = nada /\ vista = nada /\ tarjetaW = nada /\ realce = nada /\
    rotulo = nada /\ moviendo = nada /\ actosW = nada

\* Snip: the layer of the capture.
VARIABLES abierta, modoSn, arrastreSn, hecho, senalada, punteroSn, barra, pastilla, cursor,
          pedida, foto, guardadas, nombres, segundo, pulsosSn, fotos
Sn == INSTANCE Snip WITH
       Ancho <- AnchoCaptura, Alto <- AltoCaptura, Puntos <- PuntosCaptura,
       MaxPulsos <- PulsosCaptura, modo <- modoSn, arrastre <- arrastreSn,
       puntero <- punteroSn, pulsos <- pulsosSn
deSnip == <<abierta, modoSn, arrastreSn, hecho, senalada, punteroSn, barra, pastilla, cursor,
    pedida, foto, guardadas, nombres, segundo, pulsosSn, fotos>>
SinSnip == abierta = nada /\ modoSn = nada /\ arrastreSn = nada /\ hecho = nada /\
    senalada = nada /\ punteroSn = nada /\ barra = nada /\ pastilla = nada /\ cursor = nada /\
    pedida = nada /\ foto = nada /\ guardadas = nada /\ nombres = nada /\ segundo = nada /\
    pulsosSn = nada /\ fotos = nada

\* LockView: the sheet of the lock.
VARIABLES bloqueado, config, entrada, estadoF, huellaF, medioF, menuF, menu, confirmacion,
          medios, estado, escritos, caps, huella, teclado, pintadaV, velo, salida, generacion,
          lecturas, suena, pedido, actosV
V == INSTANCE LockView WITH
       Configs <- ConfigsBloqueo, Ancho <- AnchoHoja, Alto <- AltoHoja, Puntos <- PuntosBloqueo,
       MaxActos <- ActosHoja, pintada <- pintadaV, actos <- actosV
deLockView == <<bloqueado, config, entrada, estadoF, huellaF, medioF, menuF, menu, confirmacion,
    medios, estado, escritos, caps, huella, teclado, pintadaV, velo, salida, generacion,
    lecturas, suena, pedido, actosV>>
SinLockView == bloqueado = nada /\ config = nada /\ entrada = nada /\ estadoF = nada /\
    huellaF = nada /\ medioF = nada /\ menuF = nada /\ menu = nada /\ confirmacion = nada /\
    medios = nada /\ estado = nada /\ escritos = nada /\ caps = nada /\ huella = nada /\
    teclado = nada /\ pintadaV = nada /\ velo = nada /\ salida = nada /\ generacion = nada /\
    lecturas = nada /\ suena = nada /\ pedido = nada /\ actosV = nada

Init ==
  \/ parte = "launchpad" /\ L!Init /\ SinNotifications /\ SinCards /\ SinControlCenter /\
     SinSwitcher /\ SinSnip /\ SinLockView
  \/ parte = "notifications" /\ N!Init /\ SinLaunchpad /\ SinCards /\ SinControlCenter /\
     SinSwitcher /\ SinSnip /\ SinLockView
  \/ parte = "cards" /\ C!Init /\ SinLaunchpad /\ SinNotifications /\ SinControlCenter /\
     SinSwitcher /\ SinSnip /\ SinLockView
  \/ parte = "control" /\ CC!Init /\ SinLaunchpad /\ SinNotifications /\ SinCards /\
     SinSwitcher /\ SinSnip /\ SinLockView
  \/ parte = "switcher" /\ W!Init /\ SinLaunchpad /\ SinNotifications /\ SinCards /\
     SinControlCenter /\ SinSnip /\ SinLockView
  \/ parte = "snip" /\ Sn!Init /\ SinLaunchpad /\ SinNotifications /\ SinCards /\
     SinControlCenter /\ SinSwitcher /\ SinLockView
  \/ parte = "lockview" /\ V!Init /\ SinLaunchpad /\ SinNotifications /\ SinCards /\
     SinControlCenter /\ SinSwitcher /\ SinSnip

EnLaunchpad(A) == parte = "launchpad" /\ A /\ UNCHANGED <<parte, deNotifications, deCards,
    deControlCenter, deSwitcher, deSnip, deLockView>>
EnNotifications(A) == parte = "notifications" /\ A /\ UNCHANGED <<parte, deLaunchpad, deCards,
    deControlCenter, deSwitcher, deSnip, deLockView>>
EnCards(A) == parte = "cards" /\ A /\ UNCHANGED <<parte, deLaunchpad, deNotifications,
    deControlCenter, deSwitcher, deSnip, deLockView>>
EnControlCenter(A) == parte = "control" /\ A /\ UNCHANGED <<parte, deLaunchpad, deNotifications,
    deCards, deSwitcher, deSnip, deLockView>>
EnSwitcher(A) == parte = "switcher" /\ A /\ UNCHANGED <<parte, deLaunchpad, deNotifications,
    deCards, deControlCenter, deSnip, deLockView>>
EnSnip(A) == parte = "snip" /\ A /\ UNCHANGED <<parte, deLaunchpad, deNotifications, deCards,
    deControlCenter, deSwitcher, deLockView>>
EnLockView(A) == parte = "lockview" /\ A /\ UNCHANGED <<parte, deLaunchpad, deNotifications,
    deCards, deControlCenter, deSwitcher, deSnip>>

Next ==
  \/ EnLaunchpad(L!Abrir) \/ EnLaunchpad(L!Cerrar) \/ EnLaunchpad(L!PulsarTitulo)
  \/ EnLaunchpad(L!EscribirNombre) \/ EnLaunchpad(L!IntroNombre) \/ EnLaunchpad(L!EscapeNombre)
  \/ EnLaunchpad(L!PulsarChip) \/ EnLaunchpad(L!PulsarColor)
  \/ EnLaunchpad(L!PulsarFueraDePaleta) \/ EnLaunchpad(L!Tabulador)
  \/ EnLaunchpad(L!IntroEnPaleta) \/ EnLaunchpad(L!Caracter) \/ EnLaunchpad(L!BorrarConsulta)
  \/ EnLaunchpad(L!PulsarLimpiar) \/ EnLaunchpad(L!EscapeEnPaleta)
  \/ EnLaunchpad(L!EscapeEditando) \/ EnLaunchpad(L!SalirDeCarpeta)
  \/ EnLaunchpad(L!AlternarEdicion) \/ EnLaunchpad(L!Intro) \/ EnLaunchpad(L!Mover)
  \/ EnLaunchpad(L!PasarPagina) \/ EnLaunchpad(L!PulsarQuitar) \/ EnLaunchpad(L!Pulsar)
  \/ EnLaunchpad(L!Arrastrar) \/ EnLaunchpad(L!SoltarClic) \/ EnLaunchpad(L!SoltarEnDock)
  \/ EnLaunchpad(L!MoverA) \/ EnLaunchpad(L!CrearCarpeta) \/ EnLaunchpad(L!MeterEnCarpeta)
  \/ EnLaunchpad(L!SacarDeCarpeta) \/ EnLaunchpad(L!SoltarEnVano)
  \/ EnNotifications(N!Notify) \/ EnNotifications(N!CloseNotification)
  \/ EnNotifications(N!RecibirNueva) \/ EnNotifications(N!RecibirCerrar)
  \/ EnNotifications(N!NotificarCaptura) \/ EnNotifications(N!Vence) \/ EnNotifications(N!Acaba)
  \/ EnNotifications(N!Frame) \/ EnNotifications(N!Reloj) \/ EnNotifications(N!AbrirTarjeta)
  \/ EnNotifications(N!AbrirOtra) \/ EnNotifications(N!CerrarEmergente)
  \/ EnNotifications(N!NoMolestar) \/ EnNotifications(N!PulsarCuerpo)
  \/ EnNotifications(N!PulsarAccion) \/ EnNotifications(N!PulsarResponder)
  \/ EnNotifications(N!EnviarRespuesta) \/ EnNotifications(N!Flecha)
  \/ EnNotifications(N!IntroEnFila) \/ EnNotifications(N!PulsarFila) \/ EnNotifications(N!Borrar)
  \/ EnCards(C!Mover) \/ EnCards(C!PulsarPanel) \/ EnCards(C!PulsarFuera)
  \/ EnCards(C!AbrirMenuDock) \/ EnCards(C!PulsarIsla) \/ EnCards(C!Consumir)
  \/ EnCards(C!ElegirOtra) \/ EnCards(C!AtajoTarjeta) \/ EnCards(C!AlternarLaunchpad)
  \/ EnCards(C!AlternarBuscador) \/ EnCards(C!AbrirDialogo) \/ EnCards(C!AlternarBarra)
  \/ EnCards(C!VentanaCambia) \/ EnCards(C!Bloquear) \/ EnCards(C!Desbloquear)
  \/ EnCards(C!Reposa) \/ EnCards(C!AcabaLaSalida) \/ EnCards(C!PostDispatch)
  \/ EnControlCenter(\E p \in PuntosCentro : CC!Pulsar(p))
  \/ EnControlCenter(\E p \in PuntosCentro : CC!Arrastrar(p))
  \/ EnControlCenter(\E a \in DeFuera : CC!CambiaFuera(a)) \/ EnControlCenter(CC!Soltar)
  \/ EnControlCenter(CC!Escape) \/ EnControlCenter(CC!TomarTransicion)
  \/ EnControlCenter(CC!Abrir) \/ EnControlCenter(CC!Segundo) \/ EnControlCenter(CC!Consultar)
  \/ EnControlCenter(CC!Dejar) \/ EnControlCenter(CC!Servir) \/ EnControlCenter(CC!Escribir)
  \/ EnSwitcher(\E m \in W!Hacia : W!PulsarModificador(m))
  \/ EnSwitcher(\E m \in W!Hacia : W!SoltarModificador(m))
  \/ EnSwitcher(\E m \in {"aplicaciones", "ventanas"}, pasos \in {-1, 1} : W!Tabular(m, pasos))
  \/ EnSwitcher(W!Escapar) \/ EnSwitcher(W!Exponer) \/ EnSwitcher(W!CerrarExposicion)
  \/ EnSwitcher(\E i \in 0..Len(destinos) : W!PulsarBoton(i))
  \/ EnSwitcher(\E i \in 0..Len(destinos) : W!MoverPuntero(i)) \/ EnSwitcher(W!SoltarBoton)
  \/ EnSwitcher(W!Fotograma) \/ EnSwitcher(\E w \in Ventanas : W!Nueva(w))
  \/ EnSwitcher(\E w \in Ventanas : W!Cierra(w)) \/ EnSwitcher(W!Minimizar)
  \/ EnSwitcher(W!Despejar) \/ EnSwitcher(W!Recobrar) \/ EnSwitcher(W!AlternarVista)
  \/ EnSnip(Sn!Abrir) \/ EnSnip(Sn!Cerrar) \/ EnSnip(\E p \in PuntosCaptura : Sn!MoverPuntero(p))
  \/ EnSnip(Sn!Pulsar) \/ EnSnip(Sn!Soltar) \/ EnSnip(Sn!Tecla) \/ EnSnip(Sn!Servir)
  \/ EnSnip(Sn!Segundo)
  \/ EnLockView(V!Fotograma) \/ EnLockView(V!FinDesbloqueo)
  \/ EnLockView(\E t \in V!Tecleable : V!TeclaPregunta(t))
  \/ EnLockView(\E t \in V!Tecleable : V!TeclaCampo(t)) \/ EnLockView(V!BloqMayus)
  \/ EnLockView(V!Rechaza) \/ EnLockView(V!DedoAjeno)
  \/ EnLockView(\E p \in PuntosBloqueo : V!Pulsar(p))
  \/ EnLockView(\E l \in lecturas : V!LlegaMedio(l))
  \/ EnLockView(\E c \in ConfigsBloqueo : V!AplicarConfig(c)) \/ EnLockView(V!Bloquear)
  \/ EnLockView(V!Desbloquear)

Spec == Init /\ [][Next]_<<parte, deLaunchpad, deNotifications, deCards, deControlCenter,
    deSwitcher, deSnip, deLockView>>

\* The grid of the launchpad is whole and the disk is up to date, whatever is done with it.
RejillaEntera == parte = "launchpad" => L!RejillaEntera

\* What is shown of the notifications and what is kept agree; the stack of toasts keeps its
\* limits and none is left leaving on a still screen.
AvisosFieles == parte = "notifications" => N!ColaFiel /\ N!PilaEnMarcha

\* An open card has its surface and a surface with no card is leaving; a dodging bar tells the
\* truth about the window under it; the tiles of the control center show what they will act on.
TarjetasEnOrden == 
    /\ parte = "cards" => C!TypeOK /\ C!NadaColgado /\ C!BarrasVeraces
    /\ parte = "control" => CC!TypeOK /\ CC!CentroEnOrden

\* The row of windows answers to the keyboard until the modifier is let go.
ConmutadorEnOrden == parte = "switcher" => W!TypeOK /\ W!ConmutadorEnOrden

\* What is marked is what is captured.
CapturaEnOrden == parte = "snip" => Sn!TypeOK /\ Sn!CapturaEnOrden

\* The sheet of the lock shows what it is asked, and only that.
LockViewEnOrden == parte = "lockview" => V!TypeOK /\ V!LockViewEnOrden

\* A notification leaves the queue with its application told, or pushed off the end; one Tab
\* between two windows goes to the one used before; the lock does what its image offered.
PasosDelShell == 
    [][/\ parte = "notifications" => N!PasoContado
       /\ parte = "switcher" => W!PasoDeVuelta
       /\ parte = "lockview" => V!PasoBloqueo]_<<parte, deNotifications, deSwitcher, deLockView>>

-----------------------------------------------------------------------------
(* The cards that hang from the panel.                                     *)

\* No widget of the panel has the name of a card that hangs from none.
ASSUME WidgetsAssumption == Widgets \cap {C!Ninguna, "launchpad", "buscador", "menudock", "dialogo"} = {}

\* The slot of the cards, and when what hangs in it is in order.
EsCarta(c) == c \in [abierta : C!Cartas \cup {C!Ninguna}, superficie : BOOLEAN,
                       cerrando : {"no", "sale", "fuera"}]
Cuelga(c) == /\ EsCarta(c)
             /\ c.abierta # C!Ninguna => c.superficie /\ c.cerrando = "no"
             /\ c.superficie /\ c.abierta = C!Ninguna => c.cerrando # "no"
\* A bar, and the bars that tell the truth about the windows of hay.
EsBarra(b) == b \in [modo : {"siempre", "esquivando"}, escondida : BOOLEAN, pedida : BOOLEAN]
Veraz(bs, hay) == /\ bs = [b \in C!Barras |-> bs[b]]
                  /\ \A b \in C!Barras : /\ EsBarra(bs[b])
                                         /\ bs[b].escondida = (bs[b].modo = "esquivando" /\ hay[b])
\* The inductive invariant of the cards.
IInvCards == /\ Cuelga(tarjetaC) /\ Veraz(barras, ventana)
             /\ pendiente \in Widgets \cup {C!Ninguna}
             /\ punteroC \in C!Zonas /\ ventana \in [C!Barras -> BOOLEAN] /\ isla \in BOOLEAN

\* No card is called none.
LEMMA SinNinguna == C!Ninguna \notin C!Cartas
BY WidgetsAssumption DEF C!Cartas, C!Ninguna

\* A card that hangs well is closed, let go of or opened into one that does.
LEMMA TarjetasCuelgan ==
  ASSUME NEW c, Cuelga(c)
  PROVE  /\ Cuelga(C!Cerrar(c)) /\ Cuelga(C!Soltar(c))
         /\ \A d \in C!Cartas : Cuelga(C!Abrir(c, d)) /\ Cuelga(C!Abrir(C!Cerrar(c), d))
                              /\ Cuelga(C!Abrir(C!Soltar(c), d))
<1>. DEFINE hecha(a, s, x) == [abierta |-> a, superficie |-> s, cerrando |-> x]
<1>1. ASSUME NEW e, EsCarta(e), NEW d \in C!Cartas PROVE Cuelga(C!Abrir(e, d))
  <2>1. [e EXCEPT !.abierta = d].abierta = d
    BY <1>1 DEF EsCarta
  <2>2. C!Abrir(e, d) = hecha(d, TRUE, "no")
    BY <1>1, <2>1, SinNinguna DEF EsCarta, C!Abrir, C!Sincronizar
  <2>. QED BY <2>2, SinNinguna DEF Cuelga, EsCarta
<1>2. EsCarta(c)
  BY DEF Cuelga
<1>3. Cuelga(C!Cerrar(c)) 
  BY <1>2 DEF Cuelga, EsCarta, C!Cerrar
<1>4. Cuelga(C!Soltar(c))
  <2>1. CASE c.superficie /\ c.cerrando # "no"
    <3>1. C!Soltar(c) = hecha(C!Ninguna, TRUE, c.cerrando)
      BY <1>2, <2>1 DEF EsCarta, C!Soltar, C!Sincronizar
    <3>. QED BY <1>2, <2>1, <3>1 DEF Cuelga, EsCarta
  <2>2. CASE ~(c.superficie /\ c.cerrando # "no")
    <3>1. C!Soltar(c) = hecha(C!Ninguna, FALSE, c.cerrando)
      BY <1>2, <2>2 DEF EsCarta, C!Soltar, C!Sincronizar
    <3>. QED BY <1>2, <3>1 DEF Cuelga, EsCarta
  <2>. QED BY <2>1, <2>2
<1>. QED BY <1>1, <1>2, <1>3, <1>4 DEF Cuelga

\* Asking again what holds a bar does not change what it says of the window under it.
LEMMA BarrasSiguenVeraces ==
  ASSUME NEW bs, NEW hay \in [C!Barras -> BOOLEAN], Veraz(bs, hay), NEW cual, NEW desplegada \in BOOLEAN,
         NEW zona
  PROVE  Veraz(C!Reclamada(bs, cual, desplegada, zona), hay)
BY DEF Veraz, EsBarra, C!Reclamada, C!Pide

\* revisar_barras leaves every bar telling the truth about the window it has been given.
LEMMA EstorbadaVeraz ==
  ASSUME NEW bs, NEW antes \in [C!Barras -> BOOLEAN], NEW hay \in [C!Barras -> BOOLEAN], Veraz(bs, antes),
         NEW cual, NEW desplegada \in BOOLEAN
  PROVE  Veraz(C!Estorbada(bs, cual, desplegada, hay), hay)
BY DEF Veraz, EsBarra, C!Estorbada, C!Retenida

\* Nothing hangs at the start.
LEMMA InitCards == C!Init => IInvCards
<1>. SUFFICES ASSUME C!Init PROVE IInvCards
  OBVIOUS
<1>1. Cuelga(tarjetaC)
  BY SinNinguna DEF C!Init, Cuelga, EsCarta
<1>2. Veraz(barras, ventana)
  BY DEF C!Init, Veraz, EsBarra
<1>. QED BY <1>1, <1>2 DEF C!Init, IInvCards, C!Zonas

\* The invariant says what the property asks of the cards.
LEMMA CardsBasta == IInvCards => C!TypeOK /\ C!NadaColgado /\ C!BarrasVeraces
BY DEF IInvCards, Cuelga, EsCarta, Veraz, EsBarra, C!TypeOK, C!NadaColgado, C!BarrasVeraces, C!Abierta

\* Every step of the cards keeps the invariant: the card of shell and host, the bars and the
\* window change together in every handler.
LEMMA NextCards == ASSUME IInvCards, C!Next \/ UNCHANGED C!vars PROVE IInvCards'
<1>1. /\ Cuelga(tarjetaC) /\ Veraz(barras, ventana) /\ ventana \in [C!Barras -> BOOLEAN]
      /\ pendiente \in Widgets \cup {C!Ninguna} /\ punteroC \in C!Zonas /\ isla \in BOOLEAN
  BY DEF IInvCards
<1>. isla' \in BOOLEAN
  BY <1>1 DEF C!Next, C!vars, C!Mover, C!PulsarPanel, C!PulsarFuera, C!AbrirMenuDock, C!PulsarIsla, C!Consumir, C!ElegirOtra,
     C!AtajoTarjeta, C!AlternarLaunchpad, C!AlternarBuscador, C!AbrirDialogo, C!AlternarBarra, C!VentanaCambia,
     C!Bloquear, C!Desbloquear, C!Reposa, C!AcabaLaSalida, C!PostDispatch
<1>2. EsCarta(tarjetaC) /\ Widgets \subseteq C!Cartas /\ {"launchpad", "buscador", "menudock", "dialogo"} \subseteq C!Cartas
  BY <1>1 DEF Cuelga, C!Cartas
<1>3. \A cual, zona : \A k \in BOOLEAN : Veraz(C!Reclamada(barras, cual, k, zona), ventana)
  BY <1>1, BarrasSiguenVeraces
<1>4. /\ Veraz(C!Recogida, ventana)
      /\ \A b \in BOOLEAN : Veraz(C!TrasCerrar(barras, b), ventana)
      /\ \A b \in BOOLEAN : Veraz(C!TrasCerrar(C!Recogida, b), ventana)
  <2>1. Veraz(C!Recogida, ventana)
    BY <1>1, <1>3 DEF C!Recogida
  <2>. QED BY <1>1, <1>3, <2>1, BarrasSiguenVeraces DEF C!TrasCerrar
<1>5. ASSUME NEW c, Cuelga(c), NEW bs, Veraz(bs, ventana'), C!QuedaAsi(c, bs), ventana' \in [C!Barras -> BOOLEAN],
             pendiente' \in Widgets \cup {C!Ninguna}, punteroC' \in C!Zonas
      PROVE  IInvCards'
  BY <1>5 DEF C!QuedaAsi, IInvCards
<1>6. Cuelga(C!Cerrar(tarjetaC)) /\ Cuelga(C!Soltar(tarjetaC))
      /\ \A d \in C!Cartas : Cuelga(C!Abrir(tarjetaC, d)) /\ Cuelga(C!Abrir(C!Cerrar(tarjetaC), d))
                          /\ Cuelga(C!Abrir(C!Soltar(tarjetaC), d))
  BY <1>1, TarjetasCuelgan
<1>7. CASE C!Mover
  BY <1>1, <1>3, <1>5, <1>7 DEF C!Mover
<1>8. CASE C!PulsarPanel
  BY <1>1, <1>2, <1>4, <1>5, <1>6, <1>8 DEF C!PulsarPanel
<1>9. CASE C!PulsarFuera
  BY <1>1, <1>4, <1>5, <1>6, <1>9 DEF C!PulsarFuera
<1>10. CASE C!AbrirMenuDock
  BY <1>1, <1>2, <1>5, <1>6, <1>10 DEF C!AbrirMenuDock
<1>11. CASE C!PulsarIsla
  BY <1>1, <1>3, <1>5, <1>11 DEF C!PulsarIsla
<1>12. CASE C!Consumir
  BY <1>1, <1>5, <1>6, <1>12 DEF C!Consumir
<1>13. CASE C!ElegirOtra
  BY <1>1, <1>2, <1>5, <1>6, <1>13 DEF C!ElegirOtra
<1>14. CASE C!AtajoTarjeta
  <2>1. PICK w \in Widgets : LET t == IF C!Abierta THEN C!Cerrar(tarjetaC) ELSE C!Abrir(tarjetaC, w) IN
         /\ C!QuedaAsi(t, C!Estorbada(C!TrasCerrar(barras, isla), t.abierta, isla, ventana))
         /\ pendiente' = IF C!Abierta /\ tarjetaC.abierta # w THEN w ELSE pendiente
    BY <1>14 DEF C!AtajoTarjeta
  <2>2. \A a : Veraz(C!Estorbada(C!TrasCerrar(barras, isla), a, isla, ventana), ventana)
    BY <1>1, <1>4, EstorbadaVeraz
  <2>3. ventana' = ventana /\ punteroC' = punteroC
    BY <1>14 DEF C!AtajoTarjeta
  <2>. QED BY <1>1, <1>2, <1>5, <1>6, <2>1, <2>2, <2>3
<1>15. CASE C!AlternarLaunchpad
  BY <1>1, <1>2, <1>4, <1>5, <1>6, <1>15 DEF C!AlternarLaunchpad
<1>16. CASE C!AlternarBuscador
  BY <1>1, <1>2, <1>4, <1>5, <1>6, <1>16 DEF C!AlternarBuscador
<1>17. CASE C!AbrirDialogo
  BY <1>1, <1>2, <1>4, <1>5, <1>6, <1>17 DEF C!AbrirDialogo
<1>18. CASE C!AlternarBarra
  <2>1. PICK b \in C!Barras, hay \in BOOLEAN :
           LET cierra == b = "panel"
               t == IF cierra THEN C!Cerrar(tarjetaC) ELSE tarjetaC
               antes == IF cierra THEN C!TrasCerrar(barras, isla) ELSE barras
               bs == [antes EXCEPT ![b] = C!Alternada(@)]
           IN /\ ventana' = [ventana EXCEPT ![b] = hay]
              /\ C!QuedaAsi(t, C!Estorbada(bs, t.abierta, isla, ventana'))
    BY <1>18 DEF C!AlternarBarra
  <2>. DEFINE antes == IF b = "panel" THEN C!TrasCerrar(barras, isla) ELSE barras
              bs == [antes EXCEPT ![b] = C!Alternada(@)]
              medio == [ventana EXCEPT ![b] = bs[b].escondida]
  <2>2. Veraz(antes, ventana)
    BY <1>1, <1>4
  <2>3. medio \in [C!Barras -> BOOLEAN] /\ Veraz(bs, medio)
    BY <1>1, <2>2 DEF Veraz, EsBarra, C!Alternada
  <2>4. ventana' \in [C!Barras -> BOOLEAN]
    BY <1>1, <2>1
  <2>5. \A a : Veraz(C!Estorbada(bs, a, isla, ventana'), ventana')
    BY <1>1, <2>3, <2>4, EstorbadaVeraz
  <2>6. pendiente' = pendiente /\ punteroC' = punteroC
    BY <1>18 DEF C!AlternarBarra
  <2>. QED BY <1>1, <1>5, <1>6, <2>1, <2>4, <2>5, <2>6
<1>19. CASE C!VentanaCambia
  <2>1. PICK b \in C!Barras : /\ ventana' = [ventana EXCEPT ![b] = ~@]
                              /\ C!QuedaAsi(tarjetaC, C!Estorbada(barras, tarjetaC.abierta, isla, ventana'))
    BY <1>19 DEF C!VentanaCambia
  <2>2. ventana' \in [C!Barras -> BOOLEAN]
    BY <1>1, <2>1
  <2>3. Veraz(C!Estorbada(barras, tarjetaC.abierta, isla, ventana'), ventana')
    BY <1>1, <2>2, EstorbadaVeraz
  <2>4. pendiente' = pendiente /\ punteroC' = punteroC
    BY <1>19 DEF C!VentanaCambia
  <2>. QED BY <1>1, <1>5, <2>1, <2>2, <2>3, <2>4
<1>20. CASE C!Bloquear
  <2>1. Veraz(C!Estorbada(C!TrasCerrar(barras, isla), C!Ninguna, isla, ventana), ventana)
    BY <1>1, <1>4, EstorbadaVeraz
  <2>. QED BY <1>1, <1>5, <1>6, <1>20, <2>1 DEF C!Bloquear
<1>21. CASE C!Desbloquear
  BY <1>1, <1>21 DEF C!Desbloquear, IInvCards
<1>22. CASE C!Reposa
  BY <1>1, <1>22 DEF C!Reposa, IInvCards
<1>23. CASE C!AcabaLaSalida
  <2>1. Cuelga(tarjetaC')
    BY <1>1, <1>2, <1>23 DEF C!AcabaLaSalida, Cuelga, EsCarta
  <2>. QED BY <1>1, <1>23, <2>1 DEF C!AcabaLaSalida, IInvCards
<1>24. CASE C!PostDispatch
  <2>1. EsCarta(C!Recoger(tarjetaC))
    BY <1>2 DEF C!Recoger, EsCarta
  <2>2. Cuelga(C!Recoger(tarjetaC))
    BY <1>1, <1>2 DEF C!Recoger, Cuelga, EsCarta
  <2>3. \A d \in C!Cartas : Cuelga(C!Abrir(C!Recoger(tarjetaC), d))
    BY <2>2, TarjetasCuelgan
  <2>4. CASE pendiente # C!Ninguna /\ C!QuedaAsi(C!Abrir(C!Recoger(tarjetaC), pendiente), barras) /\ pendiente' = C!Ninguna
    BY <1>1, <1>2, <1>5, <1>24, <2>3, <2>4 DEF C!PostDispatch
  <2>5. CASE C!QuedaAsi(C!Recoger(tarjetaC), barras) /\ UNCHANGED pendiente
    BY <1>1, <1>5, <1>24, <2>2, <2>5 DEF C!PostDispatch
  <2>. QED BY <1>24, <2>4, <2>5 DEF C!PostDispatch
<1>25. CASE UNCHANGED C!vars
  BY <1>1, <1>25 DEF C!vars, IInvCards
<1>. QED BY <1>7, <1>8, <1>9, <1>10, <1>11, <1>12, <1>13, <1>14, <1>15, <1>16, <1>17, <1>18, <1>19,
            <1>20, <1>21, <1>22, <1>23, <1>24, <1>25 DEF C!Next


-----------------------------------------------------------------------------
(* The control center.                                                     *)

\* A system the control center may find, and what somebody else may change of it.
LadosSis == {"audio", "wifi", "bt", "vol", "mudo", "crudo", "auto", "perfil", "noche", "despierto", "dnd", "suena"}
EsSistema(s) ==
  /\ s = [k \in LadosSis |-> s[k]]
  /\ s.audio = TRUE /\ s.wifi \in CC!Radios /\ s.bt \in CC!Radios
  /\ s.vol \in 0..100 /\ s.crudo \in 0..MaxCrudo
EsCambio(a) ==
  /\ "audio" \in DOMAIN a => a["audio"] = TRUE
  /\ \A r \in {"wifi", "bt"} \cap DOMAIN a : a[r] \in CC!Radios
  /\ "vol" \in DOMAIN a => a["vol"] \in 0..100
  /\ "crudo" \in DOMAIN a => a["crudo"] \in 0..MaxCrudo
\* The backlight, the bounds, the systems and the points are what they are in the code: levels
\* and volumes in their ranges, and somebody with audio.
ASSUME CentroAssumption ==
  /\ MaxCrudo \in Nat /\ PulsosCentro \in Nat
  /\ \A s \in Sistemas : EsSistema(s)
  /\ \A a \in DeFuera : EsCambio(a)
  /\ \A p \in PuntosCentro : p[1] \in Int /\ p[2] \in Int

\* A control center that is open.
LadosT == {"clase", "wifi", "bt", "audio", "vol", "mudo", "bri", "auto", "agarre", "inicial", "suena",
           "detalle", "transicion", "origen", "avion", "ahorro", "mantener", "noche", "dnd"}
EsCentro(c) ==
  /\ c = [k \in LadosT |-> c[k]]
  /\ c.clase = "centro" /\ c.audio = TRUE /\ c.wifi \in CC!Radios /\ c.bt \in CC!Radios
  /\ c.vol \in 0..100 /\ c.bri \in 0..100
  /\ c.agarre \in {"nada", "vol", "bri"} /\ c.detalle \in {"nada", "wifi", "bt"}

\* A card is born with the system's state on it.
LEMMA NuevaEsTarjeta ==
  ASSUME EsSistema(sis), CC!Brillo \in 0..100
  PROVE  EsCentro(CC!Nueva) /\ CC!Nueva.agarre = "nada" /\ CC!Nueva.detalle = "nada" /\ CC!Nueva.transicion = CC!Nada
         /\ CC!Nueva.wifi = sis.wifi /\ CC!Nueva.bt = sis.bt /\ CC!Nueva.avion = CC!Avion
         /\ CC!Nueva.vol = sis.vol /\ CC!Nueva.mudo = sis.mudo /\ CC!Nueva.bri = CC!Brillo /\ CC!Nueva.auto = CC!Automatico
<1>1. CC!Nueva = [k \in LadosT |-> CC!Nueva[k]]
  BY DEF CC!Nueva, LadosT
<1>. QED BY <1>1 DEF CC!Nueva, EsCentro, EsSistema

\* What a card keeps when it is read again, and what it takes.
LEMMA RefrescadaEsTarjeta ==
  ASSUME EsSistema(sis), CC!Brillo \in 0..100, NEW c, EsCentro(c)
  PROVE  LET r == CC!Refrescada(c) IN
         /\ EsCentro(r)
         /\ r.agarre = c.agarre /\ r.detalle = c.detalle /\ r.origen = c.origen /\ r.transicion = c.transicion
         /\ r.wifi = sis.wifi /\ r.bt = sis.bt /\ r.avion = CC!Avion
         /\ r.vol = IF c.agarre = "vol" THEN c.vol ELSE sis.vol
         /\ r.mudo = sis.mudo
         /\ c.agarre # "bri" => r.bri = CC!Brillo /\ r.auto = CC!Automatico
<1>. DEFINE m == IF lectura.clase = "lectura" THEN lectura.suena ELSE c.suena
            v == IF c.agarre = "vol" THEN c.vol ELSE sis.vol
            d == [c EXCEPT !.wifi = sis.wifi, !.bt = sis.bt, !.avion = CC!Avion, !.audio = TRUE,
                     !.mudo = sis.mudo, !.vol = v, !.suena = m]
            e == [d EXCEPT !.bri = CC!Brillo, !.auto = CC!Automatico]
<1>1. sis.audio = TRUE
  BY DEF EsSistema
<1>2. CC!Refrescada(c) = IF c.agarre = "bri" THEN d ELSE e
  BY <1>1 DEF CC!Refrescada
<1>3. v \in 0..100
  BY DEF EsSistema, EsCentro
<1>4. /\ EsCentro(d) /\ d.agarre = c.agarre /\ d.detalle = c.detalle /\ d.origen = c.origen
      /\ d.transicion = c.transicion /\ d.wifi = sis.wifi /\ d.bt = sis.bt /\ d.avion = CC!Avion
      /\ d.vol = v /\ d.mudo = sis.mudo
  <2>. HIDE DEF m, v
  <2>1. d = [k \in LadosT |-> d[k]]
    BY DEF EsCentro, LadosT
  <2>2. /\ d.agarre = c.agarre /\ d.detalle = c.detalle /\ d.origen = c.origen
        /\ d.transicion = c.transicion /\ d.wifi = sis.wifi /\ d.bt = sis.bt /\ d.avion = CC!Avion
        /\ d.vol = v /\ d.mudo = sis.mudo /\ d.audio = TRUE /\ d.bri = c.bri /\ d.clase = c.clase
    BY DEF EsCentro, LadosT
  <2>. HIDE DEF d
  <2>. QED BY <1>3, <2>1, <2>2 DEF EsCentro, EsSistema
<1>5. /\ EsCentro(e) /\ e.agarre = c.agarre /\ e.detalle = c.detalle /\ e.origen = c.origen
      /\ e.transicion = c.transicion /\ e.wifi = sis.wifi /\ e.bt = sis.bt /\ e.avion = CC!Avion
      /\ e.vol = v /\ e.mudo = sis.mudo /\ e.bri = CC!Brillo /\ e.auto = CC!Automatico
  <2>. HIDE DEF m, v, d
  <2>1. e = [k \in LadosT |-> e[k]]
    BY <1>4 DEF EsCentro, LadosT
  <2>2. /\ e.agarre = d.agarre /\ e.detalle = d.detalle /\ e.origen = d.origen
        /\ e.transicion = d.transicion /\ e.wifi = d.wifi /\ e.bt = d.bt /\ e.avion = d.avion
        /\ e.vol = d.vol /\ e.mudo = d.mudo /\ e.audio = d.audio /\ e.bri = CC!Brillo /\ e.clase = d.clase
        /\ e.auto = CC!Automatico
    BY <1>4 DEF EsCentro, LadosT
  <2>. HIDE DEF e
  <2>. QED BY <1>4, <2>1, <2>2 DEF EsCentro
<1>. HIDE DEF m, v, d, e
<1>6. CASE c.agarre = "bri"
  BY <1>2, <1>4, <1>6 DEF v
<1>7. CASE c.agarre # "bri"
  BY <1>2, <1>5, <1>7 DEF v
<1>. QED BY <1>6, <1>7

\* Going back from a list reads the card again and leaves it released.
LEMMA VueltaEsTarjeta ==
  ASSUME EsSistema(sis), CC!Brillo \in 0..100, EsCentro(tCC), tCC.agarre = "nada"
  PROVE  /\ EsCentro(CC!Vuelta) /\ CC!Vuelta.agarre = "nada" /\ CC!Vuelta.detalle = "nada"
         /\ CC!Vuelta.transicion.de = CC!Vuelta.origen /\ CC!Vuelta.transicion.clase = "cerrar"
         /\ CC!Vuelta.wifi = sis.wifi /\ CC!Vuelta.bt = sis.bt /\ CC!Vuelta.avion = CC!Avion
         /\ CC!Vuelta.vol = sis.vol /\ CC!Vuelta.mudo = sis.mudo
         /\ CC!Vuelta.bri = CC!Brillo /\ CC!Vuelta.auto = CC!Automatico
<1>. DEFINE r == CC!Refrescada(tCC)
            p == [clase |-> "cerrar", de |-> tCC.origen]
<1>1. /\ EsCentro(r) /\ r.agarre = "nada" /\ r.origen = tCC.origen
      /\ r.wifi = sis.wifi /\ r.bt = sis.bt /\ r.avion = CC!Avion
      /\ r.vol = sis.vol /\ r.mudo = sis.mudo /\ r.bri = CC!Brillo /\ r.auto = CC!Automatico
  BY RefrescadaEsTarjeta
<1>2. CC!Vuelta = [r EXCEPT !.detalle = "nada", !.transicion = p]
  BY DEF CC!Vuelta
<1>3. p.clase = "cerrar" /\ p.de = tCC.origen
  OBVIOUS
<1>. HIDE DEF r, p
<1>4. /\ CC!Vuelta = [k \in LadosT |-> CC!Vuelta[k]]
      /\ CC!Vuelta.clase = r.clase /\ CC!Vuelta.audio = r.audio /\ CC!Vuelta.agarre = r.agarre /\ CC!Vuelta.origen = r.origen
      /\ CC!Vuelta.detalle = "nada" /\ CC!Vuelta.transicion = p
      /\ CC!Vuelta.wifi = r.wifi /\ CC!Vuelta.bt = r.bt /\ CC!Vuelta.avion = r.avion
      /\ CC!Vuelta.vol = r.vol /\ CC!Vuelta.mudo = r.mudo /\ CC!Vuelta.bri = r.bri /\ CC!Vuelta.auto = r.auto
  BY <1>1, <1>2 DEF EsCentro, LadosT
<1>. QED BY <1>1, <1>3, <1>4 DEF EsCentro

\* read_brightness returns a percentage.
LEMMA BrilloEsPorCiento == ASSUME EsSistema(sis) PROVE CC!Brillo \in 0..100
<1>1. CASE MaxCrudo = 0
  BY <1>1 DEF CC!Brillo
<1>2. CASE MaxCrudo # 0
  <2>1. MaxCrudo \in Nat /\ MaxCrudo > 0 /\ sis.crudo \in 0..MaxCrudo
    BY <1>2, CentroAssumption DEF EsSistema
  <2>. DEFINE q == (100 * sis.crudo) \div MaxCrudo
  <2>2. q \in Int /\ 100 * sis.crudo \in Int
    BY <2>1
  <2>3. MaxCrudo * q <= 100 * sis.crudo /\ 100 * sis.crudo < MaxCrudo * q + MaxCrudo
    BY <2>1, Z3
  <2>4. q >= 0
    BY <2>1, <2>2, <2>3
  <2>5. q <= 100
    BY <2>1, <2>2, <2>3
  <2>. QED BY <1>2, <2>2, <2>4, <2>5 DEF CC!Brillo
<1>. QED BY <1>1, <1>2

\* Five per cent is the floor, and a hundred the ceiling.
LEMMA AcotarEntre == \A n \in 0..100 : CC!Acotar(n, 5, 100) \in 5..100 /\ CC!Acotar(n, 5, 100) \in 0..100
BY DEF CC!Acotar

\* The level of a point of a slider is a percentage, wherever the point is.
LEMMA NivelEsPorCiento == ASSUME NEW x \in Int PROVE CC!NivelEn(x) \in 0..100
BY DEF CC!NivelEn, CC!RectPildora, CC!Redondeo, CC!Acotar, CC!ANCHO, CC!MARGEN, CC!GRUPO_MARGEN, CC!ICONO, CC!AIRE, CC!BOTON, CC!PILDORA

\* The raw brightness of a level is one the backlight has, and no lower than the floor's.
LEMMA CrudoDelNivel ==
  ASSUME NEW n \in 5..100
  PROVE  CC!Redondeo(MaxCrudo * n, 100) \in 0..MaxCrudo /\ CC!Redondeo(MaxCrudo * n, 100) >= CC!Redondeo(MaxCrudo * 5, 100)
<1>1. MaxCrudo \in Nat
  BY CentroAssumption
<1>2. MaxCrudo * n \in Nat /\ MaxCrudo * n <= MaxCrudo * 100 /\ MaxCrudo * 5 <= MaxCrudo * n
  BY <1>1
<1>. QED BY <1>1, <1>2 DEF CC!Redondeo

\* What the worker's thread may be asked, what the brightness' writer may have to write and
\* where the finger may have left a slider; -1 is none.
Pedidos == [clase : {"vol"}, a : 0..100] \cup [clase : {"mudo", "avion", "wifi", "bt"}, a : BOOLEAN]
Escritos == -1..MaxCrudo
Dedos == -1..100
\* Types.
CuerpoCentro ==
  /\ EsSistema(sis) /\ escritor \in Escritos /\ dedo \in Dedos /\ fresca \in BOOLEAN
  /\ tCC = CC!Nada \/ EsCentro(tCC)
  /\ cola \in Seq(Pedidos) /\ pulsosCC \in 0..PulsosCentro
\* A slider is held; the worker is behind by no more than what the presses sent it; a card that
\* shows a detail came from its pill, and holds no slider.
Cogida == tCC # CC!Nada /\ tCC.agarre # "nada"
Reparto == Len(cola) <= pulsosCC + IF Cogida THEN 0 ELSE 1
Pildora == /\ (tCC # CC!Nada /\ tCC.detalle # "nada") => tCC.agarre = "nada"
           /\ CC!DetalleDesdeSuPildora
\* While the slider is held the volume on it is the finger's; the last request for a volume is
\* the finger's too, and with none left the system has it, unless somebody else moved it since.
Rastro ==
  dedo # -1 =>
    /\ (tCC # CC!Nada /\ tCC.agarre = "vol") => dedo = tCC.vol
    /\ \A i \in 1..Len(cola) :
         (cola[i].clase = "vol" /\ \A j \in 1..Len(cola) : j > i => cola[j].clase # "vol") => cola[i].a = dedo
    /\ (\A i \in 1..Len(cola) : cola[i].clase # "vol") => sis.vol = dedo
\* What a press leaves.
Pulsada ==
  /\ EsSistema(sis) /\ escritor \in Escritos /\ (tCC = CC!Nada \/ EsCentro(tCC)) /\ dedo \in Dedos
  /\ cola = <<>> \/ \E op \in Pedidos : cola = <<op>>
  /\ Pildora /\ Rastro /\ CC!SueloDelBrillo
\* The inductive invariant of the control center.
IInvCentro == /\ CuerpoCentro /\ Reparto /\ Pildora /\ Rastro /\ CC!PintadaAlDia /\ CC!CopiaFiel /\ CC!SueloDelBrillo

\* The bounds are naturals.
LEMMA MaxCrudoNat == MaxCrudo \in Nat /\ PulsosCentro \in Nat
BY CentroAssumption

\* None is a value the writer and the finger may have, and so is any level.
LEMMA Margenes ==
  /\ -1 \in Escritos /\ \A e \in 0..MaxCrudo : e \in Escritos /\ e # -1
  /\ -1 \in Dedos /\ \A n \in 0..100 : n \in Dedos /\ n # -1
BY MaxCrudoNat DEF Escritos, Dedos

\* A queue of one request, made by adding it to none.
LEMMA ColaDeUno ==
  ASSUME NEW op \in Pedidos
  PROVE  /\ Append(<<>>, op) = <<op>> /\ <<op>> \in Seq(Pedidos) /\ Len(<<op>>) = 1 /\ <<op>>[1] = op
         /\ 1..Len(<<op>>) = {1}
OBVIOUS

\* A queue of one request at most.
LEMMA DeUnoALoMas ==
  ASSUME NEW q, q = <<>> \/ \E op \in Pedidos : q = <<op>>
  PROVE  q \in Seq(Pedidos) /\ Len(q) <= 1
<1>1. CASE q = <<>>
  BY <1>1
<1>2. ASSUME NEW op \in Pedidos, q = <<op>> PROVE q \in Seq(Pedidos) /\ Len(q) <= 1
  BY <1>2
<1>. QED BY <1>1, <1>2

\* Every request of a queue of one is that one.
LEMMA DeUno ==
  \A op \in Pedidos : \A q : q = <<op>> => 1 \in 1..Len(q) /\ \A i \in 1..Len(q) : q[i] = op
OBVIOUS

\* An empty queue.
LEMMA ColaVacia == <<>> \in Seq(Pedidos) /\ Len(<<>>) = 0 /\ 1..Len(<<>>) = {}
OBVIOUS

\* A transition towards another card.
Paso(q, o) == [clase |-> q, de |-> o]
\* The parts of a transition.
LEMMA Pasos == \A r, q, o : r = Paso(q, o) => r.clase = q /\ r.de = o
BY DEF Paso

\* An open card is not a closed one.
LEMMA NadaNoEsTarjeta == ~ EsCentro(CC!Nada)
BY DEF EsCentro, CC!Nada

\* The invariant says what the property asks of the card, but for the layout.
LEMMA CentroCasiBasta == IInvCentro => CC!TypeOK /\ CC!PintadaAlDia /\ CC!CopiaFiel /\ CC!VolumenDelDedo /\ CC!SueloDelBrillo /\ CC!DetalleDesdeSuPildora
<1>. SUFFICES ASSUME IInvCentro PROVE CC!TypeOK /\ CC!VolumenDelDedo
  BY DEF IInvCentro, Pildora
<1>1. CC!VolumenDelDedo
  <2>1. cola \in Seq(Pedidos) /\ DOMAIN cola = 1..Len(cola)
    BY DEF IInvCentro, CuerpoCentro
  <2>. QED BY <2>1 DEF IInvCentro, Rastro, CC!VolumenDelDedo
<1>2. Len(cola) <= PulsosCentro + 1
  BY CentroAssumption DEF IInvCentro, CuerpoCentro, Reparto
<1>3. escritor \in -1..MaxCrudo /\ dedo \in -1..100 /\ fresca \in BOOLEAN
  BY DEF IInvCentro, CuerpoCentro, Escritos, Dedos
<1>4. EsSistema(sis) /\ (tCC = CC!Nada \/ EsCentro(tCC))
  BY DEF IInvCentro, CuerpoCentro
<1>5. CC!TypeOK
  BY <1>2, <1>3, <1>4 DEF EsSistema, EsCentro, CC!TypeOK
<1>. QED BY <1>1, <1>5

\* The card is closed at the start.
LEMMA InitCentro == CC!Init => IInvCentro
<1>. SUFFICES ASSUME CC!Init PROVE IInvCentro
  OBVIOUS
<1>1. CuerpoCentro
  <2>1. escritor \in Escritos /\ dedo \in Dedos /\ pulsosCC \in 0..PulsosCentro
    BY MaxCrudoNat, Margenes DEF CC!Init
  <2>2. EsSistema(sis) /\ fresca \in BOOLEAN /\ tCC = CC!Nada /\ cola = <<>>
    BY CentroAssumption DEF CC!Init
  <2>3. cola \in Seq(Pedidos)
    BY <2>2, ColaVacia
  <2>. QED BY <2>1, <2>2, <2>3 DEF CuerpoCentro
<1>2. Reparto /\ Pildora /\ Rastro /\ CC!PintadaAlDia /\ CC!CopiaFiel /\ CC!SueloDelBrillo
  BY CentroAssumption DEF CC!Init, Reparto, Pildora, CC!DetalleDesdeSuPildora, Rastro, CC!PintadaAlDia, CC!CopiaFiel, CC!SueloDelBrillo, Cogida
<1>. QED BY <1>1, <1>2 DEF IInvCentro

\* A request that is not for a volume leaves the finger's volume where it was.
LEMMA RastroSinVolumen ==
  ASSUME Rastro, cola = <<>>, dedo' = dedo, sis'.vol = sis.vol, tCC' = CC!Nada \/ tCC'.agarre # "vol",
         cola' = <<>> \/ \E op \in Pedidos : op.clase # "vol" /\ cola' = <<op>>
  PROVE  Rastro'
<1>. SUFFICES ASSUME dedo # -1 PROVE Rastro'
  BY DEF Rastro
<1>1. sis'.vol = dedo'
  BY DEF Rastro
<1>2. \A i \in 1..Len(cola') : cola'[i].clase # "vol"
  BY ColaVacia, ColaDeUno
<1>. QED BY <1>1, <1>2 DEF Rastro

\* The tile of a point is one of the eight.
LEMMA BaldosaEntre == ASSUME NEW x \in Int, NEW y \in Int, CC!BaldosaEn(x, y) # 0 PROVE CC!BaldosaEn(x, y) \in 1..8
<1>1. Len(CC!Baldosas) = 8 /\ CC!COLUMNAS = 4 /\ CC!MARGEN + CC!REJILLA_MARGEN = 30
  BY DEF CC!Baldosas, CC!COLUMNAS, CC!MARGEN, CC!REJILLA_MARGEN
<1>2. CC!YRejilla = 144 /\ CC!CELDA + CC!ENTRE_FILAS = 62 /\ CC!ANCHO = 352
  BY DEF CC!YRejilla, CC!YConexiones, CC!MARGEN, CC!CABECERA, CC!HUECO, CC!CONEXION, CC!CELDA, CC!ENTRE_FILAS, CC!ANCHO
<1>. DEFINE columna == (x - 30) \div 73
            i == ((y - 158) \div 62) * 4 + columna
<1>3. /\ x >= 30 /\ y >= 158 /\ columna < 4 /\ i < 8 /\ CC!BaldosaEn(x, y) = i + 1
  BY <1>1, <1>2 DEF CC!BaldosaEn, CC!REJILLA_MARGEN
<1>4. columna \in Int /\ columna >= 0 /\ i \in Int /\ i >= 0
  BY <1>3
<1>. HIDE DEF columna, i
<1>. QED BY <1>3, <1>4

\* The part of a pill that is a radio or a list is asked of a point of the pills.
LEMMA ZonaDeRadio ==
  ASSUME NEW c, NEW x \in Int, NEW y \in Int, CC!Zona(c, x, y) \in {"radio", "conexion"}
  PROVE  CC!ConexionEn(x, y) # "nada"
<1>1. CC!CabeceraEn(x, y) \in {"nada", "apagar", "preferencias"}
  BY DEF CC!CabeceraEn
<1>2. CC!MedioEn(x, y) \in {"nada", "anterior", "siguiente", "alternar"}
  BY DEF CC!MedioEn
<1>3. CC!BaldosaEn(x, y) # 0 => CC!Baldosas[CC!BaldosaEn(x, y)] \notin {"radio", "conexion"}
  <2>1. \A i \in 1..8 : CC!Baldosas[i] \notin {"radio", "conexion"}
    BY DEF CC!Baldosas
  <2>. QED BY <2>1, BaldosaEntre
<1>. QED BY <1>1, <1>2, <1>3, Zenon DEF CC!Zona

\* A press on the station, zone by zone: with everything carried out and read again, what it
\* leaves asked and shown agrees.
LEMMA EnEstacionBien ==
  ASSUME IInvCentro, tCC # CC!Nada, tCC.agarre = "nada", tCC.detalle = "nada", CC!Servido, NEW x \in Int, NEW y \in Int, CC!EnEstacion(x, y)
  PROVE  Pulsada'
<1>1. EsSistema(sis) /\ escritor = -1 /\ dedo \in Dedos /\ EsCentro(tCC) /\ cola = <<>> /\ fresca
  BY DEF IInvCentro, CuerpoCentro, CC!Servido
<1>2. sis.vol = tCC.vol /\ (dedo # -1 => sis.vol = dedo)
  <2>1. tCC.vol = sis.vol
    BY <1>1 DEF IInvCentro, CC!CopiaFiel, EsSistema
  <2>2. Rastro
    BY DEF IInvCentro
  <2>3. dedo # -1 => sis.vol = dedo
    BY <1>1, <2>2, ColaVacia DEF Rastro
  <2>. QED BY <2>1, <2>3
<1>3. tCC.transicion # CC!Nada => tCC.transicion.de = tCC.origen /\ tCC.transicion.clase # "abrir"
  BY DEF IInvCentro, Pildora, CC!DetalleDesdeSuPildora
<1>4. \A c : (EsCentro(c) /\ c.detalle = "nada" /\ c.origen = tCC.origen /\ c.transicion = tCC.transicion /\ tCC' = c)
        => Pildora'
  BY <1>3 DEF Pildora, CC!DetalleDesdeSuPildora
<1>5. tCC' = CC!Nada => Pildora'
  BY DEF Pildora, CC!DetalleDesdeSuPildora
\* Nothing is asked of the owners, or something that is not the volume.
<1>6. ASSUME EsSistema(sis'), sis'.vol = sis.vol, escritor' = escritor, dedo' = dedo,
             cola' = <<>> \/ \E op \in Pedidos : op.clase # "vol" /\ cola' = <<op>>,
             \/ tCC' = CC!Nada
             \/ /\ EsCentro(tCC') /\ tCC'.agarre = "nada" /\ tCC'.detalle = "nada" /\ tCC'.origen = tCC.origen
                /\ tCC'.transicion = tCC.transicion
             \/ EsCentro(tCC') /\ tCC'.agarre = "nada" /\ Pildora'
      PROVE  Pulsada'
  <2>1. Rastro'
    BY <1>1, <1>6, RastroSinVolumen DEF IInvCentro
  <2>2. Pildora'
    BY <1>4, <1>5, <1>6
  <2>3. escritor' \in Escritos
    BY <1>1, <1>6, Margenes
  <2>. QED BY <1>1, <1>6, <2>1, <2>2, <2>3 DEF CC!SueloDelBrillo, Pulsada
<1>7. CASE CC!PulsarMudo
  <2>1. tCC.audio = TRUE
    BY <1>1 DEF EsCentro
  <2>3. [clase |-> "mudo", a |-> ~tCC.mudo] \in Pedidos
    BY DEF Pedidos
  <2>2. tCC' = [tCC EXCEPT !.mudo = ~@] /\ cola' = <<[clase |-> "mudo", a |-> ~tCC.mudo]>>
        /\ sis' = sis /\ escritor' = escritor /\ dedo' = dedo
    BY <1>1, <1>7, <2>1, <2>3, ColaDeUno DEF CC!PulsarMudo, CC!Pide
  <2>4. EsCentro(tCC') /\ tCC'.agarre = "nada" /\ tCC'.detalle = "nada" /\ tCC'.origen = tCC.origen /\ tCC'.transicion = tCC.transicion
    BY <1>1, <2>2 DEF EsCentro, LadosT
  <2>. QED BY <1>1, <1>6, <2>2, <2>3, <2>4
<1>8. CASE CC!PulsarAuto
  <2>1. /\ tCC' = [tCC EXCEPT !.auto = ~@] /\ sis' = [sis EXCEPT !.auto = ~tCC.auto]
        /\ cola' = cola /\ escritor' = escritor /\ dedo' = dedo
    BY <1>8 DEF CC!PulsarAuto, CC!Quieto
  <2>2. EsCentro(tCC') /\ tCC'.agarre = "nada" /\ tCC'.detalle = "nada" /\ tCC'.origen = tCC.origen /\ tCC'.transicion = tCC.transicion
    BY <1>1, <2>1 DEF EsCentro, LadosT
  <2>3. EsSistema(sis') /\ sis'.vol = sis.vol
    BY <1>1, <2>1 DEF EsSistema, LadosSis
  <2>. QED BY <1>1, <1>6, <2>1, <2>2, <2>3
<1>9. CASE tCC' = CC!Nada /\ UNCHANGED sis /\ CC!Quieto
  BY <1>1, <1>6, <1>9 DEF CC!Quieto
<1>10. CASE UNCHANGED <<sis, tCC>> /\ CC!Quieto
  BY <1>1, <1>6, <1>10 DEF CC!Quieto
<1>11. ASSUME NEW mandato, CC!PulsarOrden(mandato), ~ (UNCHANGED <<sis, tCC>> /\ CC!Quieto)
       PROVE  Pulsada'
  <2>1. /\ tCC' = [tCC EXCEPT !.suena.toca = ~@] /\ sis' = [sis EXCEPT !.suena.toca = ~@]
        /\ cola' = cola /\ escritor' = escritor /\ dedo' = dedo
    BY <1>11 DEF CC!PulsarOrden, CC!Quieto
  <2>2. EsCentro(tCC') /\ tCC'.agarre = "nada" /\ tCC'.detalle = "nada" /\ tCC'.origen = tCC.origen /\ tCC'.transicion = tCC.transicion
    BY <1>1, <2>1 DEF EsCentro, LadosT
  <2>3. EsSistema(sis') /\ sis'.vol = sis.vol
    BY <1>1, <2>1 DEF EsSistema, LadosSis
  <2>. QED BY <1>1, <1>6, <2>1, <2>2, <2>3
<1>12. ASSUME NEW c \in {"wifi", "bt"}, CC!PulsarRadio(c)
       PROVE  Pulsada'
  <2>. DEFINE op == [clase |-> c, a |-> tCC[c] = "no"]
  <2>2. op \in Pedidos /\ op.clase # "vol"
    BY DEF Pedidos
  <2>4. cola' = cola \/ cola' = Append(cola, op)
    BY <1>12 DEF CC!PulsarRadio, CC!Pide
  <2>. HIDE DEF op
  <2>1. cola' = cola \/ cola' = <<op>>
    BY <1>1, <2>2, <2>4, ColaDeUno
  <2>3. UNCHANGED <<sis, tCC, escritor, dedo>>
    BY <1>12 DEF CC!PulsarRadio
  <2>. QED BY <1>1, <1>6, <2>1, <2>2, <2>3
<1>13. ASSUME NEW c \in {"wifi", "bt"}, CC!PulsarConexion(c)
       PROVE  Pulsada'
  <2>. DEFINE o == CC!OrigenDe(c)
              d == [tCC EXCEPT !.detalle = c, !.origen = o, !.transicion = [clase |-> "abrir", de |-> o]]
  <2>1. sis' = sis /\ cola' = cola /\ escritor' = escritor /\ dedo' = dedo /\ (tCC' = tCC \/ tCC' = d)
    BY <1>13 DEF CC!PulsarConexion, CC!Quieto
  <2>2. CASE tCC' = tCC
    BY <1>1, <1>6, <2>1, <2>2
  <2>3. CASE tCC' = d
    <3>. HIDE DEF o
    <3>1. /\ EsCentro(d) /\ d.agarre = "nada" /\ d.detalle = c /\ d.origen = o
          /\ d.transicion = [clase |-> "abrir", de |-> o]
      BY <1>1 DEF EsCentro, LadosT
    <3>. HIDE DEF d
    <3>4. /\ tCC'.agarre = "nada" /\ tCC'.detalle = c /\ tCC'.origen = o
          /\ tCC'.transicion = Paso("abrir", o)
      BY <2>3, <3>1 DEF Paso
    <3>5. tCC'.transicion.de = o /\ tCC'.transicion.clase = "abrir"
      BY <3>4, Pasos
    <3>6. tCC'.origen = CC!OrigenDe(tCC'.detalle)
      BY <3>4 DEF o
    <3>2. /\ tCC'.transicion.de = tCC'.origen /\ tCC'.transicion.clase = "abrir" /\ tCC'.detalle = c /\ tCC'.agarre = "nada"
          /\ tCC'.origen = CC!OrigenDe(tCC'.detalle)
      BY <3>4, <3>5, <3>6
    <3>3. Pildora'
      BY <3>2 DEF Pildora, CC!DetalleDesdeSuPildora
    <3>. QED BY <1>1, <1>6, <2>1, <2>3, <3>1, <3>3
  <2>. QED BY <2>1, <2>2, <2>3
<1>14. ASSUME NEW b, CC!PulsarBaldosa(b)
       PROVE  Pulsada'
  <2>1. CASE b = "avion"
    <3>. DEFINE op == [clase |-> "avion", a |-> ~tCC.avion]
    <3>1. op \in Pedidos /\ op.clase # "vol"
      BY DEF Pedidos
    <3>2. cola' = Append(cola, op) /\ UNCHANGED <<sis, tCC, escritor, dedo>>
      BY <1>14, <2>1 DEF CC!PulsarBaldosa, CC!Pide
    <3>. HIDE DEF op
    <3>3. cola' = <<op>>
      BY <1>1, <3>1, <3>2, ColaDeUno
    <3>. QED BY <1>1, <1>6, <3>1, <3>2, <3>3
  <2>2. CASE b \in {"ahorro", "mantener", "noche"}
    <3>1. /\ \E k \in {"ahorro", "mantener", "noche"} : \E v : tCC' = [tCC EXCEPT ![k] = v]
          /\ \E k \in {"perfil", "despierto", "noche"} : \E v : sis' = [sis EXCEPT ![k] = v]
          /\ cola' = cola /\ escritor' = escritor /\ dedo' = dedo
      <4>1. CASE b = "ahorro"
        BY <1>14, <4>1 DEF CC!PulsarBaldosa, CC!Quieto
      <4>2. CASE b = "mantener"
        BY <1>14, <4>2 DEF CC!PulsarBaldosa, CC!Quieto
      <4>3. CASE b = "noche"
        BY <1>14, <4>3 DEF CC!PulsarBaldosa, CC!Quieto
      <4>. QED BY <2>2, <4>1, <4>2, <4>3
    <3>2. EsCentro(tCC') /\ tCC'.agarre = "nada" /\ tCC'.detalle = "nada" /\ tCC'.origen = tCC.origen /\ tCC'.transicion = tCC.transicion
      <4>0. PICK k \in {"ahorro", "mantener", "noche"} : \E v : tCC' = [tCC EXCEPT ![k] = v]
        BY <3>1
      <4>1. PICK v : tCC' = [tCC EXCEPT ![k] = v]
        BY <4>0
      <4>. QED BY <1>1, <4>1 DEF EsCentro, LadosT
    <3>3. EsSistema(sis') /\ sis'.vol = sis.vol
      <4>0. PICK k \in {"perfil", "despierto", "noche"} : \E v : sis' = [sis EXCEPT ![k] = v]
        BY <3>1
      <4>1. PICK v : sis' = [sis EXCEPT ![k] = v]
        BY <4>0
      <4>. QED BY <1>1, <4>1 DEF EsSistema, LadosSis
    <3>. QED BY <1>1, <1>6, <3>1, <3>2, <3>3
  <2>3. CASE b \notin {"avion", "ahorro", "mantener", "noche"}
    BY <1>9, <1>14, <2>3 DEF CC!PulsarBaldosa
  <2>. QED BY <2>1, <2>2, <2>3
<1>15. CASE CC!PonerVolumen([tCC EXCEPT !.agarre = "vol", !.inicial = tCC.vol], CC!NivelEn(x)) /\ UNCHANGED sis
  <2>. DEFINE n == CC!NivelEn(x)
              c == [tCC EXCEPT !.agarre = "vol", !.inicial = tCC.vol]
              d == [c EXCEPT !.vol = n]
  <2>1. n \in 0..100
    BY NivelEsPorCiento
  <2>. HIDE DEF n
  <2>2. /\ EsCentro(d) /\ d.agarre = "vol" /\ d.vol = n /\ d.detalle = tCC.detalle
        /\ d.origen = tCC.origen /\ d.transicion = tCC.transicion
    BY <1>1, <2>1 DEF EsCentro, LadosT
  <2>3. c.vol = tCC.vol
    BY <1>1 DEF EsCentro, LadosT
  <2>4. /\ tCC' = d /\ dedo' = n /\ escritor' = escritor /\ sis' = sis
        /\ IF n = c.vol THEN cola' = cola ELSE cola' = Append(cola, [clase |-> "vol", a |-> n])
    BY <1>15 DEF CC!PonerVolumen, CC!Pide, n
  <2>. HIDE DEF c, d
  <2>7. Pildora'
    BY <1>4, <2>2, <2>4
  <2>8. escritor' \in Escritos /\ CC!SueloDelBrillo' /\ dedo' \in Dedos
    BY <1>1, <2>1, <2>4, Margenes DEF CC!SueloDelBrillo
  <2>5. CASE n = tCC.vol
    <3>1. cola' = <<>> /\ sis'.vol = dedo' /\ tCC'.vol = dedo'
      BY <1>1, <1>2, <2>2, <2>3, <2>4, <2>5
    <3>2. Rastro'
      BY <3>1, ColaVacia DEF Rastro
    <3>. QED BY <1>1, <2>2, <2>4, <2>7, <2>8, <3>1, <3>2 DEF Pulsada
  <2>6. CASE n # tCC.vol
    <3>. DEFINE op == [clase |-> "vol", a |-> n]
    <3>1. op \in Pedidos /\ op.clase = "vol" /\ op.a = n
      BY <2>1 DEF Pedidos
    <3>2. cola' = Append(cola, op)
      BY <2>3, <2>4, <2>6
    <3>. HIDE DEF op
    <3>3. cola' = <<op>>
      BY <1>1, <3>1, <3>2, ColaDeUno
    <3>6. tCC'.vol = n /\ dedo' = n
      BY <2>2, <2>4
    <3>9. \A i \in 1..Len(cola') : cola'[i] = op
      BY <3>1, <3>3, DeUno
    <3>7. \A i \in 1..Len(cola') : cola'[i].clase = "vol" /\ cola'[i].a = n
      BY <3>1, <3>9
    <3>8. 1 \in 1..Len(cola')
      BY <3>1, <3>3, DeUno
    <3>4. Rastro'
      BY <3>6, <3>7, <3>8 DEF Rastro
    <3>. QED BY <1>1, <2>2, <2>4, <2>7, <2>8, <3>1, <3>3, <3>4 DEF Pulsada
  <2>. QED BY <2>5, <2>6
<1>16. CASE CC!PonerBrillo([tCC EXCEPT !.agarre = "bri"], CC!NivelEn(x)) /\ UNCHANGED sis
  <2>. DEFINE n == CC!Acotar(CC!NivelEn(x), 5, 100)
              c == [tCC EXCEPT !.agarre = "bri"]
              d == [c EXCEPT !.bri = n]
  <2>0. CC!NivelEn(x) \in 0..100
    BY NivelEsPorCiento
  <2>1. n \in 5..100 /\ n \in 0..100
    BY <2>0, AcotarEntre
  <2>2. /\ UNCHANGED <<cola, dedo, sis>>
        /\ \/ tCC' = c /\ escritor' = escritor
           \/ tCC' = d /\ escritor' = CC!Redondeo(MaxCrudo * n, 100)
    BY <1>16 DEF CC!PonerBrillo
  <2>. HIDE DEF n
  <2>3. /\ EsCentro(d) /\ d.agarre = "bri" /\ d.vol = tCC.vol /\ d.detalle = tCC.detalle
        /\ d.origen = tCC.origen /\ d.transicion = tCC.transicion
    BY <1>1, <2>1 DEF EsCentro, LadosT
  <2>4. /\ EsCentro(c) /\ c.agarre = "bri" /\ c.detalle = tCC.detalle
        /\ c.origen = tCC.origen /\ c.transicion = tCC.transicion
    BY <1>1 DEF EsCentro, LadosT
  <2>. HIDE DEF c, d
  <2>5. EsCentro(tCC') /\ tCC'.agarre = "bri" /\ tCC'.detalle = "nada" /\ tCC'.origen = tCC.origen /\ tCC'.transicion = tCC.transicion
    BY <2>2, <2>3, <2>4
  <2>6. escritor' \in Escritos /\ CC!SueloDelBrillo'
    <3>1. CC!Redondeo(MaxCrudo * n, 100) \in 0..MaxCrudo /\ CC!Redondeo(MaxCrudo * n, 100) >= CC!Redondeo(MaxCrudo * 5, 100)
      BY <2>1, CrudoDelNivel
    <3>2. escritor' = -1 \/ escritor' = CC!Redondeo(MaxCrudo * n, 100)
      BY <1>1, <2>2
    <3>3. escritor' \in Escritos
      BY <3>1, <3>2, Margenes
    <3>4. CC!SueloDelBrillo'
      BY <3>1, <3>2 DEF CC!SueloDelBrillo
    <3>. QED BY <3>3, <3>4
  <2>7. Rastro'
    BY <1>1, <2>2, <2>5, RastroSinVolumen DEF IInvCentro
  <2>8. Pildora'
    BY <1>4, <2>5
  <2>. QED BY <1>1, <2>2, <2>5, <2>6, <2>7, <2>8 DEF Pulsada
<1>17. CC!ConexionEn(x, y) # "nada" => CC!ConexionEn(x, y) \in {"wifi", "bt"}
  BY DEF CC!ConexionEn
<1>. DEFINE z == CC!Zona(tCC, x, y)
<1>18. z \in {"radio", "conexion"} => CC!ConexionEn(x, y) # "nada"
  BY ZonaDeRadio
<1>. QED
  <2>. HIDE DEF z
  <2>1. \/ CC!PulsarMudo \/ CC!PulsarAuto \/ (tCC' = CC!Nada /\ UNCHANGED sis /\ CC!Quieto)
        \/ (CC!PonerVolumen([tCC EXCEPT !.agarre = "vol", !.inicial = tCC.vol], CC!NivelEn(x)) /\ UNCHANGED sis)
        \/ (CC!PonerBrillo([tCC EXCEPT !.agarre = "bri"], CC!NivelEn(x)) /\ UNCHANGED sis)
        \/ (UNCHANGED <<sis, tCC>> /\ CC!Quieto)
        \/ CC!PulsarOrden(z)
        \/ (z = "radio" /\ CC!PulsarRadio(CC!ConexionEn(x, y)))
        \/ (z = "conexion" /\ CC!PulsarConexion(CC!ConexionEn(x, y)))
        \/ CC!PulsarBaldosa(z)
    BY DEF CC!EnEstacion, CC!PulsarAvance, z
  <2>. QED BY <1>7, <1>8, <1>9, <1>10, <1>11, <1>12, <1>13, <1>14, <1>15, <1>16, <1>17, <1>18, <2>1

\* Whoever paints leaves the canvas as the card is.
LEMMA Pintado == ASSUME CC!Pintar PROVE CC!PintadaAlDia'
BY DEF CC!Pintar, CC!PintadaAlDia

\* A press keeps the invariant, on the station and on a list.
LEMMA PulsarBien ==
  ASSUME Impaciente = FALSE, IInvCentro, NEW p \in PuntosCentro, CC!Pulsar(p)
  PROVE  IInvCentro'
<1>1. p[1] \in Int /\ p[2] \in Int /\ PulsosCentro \in Nat
  BY CentroAssumption
<1>2. pulsosCC' \in 0..PulsosCentro /\ pulsosCC' = pulsosCC + 1 /\ pulsosCC \in Nat
  BY <1>1 DEF CC!Pulsar, IInvCentro, CuerpoCentro
<1>3. CC!CopiaFiel' /\ CC!PintadaAlDia' /\ fresca' \in BOOLEAN
  <2>1. fresca' = FALSE /\ CC!Pintar
    BY DEF CC!Pulsar
  <2>. QED BY <2>1, Pintado DEF CC!CopiaFiel
<1>4. tCC # CC!Nada /\ tCC.agarre = "nada" /\ ~ Cogida
  BY DEF CC!Pulsar, Cogida
<1>5. CASE tCC.detalle = "nada"
  <2>1. CC!Servido /\ CC!EnEstacion(p[1], p[2])
    BY <1>5 DEF CC!Pulsar
  <2>2. Pulsada'
    BY <1>1, <1>4, <1>5, <2>1, EnEstacionBien
  <2>3. cola' \in Seq(Pedidos) /\ Len(cola') <= 1
    BY <2>2, DeUnoALoMas DEF Pulsada
  <2>4. Reparto'
    BY <1>2, <2>3 DEF Reparto
  <2>5. CuerpoCentro'
    BY <1>2, <1>3, <2>2, <2>3 DEF CuerpoCentro, Pulsada
  <2>. QED BY <1>3, <2>2, <2>4, <2>5 DEF IInvCentro, Pulsada
<1>6. CASE tCC.detalle # "nada"
  <2>1. UNCHANGED <<sis, cola, escritor, dedo>>
    BY <1>6 DEF CC!Pulsar, CC!Volver, CC!Quieto
  <2>2. EsCentro(tCC) /\ EsSistema(sis) /\ CC!Brillo \in 0..100
    BY <1>4, BrilloEsPorCiento DEF IInvCentro, CuerpoCentro
  <2>3. tCC' = tCC \/ tCC' = CC!Vuelta
    BY <1>6 DEF CC!Pulsar, CC!Volver
  <2>4. EsCentro(tCC') /\ tCC'.agarre = "nada" /\ Pildora'
    <3>1. CASE tCC' = tCC
      BY <1>4, <2>2, <3>1 DEF IInvCentro, Pildora, CC!DetalleDesdeSuPildora
    <3>2. CASE tCC' = CC!Vuelta
      BY <1>4, <2>2, <3>2, VueltaEsTarjeta DEF Pildora, CC!DetalleDesdeSuPildora
    <3>. QED BY <2>3, <3>1, <3>2
  <2>5. tCC' # CC!Nada
    BY <2>4, NadaNoEsTarjeta
  <2>6. Reparto'
    BY <1>2, <1>4, <2>1, <2>4 DEF Reparto, Cogida, IInvCentro, CuerpoCentro
  <2>7. CuerpoCentro'
    BY <1>2, <1>3, <2>1, <2>4 DEF CuerpoCentro, IInvCentro
  <2>8. Rastro'
    BY <1>4, <2>1, <2>4 DEF Rastro, IInvCentro
  <2>9. CC!SueloDelBrillo'
    BY <2>1 DEF IInvCentro, CC!SueloDelBrillo
  <2>. QED BY <1>3, <2>4, <2>6, <2>7, <2>8, <2>9 DEF IInvCentro
<1>. QED BY <1>5, <1>6


\* What a request more leaves of the queue.
LEMMA UnoMas ==
  ASSUME NEW q \in Seq(Pedidos), NEW op \in Pedidos
  PROVE  /\ Append(q, op) \in Seq(Pedidos) /\ Len(Append(q, op)) = Len(q) + 1 /\ Len(q) \in Nat
         /\ Append(q, op)[Len(q) + 1] = op
         /\ \A i \in 1..Len(q) : Append(q, op)[i] = q[i]
OBVIOUS

\* The request the finger adds is the last one for a volume.
LEMMA RastroConVolumen ==
  ASSUME cola \in Seq(Pedidos), NEW n \in 0..100, cola' = Append(cola, [clase |-> "vol", a |-> n]),
         dedo' = n, (tCC' # CC!Nada /\ tCC'.agarre = "vol") => tCC'.vol = n
  PROVE  Rastro' /\ cola' \in Seq(Pedidos) /\ Len(cola') = Len(cola) + 1
<1>. DEFINE op == [clase |-> "vol", a |-> n]
<1>1. op \in Pedidos /\ op.clase = "vol" /\ op.a = n
  BY DEF Pedidos
<1>. HIDE DEF op
<1>2. cola' = Append(cola, op)
  BY DEF op
<1>3. cola' \in Seq(Pedidos) /\ Len(cola') = Len(cola) + 1 /\ cola'[Len(cola')] = op /\ Len(cola) \in Nat
  BY <1>1, <1>2, UnoMas
<1>. DEFINE m == Len(cola')
<1>4. m \in 1..m /\ cola'[m].clase = "vol" /\ cola'[m].a = n
  BY <1>1, <1>3
<1>5. \A i \in 1..m : (cola'[i].clase = "vol" /\ \A j \in 1..m : j > i => cola'[j].clase # "vol") => i = m
  BY <1>3, <1>4
<1>6. \A i \in 1..m : (cola'[i].clase = "vol" /\ \A j \in 1..m : j > i => cola'[j].clase # "vol") => cola'[i].a = dedo'
  BY <1>4, <1>5
<1>. QED BY <1>3, <1>4, <1>6 DEF Rastro

\* The queue with the finger's request.
LEMMA AlMenosCrece ==
  ASSUME cola \in Seq(Pedidos), NEW n \in 0..100, cola' = Append(cola, [clase |-> "vol", a |-> n])
  PROVE  cola' \in Seq(Pedidos) /\ Len(cola') <= Len(cola) + 1
<1>1. [clase |-> "vol", a |-> n] \in Pedidos
  BY DEF Pedidos
<1>. QED BY <1>1, UnoMas

\* A drag keeps the invariant.
LEMMA ArrastrarBien == ASSUME IInvCentro, NEW p \in PuntosCentro, CC!Arrastrar(p) PROVE IInvCentro'
<1>1. p[1] \in Int /\ CC!NivelEn(p[1]) \in 0..100
  BY CentroAssumption, NivelEsPorCiento
<1>2. /\ EsCentro(tCC) /\ EsSistema(sis) /\ tCC # CC!Nada /\ tCC.agarre \in {"vol", "bri"} /\ tCC.detalle = "nada"
      /\ cola \in Seq(Pedidos) /\ Len(cola) <= pulsosCC /\ pulsosCC \in Nat
  BY CentroAssumption DEF CC!Arrastrar, IInvCentro, CuerpoCentro, EsCentro, Reparto, Cogida
<1>3. pulsosCC' = pulsosCC + 1 /\ pulsosCC' \in 0..PulsosCentro /\ sis' = sis /\ fresca' = FALSE /\ tCC' # tCC
  BY <1>2, CentroAssumption DEF CC!Arrastrar, IInvCentro, CuerpoCentro
<1>4. CC!CopiaFiel' /\ CC!PintadaAlDia'
  BY <1>3, Pintado DEF CC!CopiaFiel, CC!Arrastrar
<1>5. ASSUME EsCentro(tCC'), tCC'.agarre = tCC.agarre, tCC'.detalle = tCC.detalle, tCC'.origen = tCC.origen,
             tCC'.transicion = tCC.transicion
      PROVE  tCC' # CC!Nada /\ Pildora'
  BY <1>2, <1>5, NadaNoEsTarjeta DEF IInvCentro, Pildora, CC!DetalleDesdeSuPildora
<1>6. CASE tCC.agarre = "vol"
  <2>. DEFINE n == CC!NivelEn(p[1])
  <2>1. /\ tCC' = [tCC EXCEPT !.vol = n] /\ dedo' = n /\ escritor' = escritor
        /\ IF n = tCC.vol THEN cola' = cola ELSE cola' = Append(cola, [clase |-> "vol", a |-> n])
    BY <1>6 DEF CC!Arrastrar, CC!PonerVolumen, CC!Pide
  <2>2. n \in 0..100
    BY <1>1
  <2>. HIDE DEF n
  <2>3. n # tCC.vol
    <3>. SUFFICES ASSUME n = tCC.vol PROVE FALSE
      OBVIOUS
    <3>1. tCC' = tCC
      BY <1>2, <2>1 DEF EsCentro, LadosT
    <3>. QED BY <1>3, <3>1
  <2>4. /\ EsCentro(tCC') /\ tCC'.agarre = tCC.agarre /\ tCC'.detalle = tCC.detalle /\ tCC'.origen = tCC.origen
        /\ tCC'.transicion = tCC.transicion /\ tCC'.vol = n
    BY <1>2, <2>1, <2>2 DEF EsCentro, LadosT
  <2>5. Rastro' /\ cola' \in Seq(Pedidos) /\ Len(cola') = Len(cola) + 1
    BY <1>2, <2>1, <2>2, <2>3, <2>4, RastroConVolumen
  <2>6. Len(cola') <= pulsosCC'
    BY <1>2, <1>3, <2>5
  <2>7. Reparto'
    <3>1. Cogida'
      BY <1>5, <1>6, <2>4 DEF Cogida
    <3>2. pulsosCC' \in Int
      BY <1>3
    <3>. QED BY <2>6, <3>1, <3>2 DEF Reparto
  <2>8. dedo' \in Dedos /\ escritor' \in Escritos /\ CC!SueloDelBrillo'
    BY <2>1, <2>2, Margenes DEF IInvCentro, CuerpoCentro, CC!SueloDelBrillo
  <2>. QED BY <1>2, <1>3, <1>4, <1>5, <2>4, <2>5, <2>7, <2>8 DEF IInvCentro, CuerpoCentro
<1>7. CASE tCC.agarre = "bri"
  <2>. DEFINE n == CC!Acotar(CC!NivelEn(p[1]), 5, 100)
  <2>1. /\ cola' = cola /\ dedo' = dedo
        /\ tCC' = tCC \/ (tCC' = [tCC EXCEPT !.bri = n] /\ escritor' = CC!Redondeo(MaxCrudo * n, 100))
    BY <1>7 DEF CC!Arrastrar, CC!PonerBrillo
  <2>2. n \in 5..100 /\ n \in 0..100
    BY <1>1, AcotarEntre
  <2>. HIDE DEF n
  <2>3. tCC' = [tCC EXCEPT !.bri = n] /\ escritor' = CC!Redondeo(MaxCrudo * n, 100)
    BY <1>3, <2>1
  <2>4. /\ EsCentro(tCC') /\ tCC'.agarre = tCC.agarre /\ tCC'.detalle = tCC.detalle /\ tCC'.origen = tCC.origen
        /\ tCC'.transicion = tCC.transicion
    BY <1>2, <2>2, <2>3 DEF EsCentro, LadosT
  <2>5. CC!Redondeo(MaxCrudo * n, 100) \in 0..MaxCrudo /\ CC!Redondeo(MaxCrudo * n, 100) >= CC!Redondeo(MaxCrudo * 5, 100)
    BY <2>2, CrudoDelNivel
  <2>6. escritor' \in Escritos /\ CC!SueloDelBrillo'
    BY <2>3, <2>5, Margenes DEF CC!SueloDelBrillo
  <2>7. Len(cola') <= pulsosCC'
    BY <1>2, <1>3, <2>1
  <2>8. Reparto'
    <3>1. Cogida'
      BY <1>5, <1>7, <2>4 DEF Cogida
    <3>2. pulsosCC' \in Int
      BY <1>3
    <3>. QED BY <2>7, <3>1, <3>2 DEF Reparto
  <2>9. Rastro'
    BY <1>3, <1>7, <2>1, <2>4 DEF Rastro, IInvCentro
  <2>10. dedo' \in Dedos /\ cola' \in Seq(Pedidos)
    BY <1>2, <2>1 DEF IInvCentro, CuerpoCentro
  <2>. QED BY <1>2, <1>3, <1>4, <1>5, <2>4, <2>6, <2>8, <2>9, <2>10 DEF IInvCentro, CuerpoCentro
<1>. QED BY <1>2, <1>6, <1>7

\* Letting go of a slider keeps the invariant: the last request is the finger's.
LEMMA SoltarBien == ASSUME IInvCentro, CC!Soltar PROVE IInvCentro'
<1>1. /\ EsCentro(tCC) /\ EsSistema(sis) /\ tCC # CC!Nada /\ tCC.agarre # "nada" /\ tCC.vol \in 0..100
      /\ cola \in Seq(Pedidos) /\ Len(cola) <= pulsosCC /\ pulsosCC \in 0..PulsosCentro /\ Len(cola) \in Nat
  BY CentroAssumption DEF CC!Soltar, IInvCentro, CuerpoCentro, EsCentro, Reparto, Cogida
<1>2. tCC' = [tCC EXCEPT !.agarre = "nada"] /\ fresca' = FALSE /\ UNCHANGED <<sis, escritor, dedo, pulsosCC>>
  BY DEF CC!Soltar, CC!cuentas
<1>3. CC!CopiaFiel' /\ CC!PintadaAlDia'
  BY <1>2, Pintado DEF CC!CopiaFiel, CC!Soltar
<1>4. /\ EsCentro(tCC') /\ tCC'.agarre = "nada" /\ tCC'.detalle = tCC.detalle /\ tCC'.origen = tCC.origen
      /\ tCC'.transicion = tCC.transicion
  BY <1>1, <1>2 DEF EsCentro, LadosT
<1>5. tCC' # CC!Nada /\ Pildora'
  BY <1>1, <1>4, NadaNoEsTarjeta DEF IInvCentro, Pildora, CC!DetalleDesdeSuPildora
<1>6. CC!SueloDelBrillo'
  BY <1>2 DEF IInvCentro, CC!SueloDelBrillo
<1>7. Rastro' /\ cola' \in Seq(Pedidos) /\ Len(cola') <= Len(cola) + 1
  <2>1. CASE cola' = cola
    <3>1. Rastro'
      BY <1>2, <1>4, <2>1 DEF IInvCentro, Rastro
    <3>. QED BY <1>1, <2>1, <3>1
  <2>2. CASE tCC.agarre = "vol" /\ cola' = Append(cola, [clase |-> "vol", a |-> tCC.vol])
    <3>. DEFINE n == tCC.vol
    <3>. HIDE DEF n
    <3>1. n \in 0..100 /\ cola' = Append(cola, [clase |-> "vol", a |-> n])
      BY <1>1, <2>2 DEF n
    <3>2. CASE dedo = -1
      <4>1. Rastro'
        BY <1>2, <3>2 DEF Rastro
      <4>. QED BY <1>1, <4>1, <3>1, AlMenosCrece
    <3>3. dedo # -1 => dedo' = n
      BY <1>1, <1>2, <2>2 DEF IInvCentro, Rastro, n
    <3>4. dedo' = n => Rastro' /\ cola' \in Seq(Pedidos) /\ Len(cola') = Len(cola) + 1
      BY <1>1, <1>4, <3>1, RastroConVolumen
    <3>. QED BY <1>1, <3>2, <3>3, <3>4
  <2>. QED BY <2>1, <2>2 DEF CC!Soltar, CC!Pide
<1>8. Len(cola') <= pulsosCC' + 1
  BY <1>1, <1>2, <1>7
<1>9. Reparto'
  BY <1>4, <1>8 DEF Reparto, Cogida
<1>10. CuerpoCentro'
  BY <1>1, <1>2, <1>4, <1>7 DEF IInvCentro, CuerpoCentro
<1>. QED BY <1>3, <1>5, <1>6, <1>7, <1>9, <1>10 DEF IInvCentro

\* Steps that leave the system, its queue and the finger alone.
LEMMA SoloLaTarjeta ==
  ASSUME IInvCentro, sis' = sis, cola' = cola, escritor' = escritor, dedo' = dedo, pulsosCC' = pulsosCC, fresca' \in BOOLEAN,
         tCC' = CC!Nada \/ (EsCentro(tCC') /\ tCC'.agarre = "nada")
           \/ (tCC # CC!Nada /\ EsCentro(tCC') /\ tCC'.agarre = tCC.agarre /\ tCC'.vol = tCC.vol) \/ tCC' = tCC
  PROVE  CuerpoCentro' /\ CC!SueloDelBrillo' /\ Rastro'
<1>1. tCC' = CC!Nada \/ EsCentro(tCC')
  BY DEF IInvCentro, CuerpoCentro
<1>2. CuerpoCentro'
  BY <1>1 DEF IInvCentro, CuerpoCentro
<1>3. CC!SueloDelBrillo'
  BY DEF IInvCentro, CC!SueloDelBrillo
<1>4. Rastro'
  BY DEF IInvCentro, Rastro
<1>. QED BY <1>2, <1>3, <1>4

\* Escape keeps the invariant: from a list it goes back, from the station it closes.
LEMMA EscapeBien == ASSUME IInvCentro, CC!Escape PROVE IInvCentro'
<1>1. /\ EsCentro(tCC) /\ EsSistema(sis) /\ tCC # CC!Nada /\ fresca \in BOOLEAN
      /\ Len(cola) \in Nat /\ pulsosCC \in Nat /\ CC!Brillo \in 0..100
  BY CentroAssumption, BrilloEsPorCiento DEF CC!Escape, IInvCentro, CuerpoCentro
<1>2. UNCHANGED <<sis, cola, escritor, dedo, fresca, pulsosCC>> /\ CC!PintadaAlDia'
  BY Pintado DEF CC!Escape, CC!Volver, CC!Quieto, CC!cuentas
<1>0. fresca' \in BOOLEAN /\ sis' = sis /\ cola' = cola /\ escritor' = escritor /\ dedo' = dedo /\ pulsosCC' = pulsosCC
  BY <1>1, <1>2
<1>3. CASE tCC' = CC!Nada
  <2>1. ~ Cogida'
    BY <1>3 DEF Cogida
  <2>2. Reparto'
    BY <1>1, <1>2, <2>1 DEF IInvCentro, Reparto
  <2>3. Pildora' /\ CC!CopiaFiel'
    BY <1>3 DEF Pildora, CC!DetalleDesdeSuPildora, CC!CopiaFiel
  <2>4. CuerpoCentro' /\ CC!SueloDelBrillo' /\ Rastro'
    BY <1>0, <1>3, SoloLaTarjeta
  <2>. QED BY <1>2, <2>2, <2>3, <2>4 DEF IInvCentro
<1>4. CASE tCC.detalle # "nada" /\ tCC' = CC!Vuelta
  <2>0. tCC.agarre = "nada"
    BY <1>1, <1>4 DEF IInvCentro, Pildora
  <2>1. /\ EsCentro(tCC') /\ tCC'.agarre = "nada" /\ tCC'.detalle = "nada"
        /\ tCC'.transicion.de = tCC'.origen /\ tCC'.transicion.clase = "cerrar"
        /\ tCC'.wifi = sis.wifi /\ tCC'.bt = sis.bt /\ tCC'.avion = CC!Avion
        /\ tCC'.vol = sis.vol /\ tCC'.mudo = sis.mudo
        /\ tCC'.bri = CC!Brillo /\ tCC'.auto = CC!Automatico
    BY <1>1, <1>4, <2>0, VueltaEsTarjeta
  <2>2. ~ Cogida' /\ Pildora'
    BY <2>1 DEF Cogida, Pildora, CC!DetalleDesdeSuPildora
  <2>3. Reparto'
    BY <1>1, <1>2, <2>2 DEF IInvCentro, Reparto
  <2>4. CC!CopiaFiel'
    BY <1>2, <2>1 DEF CC!CopiaFiel, CC!Avion, CC!Brillo, CC!Automatico
  <2>5. CuerpoCentro' /\ CC!SueloDelBrillo' /\ Rastro'
    BY <1>0, <2>1, SoloLaTarjeta
  <2>. QED BY <1>2, <2>2, <2>3, <2>4, <2>5 DEF IInvCentro
<1>. QED BY <1>3, <1>4 DEF CC!Escape, CC!Volver

\* The compositor taking the transition keeps the invariant: the picture does not show it.
LEMMA TomarTransicionBien == ASSUME IInvCentro, CC!TomarTransicion PROVE IInvCentro'
<1>1. /\ EsCentro(tCC) /\ EsSistema(sis) /\ tCC # CC!Nada /\ tCC' = [tCC EXCEPT !.transicion = CC!Nada]
      /\ UNCHANGED <<sis, cola, escritor, pintadaCC, dedo, fresca, pulsosCC>> /\ fresca \in BOOLEAN
  BY DEF CC!TomarTransicion, IInvCentro, CuerpoCentro, CC!cuentas
<1>2. /\ EsCentro(tCC') /\ tCC'.agarre = tCC.agarre /\ tCC'.detalle = tCC.detalle /\ tCC'.origen = tCC.origen
      /\ tCC'.transicion = CC!Nada /\ tCC'.wifi = tCC.wifi /\ tCC'.bt = tCC.bt /\ tCC'.avion = tCC.avion
      /\ tCC'.vol = tCC.vol /\ tCC'.mudo = tCC.mudo /\ tCC'.bri = tCC.bri /\ tCC'.auto = tCC.auto /\ tCC'.suena = tCC.suena
      /\ tCC'.noche = tCC.noche /\ tCC'.ahorro = tCC.ahorro /\ tCC'.mantener = tCC.mantener /\ tCC'.dnd = tCC.dnd
  BY <1>1 DEF EsCentro, LadosT
<1>3. tCC' # CC!Nada
  BY <1>2, NadaNoEsTarjeta
<1>4. CC!Vista(tCC') = CC!Vista(tCC)
  BY <1>2 DEF CC!Vista, CC!IconoVolumen, CC!IconoBrillo, CC!Encendidas, CC!Alto
<1>5. CC!PintadaAlDia'
  BY <1>1, <1>3, <1>4 DEF IInvCentro, CC!PintadaAlDia
<1>6. CC!CopiaFiel'
  BY <1>1, <1>2 DEF IInvCentro, CC!CopiaFiel, CC!Avion, CC!Brillo, CC!Automatico
<1>7. Pildora'
  BY <1>1, <1>2 DEF IInvCentro, Pildora, CC!DetalleDesdeSuPildora
<1>8. Cogida' = Cogida
  BY <1>1, <1>2, <1>3 DEF Cogida
<1>9. Reparto'
  BY <1>1, <1>8 DEF IInvCentro, Reparto
<1>. QED BY <1>1, <1>2, <1>5, <1>6, <1>7, <1>9, SoloLaTarjeta DEF IInvCentro

\* Opening the card keeps the invariant.
LEMMA AbrirBien == ASSUME IInvCentro, CC!Abrir PROVE IInvCentro'
<1>1. /\ EsSistema(sis) /\ tCC = CC!Nada /\ tCC' = CC!Nueva /\ fresca' = TRUE /\ CC!Brillo \in 0..100
      /\ UNCHANGED <<sis, cola, escritor, dedo, pulsosCC>>
  BY BrilloEsPorCiento DEF CC!Abrir, IInvCentro, CuerpoCentro
<1>2. /\ EsCentro(tCC') /\ tCC'.agarre = "nada" /\ tCC'.detalle = "nada" /\ tCC'.transicion = CC!Nada
      /\ tCC'.wifi = sis.wifi /\ tCC'.bt = sis.bt /\ tCC'.avion = CC!Avion
      /\ tCC'.vol = sis.vol /\ tCC'.mudo = sis.mudo /\ tCC'.bri = CC!Brillo /\ tCC'.auto = CC!Automatico
  BY <1>1, NuevaEsTarjeta
<1>3. CC!PintadaAlDia'
  BY Pintado DEF CC!Abrir
<1>4. CC!CopiaFiel'
  BY <1>1, <1>2 DEF CC!CopiaFiel, CC!Avion, CC!Brillo, CC!Automatico
<1>5. Pildora'
  BY <1>2 DEF Pildora, CC!DetalleDesdeSuPildora
<1>6. ~ Cogida /\ ~ Cogida'
  BY <1>1, <1>2 DEF Cogida
<1>7. Reparto'
  BY <1>1, <1>6 DEF IInvCentro, Reparto
<1>8. fresca' \in BOOLEAN /\ sis' = sis /\ cola' = cola /\ escritor' = escritor /\ dedo' = dedo /\ pulsosCC' = pulsosCC
  BY <1>1
<1>9. CuerpoCentro' /\ CC!SueloDelBrillo' /\ Rastro'
  BY <1>2, <1>8, SoloLaTarjeta
<1>. QED BY <1>3, <1>4, <1>5, <1>7, <1>9 DEF IInvCentro

\* The second hand keeps the invariant: the slider under the finger is not read again.
LEMMA SegundoBien == ASSUME IInvCentro, CC!Segundo PROVE IInvCentro'
<1>1. /\ EsCentro(tCC) /\ EsSistema(sis) /\ tCC # CC!Nada /\ CC!Brillo \in 0..100
      /\ tCC.detalle = "nada" /\ tCC' = CC!Refrescada(tCC) /\ fresca' = (tCC.agarre = "nada")
      /\ UNCHANGED <<sis, cola, escritor, dedo, pulsosCC>>
  BY BrilloEsPorCiento DEF CC!Segundo, IInvCentro, CuerpoCentro, CC!cuentas
<1>2. /\ EsCentro(tCC') /\ tCC'.agarre = tCC.agarre /\ tCC'.detalle = tCC.detalle /\ tCC'.origen = tCC.origen
      /\ tCC'.transicion = tCC.transicion /\ tCC'.wifi = sis.wifi /\ tCC'.bt = sis.bt /\ tCC'.avion = CC!Avion
      /\ tCC'.vol = IF tCC.agarre = "vol" THEN tCC.vol ELSE sis.vol
      /\ tCC'.mudo = sis.mudo
      /\ tCC.agarre # "bri" => tCC'.bri = CC!Brillo /\ tCC'.auto = CC!Automatico
  BY <1>1, RefrescadaEsTarjeta
<1>3. tCC' # CC!Nada
  BY <1>2, NadaNoEsTarjeta
<1>4. CC!PintadaAlDia'
  <2>1. CASE tCC' # tCC
    BY <2>1, Pintado DEF CC!Segundo
  <2>2. CASE tCC' = tCC
    <3>1. pintadaCC' = pintadaCC
      BY <2>2 DEF CC!Segundo
    <3>. QED BY <2>2, <3>1 DEF IInvCentro, CC!PintadaAlDia
  <2>. QED BY <2>1, <2>2
<1>5. CC!CopiaFiel'
  BY <1>1, <1>2 DEF CC!CopiaFiel, CC!Avion, CC!Brillo, CC!Automatico
<1>6. Pildora'
  BY <1>1, <1>2 DEF IInvCentro, Pildora, CC!DetalleDesdeSuPildora
<1>7. Cogida' = Cogida
  BY <1>1, <1>2, <1>3 DEF Cogida
<1>8. Reparto'
  BY <1>1, <1>7 DEF IInvCentro, Reparto
<1>9. tCC'.agarre = "nada" \/ (tCC'.agarre = tCC.agarre /\ tCC'.vol = tCC.vol) \/ tCC'.agarre = "bri"
  BY <1>1, <1>2 DEF EsCentro
<1>10. Rastro'
  BY <1>1, <1>2, <1>3 DEF IInvCentro, Rastro
<1>11. fresca' \in BOOLEAN
  BY <1>1, Zenon
<1>. QED BY <1>1, <1>2, <1>4, <1>5, <1>6, <1>8, <1>10, <1>11 DEF IInvCentro, CuerpoCentro, CC!SueloDelBrillo

\* A reading of MPRIS, made or left, keeps the invariant.
LEMMA LecturaBien == ASSUME IInvCentro, CC!Consultar \/ CC!Dejar PROVE IInvCentro'
<1>1. UNCHANGED <<sis, cola, escritor, tCC, pintadaCC, dedo, pulsosCC>> /\ (fresca' = fresca \/ fresca' = FALSE)
  BY DEF CC!Consultar, CC!Dejar, CC!cuentas
<1>2. Cogida' = Cogida
  BY <1>1 DEF Cogida
<1>3. Reparto'
  BY <1>1, <1>2 DEF IInvCentro, Reparto
<1>4. fresca' \in BOOLEAN
  BY <1>1 DEF IInvCentro, CuerpoCentro
<1>5. CC!PintadaAlDia' /\ Pildora'
  BY <1>1 DEF IInvCentro, CC!PintadaAlDia, Pildora, CC!DetalleDesdeSuPildora
<1>6. CC!CopiaFiel'
  BY <1>1 DEF IInvCentro, CC!CopiaFiel, CC!Avion, CC!Brillo, CC!Automatico
<1>. QED BY <1>1, <1>3, <1>4, <1>5, <1>6, SoloLaTarjeta DEF IInvCentro

\* The owner of the queue carries out the first request.
LEMMA RastroAlServir ==
  ASSUME Rastro, cola \in Seq(Pedidos), cola # <<>>, cola' = Tail(cola), dedo' = dedo, tCC' = tCC,
         Head(cola).clase = "vol" => sis'.vol = Head(cola).a,
         Head(cola).clase # "vol" => sis'.vol = sis.vol
  PROVE  Rastro'
<1>. SUFFICES ASSUME dedo # -1 PROVE Rastro'
  BY DEF Rastro
<1>. DEFINE n == Len(cola)
<1>1. /\ n \in Nat /\ n >= 1 /\ Len(cola') = n - 1 /\ Head(cola) = cola[1]
      /\ \A i \in 1..(n - 1) : cola'[i] = cola[i + 1]
  OBVIOUS
<1>2. /\ \A i \in 1..n : (cola[i].clase = "vol" /\ \A j \in 1..n : j > i => cola[j].clase # "vol") => cola[i].a = dedo
      /\ (\A i \in 1..n : cola[i].clase # "vol") => sis.vol = dedo
  BY DEF Rastro
<1>. HIDE DEF n
<1>3. ASSUME NEW i \in 1..(n - 1), cola'[i].clase = "vol",
             \A j \in 1..(n - 1) : j > i => cola'[j].clase # "vol"
      PROVE  cola'[i].a = dedo
  <2>1. i + 1 \in 1..n /\ cola[i + 1].clase = "vol"
    BY <1>1, <1>3
  <2>2. \A j \in 1..n : j > i + 1 => cola[j].clase # "vol"
    <3>. SUFFICES ASSUME NEW j \in 1..n, j > i + 1 PROVE cola[j].clase # "vol"
      OBVIOUS
    <3>1. j - 1 \in 1..(n - 1) /\ j - 1 > i /\ (j - 1) + 1 = j
      BY <1>1
    <3>2. cola'[j - 1] = cola[j]
      BY <1>1, <3>1
    <3>. QED BY <1>3, <3>1, <3>2
  <2>3. cola[i + 1].a = dedo
    BY <1>2, <2>1, <2>2
  <2>. QED BY <1>1, <2>3
<1>4. ASSUME \A i \in 1..(n - 1) : cola'[i].clase # "vol" PROVE sis'.vol = dedo
  <2>1. \A j \in 1..n : j > 1 => cola[j].clase # "vol"
    <3>. SUFFICES ASSUME NEW j \in 1..n, j > 1 PROVE cola[j].clase # "vol"
      OBVIOUS
    <3>1. j - 1 \in 1..(n - 1) /\ (j - 1) + 1 = j
      BY <1>1
    <3>2. cola'[j - 1] = cola[j]
      BY <1>1, <3>1
    <3>. QED BY <1>4, <3>1, <3>2
  <2>2. 1 \in 1..n
    BY <1>1
  <2>3. CASE cola[1].clase = "vol"
    BY <1>1, <1>2, <2>1, <2>2, <2>3
  <2>4. CASE cola[1].clase # "vol"
    <3>1. \A j \in 1..n : cola[j].clase # "vol"
      <4>. TAKE j \in 1..n
      <4>1. j = 1 \/ j > 1
        BY <1>1
      <4>. QED BY <2>1, <2>4, <4>1
    <3>. QED BY <1>1, <1>2, <2>4, <3>1
  <2>. QED BY <2>3, <2>4
<1>5. (tCC # CC!Nada /\ tCC.agarre = "vol") => dedo = tCC.vol
  BY DEF Rastro
<1>. QED BY <1>1, <1>3, <1>4, <1>5 DEF Rastro

\* Carrying out a request keeps the invariant.
LEMMA ServirBien == ASSUME IInvCentro, CC!Servir PROVE IInvCentro'
<1>1. /\ EsSistema(sis) /\ cola \in Seq(Pedidos) /\ cola # <<>> /\ cola' = Tail(cola) /\ pulsosCC \in 0..PulsosCentro
      /\ fresca' = FALSE /\ escritor' = escritor /\ tCC' = tCC /\ pintadaCC' = pintadaCC /\ dedo' = dedo /\ pulsosCC' = pulsosCC
  BY DEF CC!Servir, IInvCentro, CuerpoCentro, CC!cuentas
<1>2. Head(cola) \in Pedidos /\ cola' \in Seq(Pedidos) /\ Len(cola') = Len(cola) - 1 /\ Len(cola) \in Nat
  BY <1>1
<1>. DEFINE op == Head(cola)
<1>3. \/ op.clase = "vol" /\ op.a \in 0..100
      \/ op.clase \in {"mudo", "avion", "wifi", "bt"}
  BY <1>2 DEF Pedidos
<1>. HIDE DEF op
<1>4. sis' = CASE op.clase = "vol"  -> [sis EXCEPT !.vol = op.a]
               [] op.clase = "mudo" -> [sis EXCEPT !.mudo = op.a]
               [] op.clase = "avion" -> [sis EXCEPT !.wifi = CC!ConRadio(@, ~op.a), !.bt = CC!ConRadio(@, ~op.a)]
               [] OTHER -> [sis EXCEPT ![op.clase] = CC!ConRadio(@, op.a)]
  BY DEF CC!Servir, op
<1>5. \A r \in CC!Radios : \A si : CC!ConRadio(r, si) \in CC!Radios
  BY DEF CC!ConRadio, CC!Radios
<1>6. EsSistema(sis') /\ (op.clase = "vol" => sis'.vol = op.a) /\ (op.clase # "vol" => sis'.vol = sis.vol)
  <2>1. CASE op.clase = "vol" /\ op.a \in 0..100
    <3>1. sis' = [sis EXCEPT !.vol = op.a]
      BY <1>4, <2>1
    <3>. QED BY <1>1, <2>1, <3>1 DEF EsSistema, LadosSis
  <2>2. CASE op.clase = "mudo"
    <3>1. sis' = [sis EXCEPT !.mudo = op.a]
      BY <1>4, <2>2
    <3>. QED BY <1>1, <2>2, <3>1 DEF EsSistema, LadosSis
  <2>3. CASE op.clase = "avion"
    <3>. DEFINE w == CC!ConRadio(sis.wifi, ~op.a)
                b == CC!ConRadio(sis.bt, ~op.a)
    <3>1. sis' = [sis EXCEPT !.wifi = w, !.bt = b]
      BY <1>4, <2>3
    <3>2. w \in CC!Radios /\ b \in CC!Radios
      BY <1>1, <1>5 DEF EsSistema
    <3>. HIDE DEF w, b
    <3>. QED BY <1>1, <2>3, <3>1, <3>2 DEF EsSistema, LadosSis
  <2>4. CASE op.clase = "wifi"
    <3>. DEFINE w == CC!ConRadio(sis["wifi"], op.a)
    <3>1. sis' = [sis EXCEPT !["wifi"] = w]
      BY <1>4, <2>4
    <3>2. w \in CC!Radios
      BY <1>1, <1>5 DEF EsSistema
    <3>. HIDE DEF w
    <3>. QED BY <1>1, <2>4, <3>1, <3>2 DEF EsSistema, LadosSis
  <2>5. CASE op.clase = "bt"
    <3>. DEFINE w == CC!ConRadio(sis["bt"], op.a)
    <3>1. sis' = [sis EXCEPT !["bt"] = w]
      BY <1>4, <2>5
    <3>2. w \in CC!Radios
      BY <1>1, <1>5 DEF EsSistema
    <3>. HIDE DEF w
    <3>. QED BY <1>1, <2>5, <3>1, <3>2 DEF EsSistema, LadosSis
  <2>. QED BY <1>3, <2>1, <2>2, <2>3, <2>4, <2>5
<1>7. Rastro'
  BY <1>1, <1>6, RastroAlServir DEF IInvCentro, op
<1>8. Cogida' = Cogida
  BY <1>1 DEF Cogida
<1>9. Reparto'
  BY <1>1, <1>2, <1>8 DEF IInvCentro, Reparto
<1>10. CC!PintadaAlDia' /\ Pildora' /\ CC!SueloDelBrillo' /\ CC!CopiaFiel'
  BY <1>1 DEF IInvCentro, CC!PintadaAlDia, Pildora, CC!DetalleDesdeSuPildora, CC!SueloDelBrillo, CC!CopiaFiel
<1>11. CuerpoCentro'
  BY <1>1, <1>2, <1>6 DEF IInvCentro, CuerpoCentro
<1>. QED BY <1>7, <1>9, <1>10, <1>11 DEF IInvCentro

\* Writing the brightness keeps the invariant.
LEMMA EscribirBien == ASSUME IInvCentro, CC!Escribir PROVE IInvCentro'
<1>1. /\ EsSistema(sis) /\ escritor \in 0..MaxCrudo /\ escritor' = -1 /\ sis' = [sis EXCEPT !.crudo = escritor]
      /\ fresca' = FALSE /\ cola' = cola /\ tCC' = tCC /\ pintadaCC' = pintadaCC /\ dedo' = dedo /\ pulsosCC' = pulsosCC
  BY MaxCrudoNat DEF CC!Escribir, IInvCentro, CuerpoCentro, Escritos, CC!cuentas
<1>2. EsSistema(sis') /\ sis'.vol = sis.vol
  BY <1>1 DEF EsSistema, LadosSis
<1>3. Cogida' = Cogida
  BY <1>1 DEF Cogida
<1>4. Reparto'
  BY <1>1, <1>3 DEF IInvCentro, Reparto
<1>5. CC!PintadaAlDia' /\ Pildora' /\ CC!SueloDelBrillo' /\ CC!CopiaFiel'
  BY <1>1 DEF IInvCentro, CC!PintadaAlDia, Pildora, CC!DetalleDesdeSuPildora, CC!SueloDelBrillo, CC!CopiaFiel
<1>6. Rastro'
  BY <1>1, <1>2 DEF IInvCentro, Rastro
<1>7. CuerpoCentro'
  BY <1>1, <1>2, Margenes DEF IInvCentro, CuerpoCentro
<1>. QED BY <1>4, <1>5, <1>6, <1>7 DEF IInvCentro

\* A change made by somebody else keeps the invariant.
LEMMA CambiaFueraBien == ASSUME IInvCentro, NEW a \in DeFuera, CC!CambiaFuera(a) PROVE IInvCentro'
<1>1. /\ EsSistema(sis) /\ EsCambio(a) /\ sis' = [k \in DOMAIN sis |-> IF k \in DOMAIN a THEN a[k] ELSE sis[k]]
      /\ fresca' = FALSE /\ cola' = cola /\ tCC' = tCC /\ pintadaCC' = pintadaCC /\ pulsosCC' = pulsosCC /\ escritor' = escritor
      /\ dedo' = IF sis'.vol # sis.vol THEN -1 ELSE dedo
  BY CentroAssumption DEF CC!CambiaFuera, IInvCentro, CuerpoCentro
<1>2. EsSistema(sis')
  <2>1. DOMAIN sis = LadosSis
    BY <1>1 DEF EsSistema
  <2>2. sis' = [k \in LadosSis |-> IF k \in DOMAIN a THEN a[k] ELSE sis[k]]
    BY <1>1, <2>1
  <2>3. /\ sis' = [k \in LadosSis |-> sis'[k]]
        /\ sis'["audio"] = IF "audio" \in DOMAIN a THEN a["audio"] ELSE sis["audio"]
        /\ sis'["wifi"] = IF "wifi" \in DOMAIN a THEN a["wifi"] ELSE sis["wifi"]
        /\ sis'["bt"] = IF "bt" \in DOMAIN a THEN a["bt"] ELSE sis["bt"]
        /\ sis'["vol"] = IF "vol" \in DOMAIN a THEN a["vol"] ELSE sis["vol"]
        /\ sis'["crudo"] = IF "crudo" \in DOMAIN a THEN a["crudo"] ELSE sis["crudo"]
    BY <2>2 DEF LadosSis
  <2>. QED BY <1>1, <2>3 DEF EsSistema, EsCambio
<1>3. Cogida' = Cogida
  BY <1>1 DEF Cogida
<1>4. Reparto'
  BY <1>1, <1>3 DEF IInvCentro, Reparto
<1>5. CC!PintadaAlDia' /\ Pildora' /\ CC!SueloDelBrillo' /\ CC!CopiaFiel'
  BY <1>1 DEF IInvCentro, CC!PintadaAlDia, Pildora, CC!DetalleDesdeSuPildora, CC!SueloDelBrillo, CC!CopiaFiel
<1>6. Rastro'
  BY <1>1 DEF IInvCentro, Rastro
<1>7. dedo' \in Dedos
  BY <1>1, Margenes DEF IInvCentro, CuerpoCentro
<1>8. CuerpoCentro'
  BY <1>1, <1>2, <1>7 DEF IInvCentro, CuerpoCentro
<1>. QED BY <1>4, <1>5, <1>6, <1>8 DEF IInvCentro

\* Every step of the control center keeps the invariant.
LEMMA NextCentro == ASSUME Impaciente = FALSE, IInvCentro, CC!Next \/ UNCHANGED CC!vars PROVE IInvCentro'
<1>1. CASE UNCHANGED CC!vars
  <2>1. /\ sis' = sis /\ cola' = cola /\ escritor' = escritor /\ tCC' = tCC /\ pintadaCC' = pintadaCC
        /\ dedo' = dedo /\ fresca' = fresca /\ pulsosCC' = pulsosCC
    BY <1>1 DEF CC!vars
  <2>2. Cogida' = Cogida
    BY <2>1 DEF Cogida
  <2>3. Reparto'
    BY <2>1, <2>2 DEF IInvCentro, Reparto
  <2>4. CuerpoCentro' /\ Pildora' /\ Rastro' /\ CC!PintadaAlDia' /\ CC!SueloDelBrillo'
    BY <2>1 DEF IInvCentro, CuerpoCentro, Pildora, CC!DetalleDesdeSuPildora, Rastro, CC!PintadaAlDia, CC!SueloDelBrillo
  <2>5. CC!CopiaFiel'
    BY <2>1 DEF IInvCentro, CC!CopiaFiel, CC!Avion, CC!Brillo, CC!Automatico
  <2>. QED BY <2>3, <2>4, <2>5 DEF IInvCentro
<1>2. CASE CC!Next
  BY <1>2, PulsarBien, ArrastrarBien, SoltarBien, EscapeBien, TomarTransicionBien, AbrirBien, SegundoBien,
     LecturaBien, ServirBien, EscribirBien, CambiaFueraBien DEF CC!Next
<1>. QED BY <1>1, <1>2

\* Where the zones are.
LEMMA Sitios ==
  ASSUME NEW x \in Int, NEW y \in Int, NEW z \in CC!ZonasDe(x, y)
  PROVE  \/ z = "mudo" /\ y >= 306 /\ y < 338 /\ x >= 292
         \/ z = "auto" /\ y >= 348 /\ y < 380 /\ x >= 292
         \/ z = "cabecera" /\ y >= 22 /\ y <= 62
         \/ z = "vol" /\ y >= 304 /\ y < 340 /\ x < 282
         \/ z = "bri" /\ y >= 346 /\ y < 382 /\ x < 282
         \/ z = "avance" /\ y >= 468 /\ y <= 492
         \/ z = "medio" /\ y >= 516 /\ y <= 560
         \/ z = "conexion" /\ y >= 80 /\ y <= 132
         \/ z = "baldosa" /\ y >= 158 /\ y < 282
<1>1. /\ CC!MARGEN = 16 /\ CC!ANCHO = 352 /\ CC!YConexiones = 80 /\ CC!CONEXION = 52 /\ CC!YRejilla = 144
      /\ CC!YDeslizadores = 294 /\ CC!YMedios = 404 /\ CC!REJILLA_MARGEN = 14 /\ Len(CC!Baldosas) = 8
  <2>1. Len(CC!Baldosas) = 8
    BY DEF CC!Baldosas
  <2>2. CC!Filas = 2
    BY <2>1 DEF CC!Filas, CC!COLUMNAS
  <2>. QED BY <2>1, <2>2 DEF CC!MARGEN, CC!ANCHO, CC!YConexiones, CC!CONEXION, CC!YRejilla, CC!YDeslizadores, CC!YMedios, CC!CABECERA, CC!HUECO,
       CC!AltoRejilla, CC!REJILLA_MARGEN, CC!CELDA, CC!ENTRE_FILAS, CC!AltoDeslizadores, CC!GRUPO_MARGEN, CC!BOTON, CC!ENTRE_DESLIZADORES
<1>2. /\ CC!RectPildora("vol").x = 56 /\ CC!RectPildora("vol").y = 310 /\ CC!RectPildora("vol").w = 226 /\ CC!RectPildora("vol").h = 24
      /\ CC!RectPildora("bri").x = 56 /\ CC!RectPildora("bri").y = 352 /\ CC!RectPildora("bri").w = 226 /\ CC!RectPildora("bri").h = 24
  BY <1>1 DEF CC!RectPildora, CC!GRUPO_MARGEN, CC!ICONO, CC!AIRE, CC!BOTON, CC!PILDORA, CC!ENTRE_DESLIZADORES
<1>3. CASE z = "mudo"
  <2>1. CC!Contiene(CC!RectBoton("vol"), x, y)
    BY <1>3 DEF CC!ZonasDe
  <2>. QED BY <1>2, <1>3, <2>1 DEF CC!Contiene, CC!RectBoton, CC!AIRE, CC!BOTON, CC!PILDORA
<1>4. CASE z = "auto"
  <2>1. CC!Contiene(CC!RectBoton("bri"), x, y)
    BY <1>4 DEF CC!ZonasDe
  <2>. QED BY <1>2, <1>4, <2>1 DEF CC!Contiene, CC!RectBoton, CC!AIRE, CC!BOTON, CC!PILDORA
<1>5. CASE z = "cabecera"
  <2>1. CC!CabeceraEn(x, y) # "nada"
    BY <1>5 DEF CC!ZonasDe
  <2>. QED BY <1>1, <1>5, <2>1 DEF CC!CabeceraEn, CC!CABECERA, CC!BOTON_CABECERA
<1>6. CASE z = "vol"
  <2>1. CC!Contiene(CC!Holgada(CC!RectPildora("vol")), x, y)
    BY <1>6 DEF CC!ZonasDe
  <2>2. /\ CC!Holgada(CC!RectPildora("vol")).y = 304 /\ CC!Holgada(CC!RectPildora("vol")).h = 36
        /\ CC!Holgada(CC!RectPildora("vol")).x = 56 /\ CC!Holgada(CC!RectPildora("vol")).w = 226
    BY <1>1 DEF CC!Holgada, CC!MARGEN_AGARRE, CC!RectPildora, CC!GRUPO_MARGEN, CC!ICONO, CC!AIRE, CC!BOTON, CC!PILDORA, CC!ENTRE_DESLIZADORES
  <2>. QED BY <1>6, <2>1, <2>2 DEF CC!Contiene
<1>7. CASE z = "bri"
  <2>1. CC!Contiene(CC!Holgada(CC!RectPildora("bri")), x, y)
    BY <1>7 DEF CC!ZonasDe
  <2>2. /\ CC!Holgada(CC!RectPildora("bri")).y = 346 /\ CC!Holgada(CC!RectPildora("bri")).h = 36
        /\ CC!Holgada(CC!RectPildora("bri")).x = 56 /\ CC!Holgada(CC!RectPildora("bri")).w = 226
    BY <1>1 DEF CC!Holgada, CC!MARGEN_AGARRE, CC!RectPildora, CC!GRUPO_MARGEN, CC!ICONO, CC!AIRE, CC!BOTON, CC!PILDORA, CC!ENTRE_DESLIZADORES
  <2>. QED BY <1>7, <2>1, <2>2 DEF CC!Contiene
<1>8. CASE z = "avance"
  <2>1. CC!EnAvance(x, y)
    BY <1>8 DEF CC!ZonasDe
  <2>. QED BY <1>1, <1>8, <2>1 DEF CC!EnAvance, CC!GRUPO_MARGEN, CC!CARATULA, CC!AVANCE
<1>9. CASE z = "medio"
  <2>1. CC!MedioEn(x, y) # "nada"
    BY <1>9 DEF CC!ZonasDe
  <2>. QED BY <1>1, <1>9, <2>1 DEF CC!MedioEn, CC!ALTO_MEDIOS, CC!GRUPO_MARGEN, CC!CARATULA, CC!AVANCE, CC!TIEMPOS, CC!REPRODUCIR
<1>10. CASE z = "conexion"
  <2>1. CC!ConexionEn(x, y) # "nada"
    BY <1>10 DEF CC!ZonasDe
  <2>. QED BY <1>1, <1>10, <2>1 DEF CC!ConexionEn
<1>11. CASE z = "baldosa"
  <2>1. CC!BaldosaEn(x, y) # 0
    BY <1>11 DEF CC!ZonasDe
  <2>. DEFINE columna == (x - 30) \div 73
              fila == (y - 158) \div 62
  <2>2. x >= 30 /\ y >= 158 /\ fila * 4 + columna < 8
    BY <1>1, <2>1 DEF CC!BaldosaEn, CC!CELDA, CC!ENTRE_FILAS, CC!COLUMNAS
  <2>3. columna \in Int /\ columna >= 0 /\ fila \in Int /\ y - 158 < 62 * fila + 62
    BY <2>2
  <2>. HIDE DEF columna, fila
  <2>4. fila <= 1
    BY <2>2, <2>3
  <2>. QED BY <1>11, <2>2, <2>3, <2>4
<1>12. z \in {"mudo", "auto", "cabecera", "vol", "bri", "avance", "medio", "conexion", "baldosa"}
  BY DEF CC!ZonasDe
<1>. QED BY <1>3, <1>4, <1>5, <1>6, <1>7, <1>8, <1>9, <1>10, <1>11, <1>12

\* No two zones share a point.
LEMMA ZonasDisjuntas ==
  ASSUME NEW x \in Int, NEW y \in Int, NEW a \in CC!ZonasDe(x, y), NEW b \in CC!ZonasDe(x, y)
  PROVE  a = b
BY Sitios

\* The order of the questions in pulsar decides nothing.
LEMMA NingunSolape == CC!SinSolape
<1>. SUFFICES ASSUME NEW i \in 0..70, NEW j \in 0..120, NEW a \in CC!ZonasDe(5 * i, 5 * j), NEW b \in CC!ZonasDe(5 * i, 5 * j)
              PROVE  a = b
  BY DEF CC!SinSolape
<1>1. 5 * i \in Int /\ 5 * j \in Int
  OBVIOUS
<1>. QED BY <1>1, ZonasDisjuntas

\* The invariant says all the property asks of the control center.
LEMMA CentroBasta == IInvCentro => CC!CentroEnOrden
BY CentroCasiBasta, NingunSolape DEF CC!CentroEnOrden


-----------------------------------------------------------------------------
(* The sheet of the lock.                                                  *)

\* The bounds are naturals and a composition says yes or no of each of its parts.
ASSUME HojaAssumption == /\ FASES \in Nat /\ ActosHoja \in Nat /\ MaxBloqueos \in Nat
                         /\ \A c \in ConfigsBloqueo : c.energia \in BOOLEAN /\ c.medios \in BOOLEAN /\ c.animaciones \in BOOLEAN

\* The question and the song, when there are any, and the other variables of the sheet.
EsPregunta(c) == c = V!Nada \/ c = [clase |-> "pregunta", que |-> c.que, aceptar |-> c.aceptar]
EsMedio(m) == m = V!Nada \/ m = [clase |-> "medio", suena |-> m.suena]
CuentasHoja ==
  /\ bloqueado \in BOOLEAN /\ config \in ConfigsBloqueo /\ menu \in BOOLEAN
  /\ entrada \in 0..(FASES + 1)
  /\ estadoF \in 0..FASES /\ huellaF \in 0..FASES /\ medioF \in 0..FASES /\ menuF \in 0..FASES
  /\ estado \in {"escribiendo", "comprobando", "fallo"} /\ escritos \in 0..1
  /\ caps \in BOOLEAN /\ teclado \in BOOLEAN /\ huella \in {"callada", "no"}
  /\ generacion \in 0..MaxBloqueos /\ actosV \in 0..ActosHoja
TiposHoja == CuentasHoja /\ EsPregunta(confirmacion) /\ EsMedio(medios)
\* What the painted surface shows is what the lock says, also while things move.
AlDia == bloqueado => V!SinOla(pintadaV) = V!SinOla(V!View)

\* The types the proof uses imply the type invariant.
LEMMA TiposBasta == TiposHoja => V!TypeOK
BY DEF TiposHoja, CuentasHoja, V!TypeOK, EsPregunta, EsMedio, V!Nada

\* The initial states have their types.
LEMMA InitTipos == V!Init => TiposHoja
<1>. SUFFICES ASSUME V!Init PROVE TiposHoja
  OBVIOUS
<1>1. EsPregunta(confirmacion) /\ EsMedio(medios)
  BY DEF V!Init, EsPregunta, EsMedio
<1>2. /\ entrada \in 0..(FASES + 1) /\ estadoF \in 0..FASES /\ huellaF \in 0..FASES
      /\ medioF \in 0..FASES /\ menuF \in 0..FASES /\ escritos \in 0..1
      /\ generacion \in 0..MaxBloqueos /\ actosV \in 0..ActosHoja
  BY HojaAssumption DEF V!Init
<1>3. /\ bloqueado = FALSE /\ menu = FALSE /\ caps = FALSE /\ teclado = FALSE /\ config \in ConfigsBloqueo
      /\ estado = "escribiendo" /\ huella = "callada"
  BY DEF V!Init
<1>4. CuentasHoja
  BY <1>2, <1>3 DEF CuentasHoja
<1>. QED BY <1>1, <1>4 DEF TiposHoja

\* Every step keeps the types.
LEMMA NextTipos == ASSUME TiposHoja, V!Next \/ UNCHANGED V!vars PROVE TiposHoja'
<1>. USE HojaAssumption
<1>0. CuentasHoja /\ EsPregunta(confirmacion) /\ EsMedio(medios)
  BY DEF TiposHoja
<1>a. ASSUME confirmacion' = confirmacion PROVE EsPregunta(confirmacion')
  BY <1>0, <1>a DEF EsPregunta
<1>b. ASSUME medios' = medios PROVE EsMedio(medios')
  BY <1>0, <1>b DEF EsMedio
<1>1. CASE V!Fotograma
  <2>1. \A n \in {1, FASES + 1} : \A tope \in {FASES, FASES + 1} : \A f \in 0..tope : V!Pasan(n, f, tope) \in 0..tope
    BY DEF V!Pasan, V!Menor
  <2>2. PICK n \in {1, FASES + 1} :
       /\ entrada' = V!Pasan(n, entrada, FASES + 1)
       /\ estadoF' = V!Pasan(n, estadoF, FASES)
       /\ huellaF' = V!Pasan(n, huellaF, FASES)
       /\ medioF'  = V!Pasan(n, medioF, FASES)
       /\ menuF'   = V!Pasan(n, menuF, FASES)
    BY <1>1 DEF V!Fotograma
  <2>3. UNCHANGED <<bloqueado, config, V!hoja, V!campo, V!fuera, salida, pedido, actosV>>
    BY <1>1 DEF V!Fotograma
  <2>4. /\ entrada' \in 0..(FASES + 1)
        /\ estadoF' \in 0..FASES /\ huellaF' \in 0..FASES /\ medioF' \in 0..FASES /\ menuF' \in 0..FASES
    BY <1>0, <2>1, <2>2 DEF CuentasHoja
  <2>5. CuentasHoja'
    BY <1>0, <2>3, <2>4 DEF CuentasHoja, V!hoja, V!campo, V!fuera
  <2>. QED BY <1>a, <1>b, <2>3, <2>5 DEF TiposHoja, V!hoja
<1>2. CASE V!FinDesbloqueo
  <2>1. CuentasHoja'
    BY <1>0, <1>2 DEF V!FinDesbloqueo, CuentasHoja, V!hoja, V!campo, V!fuera, V!fases
  <2>. QED BY <1>2, <1>a, <1>b, <2>1 DEF TiposHoja, V!FinDesbloqueo, V!hoja
<1>3. ASSUME NEW t \in V!Tecleable, V!TeclaPregunta(t) PROVE TiposHoja'
  <2>1. EsPregunta(confirmacion')
    <3>1. CASE confirmacion' = V!Nada \/ confirmacion' = confirmacion
      BY <1>0, <3>1 DEF EsPregunta
    <3>2. CASE \E x : confirmacion' = [confirmacion EXCEPT !.aceptar = x]
      BY <1>0, <1>3, <3>2 DEF EsPregunta, V!TeclaPregunta
    <3>. QED BY <1>3, <3>1, <3>2 DEF V!TeclaPregunta
  <2>2. CuentasHoja'
    BY <1>0, <1>3 DEF V!TeclaPregunta, V!Actua, CuentasHoja, V!campo, V!fuera, V!fases
  <2>. QED BY <1>3, <1>b, <2>1, <2>2 DEF TiposHoja, V!TeclaPregunta
<1>4. ASSUME NEW t \in V!Tecleable, V!TeclaCampo(t) PROVE TiposHoja'
  <2>1. /\ estado' \in {"escribiendo", "comprobando", "fallo"} /\ escritos' \in 0..1
        /\ estadoF' \in 0..FASES
    BY <1>0, <1>4 DEF V!TeclaCampo, V!PonerCampo, CuentasHoja
  <2>2. CuentasHoja'
    BY <1>0, <1>4, <2>1 DEF V!TeclaCampo, V!Actua, CuentasHoja, V!hoja, V!fuera
  <2>. QED BY <1>4, <1>a, <1>b, <2>2 DEF TiposHoja, V!TeclaCampo, V!hoja
<1>5. CASE V!BloqMayus
  <2>1. CuentasHoja'
    BY <1>0, <1>5 DEF V!BloqMayus, V!Actua, CuentasHoja, V!hoja, V!fases
  <2>. QED BY <1>5, <1>a, <1>b, <2>1 DEF TiposHoja, V!BloqMayus, V!hoja
<1>6. CASE V!Rechaza
  <2>1. CuentasHoja'
    BY <1>0, <1>6 DEF V!Rechaza, V!PonerCampo, CuentasHoja, V!hoja, V!fuera
  <2>. QED BY <1>6, <1>a, <1>b, <2>1 DEF TiposHoja, V!Rechaza, V!hoja
<1>7. CASE V!DedoAjeno
  <2>1. CuentasHoja'
    BY <1>0, <1>7 DEF V!DedoAjeno, V!Actua, CuentasHoja, V!hoja, V!fuera
  <2>. QED BY <1>7, <1>a, <1>b, <2>1 DEF TiposHoja, V!DedoAjeno, V!hoja
<1>8. ASSUME NEW p \in PuntosBloqueo, V!Pulsar(p) PROVE TiposHoja'
  <2>1. /\ menu' \in {TRUE, FALSE, menu, ~menu} /\ menuF' \in {0, menuF}
    BY <1>8, Zenon DEF V!Pulsar, V!PulsarPregunta, V!PulsarEntrada, V!PulsarBoton, V!PulsarMedio, V!PulsarFuera, V!CerrarMenu
  <2>2. menu' \in BOOLEAN
    BY <1>0, <2>1, Zenon DEF CuentasHoja
  <2>6. menuF' \in 0..FASES
    BY <1>0, <2>1 DEF CuentasHoja
  <2>3. EsPregunta(confirmacion')
    BY <1>0, <1>8 DEF V!Pulsar, V!PulsarPregunta, V!PulsarEntrada, V!PulsarBoton, V!PulsarMedio, V!PulsarFuera, EsPregunta
  <2>4. EsMedio(medios')
    BY <1>0, <1>8 DEF V!Pulsar, V!PulsarPregunta, V!PulsarEntrada, V!PulsarBoton, V!PulsarMedio, V!PulsarFuera, EsMedio,
       V!MedioEn, V!HayTarjeta
  <2>5. CuentasHoja'
    BY <1>0, <1>8, <2>2, <2>6 DEF V!Pulsar, V!Actua, CuentasHoja, V!campo
  <2>. QED BY <2>3, <2>4, <2>5 DEF TiposHoja
<1>9. ASSUME NEW l \in lecturas, V!LlegaMedio(l) PROVE TiposHoja'
  <2>1. medioF' \in 0..FASES /\ EsMedio(medios')
    BY <1>0, <1>9 DEF V!LlegaMedio, CuentasHoja, EsMedio, V!hoja, V!fases
  <2>2. CuentasHoja'
    BY <1>0, <1>9, <2>1 DEF V!LlegaMedio, CuentasHoja, V!campo, V!hoja, V!fases
  <2>. QED BY <1>9, <1>a, <2>1, <2>2 DEF TiposHoja, V!LlegaMedio, V!hoja
<1>10. ASSUME NEW c \in ConfigsBloqueo, V!AplicarConfig(c) PROVE TiposHoja'
  <2>1. CuentasHoja'
    BY <1>0, <1>10 DEF V!AplicarConfig, CuentasHoja, V!hoja, V!campo, V!fuera, V!fases
  <2>. QED BY <1>10, <1>a, <1>b, <2>1 DEF TiposHoja, V!AplicarConfig, V!hoja
<1>11. CASE V!Bloquear
  <2>1. EsPregunta(confirmacion') /\ EsMedio(medios')
    BY <1>11 DEF V!Bloquear, EsPregunta, EsMedio
  <2>2. generacion' \in 0..MaxBloqueos
    BY <1>0, <1>11 DEF V!Bloquear, CuentasHoja
  <2>3. CuentasHoja'
    <3>1. /\ bloqueado' = TRUE /\ menu' = FALSE /\ caps' = FALSE /\ config' = config
          /\ teclado' = teclado /\ actosV' = actosV /\ estado' = "escribiendo" /\ huella' = "callada"
      BY <1>11 DEF V!Bloquear
    <3>2. /\ entrada' \in 0..(FASES + 1) /\ estadoF' \in 0..FASES /\ huellaF' \in 0..FASES
          /\ medioF' \in 0..FASES /\ menuF' \in 0..FASES /\ escritos' \in 0..1
      BY <1>11 DEF V!Bloquear
    <3>. QED BY <1>0, <2>2, <3>1, <3>2 DEF CuentasHoja
  <2>. QED BY <2>1, <2>3 DEF TiposHoja
<1>12. CASE V!Desbloquear
  <2>1. CuentasHoja'
    BY <1>0, <1>12 DEF V!Desbloquear, CuentasHoja, V!campo, V!fuera, V!fases
  <2>2. EsPregunta(confirmacion') /\ EsMedio(medios')
    BY <1>12 DEF V!Desbloquear, EsPregunta, EsMedio
  <2>. QED BY <2>1, <2>2 DEF TiposHoja
<1>13. CASE UNCHANGED V!vars
  <2>1. CuentasHoja'
    BY <1>0, <1>13 DEF V!vars, CuentasHoja, V!hoja, V!campo, V!fuera, V!fases
  <2>. QED BY <1>13, <1>a, <1>b, <2>1 DEF TiposHoja, V!vars, V!hoja
<1>. QED BY <1>1, <1>2, <1>3, <1>4, <1>5, <1>6, <1>7, <1>8, <1>9, <1>10, <1>11, <1>12, <1>13 DEF V!Next

\* The picture of the lock depends on the composition, the frames, the sheet and the field only.
LEMMA VistaQuieta ==
  ASSUME UNCHANGED <<config, V!fases, V!hoja, V!campo>> PROVE V!View' = V!View
BY DEF V!View, V!Mensaje, V!Ola, V!Sacudida, V!TarjetaVista, V!MenuVisto, V!HayTarjeta, V!MediosYActual, V!MedioFrame, V!fases, V!hoja, V!campo

\* The last frame of an animation looks like the one before it.
LEMMA UltimoFotograma ==
  ASSUME Tardon = FALSE, TiposHoja, V!Fotograma, ~V!Animando'
  PROVE  V!SinOla(V!View)' = V!SinOla(V!View)
<1>. USE HojaAssumption DEF TiposHoja, CuentasHoja
<1>1. /\ entrada' = V!Pasan(1, entrada, FASES + 1)
      /\ estadoF' = V!Pasan(1, estadoF, FASES)
      /\ huellaF' = V!Pasan(1, huellaF, FASES)
      /\ medioF'  = V!Pasan(1, medioF, FASES)
      /\ menuF'   = V!Pasan(1, menuF, FASES)
      /\ UNCHANGED <<bloqueado, config, V!hoja, V!campo, V!fuera, salida, pedido, actosV>>
  BY DEF V!Fotograma
<1>2. config' = config /\ menu' = menu /\ confirmacion' = confirmacion /\ medios' = medios
      /\ estado' = estado /\ escritos' = escritos /\ caps' = caps /\ huella' = huella
  BY <1>1 DEF V!hoja, V!campo
<1>3. \A f \in 0..FASES : V!Pasan(1, f, FASES) >= FASES =>
        V!Resto(f, 1) = 0 /\ V!Resto(f, 2) = 0 /\ V!Resto(f, FASES) = 0
  BY DEF V!Pasan, V!Resto, V!Menor, V!Mayor
<1>4. \A k \in {1, 2, FASES} : V!Resto(FASES, k) = 0 /\ V!Resto(FASES + 1, k) = 0
  BY DEF V!Resto, V!Menor, V!Mayor
<1>5. menuF' = FASES
  BY <1>1 DEF V!Animando, V!Pasan, V!Menor
<1>6. V!Resto(menuF, 1) = 0 /\ V!Resto(menuF', 1) = 0 /\ V!Resto(menuF, FASES) = 0 /\ V!Resto(menuF', FASES) = 0
  BY <1>1, <1>3, <1>4, <1>5
<1>7. V!MenuVisto' = V!MenuVisto
  BY <1>2, <1>6 DEF V!MenuVisto
<1>8. V!TarjetaVista' = V!TarjetaVista
  <2>1. CASE ~config.animaciones \/ medios = V!Nada
    BY <1>2, <2>1 DEF V!TarjetaVista, V!HayTarjeta, V!MediosYActual, V!MedioFrame
  <2>2. CASE config.animaciones /\ medios # V!Nada
    <3>1. medioF' = FASES
      BY <1>1, <1>2, <2>2 DEF V!Animando, V!Pasan, V!Menor
    <3>2. V!Resto(medioF, 2) = 0 /\ V!Resto(medioF', 2) = 0
      BY <1>1, <1>3, <1>4, <3>1
    <3>3. V!MediosYActual' = V!MediosYActual
      BY <1>2, <2>2, <3>2 DEF V!MediosYActual, V!MedioFrame
    <3>. QED BY <1>2, <3>3 DEF V!TarjetaVista, V!HayTarjeta
  <2>. QED BY <2>1, <2>2
<1>9. V!Sacudida' = V!Sacudida
  <2>1. CASE ~config.animaciones
    BY <1>2, <2>1 DEF V!Sacudida
  <2>2. CASE config.animaciones /\ estado = "fallo"
    <3>1. estadoF' = FASES
      BY <1>1, <1>2, <2>2 DEF V!Animando, V!Pasan, V!Menor
    <3>2. V!Resto(estadoF, FASES) = 0 /\ V!Resto(estadoF', FASES) = 0
      BY <1>1, <1>3, <1>4, <3>1
    <3>. QED BY <1>2, <2>2, <3>2 DEF V!Sacudida
  <2>3. CASE config.animaciones /\ estado # "fallo" /\ huella = "no"
    <3>1. huellaF' = FASES
      BY <1>1, <1>2, <2>3 DEF V!Animando, V!Pasan, V!Menor
    <3>2. V!Resto(huellaF, FASES) = 0 /\ V!Resto(huellaF', FASES) = 0
      BY <1>1, <1>3, <1>4, <3>1
    <3>. QED BY <1>2, <2>3, <3>2 DEF V!Sacudida
  <2>4. CASE config.animaciones /\ estado # "fallo" /\ huella # "no"
    BY <1>2, <2>4 DEF V!Sacudida
  <2>. QED BY <2>1, <2>2, <2>3, <2>4
<1>10. (IF config'.animaciones THEN V!Resto(entrada', FASES) ELSE 0)
         = (IF config.animaciones THEN V!Resto(entrada, FASES) ELSE 0)
  <2>1. CASE config.animaciones
    <3>1. entrada \in {FASES, FASES + 1} /\ entrada' = FASES + 1
      BY <1>1, <1>2, <2>1 DEF V!Animando, V!Pasan, V!Menor
    <3>. QED BY <1>2, <1>4, <3>1
  <2>. QED BY <1>2, <2>1
<1>11. V!Mensaje' = V!Mensaje
  BY <1>2 DEF V!Mensaje
<1>. QED BY <1>2, <1>7, <1>8, <1>9, <1>10, <1>11 DEF V!SinOla, V!View

\* Every step leaves the painted surface showing what the lock says, also while things move.
LEMMA NextAlDia ==
  ASSUME Tardon = FALSE, TiposHoja, AlDia, V!Next \/ UNCHANGED V!vars PROVE AlDia'
<1>1. ASSUME V!Pintar PROVE AlDia'
  BY <1>1 DEF V!Pintar, AlDia
<1>2. ASSUME bloqueado' => bloqueado, pintadaV' = pintadaV, UNCHANGED <<config, V!fases, V!hoja, V!campo>> PROVE AlDia'
  BY <1>2, VistaQuieta DEF AlDia, V!SinOla
<1>3. CASE V!Fotograma
  <2>1. CASE V!Animando'
    BY <1>1, <1>3, <2>1 DEF V!Fotograma
  <2>2. CASE ~V!Animando'
    <3>1. pintadaV' = pintadaV /\ bloqueado' = bloqueado
      BY <1>3, <2>2 DEF V!Fotograma
    <3>. QED BY <1>3, <2>2, <3>1, UltimoFotograma DEF AlDia, V!SinOla
  <2>. QED BY <2>1, <2>2
<1>4. CASE V!FinDesbloqueo
  BY <1>2, <1>4 DEF V!FinDesbloqueo
<1>5. ASSUME NEW t \in V!Tecleable, V!TeclaPregunta(t) \/ V!TeclaCampo(t) PROVE AlDia'
  BY <1>1, <1>5 DEF V!TeclaPregunta, V!TeclaCampo
<1>6. CASE V!BloqMayus \/ V!Rechaza \/ V!DedoAjeno
  BY <1>1, <1>6 DEF V!BloqMayus, V!Rechaza, V!DedoAjeno
<1>7. ASSUME NEW p \in PuntosBloqueo, V!Pulsar(p) PROVE AlDia'
  <2>1. CASE confirmacion' # confirmacion \/ menu' # menu \/ pedido' # pedido \/ suena' # suena
    BY <1>1, <1>7, <2>1 DEF V!Pulsar
  <2>2. CASE confirmacion' = confirmacion /\ menu' = menu /\ pedido' = pedido /\ suena' = suena
    <3>1. pintadaV' = pintadaV
      BY <1>7, <2>2 DEF V!Pulsar
    <3>2. medios' = medios /\ menuF' = menuF
      <4>1. CASE V!PulsarPregunta(p)
        BY <4>1 DEF V!PulsarPregunta
      <4>2. CASE V!PulsarEntrada(p)
        BY <2>2, <4>2 DEF V!PulsarEntrada, V!CerrarMenu, V!Nada
      <4>3. CASE V!PulsarBoton(p)
        <5>1. menu' = ~menu /\ menu' = menu
          BY <2>2, <4>3, Zenon DEF V!PulsarBoton
        <5>2. menu = TRUE \/ menu = FALSE
          BY DEF TiposHoja, CuentasHoja
        <5>3. CASE menu = TRUE
          BY <5>1, <5>3
        <5>4. CASE menu = FALSE
          BY <5>1, <5>4
        <5>. QED BY <5>2, <5>3, <5>4
      <4>4. CASE V!PulsarMedio(p)
        BY <2>2, <4>4 DEF V!PulsarMedio
      <4>5. CASE V!PulsarFuera(p)
        BY <2>2, <4>5 DEF V!PulsarFuera, V!CerrarMenu
      <4>. QED BY <1>7, <4>1, <4>2, <4>3, <4>4, <4>5 DEF V!Pulsar
    <3>. QED BY <1>2, <1>7, <2>2, <3>1, <3>2 DEF V!Pulsar, V!fases, V!hoja
  <2>. QED BY <2>1, <2>2
<1>8. ASSUME NEW l \in lecturas, V!LlegaMedio(l) PROVE AlDia'
  BY <1>1, <1>2, <1>8 DEF V!LlegaMedio
<1>9. ASSUME NEW c \in ConfigsBloqueo, V!AplicarConfig(c) PROVE AlDia'
  BY <1>1, <1>9 DEF V!AplicarConfig
<1>10. CASE V!Bloquear
  BY <1>1, <1>10 DEF V!Bloquear
<1>11. CASE V!Desbloquear
  BY <1>11 DEF V!Desbloquear, AlDia
<1>12. CASE UNCHANGED V!vars
  BY <1>2, <1>12 DEF V!vars
<1>. QED BY <1>3, <1>4, <1>5, <1>6, <1>7, <1>8, <1>9, <1>10, <1>11, <1>12 DEF V!Next

\* Every step leaves the song's veil only under a lock or the end of one.
LEMMA NextVelo ==
  ASSUME TiposHoja, V!VeloBajoBloqueo, V!Next \/ UNCHANGED V!vars PROVE V!VeloBajoBloqueo'
<1>1. CASE V!Fotograma
  BY <1>1 DEF V!Fotograma, V!VeloBajoBloqueo
<1>2. CASE V!FinDesbloqueo
  BY <1>2 DEF V!FinDesbloqueo, V!VeloBajoBloqueo
<1>3. CASE V!Bloquear
  BY <1>3 DEF V!Bloquear, V!VeloBajoBloqueo
<1>4. CASE V!Desbloquear
  BY <1>4 DEF V!Desbloquear, V!VeloBajoBloqueo
<1>5. CASE UNCHANGED <<bloqueado, velo, salida>>
  BY <1>5 DEF V!VeloBajoBloqueo
<1>6. ASSUME NEW t \in V!Tecleable, V!TeclaPregunta(t) \/ V!TeclaCampo(t) PROVE V!VeloBajoBloqueo'
  BY <1>5, <1>6 DEF V!TeclaPregunta, V!TeclaCampo
<1>7. CASE V!BloqMayus \/ V!Rechaza \/ V!DedoAjeno
  BY <1>5, <1>7 DEF V!BloqMayus, V!Rechaza, V!DedoAjeno
<1>8. ASSUME NEW p \in PuntosBloqueo, V!Pulsar(p) PROVE V!VeloBajoBloqueo'
  BY <1>5, <1>8 DEF V!Pulsar
<1>9. ASSUME NEW l \in lecturas, V!LlegaMedio(l) PROVE V!VeloBajoBloqueo'
  BY <1>5, <1>9 DEF V!LlegaMedio
<1>10. ASSUME NEW c \in ConfigsBloqueo, V!AplicarConfig(c) PROVE V!VeloBajoBloqueo'
  BY <1>5, <1>10 DEF V!AplicarConfig
<1>11. CASE UNCHANGED V!vars
  BY <1>5, <1>11 DEF V!vars
<1>. QED BY <1>1, <1>2, <1>3, <1>4, <1>6, <1>7, <1>8, <1>9, <1>10, <1>11 DEF V!Next

\* A surface that is up to date while things move is so when they rest.
LEMMA AlDiaBasta == AlDia => V!QuietaAlDia
BY DEF AlDia, V!QuietaAlDia

\* There is no lock at the start.
LEMMA InitAlDia == V!Init => AlDia /\ V!VeloBajoBloqueo
BY DEF V!Init, AlDia, V!VeloBajoBloqueo

\* A menu that is open was asked for by a composition that has one, and the rows are drawn
\* where they rest when a press is taken.
MenuConBoton == bloqueado /\ menu => config.energia

\* Every step keeps an open menu in a composition that has one.
LEMMA NextMenu ==
  ASSUME ConfigEnMenu = FALSE, TiposHoja, MenuConBoton, V!Next \/ UNCHANGED V!vars PROVE MenuConBoton'
<1>1. CASE UNCHANGED <<bloqueado, menu, config>>
  BY <1>1 DEF MenuConBoton
<1>2. CASE V!Fotograma \/ V!FinDesbloqueo \/ V!BloqMayus \/ V!Rechaza \/ V!DedoAjeno
  BY <1>1, <1>2 DEF V!Fotograma, V!FinDesbloqueo, V!BloqMayus, V!Rechaza, V!DedoAjeno, V!hoja
<1>3. ASSUME NEW t \in V!Tecleable, V!TeclaPregunta(t) \/ V!TeclaCampo(t) PROVE MenuConBoton'
  BY <1>1, <1>3 DEF V!TeclaPregunta, V!TeclaCampo, V!hoja
<1>4. ASSUME NEW p \in PuntosBloqueo, V!Pulsar(p) PROVE MenuConBoton'
  <2>1. bloqueado' = bloqueado /\ config' = config
    BY <1>4 DEF V!Pulsar
  <2>2. menu' => menu \/ config.energia
    BY <1>4 DEF V!Pulsar, V!PulsarPregunta, V!PulsarEntrada, V!PulsarBoton, V!PulsarMedio, V!PulsarFuera, V!CerrarMenu, V!EnBoton
  <2>3. bloqueado
    BY <1>4 DEF V!Pulsar, V!Actua
  <2>. QED BY <2>1, <2>2, <2>3 DEF MenuConBoton
<1>5. ASSUME NEW l \in lecturas, V!LlegaMedio(l) PROVE MenuConBoton'
  BY <1>1, <1>5 DEF V!LlegaMedio, V!hoja
<1>6. ASSUME NEW c \in ConfigsBloqueo, V!AplicarConfig(c) PROVE MenuConBoton'
  BY <1>6 DEF V!AplicarConfig, MenuConBoton, V!hoja
<1>7. CASE V!Bloquear \/ V!Desbloquear
  BY <1>7 DEF V!Bloquear, V!Desbloquear, MenuConBoton
<1>8. CASE UNCHANGED V!vars
  BY <1>1, <1>8 DEF V!vars, V!hoja
<1>. QED BY <1>2, <1>3, <1>4, <1>5, <1>6, <1>7, <1>8 DEF V!Next

\* What an up-to-date surface shows of the question, the card and the menu.
LEMMA LoPintado ==
  ASSUME AlDia, bloqueado
  PROVE  pintadaV.pregunta = confirmacion /\ pintadaV.tarjeta = V!TarjetaVista /\ pintadaV.menu = V!MenuVisto
<1>1. V!SinOla(pintadaV) = V!SinOla(V!View)
  BY DEF AlDia
<1>2. V!SinOla(pintadaV).pregunta = pintadaV.pregunta /\ V!SinOla(pintadaV).tarjeta = pintadaV.tarjeta
      /\ V!SinOla(pintadaV).menu = pintadaV.menu
  BY DEF V!SinOla
<1>. QED BY <1>1, <1>2 DEF V!SinOla, V!View

\* What a press or a key asks of the lock was on the screen when it was given.
LEMMA PasoDelBloqueo ==
  ASSUME Deprisa = FALSE, TiposHoja, AlDia, MenuConBoton, V!Next \/ UNCHANGED V!vars
  PROVE  V!PasoBloqueo
<1>. USE DEF TiposHoja, CuentasHoja
<1>1. ASSUME pedido' # pedido, pedido'.por = "pregunta"
      PROVE  pintadaV.pregunta.clase = "pregunta" /\ pintadaV.pregunta.que = pedido'.que
  <2>1. bloqueado /\ confirmacion # V!Nada /\ pedido'.que = confirmacion.que
    <3>1. CASE \E t \in V!Tecleable : V!TeclaPregunta(t)
      <4>1. PICK t \in V!Tecleable : V!TeclaPregunta(t)
        BY <3>1
      <4>2. pedido' = [que |-> confirmacion.que, por |-> "pregunta"]
        BY <1>1, <4>1 DEF V!TeclaPregunta
      <4>. QED BY <4>1, <4>2 DEF V!TeclaPregunta, V!Actua
    <3>2. CASE \E p \in PuntosBloqueo : V!Pulsar(p)
      BY <1>1, <3>2 DEF V!Pulsar, V!Actua, V!PulsarPregunta, V!PulsarEntrada, V!PulsarBoton, V!PulsarMedio, V!PulsarFuera
    <3>. QED BY <1>1, <3>1, <3>2 DEF V!Next, V!vars, V!Fotograma, V!FinDesbloqueo, V!TeclaCampo, V!BloqMayus, V!Rechaza,
             V!DedoAjeno, V!LlegaMedio, V!AplicarConfig, V!Bloquear, V!Desbloquear
  <2>. QED BY <2>1, LoPintado DEF EsPregunta
<1>2. ASSUME bloqueado, bloqueado', confirmacion # V!Nada, estado # "comprobando" PROVE escritos' = escritos
  BY <1>2 DEF V!Next, V!vars, V!campo, V!Fotograma, V!FinDesbloqueo, V!TeclaCampo, V!TeclaPregunta, V!Pulsar, V!BloqMayus, V!Rechaza,
             V!DedoAjeno, V!LlegaMedio, V!AplicarConfig, V!Bloquear, V!Desbloquear
<1>3. ASSUME bloqueado, NEW p \in PuntosBloqueo, V!PulsarMedio(p)
      PROVE  pintadaV.tarjeta # V!Nada /\ V!BotonDeTarjeta(p, pintadaV.tarjeta.y) = V!MedioEn(p)
  <2>1. V!HayTarjeta
    BY <1>3 DEF V!PulsarMedio, V!MedioEn
  <2>2. pintadaV.tarjeta = [clase |-> "tarjeta", y |-> V!MediosYActual, suena |-> medios.suena]
    BY <1>3, <2>1, LoPintado DEF V!TarjetaVista
  <2>. QED BY <2>1, <2>2 DEF V!MedioEn, V!Nada
<1>4. ASSUME bloqueado, NEW p \in PuntosBloqueo, V!PulsarEntrada(p)
      PROVE  pintadaV.menu.clase = "menu" /\ V!EntradaEn(p, pintadaV.menu.subida) = V!EntradaEn(p, 0)
  <2>1. confirmacion = V!Nada /\ confirmacion' # V!Nada /\ menu
    BY <1>4 DEF V!PulsarEntrada, V!EnEntrada, V!Nada
  <2>2. \E q \in PuntosBloqueo : V!Pulsar(q)
    BY <2>1 DEF V!Next, V!vars, V!hoja, V!Fotograma, V!FinDesbloqueo, V!TeclaCampo, V!TeclaPregunta, V!BloqMayus, V!Rechaza,
             V!DedoAjeno, V!LlegaMedio, V!AplicarConfig, V!Bloquear, V!Desbloquear
  <2>3. menuF >= FASES - 1
    BY <2>2 DEF V!Pulsar
  <2>4. V!Resto(menuF, 1) = 0
    BY <2>3, HojaAssumption DEF V!Resto, V!Mayor, V!Menor
  <2>5. pintadaV.menu = [clase |-> "menu", subida |-> 0]
    BY <1>4, <2>1, <2>4, LoPintado DEF V!MenuVisto, MenuConBoton
  <2>. QED BY <2>5
<1>. QED BY <1>1, <1>2, <1>3, <1>4 DEF V!PasoBloqueo

-----------------------------------------------------------------------------
\* The machines of the shell do not touch each other: a step of the whole is, for the cards, one
\* of theirs or none.
LEMMA CardsAparte ==
  ASSUME [Next]_<<parte, deLaunchpad, deNotifications, deCards, deControlCenter, deSwitcher, deSnip, deLockView>>,
         parte' = "cards"
  PROVE  parte = "cards" /\ (C!Next \/ UNCHANGED C!vars)
<1>1. UNCHANGED <<parte, deCards>> => parte' = parte /\ UNCHANGED C!vars
  BY DEF deCards, C!vars
<1>2. Next => parte' = parte /\ (parte = "cards" => C!Next)
  BY DEF Next, EnLaunchpad, EnNotifications, EnCards, EnControlCenter, EnSwitcher, EnSnip, EnLockView, C!Next
<1>. QED BY <1>1, <1>2

\* And for the control center.
LEMMA CentroAparte ==
  ASSUME [Next]_<<parte, deLaunchpad, deNotifications, deCards, deControlCenter, deSwitcher, deSnip, deLockView>>,
         parte' = "control"
  PROVE  parte = "control" /\ (CC!Next \/ UNCHANGED CC!vars)
<1>1. UNCHANGED <<parte, deControlCenter>> => parte' = parte /\ UNCHANGED CC!vars
  BY DEF deControlCenter, CC!vars
<1>2. Next => parte' = parte /\ (parte = "control" => CC!Next)
  BY DEF Next, EnLaunchpad, EnNotifications, EnCards, EnControlCenter, EnSwitcher, EnSnip, EnLockView, CC!Next
<1>. QED BY <1>1, <1>2

\* And for the sheet of the lock.
LEMMA HojaAparte ==
  ASSUME [Next]_<<parte, deLaunchpad, deNotifications, deCards, deControlCenter, deSwitcher, deSnip, deLockView>>,
         parte' = "lockview"
  PROVE  parte = "lockview" /\ (V!Next \/ UNCHANGED V!vars)
<1>1. UNCHANGED <<parte, deLockView>> => parte' = parte /\ UNCHANGED V!vars
  BY DEF deLockView, V!vars, V!fases, V!hoja, V!campo, V!fuera
<1>2. Next => parte' = parte /\ (parte = "lockview" => V!Next)
  BY DEF Next, EnLaunchpad, EnNotifications, EnCards, EnControlCenter, EnSwitcher, EnSnip, EnLockView, V!Next
<1>. QED BY <1>1, <1>2

\* The machine of a behaviour never changes.
LEMMA HojaSigue ==
  ASSUME [Next]_<<parte, deLaunchpad, deNotifications, deCards, deControlCenter, deSwitcher, deSnip, deLockView>>,
         parte = "lockview"
  PROVE  parte' = "lockview" /\ (V!Next \/ UNCHANGED V!vars)
<1>1. parte' = parte
  BY DEF Next, EnLaunchpad, EnNotifications, EnCards, EnControlCenter, EnSwitcher, EnSnip, EnLockView
<1>. QED BY <1>1, HojaAparte

\* The two together.
TarjetasInv == /\ parte = "cards" => IInvCards
               /\ parte = "control" => IInvCentro

\* An open card has its surface and a surface with no card is leaving; a dodging bar tells the
\* truth about the window under it; what the control center shows and asks is what the system is
\* and what the finger asked: with any widgets, systems, points and bounds.  A press that comes
\* before the last one was carried out is left out, as in the run.
THEOREM TarjetasBien == ASSUME Impaciente = FALSE PROVE Spec => []TarjetasEnOrden
<1>1. Init => TarjetasInv
  BY InitCards, InitCentro DEF Init, TarjetasInv
<1>2. TarjetasInv /\ [Next]_<<parte, deLaunchpad, deNotifications, deCards, deControlCenter, deSwitcher, deSnip, deLockView>>
        => TarjetasInv'
  BY NextCards, NextCentro, CardsAparte, CentroAparte DEF TarjetasInv
<1>3. TarjetasInv => TarjetasEnOrden
  BY CardsBasta, CentroCasiBasta, CentroBasta DEF TarjetasInv, TarjetasEnOrden
<1>. QED BY <1>1, <1>2, <1>3, PTL DEF Spec

\* The inductive invariant of the sheet.
HojaInv == parte = "lockview" => TiposHoja /\ AlDia /\ V!VeloBajoBloqueo
\* What its steps need besides: an open menu is of a composition that has one.
MenuInv == parte = "lockview" => TiposHoja /\ AlDia /\ V!VeloBajoBloqueo /\ MenuConBoton

\* The sheet of the lock at rest shows what the lock says, and the song's veil is under a lock or
\* the end of one: on any screen, with any compositions, animations of any length and any number
\* of locks, if no frame comes later than a whole animation.
THEOREM HojaBien == ASSUME Tardon = FALSE PROVE Spec => []LockViewEnOrden
<1>1. Init => HojaInv
  BY InitTipos, InitAlDia DEF Init, HojaInv
<1>2. HojaInv /\ [Next]_<<parte, deLaunchpad, deNotifications, deCards, deControlCenter, deSwitcher, deSnip, deLockView>>
        => HojaInv'
  BY NextTipos, NextAlDia, NextVelo, HojaAparte DEF HojaInv
<1>3. HojaInv => LockViewEnOrden
  BY TiposBasta, AlDiaBasta DEF HojaInv, LockViewEnOrden, V!LockViewEnOrden
<1>. QED BY <1>1, <1>2, <1>3, PTL DEF Spec

\* There is no menu at the start.
LEMMA InitMenu == V!Init => MenuConBoton
BY DEF V!Init, MenuConBoton

\* What is asked of the lock by a press or a key was on its painted surface when it was given:
\* nothing is turned off, suspended or switched that the image did not offer.  Frames come in
\* time, nobody types before the first one, and the composition does not change under a menu.
THEOREM BloqueoHonesto ==
  ASSUME Tardon = FALSE, Deprisa = FALSE, ConfigEnMenu = FALSE
  PROVE  Spec => [][parte = "lockview" => V!PasoBloqueo]_<<parte, deNotifications, deSwitcher, deLockView>>
<1>1. Init => MenuInv
  BY InitTipos, InitAlDia, InitMenu DEF Init, MenuInv
<1>2. MenuInv /\ [Next]_<<parte, deLaunchpad, deNotifications, deCards, deControlCenter, deSwitcher, deSnip, deLockView>>
        => MenuInv'
  BY NextTipos, NextAlDia, NextVelo, NextMenu, HojaAparte DEF MenuInv
<1>3. MenuInv /\ [Next]_<<parte, deLaunchpad, deNotifications, deCards, deControlCenter, deSwitcher, deSnip, deLockView>>
        => [parte = "lockview" => V!PasoBloqueo]_<<parte, deNotifications, deSwitcher, deLockView>>
  BY PasoDelBloqueo, HojaSigue DEF MenuInv
<1>. QED BY <1>1, <1>2, <1>3, PTL DEF Spec

-----------------------------------------------------------------------------
(* The notifications.                                                      *)

\* The applications' identifiers are numbers from one.
ASSUME AvisosAssumption == Ids \subseteq Nat \ {0} /\ Maximo \in Nat /\ Visibles \in Nat

MenorQue == {p \in Nat \X Nat : p[1] < p[2]}
\* A set of numbers that is not empty has a least one.
LEMMA Minimo ==
  ASSUME NEW T, T \subseteq Nat, T # {}
  PROVE  \E x \in T : \A y \in T : x <= y
<1>1. IsWellFoundedOn(MenorQue, Nat)
  BY NatLessThanWellFounded DEF OpToRel, MenorQue
<1>2. PICK x \in T : \A y \in T : ~ (<<y, x>> \in MenorQue)
  BY <1>1, WFMin
<1>3. \A y \in T : x <= y
  <2>. TAKE y \in T
  <2>1. x \in Nat /\ y \in Nat
    OBVIOUS
  <2>2. <<y, x>> \notin MenorQue
    BY <1>2
  <2>3. ~ (y < x)
    BY <2>1, <2>2 DEF MenorQue
  <2>. QED BY <2>1, <2>3
<1>. QED BY <1>3

\* A step of the filter, and what a function that follows it up to n is.
UnPaso(s, T, f, i) == IF i = 0 THEN <<>> ELSE IF s[i] \in T THEN Append(f[i - 1], s[i]) ELSE f[i - 1]
Sigue(s, T, f, n) == f = [i \in 0..n |-> UnPaso(s, T, f, i)]


\* There is such a function up to any length: otherwise there would be a first one without it.
LEMMA HayQuien ==
  ASSUME NEW s, NEW T, NEW n \in Nat
  PROVE  \E f : Sigue(s, T, f, n)
<1>. DEFINE Malos == {m \in Nat : ~\E f : Sigue(s, T, f, m)}
<1>. SUFFICES ASSUME Malos # {} PROVE FALSE
  OBVIOUS
<1>1. PICK m \in Malos : \A k \in Malos : m <= k
  BY Minimo
<1>2. m \in Nat /\ ~\E f : Sigue(s, T, f, m)
  OBVIOUS
<1>3. CASE m = 0
  <2>. DEFINE f == [i \in 0..0 |-> <<>>]
  <2>1. \A i \in 0..0 : UnPaso(s, T, f, i) = <<>>
    BY DEF UnPaso
  <2>2. Sigue(s, T, f, 0)
    BY <2>1 DEF Sigue
  <2>. QED BY <1>2, <1>3, <2>2
<1>4. CASE m > 0
  <2>1. m - 1 \in Nat /\ m - 1 \notin Malos
    BY <1>1, <1>2, <1>4
  <2>2. PICK f : Sigue(s, T, f, m - 1)
    BY <2>1
  <2>. DEFINE g == [i \in 0..m |-> IF i = m THEN UnPaso(s, T, f, m) ELSE f[i]]
  <2>3. \A i \in 0..m : i = m \/ i \in 0..(m - 1)
    BY <1>2, <1>4
  <2>4. \A i \in 0..m : i # 0 => i - 1 \in 0..(m - 1) /\ i - 1 # m /\ i - 1 \in 0..m
    BY <1>2, <1>4
  <2>5. \A i \in 0..m : i # 0 => g[i - 1] = f[i - 1]
    BY <2>4
  <2>6. \A i \in 0..m : UnPaso(s, T, g, i) = UnPaso(s, T, f, i)
    <3>. HIDE DEF g
    <3>. QED BY <2>5 DEF UnPaso
  <2>7. \A i \in 0..m : g[i] = UnPaso(s, T, g, i)
    <3>1. \A i \in 0..(m - 1) : f[i] = UnPaso(s, T, f, i)
      BY <2>2 DEF Sigue
    <3>. QED BY <2>3, <2>6, <3>1
  <2>8. g = [i \in 0..m |-> UnPaso(s, T, g, i)]
    BY <2>7
  <2>9. Sigue(s, T, g, m)
    BY <2>8, Zenon DEF Sigue
  <2>. QED BY <1>2, <2>9
<1>. QED BY <1>2, <1>3, <1>4

Ninguna(s) == \A i, j \in DOMAIN s : s[i] = s[j] => i = j
\* What filtering gives: those of the set, none twice if none was, and no more.
Filtrado(s, T, Z, i, r) ==
  /\ r \in Seq(Z) /\ Len(r) <= i
  /\ \A x : (\E k \in DOMAIN r : r[k] = x) <=> (x \in T /\ \E j \in 1..i : s[j] = x)
  /\ Ninguna(s) => Ninguna(r)
  /\ i >= 1 /\ s[1] \in T => 1 \in DOMAIN r /\ r[1] = s[1]
\* One more element is looked at.
LEMMA UnoMasFiltrado ==
  ASSUME NEW Z, NEW s \in Seq(Z), NEW T, NEW i \in 1..Len(s), NEW r, Filtrado(s, T, Z, i - 1, r)
  PROVE  /\ s[i] \in T => Filtrado(s, T, Z, i, Append(r, s[i]))
         /\ s[i] \notin T => Filtrado(s, T, Z, i, r)
<1>. DEFINE a == Append(r, s[i])
<1>1. r \in Seq(Z) /\ Len(r) \in Nat /\ Len(r) <= i - 1 /\ s[i] \in Z /\ i \in Nat /\ i >= 1
        /\ DOMAIN r = 1..Len(r)
  BY DEF Filtrado
<1>2. \A j : j \in 1..i <=> (j \in 1..(i - 1) \/ j = i)
  BY <1>1
<1>3. ASSUME s[i] \in T PROVE Filtrado(s, T, Z, i, a)
  <2>1. /\ a \in Seq(Z) /\ Len(a) = Len(r) + 1 /\ DOMAIN a = 1..(Len(r) + 1) /\ a[Len(r) + 1] = s[i]
        /\ \A k \in DOMAIN r : a[k] = r[k]
    BY <1>1
  <2>2. \A k : k \in DOMAIN a <=> (k \in DOMAIN r \/ k = Len(r) + 1)
    BY <1>1, <2>1
  <2>3. Len(a) <= i
    BY <1>1, <2>1
  <2>. HIDE DEF a
  <2>4. \A x : (\E k \in DOMAIN a : a[k] = x) <=> ((\E k \in DOMAIN r : r[k] = x) \/ x = s[i])
    BY <2>1, <2>2
  <2>5. \A x : (\E k \in DOMAIN a : a[k] = x) <=> (x \in T /\ \E j \in 1..i : s[j] = x)
    BY <1>2, <1>3, <2>4 DEF Filtrado
  <2>6. Ninguna(s) => Ninguna(a)
    <3>. SUFFICES ASSUME Ninguna(s), NEW k \in DOMAIN a, NEW l \in DOMAIN a, a[k] = a[l] PROVE k = l
      BY DEF Ninguna
    <3>1. Ninguna(r)
      BY DEF Filtrado
    <3>2. \A q \in DOMAIN r : r[q] # s[i]
      <4>. SUFFICES ASSUME NEW q \in DOMAIN r, r[q] = s[i] PROVE FALSE
        OBVIOUS
      <4>1. PICK j \in 1..(i - 1) : s[j] = s[i]
        BY DEF Filtrado
      <4>2. j \in DOMAIN s /\ i \in DOMAIN s /\ j # i
        BY <1>1
      <4>. QED BY <4>1, <4>2 DEF Ninguna
    <3>. QED BY <2>1, <2>2, <3>1, <3>2 DEF Ninguna
  <2>7. s[1] \in T => 1 \in DOMAIN a /\ a[1] = s[1]
    <3>1. CASE i = 1
      <4>1. Len(r) = 0
        BY <1>1, <3>1
      <4>. QED BY <2>1, <3>1, <4>1
    <3>2. CASE i # 1
      <4>1. i - 1 >= 1
        BY <1>1, <3>2
      <4>2. s[1] \in T => 1 \in DOMAIN r /\ r[1] = s[1]
        BY <4>1 DEF Filtrado
      <4>. QED BY <2>1, <2>2, <4>2
    <3>. QED BY <3>1, <3>2
  <2>. QED BY <2>1, <2>3, <2>5, <2>6, <2>7 DEF Filtrado
<1>4. ASSUME s[i] \notin T PROVE Filtrado(s, T, Z, i, r)
  <2>1. Len(r) <= i
    BY <1>1
  <2>2. \A x : (\E k \in DOMAIN r : r[k] = x) <=> (x \in T /\ \E j \in 1..i : s[j] = x)
    BY <1>2, <1>4 DEF Filtrado
  <2>3. s[1] \in T => 1 \in DOMAIN r /\ r[1] = s[1]
    <3>1. CASE i = 1
      BY <1>4, <3>1
    <3>2. CASE i # 1
      <4>1. i - 1 >= 1
        BY <1>1, <3>2
      <4>. QED BY <4>1 DEF Filtrado
    <3>. QED BY <3>1, <3>2
  <2>. QED BY <2>1, <2>2, <2>3 DEF Filtrado
<1>. QED BY <1>3, <1>4

\* What Elegidas returns, for any sequence and set.
LEMMA Filtra ==
  ASSUME NEW Z, NEW s \in Seq(Z), NEW T
  PROVE  /\ N!Elegidas(s, T) \in Seq(Z) /\ Len(N!Elegidas(s, T)) <= Len(s)
         /\ N!ToSet(N!Elegidas(s, T)) = N!ToSet(s) \cap T
         /\ Ninguna(s) => Ninguna(N!Elegidas(s, T))
         /\ s # <<>> /\ s[1] \in T => 1 \in DOMAIN N!Elegidas(s, T) /\ N!Elegidas(s, T)[1] = s[1]
<1>. DEFINE f == CHOOSE g : Sigue(s, T, g, Len(s))
<1>1. N!Elegidas(s, T) = f[Len(s)] /\ Len(s) \in Nat /\ DOMAIN s = 1..Len(s)
  BY DEF N!Elegidas, Sigue, UnPaso
<1>2. Sigue(s, T, f, Len(s))
  BY <1>1, HayQuien
<1>. HIDE DEF f
<1>3. \A i \in 0..Len(s) : f[i] = UnPaso(s, T, f, i)
  BY <1>2 DEF Sigue
<1>. DEFINE Malos == {i \in 0..Len(s) : ~Filtrado(s, T, Z, i, f[i])}
<1>4. Malos = {}
  <2>. SUFFICES ASSUME Malos # {} PROVE FALSE
    OBVIOUS
  <2>0. Malos \subseteq Nat
    OBVIOUS
  <2>1. PICK i \in Malos : \A k \in Malos : i <= k
    <3>. HIDE DEF Malos
    <3>. QED BY <2>0, Minimo
  <2>2. i \in 0..Len(s) /\ ~Filtrado(s, T, Z, i, f[i])
    OBVIOUS
  <2>3. CASE i = 0
    <3>1. f[0] = <<>>
      BY <1>3, <2>2, <2>3 DEF UnPaso
    <3>2. Filtrado(s, T, Z, 0, <<>>)
      BY DEF Filtrado, Ninguna
    <3>. QED BY <2>2, <2>3, <3>1, <3>2
  <2>4. CASE i # 0
    <3>1. i - 1 \in 0..Len(s) /\ i - 1 \notin Malos /\ i \in 1..Len(s)
      BY <1>1, <2>1, <2>2, <2>4
    <3>2. Filtrado(s, T, Z, i - 1, f[i - 1])
      BY <3>1
    <3>3. f[i] = IF s[i] \in T THEN Append(f[i - 1], s[i]) ELSE f[i - 1]
      BY <1>3, <2>2, <2>4 DEF UnPaso
    <3>. QED BY <2>2, <3>1, <3>2, <3>3, UnoMasFiltrado
  <2>. QED BY <2>3, <2>4
<1>5. Filtrado(s, T, Z, Len(s), f[Len(s)])
  BY <1>1, <1>4
<1>6. N!ToSet(N!Elegidas(s, T)) = N!ToSet(s) \cap T
  BY <1>1, <1>5 DEF Filtrado, N!ToSet
<1>7. s # <<>> => Len(s) >= 1
  OBVIOUS
<1>. QED BY <1>1, <1>5, <1>6, <1>7 DEF Filtrado

\* A queue without repetitions is as long as those it has.
LEMMA DeLargo == ASSUME NEW Z, NEW s \in Seq(Z), Ninguna(s) PROVE Len(s) = Cardinality(N!ToSet(s))
<1>1. Len(s) \in Nat /\ DOMAIN s = 1..Len(s)
  OBVIOUS
<1>2. IsFiniteSet(1..Len(s)) /\ Cardinality(1..Len(s)) = Len(s)
  BY <1>1, FS_Interval
<1>3. s \in Bijection(1..Len(s), N!ToSet(s))
  <2>1. s \in [1..Len(s) -> N!ToSet(s)]
    BY <1>1 DEF N!ToSet
  <2>2. \A x \in N!ToSet(s) : \E k \in 1..Len(s) : s[k] = x
    BY <1>1 DEF N!ToSet
  <2>. QED BY <1>1, <2>1, <2>2 DEF Bijection, Injection, Surjection, IsInjective, Ninguna
<1>4. ExistsBijection(1..Len(s), N!ToSet(s))
  BY <1>3 DEF ExistsBijection
<1>5. Cardinality(1..Len(s)) = Cardinality(N!ToSet(s))
  BY <1>2, <1>4, FS_Bijection
<1>. QED BY <1>2, <1>5


-----------------------------------------------------------------------------
Todos == Ids \cup {N!Captura}
Fases == {"quieto", "saliendo", "ido"}
Avisos == [id : Todos, fase : Fases, hora : BOOLEAN]
Mensajes == [tipo : {"nueva", "cerrar"}, critica : BOOLEAN, id : Ids]
UnoPorId(ts) == \A j, k \in DOMAIN ts : ts[j].id = ts[k].id => j = k
EnPie(ts) == {ts[k].id : k \in {j \in DOMAIN ts : ts[j].fase = "quieto"}}
\* A stack of toasts, one for each notification, with n that are still at most.
Montada(ts, n) == ts \in Seq(Avisos) /\ UnoPorId(ts) /\ IsFiniteSet(EnPie(ts)) /\ Cardinality(EnPie(ts)) <= n
\* Somebody wakes the loop up for all of those that came by the bus.
ConHora(ts) == \A k \in DOMAIN ts : ts[k].id # N!Captura => ts[k].hora = TRUE
Yendo(ts) == \E k \in DOMAIN ts : ts[k].fase = "saliendo" /\ ts[k].id # N!Captura
ColaBien == lista \in Seq(Todos) /\ Ninguna(lista) /\ Len(lista) <= Maximo /\ N!ToSet(lista) \cap avisadas = {}
CopiaBien == N!EsTarjeta(emergente) => emergente.copia = lista
PilaBien == Montada(toasts, Visibles) /\ ConHora(toasts) /\ (Yendo(toasts) => despierto = TRUE)
AvisosInv == bus \in Seq(Mensajes) /\ despierto \in BOOLEAN /\ ColaBien /\ CopiaBien /\ PilaBien

\* A sequence without its first ones, or with one more in front.
LEMMA Delante ==
  ASSUME NEW Z, NEW l \in Seq(Z), NEW x \in Z
  PROVE  /\ <<x>> \o l \in Seq(Z) /\ Len(<<x>> \o l) = Len(l) + 1 /\ (<<x>> \o l)[1] = x
         /\ DOMAIN (<<x>> \o l) = 1..(Len(l) + 1) /\ Len(l) \in Nat /\ DOMAIN l = 1..Len(l)
         /\ \A k \in 1..Len(l) : (<<x>> \o l)[k + 1] = l[k]
OBVIOUS

\* The first ones of a sequence.
LEMMA Primeros ==
  ASSUME NEW Z, NEW s \in Seq(Z), NEW m \in 0..Len(s)
  PROVE  SubSeq(s, 1, m) \in Seq(Z) /\ Len(SubSeq(s, 1, m)) = m /\ DOMAIN SubSeq(s, 1, m) = 1..m
         /\ \A k \in 1..m : SubSeq(s, 1, m)[k] = s[k]
OBVIOUS

\* What guardar leaves: whoever comes in is first, nobody is twice, and none is past the maximum.
LEMMA GuardadaBien ==
  ASSUME NEW l \in Seq(Todos), Ninguna(l), Len(l) <= Maximo, NEW i \in Todos
  PROVE  /\ N!Guardada(l, i) \in Seq(Todos) /\ Ninguna(N!Guardada(l, i)) /\ Len(N!Guardada(l, i)) <= Maximo
         /\ N!ToSet(N!Guardada(l, i)) \subseteq N!ToSet(l) \cup {i}
<1>1. CASE i \in N!ToSet(l)
  BY <1>1 DEF N!Guardada
<1>2. CASE i \notin N!ToSet(l)
  <2>. DEFINE s == <<i>> \o l
              m == N!Menor(Len(l) + 1, Maximo)
              g == SubSeq(s, 1, m)
  <2>1. /\ s \in Seq(Todos) /\ Len(s) = Len(l) + 1 /\ s[1] = i /\ Len(l) \in Nat /\ DOMAIN l = 1..Len(l)
        /\ \A k \in 1..Len(l) : s[k + 1] = l[k]
    BY Delante
  <2>2. m \in 0..Len(s) /\ m <= Maximo
    BY <2>1, AvisosAssumption DEF N!Menor
  <2>3. g = N!Guardada(l, i)
    BY <1>2 DEF N!Guardada
  <2>. HIDE DEF s, m
  <2>4. g \in Seq(Todos) /\ Len(g) = m /\ DOMAIN g = 1..m /\ \A k \in 1..m : g[k] = s[k]
    BY <2>1, <2>2, Primeros
  <2>. HIDE DEF g
  <2>5. \A k \in 1..m : k \in 1..Len(s) /\ (k = 1 \/ k - 1 \in 1..Len(l))
    BY <2>1, <2>2
  <2>6. \A k \in 1..m : g[k] = IF k = 1 THEN i ELSE l[k - 1]
    <3>. TAKE k \in 1..m
    <3>1. CASE k = 1
      BY <2>1, <2>4, <3>1
    <3>2. CASE k # 1
      <4>1. k - 1 \in 1..Len(l) /\ s[(k - 1) + 1] = l[k - 1] /\ (k - 1) + 1 = k
        BY <2>1, <2>5, <3>2
      <4>. QED BY <2>4, <3>2, <4>1
    <3>. QED BY <3>1, <3>2
  <2>7. \A k \in DOMAIN l : l[k] # i
    BY <1>2 DEF N!ToSet
  <2>8. Ninguna(g)
    <3>. SUFFICES ASSUME NEW j \in 1..m, NEW k \in 1..m, g[j] = g[k] PROVE j = k
      BY <2>4 DEF Ninguna
    <3>1. CASE j = 1 /\ k # 1
      BY <2>1, <2>5, <2>6, <2>7, <3>1
    <3>2. CASE j # 1 /\ k = 1
      BY <2>1, <2>5, <2>6, <2>7, <3>2
    <3>3. CASE j # 1 /\ k # 1
      <4>1. l[j - 1] = l[k - 1] /\ j - 1 \in DOMAIN l /\ k - 1 \in DOMAIN l
        BY <2>1, <2>5, <2>6, <3>3
      <4>. QED BY <2>2, <4>1 DEF Ninguna
    <3>. QED BY <3>1, <3>2, <3>3
  <2>9. N!ToSet(g) \subseteq N!ToSet(l) \cup {i}
    BY <2>1, <2>4, <2>5, <2>6 DEF N!ToSet
  <2>. QED BY <2>2, <2>3, <2>4, <2>8, <2>9
<1>. QED BY <1>1, <1>2

\* What retirar leaves.
LEMMA SinBien ==
  ASSUME NEW l \in Seq(Todos), Ninguna(l), Len(l) <= Maximo, NEW i
  PROVE  /\ N!Sin(l, i) \in Seq(Todos) /\ Ninguna(N!Sin(l, i)) /\ Len(N!Sin(l, i)) <= Maximo
         /\ N!ToSet(N!Sin(l, i)) = N!ToSet(l) \ {i}
<1>1. N!ToSet(l) \cap (N!ToSet(l) \ {i}) = N!ToSet(l) \ {i}
  OBVIOUS
<1>2. /\ N!Sin(l, i) \in Seq(Todos) /\ Ninguna(N!Sin(l, i)) /\ Len(N!Sin(l, i)) <= Len(l)
      /\ N!ToSet(N!Sin(l, i)) = N!ToSet(l) \ {i}
  BY <1>1, Filtra DEF N!Sin
<1>3. Len(l) \in Nat /\ Len(N!Sin(l, i)) \in Nat
  BY <1>2
<1>. QED BY <1>2, <1>3, AvisosAssumption

\* sincronizar leaves an open card with the queue.
LEMMA SincronizadaBien ==
  ASSUME NEW e, NEW l
  PROVE  N!EsTarjeta(N!Sincronizada(e, l)) => N!Sincronizada(e, l).copia = l
BY DEF N!EsTarjeta, N!Sincronizada, N!Tarjeta

-----------------------------------------------------------------------------
\* The ones that are still are no more than the toasts.
LEMMA PieFinito == ASSUME NEW ts \in Seq(Avisos) PROVE IsFiniteSet(EnPie(ts)) /\ Cardinality(EnPie(ts)) \in Nat
<1>1. IsFiniteSet(1..Len(ts)) /\ DOMAIN ts = 1..Len(ts)
  BY FS_Interval
<1>. DEFINE D == {j \in DOMAIN ts : ts[j].fase = "quieto"}
<1>2. IsFiniteSet(D)
  BY <1>1, FS_Subset
<1>. DEFINE f == [k \in D |-> ts[k].id]
<1>3. f \in Surjection(D, EnPie(ts))
  BY DEF Surjection, EnPie
<1>4. IsFiniteSet(EnPie(ts))
  BY <1>2, <1>3, FS_Surjection
<1>. QED BY <1>4, FS_CardinalityType

\* As many of them as the sequence of those that are still is long.
LEMMA LargoDePie ==
  ASSUME NEW ts \in Seq(Avisos), UnoPorId(ts)
  PROVE  Len(N!Quietos(ts)) = Cardinality(EnPie(ts))
<1>. DEFINE q == N!Quietos(ts)
            T == {t \in N!ToSet(ts) : t.fase = "quieto"}
<1>1. Ninguna(ts)
  BY DEF Ninguna, UnoPorId
<1>2. q \in Seq(Avisos) /\ N!ToSet(q) = T /\ Ninguna(q)
  <2>1. N!ToSet(ts) \cap T = T
    OBVIOUS
  <2>. QED BY <1>1, <2>1, Filtra DEF N!Quietos
<1>. HIDE DEF q
<1>3. Len(q) \in Nat /\ DOMAIN q = 1..Len(q) /\ DOMAIN ts = 1..Len(ts)
  BY <1>2
<1>4. \A k \in 1..Len(q) : \E j \in DOMAIN ts : ts[j] = q[k] /\ ts[j].fase = "quieto"
  BY <1>2, <1>3 DEF N!ToSet
<1>5. \A j \in DOMAIN ts : ts[j].fase = "quieto" => \E k \in 1..Len(q) : q[k] = ts[j]
  BY <1>2, <1>3 DEF N!ToSet
<1>. DEFINE f == [k \in 1..Len(q) |-> q[k].id]
<1>6. f \in [1..Len(q) -> EnPie(ts)]
  BY <1>4 DEF EnPie
<1>7. \A x \in EnPie(ts) : \E k \in 1..Len(q) : f[k] = x
  BY <1>5 DEF EnPie
<1>8. \A j, k \in 1..Len(q) : f[j] = f[k] => j = k
  <2>. SUFFICES ASSUME NEW j \in 1..Len(q), NEW k \in 1..Len(q), q[j].id = q[k].id PROVE j = k
    OBVIOUS
  <2>1. PICK a \in DOMAIN ts : ts[a] = q[j]
    BY <1>4
  <2>2. PICK b \in DOMAIN ts : ts[b] = q[k]
    BY <1>4
  <2>3. a = b
    BY <2>1, <2>2 DEF UnoPorId
  <2>. QED BY <1>2, <1>3, <2>1, <2>2, <2>3 DEF Ninguna
<1>9. f \in Bijection(1..Len(q), EnPie(ts))
  <2>. HIDE DEF f
  <2>. QED BY <1>6, <1>7, <1>8 DEF Bijection, Injection, Surjection, IsInjective
<1>. HIDE DEF f
<1>10. ExistsBijection(1..Len(q), EnPie(ts)) /\ IsFiniteSet(1..Len(q)) /\ Cardinality(1..Len(q)) = Len(q)
  <2>1. ExistsBijection(1..Len(q), EnPie(ts))
    BY <1>9 DEF ExistsBijection
  <2>2. \A n \in Nat : IsFiniteSet(1..n) /\ Cardinality(1..n) = n
    BY FS_Interval
  <2>. QED BY <1>3, <2>1, <2>2
<1>11. Cardinality(EnPie(ts)) = Len(q)
  BY <1>10, FS_Bijection
<1>. QED BY <1>11 DEF q

\* Toasts that only change of phase, towards the exit, or of alarm.
LEMMA Mudada ==
  ASSUME NEW ts, NEW n \in Nat, Montada(ts, n), NEW us \in Seq(Avisos), Len(us) = Len(ts),
         \A k \in DOMAIN ts : us[k].id = ts[k].id /\ (us[k].fase = "quieto" => ts[k].fase = "quieto")
  PROVE  Montada(us, n) /\ EnPie(us) \subseteq EnPie(ts)
<1>1. ts \in Seq(Avisos) /\ DOMAIN ts = 1..Len(ts) /\ DOMAIN us = DOMAIN ts
  BY DEF Montada
<1>2. UnoPorId(us)
  BY <1>1 DEF Montada, UnoPorId
<1>3. EnPie(us) \subseteq EnPie(ts)
  BY <1>1 DEF EnPie
<1>4. IsFiniteSet(EnPie(us)) /\ Cardinality(EnPie(us)) \in Nat
        /\ Cardinality(EnPie(us)) <= Cardinality(EnPie(ts))
  BY <1>3, PieFinito, FS_Subset DEF Montada
<1>5. Cardinality(EnPie(ts)) \in Nat /\ Cardinality(EnPie(ts)) <= n
  BY <1>1, PieFinito DEF Montada
<1>6. Cardinality(EnPie(us)) <= n
  BY <1>4, <1>5
<1>. QED BY <1>2, <1>3, <1>4, <1>6 DEF Montada

\* The toast that comes in.
LEMMA PuestaBien ==
  ASSUME NEW ts, NEW n \in Nat, Montada(ts, n), NEW i \in Todos
  PROVE  /\ Montada(N!Puesta(ts, i), n + 1)
         /\ \A k \in DOMAIN N!Puesta(ts, i) : \/ N!Puesta(ts, i)[k] = [id |-> i, fase |-> "quieto", hora |-> FALSE]
                                              \/ \E j \in DOMAIN ts : N!Puesta(ts, i)[k] = ts[j]
<1>. DEFINE aviso == [id |-> i, fase |-> "quieto", hora |-> FALSE]
            us == N!Puesta(ts, i)
<1>1. ts \in Seq(Avisos) /\ UnoPorId(ts) /\ DOMAIN ts = 1..Len(ts) /\ Len(ts) \in Nat
  BY DEF Montada
<1>2. aviso \in Avisos /\ aviso.id = i /\ aviso.fase = "quieto"
  BY DEF Avisos, Fases
<1>3. us \in Seq(Avisos) /\ UnoPorId(us) /\ \A k \in DOMAIN us : us[k] = aviso \/ \E j \in DOMAIN ts : us[k] = ts[j]
  <2>1. CASE i \in N!IdsDe(ts)
    <3>1. us = [k \in DOMAIN ts |-> IF ts[k].id = i THEN aviso ELSE ts[k]]
      BY <2>1 DEF N!Puesta
    <3>. HIDE DEF aviso, us
    <3>2. us \in Seq(Avisos)
      BY <1>1, <1>2, <3>1
    <3>3. DOMAIN us = DOMAIN ts /\ \A k \in DOMAIN ts : us[k].id = ts[k].id
      BY <1>2, <3>1
    <3>4. UnoPorId(us)
      BY <1>1, <3>3 DEF UnoPorId
    <3>5. \A k \in DOMAIN us : us[k] = aviso \/ \E j \in DOMAIN ts : us[k] = ts[j]
      BY <3>1
    <3>. QED BY <3>2, <3>4, <3>5
  <2>2. CASE i \notin N!IdsDe(ts)
    <3>1. us = <<aviso>> \o ts
      BY <2>2 DEF N!Puesta
    <3>. HIDE DEF aviso, us
    <3>2. /\ us \in Seq(Avisos) /\ us[1] = aviso /\ DOMAIN us = 1..(Len(ts) + 1)
            /\ \A k \in 1..Len(ts) : us[k + 1] = ts[k]
      BY <1>1, <1>2, <3>1, Delante
    <3>3. \A k \in DOMAIN us : k = 1 \/ (k - 1 \in 1..Len(ts) /\ (k - 1) + 1 = k)
      BY <1>1, <3>2
    <3>4. \A k \in DOMAIN us : k # 1 => us[k] = ts[k - 1] /\ k - 1 \in DOMAIN ts
      BY <1>1, <3>2, <3>3
    <3>5. \A k \in DOMAIN ts : ts[k].id # i
      BY <2>2 DEF N!IdsDe
    <3>6. UnoPorId(us)
      <4>. SUFFICES ASSUME NEW j \in DOMAIN us, NEW k \in DOMAIN us, us[j].id = us[k].id PROVE j = k
        BY DEF UnoPorId
      <4>1. j = 1 \/ k = 1 => j = k
        BY <1>2, <3>2, <3>4, <3>5
      <4>2. j # 1 /\ k # 1 => j - 1 = k - 1 /\ j \in Nat /\ k \in Nat
        BY <1>1, <3>2, <3>4 DEF UnoPorId
      <4>. QED BY <4>1, <4>2
    <3>. QED BY <3>2, <3>4, <3>6
  <2>. QED BY <2>1, <2>2
<1>. HIDE DEF aviso, us
<1>4. EnPie(us) \subseteq EnPie(ts) \cup {i}
  BY <1>2, <1>3 DEF EnPie
<1>5. IsFiniteSet(EnPie(ts)) /\ Cardinality(EnPie(ts)) \in Nat /\ Cardinality(EnPie(ts)) <= n
  BY <1>1, PieFinito DEF Montada
<1>6. IsFiniteSet(EnPie(ts) \cup {i}) /\ Cardinality(EnPie(ts) \cup {i}) <= n + 1
        /\ Cardinality(EnPie(ts) \cup {i}) \in Nat
  <2>1. IsFiniteSet(EnPie(ts) \cup {i})
        /\ Cardinality(EnPie(ts) \cup {i}) = IF i \in EnPie(ts) THEN Cardinality(EnPie(ts)) ELSE Cardinality(EnPie(ts)) + 1
    BY <1>5, FS_AddElement
  <2>. QED BY <1>5, <2>1
<1>7. IsFiniteSet(EnPie(us)) /\ Cardinality(EnPie(us)) \in Nat
        /\ Cardinality(EnPie(us)) <= Cardinality(EnPie(ts) \cup {i})
  BY <1>3, <1>4, <1>6, FS_Subset, PieFinito
<1>8. Cardinality(EnPie(us)) <= n + 1
  BY <1>6, <1>7
<1>9. Montada(us, n + 1)
  BY <1>3, <1>7, <1>8 DEF Montada
<1>. QED BY <1>3, <1>9 DEF aviso, us

\* A last one that is still, if there is any.
LEMMA ElUltimo ==
  ASSUME NEW ts \in Seq(Avisos), EnPie(ts) # {}
  PROVE  \E k \in DOMAIN ts : ts[k].fase = "quieto" /\ \A j \in DOMAIN ts : ts[j].fase = "quieto" => j <= k
<1>. DEFINE n == Len(ts)
            D == {m \in Nat : \E j \in DOMAIN ts : ts[j].fase = "quieto" /\ m = n - j}
<1>1. n \in Nat /\ DOMAIN ts = 1..n
  OBVIOUS
<1>2. PICK j \in DOMAIN ts : ts[j].fase = "quieto"
  BY DEF EnPie
<1>3. n - j \in D
  BY <1>1, <1>2
<1>4. PICK m \in D : \A y \in D : m <= y
  <2>1. D \subseteq Nat /\ D # {}
    BY <1>3
  <2>. HIDE DEF D
  <2>. QED BY <2>1, Minimo
<1>5. PICK k \in DOMAIN ts : ts[k].fase = "quieto" /\ m = n - k
  OBVIOUS
<1>6. ASSUME NEW i \in DOMAIN ts, ts[i].fase = "quieto" PROVE i <= k
  <2>1. n - i \in D
    BY <1>1, <1>6
  <2>2. n - k <= n - i
    BY <1>4, <1>5, <2>1
  <2>. QED BY <1>1, <1>5, <2>2
<1>. QED BY <1>5, <1>6

\* One too many starts to leave.
LEMMA RecortadaBien ==
  ASSUME NEW ts, Montada(ts, Visibles + 1)
  PROVE  /\ Montada(N!Recortada(ts), Visibles) /\ DOMAIN N!Recortada(ts) = DOMAIN ts
         /\ \A k \in DOMAIN ts : N!Recortada(ts)[k].id = ts[k].id /\ N!Recortada(ts)[k].hora = ts[k].hora
<1>. DEFINE us == N!Recortada(ts)
            sobra == {k \in DOMAIN ts : ts[k].fase = "quieto" /\ Len(N!Quietos(SubSeq(ts, 1, k))) = Visibles + 1}
<1>0. Visibles \in Nat
  BY AvisosAssumption
<1>1. ts \in Seq(Avisos) /\ UnoPorId(ts) /\ Len(ts) \in Nat /\ DOMAIN ts = 1..Len(ts)
  BY DEF Montada
<1>2. us = [k \in DOMAIN ts |-> IF k \in sobra THEN [ts[k] EXCEPT !.fase = "saliendo"] ELSE ts[k]]
  BY DEF N!Recortada
<1>3. \A k \in DOMAIN ts : k \in sobra <=> (ts[k].fase = "quieto"
        /\ Len(N!Quietos(SubSeq(ts, 1, k))) = Visibles + 1)
  OBVIOUS
<1>. HIDE DEF us, sobra
<1>4. \A k \in DOMAIN ts : ts[k] \in Avisos
  BY <1>1
<1>5. \A k \in DOMAIN ts : us[k] \in Avisos /\ us[k].id = ts[k].id /\ us[k].hora = ts[k].hora
                           /\ (us[k].fase = "quieto" <=> ts[k].fase = "quieto" /\ k \notin sobra)
  BY <1>2, <1>3, <1>4 DEF Avisos, Fases
<1>6. us \in Seq(Avisos) /\ DOMAIN us = DOMAIN ts /\ Len(us) = Len(ts)
  BY <1>1, <1>2, <1>5
<1>7. Montada(us, Visibles + 1) /\ EnPie(us) \subseteq EnPie(ts)
  BY <1>0, <1>5, <1>6, Mudada
<1>8. Cardinality(EnPie(us)) <= Visibles
  <2>0. Cardinality(EnPie(us)) \in Nat /\ Cardinality(EnPie(us)) <= Cardinality(EnPie(ts))
          /\ Cardinality(EnPie(ts)) \in Nat
        /\ Cardinality(EnPie(ts)) <= Visibles + 1 /\ IsFiniteSet(EnPie(ts))
    BY <1>1, <1>6, <1>7, PieFinito, FS_Subset DEF Montada
  <2>1. CASE Cardinality(EnPie(ts)) <= Visibles
    BY <1>0, <2>0, <2>1
  <2>2. CASE Cardinality(EnPie(ts)) = Visibles + 1
    <3>1. EnPie(ts) # {}
      BY <1>0, <2>2, FS_EmptySet
    <3>2. PICK k \in DOMAIN ts : ts[k].fase = "quieto" /\ \A j \in DOMAIN ts : ts[j].fase = "quieto" => j <= k
      BY <1>1, <3>1, ElUltimo
    <3>. DEFINE p == SubSeq(ts, 1, k)
    <3>3. p \in Seq(Avisos) /\ DOMAIN p = 1..k /\ (\A j \in 1..k : p[j] = ts[j])
            /\ 1..k \subseteq DOMAIN ts /\ k \in Nat
      BY <1>1, Primeros
    <3>. HIDE DEF p
    <3>4. UnoPorId(p)
      BY <1>1, <3>3 DEF UnoPorId
    <3>5. EnPie(p) = EnPie(ts)
      <4>1. \A j \in DOMAIN ts : ts[j].fase = "quieto" => j \in 1..k
        BY <1>1, <3>2
      <4>. QED BY <3>3, <4>1 DEF EnPie
    <3>6. Len(N!Quietos(p)) = Visibles + 1
      BY <2>2, <3>3, <3>4, <3>5, LargoDePie
    <3>7. k \in sobra
      BY <1>3, <3>2, <3>6 DEF p
    <3>8. EnPie(us) \subseteq EnPie(ts) \ {ts[k].id}
      BY <1>1, <1>5, <1>6, <1>7, <3>7 DEF EnPie, UnoPorId
    <3>9. ts[k].id \in EnPie(ts)
      BY <3>2 DEF EnPie
    <3>10. IsFiniteSet(EnPie(ts) \ {ts[k].id}) /\ Cardinality(EnPie(ts) \ {ts[k].id}) = Visibles
      <4>1. IsFiniteSet(EnPie(ts) \ {ts[k].id}) /\ Cardinality(EnPie(ts) \ {ts[k].id}) = Cardinality(EnPie(ts)) - 1
        BY <2>0, <3>9, FS_RemoveElement
      <4>. QED BY <1>0, <2>2, <4>1
    <3>. QED BY <3>8, <3>10, FS_Subset
  <2>. QED BY <1>0, <2>0, <2>1, <2>2
<1>9. Montada(us, Visibles)
  BY <1>7, <1>8 DEF Montada
<1>. QED BY <1>5, <1>6, <1>9 DEF us

\* The whole of what a notification does to the stack.
LEMMA PilaDeBien ==
  ASSUME Montada(toasts, Visibles), NEW i \in Todos, NEW critica
  PROVE  /\ Montada(N!Pila(i, critica), Visibles)
         /\ \A k \in DOMAIN N!Pila(i, critica) : \/ N!Pila(i, critica)[k].id = i
              \/ \E j \in DOMAIN toasts : N!Pila(i, critica)[k].id = toasts[j].id /\ N!Pila(i, critica)[k].hora = toasts[j].hora
<1>. DEFINE p == N!Puesta(toasts, i)
<1>0. Visibles \in Nat
  BY AvisosAssumption
<1>1. /\ Montada(p, Visibles + 1)
      /\ \A k \in DOMAIN p : p[k].id = i \/ \E j \in DOMAIN toasts : p[k] = toasts[j]
  BY <1>0, PuestaBien
<1>2. N!Pila(i, critica) = N!Recortada(p) \/ N!Pila(i, critica) = toasts
  BY DEF N!Pila
<1>. HIDE DEF p
<1>3. /\ Montada(N!Recortada(p), Visibles) /\ DOMAIN N!Recortada(p) = DOMAIN p
      /\ \A k \in DOMAIN p : N!Recortada(p)[k].id = p[k].id /\ N!Recortada(p)[k].hora = p[k].hora
  BY <1>1, RecortadaBien
<1>4. CASE N!Pila(i, critica) = N!Recortada(p)
  BY <1>1, <1>3, <1>4
<1>5. CASE N!Pila(i, critica) = toasts
  BY <1>5
<1>. QED BY <1>2, <1>4, <1>5

\* A change of phase or of alarm, with the loop awake if somebody leaves.
LEMMA MudadaBien ==
  ASSUME PilaBien, NEW us, toasts' = us, us \in Seq(Avisos), Len(us) = Len(toasts),
         \A k \in DOMAIN toasts : /\ us[k].id = toasts[k].id /\ (us[k].fase = "quieto" => toasts[k].fase = "quieto")
                                  /\ (toasts[k].hora = TRUE => us[k].hora = TRUE),
         Yendo(us) => despierto' = TRUE
  PROVE  PilaBien'
<1>1. Montada(toasts, Visibles) /\ ConHora(toasts) /\ toasts \in Seq(Avisos) /\ DOMAIN us = DOMAIN toasts
  BY DEF PilaBien, Montada
<1>2. Montada(us, Visibles)
  BY <1>1, AvisosAssumption, Mudada
<1>3. ConHora(us)
  BY <1>1 DEF ConHora
<1>. QED BY <1>2, <1>3 DEF PilaBien

\* The alarms put off by an exit.
LEMMA DeHora ==
  ASSUME NEW ts \in Seq(Avisos)
  PROVE  /\ N!DespertarParaLaSalida(ts) \in Seq(Avisos) /\ Len(N!DespertarParaLaSalida(ts)) = Len(ts)
         /\ DOMAIN N!DespertarParaLaSalida(ts) = DOMAIN ts
         /\ \A k \in DOMAIN ts : /\ N!DespertarParaLaSalida(ts)[k].id = ts[k].id /\ N!DespertarParaLaSalida(ts)[k].fase = ts[k].fase
                                 /\ N!DespertarParaLaSalida(ts)[k].hora = TRUE
<1>1. DOMAIN ts = 1..Len(ts) /\ Len(ts) \in Nat /\ \A k \in DOMAIN ts : ts[k] \in Avisos
  OBVIOUS
<1>2. \A a \in Avisos : [a EXCEPT !.hora = TRUE] \in Avisos /\ [a EXCEPT !.hora = TRUE].id = a.id
        /\ [a EXCEPT !.hora = TRUE].fase = a.fase /\ [a EXCEPT !.hora = TRUE].hora = TRUE
  BY DEF Avisos
<1>3. PICK us : us = N!DespertarParaLaSalida(ts)
  OBVIOUS
<1>4. us = [k \in DOMAIN ts |-> [ts[k] EXCEPT !.hora = TRUE]]
  BY <1>3 DEF N!DespertarParaLaSalida
<1>5. \A k \in DOMAIN ts : us[k] \in Avisos /\ us[k].id = ts[k].id /\ us[k].fase = ts[k].fase
        /\ us[k].hora = TRUE
  BY <1>1, <1>2, <1>4
<1>6. us \in Seq(Avisos) /\ Len(us) = Len(ts) /\ DOMAIN us = DOMAIN ts
  BY <1>1, <1>4, <1>5
<1>. QED BY <1>3, <1>5, <1>6

\* Everything is told to leave.
LEMMA DeFueraTodos ==
  ASSUME NEW ts \in Seq(Avisos)
  PROVE  /\ N!TodosFuera(ts) \in Seq(Avisos) /\ Len(N!TodosFuera(ts)) = Len(ts)
         /\ \A k \in DOMAIN ts : /\ N!TodosFuera(ts)[k].id = ts[k].id /\ N!TodosFuera(ts)[k].fase # "quieto"
                                 /\ N!TodosFuera(ts)[k].hora = ts[k].hora
<1>1. DOMAIN ts = 1..Len(ts) /\ Len(ts) \in Nat /\ \A k \in DOMAIN ts : ts[k] \in Avisos
  OBVIOUS
<1>2. \A a \in Avisos : [a EXCEPT !.fase = "saliendo"] \in Avisos /\ [a EXCEPT !.fase = "saliendo"].id = a.id
        /\ [a EXCEPT !.fase = "saliendo"].fase = "saliendo" /\ [a EXCEPT !.fase = "saliendo"].hora = a.hora
  BY DEF Avisos, Fases
<1>. QED BY <1>1, <1>2 DEF N!TodosFuera

\* One is told to leave.
LEMMA DeDescartado ==
  ASSUME NEW ts \in Seq(Avisos), NEW i
  PROVE  /\ N!Descartado(ts, i) \in Seq(Avisos) /\ Len(N!Descartado(ts, i)) = Len(ts)
         /\ \A k \in DOMAIN ts : /\ N!Descartado(ts, i)[k].id = ts[k].id /\ (N!Descartado(ts, i)[k].fase = "quieto" => ts[k].fase = "quieto")
                                 /\ N!Descartado(ts, i)[k].hora = ts[k].hora
<1>1. DOMAIN ts = 1..Len(ts) /\ Len(ts) \in Nat /\ \A k \in DOMAIN ts : ts[k] \in Avisos
  OBVIOUS
<1>2. \A a \in Avisos : [a EXCEPT !.fase = "saliendo"] \in Avisos /\ [a EXCEPT !.fase = "saliendo"].id = a.id
        /\ [a EXCEPT !.fase = "saliendo"].fase = "saliendo" /\ [a EXCEPT !.fase = "saliendo"].hora = a.hora
  BY DEF Avisos, Fases
<1>. QED BY <1>1, <1>2 DEF N!Descartado

-----------------------------------------------------------------------------
\* The invariant says what the property asks.
LEMMA AvisosBasta == AvisosInv => N!ColaFiel /\ N!PilaEnMarcha
<1>. SUFFICES ASSUME AvisosInv PROVE N!ColaFiel /\ N!PilaEnMarcha
  OBVIOUS
<1>1. N!ColaFiel
  BY DEF AvisosInv, ColaBien, CopiaBien, N!ColaFiel, N!IsInjective, Ninguna
<1>2. toasts \in Seq(Avisos) /\ UnoPorId(toasts) /\ Cardinality(EnPie(toasts)) <= Visibles
        /\ (Yendo(toasts) => despierto)
  BY DEF AvisosInv, PilaBien, Montada
<1>3. Len(N!Quietos(toasts)) <= Visibles
  BY <1>2, LargoDePie
<1>4. \A k \in DOMAIN toasts : toasts[k].fase = "saliendo" /\ toasts[k].id # N!Captura => despierto
  BY <1>2 DEF Yendo
<1>. QED BY <1>1, <1>2, <1>3, <1>4 DEF N!PilaEnMarcha, UnoPorId

\* Nothing at the start.
LEMMA AvisosInicial == N!Init => AvisosInv
<1>. SUFFICES ASSUME N!Init PROVE AvisosInv
  OBVIOUS
<1>1. bus = <<>> /\ lista = <<>> /\ toasts = <<>> /\ avisadas = {} /\ despierto = FALSE /\ emergente = Vacio
  BY DEF N!Init
<1>2. ColaBien
  BY <1>1, AvisosAssumption DEF ColaBien, Ninguna, N!ToSet
<1>3. EnPie(toasts) = {} /\ UnoPorId(toasts) /\ ConHora(toasts) /\ ~Yendo(toasts) /\ toasts \in Seq(Avisos)
  BY <1>1 DEF EnPie, UnoPorId, ConHora, Yendo
<1>4. PilaBien
  BY <1>3, FS_EmptySet, AvisosAssumption DEF PilaBien, Montada
<1>5. CopiaBien
  BY <1>1 DEF CopiaBien, N!EsTarjeta
<1>6. bus \in Seq(Mensajes)
  BY <1>1
<1>7. despierto \in BOOLEAN
  BY <1>1, Zenon
<1>. QED BY <1>2, <1>4, <1>5, <1>6, <1>7, Zenon DEF AvisosInv

\* Nothing in sight changes.
LEMMA Igual ==
  ASSUME AvisosInv, bus' \in Seq(Mensajes), UNCHANGED <<lista, toasts, emergente, despierto, avisadas>>
  PROVE  AvisosInv'
BY DEF AvisosInv, ColaBien, CopiaBien, PilaBien, Montada, UnoPorId, EnPie, ConHora, Yendo, N!EsTarjeta,
   Ninguna, N!ToSet

\* The server on the bus, and the silence.
LEMMA ServidorP == ASSUME AvisosInv, N!Notify \/ N!CloseNotification \/ N!NoMolestar PROVE AvisosInv'
<1>0. bus \in Seq(Mensajes)
  BY DEF AvisosInv
<1>1. CASE N!Notify
  <2>1. PICK critica \in BOOLEAN, rep \in Ids \cup {0} :
          /\ rep = 0 => siguiente \in Ids
          /\ bus' = Append(bus, [tipo |-> "nueva", critica |-> critica, id |-> IF rep # 0 THEN rep ELSE siguiente])
    BY <1>1 DEF N!Notify
  <2>2. [tipo |-> "nueva", critica |-> critica, id |-> IF rep # 0 THEN rep ELSE siguiente] \in Mensajes
    BY <2>1 DEF Mensajes
  <2>. QED BY <1>0, <1>1, <2>1, <2>2, Igual DEF N!Notify
<1>2. CASE N!CloseNotification
  BY <1>0, <1>2, Igual DEF N!CloseNotification, Mensajes
<1>3. CASE N!NoMolestar
  BY <1>0, <1>3, Igual DEF N!NoMolestar
<1>. QED BY <1>1, <1>2, <1>3

\* What is kept of a notification.
LEMMA NotificarBien ==
  ASSUME AvisosInv, NEW i \in Todos, N!Notificar(i)
  PROVE  ColaBien' /\ CopiaBien' /\ despierto' = TRUE
<1>1. /\ lista' \in Seq(Todos) /\ Ninguna(lista') /\ Len(lista') <= Maximo
        /\ N!ToSet(lista') \subseteq N!ToSet(lista) \cup {i}
  BY GuardadaBien DEF AvisosInv, ColaBien, N!Notificar
<1>2. ColaBien'
  BY <1>1 DEF AvisosInv, ColaBien, N!Notificar
<1>3. CopiaBien'
  BY SincronizadaBien DEF CopiaBien, N!Notificar
<1>. QED BY <1>2, <1>3 DEF N!Notificar

\* What the bus hands over.
LEMMA LaCabeza ==
  ASSUME AvisosInv, bus # <<>>
  PROVE  Head(bus) \in Mensajes /\ Tail(bus) \in Seq(Mensajes) /\ Head(bus).id \in Todos
<1>1. Head(bus) \in Mensajes /\ Tail(bus) \in Seq(Mensajes)
  BY DEF AvisosInv
<1>. QED BY <1>1 DEF Mensajes, Todos

\* A notification arrives.
LEMMA RecibirNuevaP == ASSUME AvisosInv, N!RecibirNueva PROVE AvisosInv'
<1>1. Head(bus).id \in Todos /\ bus' \in Seq(Mensajes)
  BY LaCabeza DEF N!RecibirNueva
<1>2. ColaBien' /\ CopiaBien' /\ despierto' = TRUE
  BY <1>1, NotificarBien DEF N!RecibirNueva
<1>3. PICK p : p = N!Pila(Head(bus).id, Head(bus).critica)
  OBVIOUS
<1>4. Montada(p, Visibles)
  BY <1>1, <1>3, PilaDeBien DEF AvisosInv, PilaBien
<1>5. toasts' = N!DespertarParaLaSalida(p) /\ p \in Seq(Avisos)
  BY <1>3, <1>4 DEF N!RecibirNueva, Montada
<1>6. Montada(toasts', Visibles) /\ ConHora(toasts')
  <2>1. PICK us : us = N!DespertarParaLaSalida(p)
    OBVIOUS
  <2>2. /\ us \in Seq(Avisos) /\ Len(us) = Len(p) /\ DOMAIN us = DOMAIN p
        /\ \A k \in DOMAIN p : us[k].id = p[k].id /\ us[k].fase = p[k].fase /\ us[k].hora = TRUE
    BY <1>5, <2>1, DeHora
  <2>3. Montada(us, Visibles)
    BY <1>4, <2>2, AvisosAssumption, Mudada
  <2>4. ConHora(us)
    BY <2>2 DEF ConHora
  <2>. QED BY <1>5, <2>1, <2>3, <2>4
<1>7. PilaBien'
  BY <1>2, <1>6 DEF PilaBien
<1>. QED BY <1>1, <1>2, <1>7 DEF AvisosInv

\* The one of a photograph.
LEMMA NotificarCapturaP == ASSUME AvisosInv, N!NotificarCaptura PROVE AvisosInv'
<1>1. ColaBien' /\ CopiaBien' /\ despierto' = TRUE /\ bus' \in Seq(Mensajes)
  BY NotificarBien DEF N!NotificarCaptura, Todos, AvisosInv
<1>2. /\ Montada(toasts', Visibles)
      /\ \A k \in DOMAIN toasts' : toasts'[k].id = N!Captura
           \/ \E j \in DOMAIN toasts : toasts'[k].id = toasts[j].id /\ toasts'[k].hora = toasts[j].hora
  <2>1. N!Captura \in Todos /\ Montada(toasts, Visibles)
    BY DEF AvisosInv, PilaBien, Todos
  <2>2. PICK c : c = FALSE
    OBVIOUS
  <2>3. toasts' = N!Pila(N!Captura, c)
    BY <2>2, Zenon DEF N!NotificarCaptura
  <2>. QED BY <2>1, <2>3, PilaDeBien
<1>3. ConHora(toasts')
  BY <1>2 DEF AvisosInv, PilaBien, ConHora
<1>4. PilaBien'
  BY <1>1, <1>2, <1>3 DEF PilaBien
<1>. QED BY <1>1, <1>4 DEF AvisosInv

\* A notification leaves the queue.
LEMMA RetirarBien ==
  ASSUME AvisosInv, NEW i, NEW e, lista' = N!Sin(lista, i), emergente' = N!Sincronizada(e, lista'),
          avisadas' \subseteq avisadas \cup {i}
  PROVE  ColaBien' /\ CopiaBien'
<1>1. lista' \in Seq(Todos) /\ Ninguna(lista') /\ Len(lista') <= Maximo
        /\ N!ToSet(lista') = N!ToSet(lista) \ {i}
  BY SinBien DEF AvisosInv, ColaBien
<1>2. ColaBien'
  BY <1>1 DEF AvisosInv, ColaBien
<1>. QED BY <1>2, SincronizadaBien DEF CopiaBien

\* An application takes its own back.
LEMMA RecibirCerrarP == ASSUME AvisosInv, N!RecibirCerrar PROVE AvisosInv'
<1>1. bus' \in Seq(Mensajes)
  BY LaCabeza DEF N!RecibirCerrar
<1>2. ColaBien' /\ CopiaBien'
  BY RetirarBien DEF N!RecibirCerrar
<1>3. toasts \in Seq(Avisos) /\ toasts' = N!DespertarParaLaSalida(toasts) /\ despierto' \in BOOLEAN
        /\ (despierto = TRUE => despierto' = TRUE)
  <2>1. despierto \in BOOLEAN /\ toasts \in Seq(Avisos)
    BY Zenon DEF AvisosInv, PilaBien, Montada
  <2>2. despierto' = (despierto \/ lista' # lista)
    BY DEF N!RecibirCerrar
  <2>3. despierto' \in BOOLEAN /\ (despierto = TRUE => despierto' = TRUE)
    BY <2>1, <2>2, Zenon
  <2>. QED BY <2>1, <2>3 DEF N!RecibirCerrar
<1>4. PilaBien'
  <2>1. PICK us : us = N!DespertarParaLaSalida(toasts)
    OBVIOUS
  <2>2. /\ us \in Seq(Avisos) /\ Len(us) = Len(toasts) /\ DOMAIN us = DOMAIN toasts
        /\ \A k \in DOMAIN toasts : us[k].id = toasts[k].id /\ us[k].fase = toasts[k].fase /\ us[k].hora = TRUE
    BY <1>3, <2>1, DeHora
  <2>3. Yendo(us) => despierto' = TRUE
    BY <1>3, <2>2 DEF Yendo, AvisosInv, PilaBien
  <2>. QED BY <1>3, <2>1, <2>2, <2>3, MudadaBien DEF AvisosInv
<1>. QED BY <1>1, <1>2, <1>3, <1>4 DEF AvisosInv

-----------------------------------------------------------------------------
\* The queue and what is open as they were.
LEMMA MismaCola ==
  ASSUME AvisosInv, UNCHANGED <<bus, lista, emergente, avisadas>>
  PROVE  bus' \in Seq(Mensajes) /\ ColaBien' /\ CopiaBien'
BY DEF AvisosInv, ColaBien, CopiaBien, N!EsTarjeta, Ninguna, N!ToSet

\* The alarm of a toast.
LEMMA VenceP == ASSUME AvisosInv, N!Vence PROVE AvisosInv'
<1>1. PICK k \in DOMAIN toasts : /\ toasts[k].fase = "quieto"
        /\ toasts' = [toasts EXCEPT ![k].fase = "saliendo"]
                                 /\ despierto' = (despierto \/ toasts[k].hora)
                                 /\ UNCHANGED <<siguiente, bus, lista, emergente, silencio, avisadas>>
  BY DEF N!Vence
<1>2. toasts \in Seq(Avisos) /\ toasts[k] \in Avisos
  BY DEF AvisosInv, PilaBien, Montada
<1>3. despierto' \in BOOLEAN /\ (despierto = TRUE => despierto' = TRUE)
        /\ (toasts[k].hora = TRUE => despierto' = TRUE)
  <2>1. despierto \in BOOLEAN
    BY Zenon DEF AvisosInv
  <2>2. toasts[k].hora \in BOOLEAN
    BY <1>2 DEF Avisos
  <2>. QED BY <1>1, <2>1, <2>2, Zenon
<1>4. PICK a : a = [toasts[k] EXCEPT !.fase = "saliendo"]
  OBVIOUS
<1>5. a \in Avisos /\ a.id = toasts[k].id /\ a.fase = "saliendo" /\ a.hora = toasts[k].hora
  BY <1>2, <1>4 DEF Avisos, Fases
<1>6. PICK us : us = [toasts EXCEPT ![k] = a]
  OBVIOUS
<1>7. toasts' = us
  BY <1>1, <1>4, <1>6
<1>8. /\ us \in Seq(Avisos) /\ Len(us) = Len(toasts) /\ us[k] = a /\ DOMAIN us = DOMAIN toasts
      /\ \A j \in DOMAIN toasts : j # k => us[j] = toasts[j]
  BY <1>2, <1>5, <1>6
<1>9. Yendo(us) => despierto' = TRUE
  BY <1>1, <1>3, <1>5, <1>8 DEF AvisosInv, PilaBien, Yendo, ConHora
<1>10. PilaBien'
  <2>1. \A j \in DOMAIN toasts : /\ us[j].id = toasts[j].id
          /\ (us[j].fase = "quieto" => toasts[j].fase = "quieto")
                                  /\ (toasts[j].hora = TRUE => us[j].hora = TRUE)
    <3>. TAKE j \in DOMAIN toasts
    <3>1. CASE j = k
      BY <1>5, <1>8, <3>1
    <3>2. CASE j # k
      BY <1>8, <3>2
    <3>. QED BY <3>1, <3>2
  <2>. QED BY <1>7, <1>8, <1>9, <2>1, MudadaBien DEF AvisosInv
<1>. QED BY <1>1, <1>3, <1>10, MismaCola DEF AvisosInv

\* A toast that has left.
LEMMA AcabaP == ASSUME AvisosInv, N!Acaba PROVE AvisosInv'
<1>1. PICK k \in DOMAIN toasts : /\ toasts[k].fase = "saliendo" /\ toasts' = [toasts EXCEPT ![k].fase = "ido"]
                                 /\ UNCHANGED <<siguiente, bus, lista, emergente, silencio, despierto, avisadas>>
  BY DEF N!Acaba
<1>2. toasts \in Seq(Avisos) /\ toasts[k] \in Avisos
  BY DEF AvisosInv, PilaBien, Montada
<1>4. PICK a : a = [toasts[k] EXCEPT !.fase = "ido"]
  OBVIOUS
<1>5. a \in Avisos /\ a.id = toasts[k].id /\ a.fase = "ido" /\ a.hora = toasts[k].hora
  BY <1>2, <1>4 DEF Avisos, Fases
<1>6. PICK us : us = [toasts EXCEPT ![k] = a]
  OBVIOUS
<1>7. toasts' = us
  BY <1>1, <1>4, <1>6
<1>8. /\ us \in Seq(Avisos) /\ Len(us) = Len(toasts) /\ us[k] = a /\ DOMAIN us = DOMAIN toasts
      /\ \A j \in DOMAIN toasts : j # k => us[j] = toasts[j]
  BY <1>2, <1>5, <1>6
<1>9. Yendo(us) => despierto' = TRUE
  BY <1>1, <1>5, <1>8 DEF AvisosInv, PilaBien, Yendo
<1>10. PilaBien'
  <2>1. \A j \in DOMAIN toasts : /\ us[j].id = toasts[j].id
          /\ (us[j].fase = "quieto" => toasts[j].fase = "quieto")
                                  /\ (toasts[j].hora = TRUE => us[j].hora = TRUE)
    <3>. TAKE j \in DOMAIN toasts
    <3>1. CASE j = k
      BY <1>5, <1>8, <3>1
    <3>2. CASE j # k
      BY <1>8, <3>2
    <3>. QED BY <3>1, <3>2
  <2>. QED BY <1>7, <1>8, <1>9, <2>1, MudadaBien DEF AvisosInv
<1>. QED BY <1>1, <1>10, MismaCola DEF AvisosInv

\* A frame clears those that are gone.
LEMMA FrameP == ASSUME AvisosInv, N!Frame PROVE AvisosInv'
<1>. DEFINE T == {t \in N!ToSet(toasts) : t.fase # "ido"}
<1>1. toasts \in Seq(Avisos) /\ UnoPorId(toasts) /\ ConHora(toasts) /\ Montada(toasts, Visibles)
  BY DEF AvisosInv, PilaBien, Montada
<1>2. Ninguna(toasts)
  BY <1>1 DEF Ninguna, UnoPorId
<1>3. toasts' \in Seq(Avisos) /\ Ninguna(toasts') /\ N!ToSet(toasts') = N!ToSet(toasts) \cap T
  BY <1>1, <1>2, Filtra DEF N!Frame
<1>4. \A k \in DOMAIN toasts' : \E j \in DOMAIN toasts : toasts'[k] = toasts[j]
  BY <1>3 DEF N!ToSet
<1>5. UnoPorId(toasts') /\ ConHora(toasts') /\ EnPie(toasts') \subseteq EnPie(toasts)
  <2>1. UnoPorId(toasts')
    <3>. SUFFICES ASSUME NEW j \in DOMAIN toasts', NEW k \in DOMAIN toasts',
            toasts'[j].id = toasts'[k].id PROVE j = k
      BY DEF UnoPorId
    <3>1. PICK a \in DOMAIN toasts : toasts[a] = toasts'[j]
      BY <1>4
    <3>2. PICK b \in DOMAIN toasts : toasts[b] = toasts'[k]
      BY <1>4
    <3>3. a = b
      BY <1>1, <3>1, <3>2 DEF UnoPorId
    <3>. QED BY <1>3, <3>1, <3>2, <3>3 DEF Ninguna
  <2>2. ConHora(toasts')
    BY <1>1, <1>4 DEF ConHora
  <2>3. EnPie(toasts') \subseteq EnPie(toasts)
    BY <1>4 DEF EnPie
  <2>. QED BY <2>1, <2>2, <2>3
<1>6. Montada(toasts', Visibles)
  <2>1. IsFiniteSet(EnPie(toasts)) /\ Cardinality(EnPie(toasts)) \in Nat
          /\ Cardinality(EnPie(toasts)) <= Visibles
    BY <1>1, PieFinito DEF Montada
  <2>2. IsFiniteSet(EnPie(toasts')) /\ Cardinality(EnPie(toasts')) \in Nat
          /\ Cardinality(EnPie(toasts')) <= Cardinality(EnPie(toasts))
    BY <1>3, <1>5, <2>1, FS_Subset, PieFinito
  <2>3. Cardinality(EnPie(toasts')) <= Visibles
    BY <2>1, <2>2, AvisosAssumption
  <2>. QED BY <1>3, <1>5, <2>2, <2>3 DEF Montada
<1>7. despierto' = (\E k \in DOMAIN toasts' : toasts'[k].fase = "saliendo")
  BY DEF N!Frame
<1>8. Yendo(toasts') => despierto' = TRUE
  BY <1>7 DEF Yendo
<1>9. despierto' \in BOOLEAN
  BY <1>7
<1>10. PilaBien'
  BY <1>5, <1>6, <1>8 DEF PilaBien
<1>. QED BY <1>9, <1>10, MismaCola DEF AvisosInv, N!Frame

\* The same toasts and the loop awake.
LEMMA MismaPila == ASSUME AvisosInv, UNCHANGED toasts, despierto' = TRUE PROVE PilaBien'
BY DEF AvisosInv, PilaBien, Montada, UnoPorId, EnPie, ConHora, Yendo

\* All of them leave, with the loop awake.
LEMMA FueraBien == ASSUME AvisosInv, toasts' = N!TodosFuera(toasts), despierto' = TRUE PROVE PilaBien'
<1>1. toasts \in Seq(Avisos)
  BY DEF AvisosInv, PilaBien, Montada
<1>2. PICK us : us = N!TodosFuera(toasts)
  OBVIOUS
<1>3. /\ us \in Seq(Avisos) /\ Len(us) = Len(toasts)
      /\ \A k \in DOMAIN toasts : us[k].id = toasts[k].id /\ us[k].fase # "quieto" /\ us[k].hora = toasts[k].hora
  BY <1>1, <1>2, DeFueraTodos
<1>. QED BY <1>2, <1>3, MudadaBien DEF AvisosInv

\* One leaves, with the loop awake.
LEMMA DescartadoBien ==
  ASSUME AvisosInv, NEW i, toasts' = N!Descartado(toasts, i), despierto' = TRUE
  PROVE  PilaBien'
<1>1. toasts \in Seq(Avisos)
  BY DEF AvisosInv, PilaBien, Montada
<1>2. PICK us : us = N!Descartado(toasts, i)
  OBVIOUS
<1>3. /\ us \in Seq(Avisos) /\ Len(us) = Len(toasts)
      /\ \A k \in DOMAIN toasts : us[k].id = toasts[k].id /\ (us[k].fase = "quieto" => toasts[k].fase = "quieto") /\ us[k].hora = toasts[k].hora
  BY <1>1, <1>2, DeDescartado
<1>. QED BY <1>2, <1>3, MudadaBien DEF AvisosInv

\* What is open changes, and the queue does not.
LEMMA EmergenteP ==
  ASSUME AvisosInv, N!AbrirTarjeta \/ N!AbrirOtra \/ N!CerrarEmergente \/ N!Flecha \/ N!Reloj
  PROVE  AvisosInv'
<1>1. ColaBien' /\ bus' \in Seq(Mensajes) /\ despierto' = TRUE /\ UNCHANGED lista
  BY DEF AvisosInv, ColaBien, Ninguna, N!ToSet, N!AbrirTarjeta, N!AbrirOtra, N!CerrarEmergente, N!Flecha,
     N!Reloj, N!Abrir
<1>2. CopiaBien'
  <2>1. CASE N!AbrirTarjeta
    BY <2>1 DEF CopiaBien, N!AbrirTarjeta, N!Abrir, N!Tarjeta
  <2>2. CASE N!AbrirOtra
    BY <2>2 DEF CopiaBien, N!AbrirOtra, N!Abrir, N!EsTarjeta, N!Otra
  <2>3. CASE N!CerrarEmergente
    BY <2>3 DEF CopiaBien, N!CerrarEmergente, N!EsTarjeta
  <2>4. CASE N!Flecha
    BY <2>4 DEF AvisosInv, CopiaBien, N!Flecha, N!Tarjeta
  <2>5. CASE N!Reloj
    BY <2>5 DEF AvisosInv, CopiaBien, N!Reloj, N!EsTarjeta
  <2>. QED BY <2>1, <2>2, <2>3, <2>4, <2>5
<1>3. PilaBien'
  BY MismaPila, FueraBien DEF N!AbrirTarjeta, N!AbrirOtra, N!CerrarEmergente, N!Flecha, N!Reloj, N!Abrir
<1>. QED BY <1>1, <1>2, <1>3 DEF AvisosInv

\* The buttons of the toast in front.
LEMMA BotonP == ASSUME AvisosInv, N!PulsarCuerpo \/ N!PulsarAccion \/ N!PulsarResponder PROVE AvisosInv'
<1>0. despierto' = TRUE /\ bus' \in Seq(Mensajes)
  BY DEF AvisosInv, N!PulsarCuerpo, N!PulsarAccion, N!PulsarResponder, N!Abrir
<1>1. CASE N!PulsarCuerpo
  BY <1>0, <1>1, DescartadoBien, MismaCola DEF N!PulsarCuerpo, AvisosInv
<1>2. CASE N!PulsarAccion
  <2>1. ColaBien' /\ CopiaBien'
    BY <1>2, RetirarBien DEF N!PulsarAccion, N!Retirar
  <2>. QED BY <1>0, <1>2, <2>1, DescartadoBien DEF N!PulsarAccion, AvisosInv
<1>3. CASE N!PulsarResponder
  <2>1. ColaBien'
    BY <1>3 DEF N!PulsarResponder, AvisosInv, ColaBien, Ninguna, N!ToSet
  <2>2. CopiaBien'
    BY <1>3 DEF N!PulsarResponder, N!Abrir, AvisosInv, CopiaBien, N!EsTarjeta, N!Caja
  <2>3. PilaBien'
    BY <1>3, FueraBien, DescartadoBien DEF N!PulsarResponder, N!Abrir
  <2>. QED BY <1>0, <2>1, <2>2, <2>3 DEF AvisosInv
<1>. QED BY <1>1, <1>2, <1>3

\* The box of a reply and the rows of the card.
LEMMA FilaP == ASSUME AvisosInv, N!EnviarRespuesta \/ N!IntroEnFila \/ N!PulsarFila \/ N!Borrar PROVE AvisosInv'
<1>0. despierto' = TRUE /\ bus' \in Seq(Mensajes) /\ UNCHANGED toasts
  BY DEF AvisosInv, N!EnviarRespuesta, N!IntroEnFila, N!PulsarFila, N!Borrar
<1>1. PilaBien'
  BY <1>0, MismaPila
<1>2. CASE N!EnviarRespuesta \/ N!IntroEnFila \/ N!PulsarFila
  <2>1. ColaBien' /\ CopiaBien'
    BY <1>2, RetirarBien DEF N!EnviarRespuesta, N!IntroEnFila, N!PulsarFila, N!Retirar
  <2>. QED BY <1>0, <1>1, <2>1 DEF AvisosInv
<1>3. CASE N!Borrar
  <2>1. ColaBien'
    BY <1>3, AvisosAssumption DEF N!Borrar, ColaBien, Ninguna, N!ToSet
  <2>2. CopiaBien'
    BY <1>3, SincronizadaBien DEF N!Borrar, CopiaBien
  <2>. QED BY <1>0, <1>1, <2>1, <2>2 DEF AvisosInv
<1>. QED BY <1>2, <1>3

\* A step of somebody else.
LEMMA AvisosQuietos == ASSUME AvisosInv, UNCHANGED N!vars PROVE AvisosInv'
BY Igual DEF N!vars, AvisosInv

\* Every step keeps it.
LEMMA AvisosPaso == ASSUME AvisosInv, [N!Next]_(N!vars) PROVE AvisosInv'
BY ServidorP, RecibirNuevaP, RecibirCerrarP, NotificarCapturaP, VenceP, AcabaP, FrameP, EmergenteP, BotonP,
   FilaP, AvisosQuietos DEF N!Next

\* What is pushed off the end.
LEMMA GuardadaCuenta ==
  ASSUME NEW l \in Seq(Todos), Len(l) <= Maximo, NEW i \in Todos, NEW k \in DOMAIN l,
          l[k] \notin N!ToSet(N!Guardada(l, i))
  PROVE  k = Len(l) /\ Len(l) = Maximo /\ Len(N!Guardada(l, i)) = Maximo
<1>1. i \notin N!ToSet(l)
  BY DEF N!Guardada, N!ToSet
<1>. DEFINE s == <<i>> \o l
            m == N!Menor(Len(l) + 1, Maximo)
            g == SubSeq(s, 1, m)
<1>2. /\ s \in Seq(Todos) /\ Len(s) = Len(l) + 1 /\ Len(l) \in Nat /\ DOMAIN l = 1..Len(l)
      /\ \A j \in 1..Len(l) : s[j + 1] = l[j]
  BY Delante
<1>3. m \in 0..Len(s) /\ m = IF Len(l) + 1 < Maximo THEN Len(l) + 1 ELSE Maximo
  BY <1>2, AvisosAssumption DEF N!Menor
<1>4. g = N!Guardada(l, i)
  BY <1>1 DEF N!Guardada
<1>. HIDE DEF s, m
<1>5. Len(g) = m /\ DOMAIN g = 1..m /\ \A j \in 1..m : g[j] = s[j]
  BY <1>2, <1>3, Primeros
<1>. HIDE DEF g
<1>6. ASSUME k + 1 <= m PROVE FALSE
  <2>1. k + 1 \in 1..m
    BY <1>2, <1>3, <1>6
  <2>2. g[k + 1] = l[k]
    BY <1>2, <1>5, <2>1
  <2>. QED BY <1>4, <1>5, <2>1, <2>2 DEF N!ToSet
<1>7. k \in Nat /\ k <= Len(l) /\ m \in Nat /\ k + 1 > m
  BY <1>2, <1>3, <1>6
<1>8. k = Len(l) /\ Len(l) = Maximo /\ m = Maximo
  <2>1. Len(l) \in Nat /\ Maximo \in Nat
    BY <1>2, AvisosAssumption
  <2>. QED BY <1>3, <1>7, <2>1
<1>. QED BY <1>4, <1>5, <1>8

\* Nobody leaves the queue without its application being told, or pushed off the end by another.
LEMMA PasoDeAvisos == ASSUME AvisosInv, N!Next \/ UNCHANGED N!vars PROVE N!PasoContado
<1>0. lista \in Seq(Todos) /\ Ninguna(lista) /\ Len(lista) <= Maximo
  BY DEF AvisosInv, ColaBien
<1>1. CASE lista' = lista
  BY <1>1 DEF N!PasoContado, N!ToSet
<1>2. ASSUME NEW i \in Todos, N!Notificar(i) PROVE N!PasoContado
  BY <1>0, <1>2, GuardadaCuenta DEF N!Notificar, N!PasoContado
<1>3. ASSUME NEW i, lista' = N!Sin(lista, i), i \in N!ToSet(lista) => i \in avisadas' PROVE N!PasoContado
  <2>1. N!ToSet(lista') = N!ToSet(lista) \ {i}
    BY <1>0, <1>3, SinBien
  <2>2. \A k \in DOMAIN lista : lista[k] \in N!ToSet(lista)
    BY DEF N!ToSet
  <2>. QED BY <1>3, <2>1, <2>2 DEF N!PasoContado
<1>4. ASSUME NEW i, NEW e, N!Retirar(i, e) PROVE N!PasoContado
  BY <1>3, <1>4 DEF N!Retirar
<1>5. CASE N!RecibirNueva
  BY <1>2, <1>5, LaCabeza DEF N!RecibirNueva
<1>6. CASE N!RecibirCerrar
  BY <1>3, <1>6 DEF N!RecibirCerrar
<1>7. CASE N!NotificarCaptura
  BY <1>2, <1>7 DEF N!NotificarCaptura, Todos
<1>8. CASE N!PulsarAccion \/ N!EnviarRespuesta \/ N!IntroEnFila \/ N!PulsarFila
  BY <1>4, <1>8 DEF N!PulsarAccion, N!EnviarRespuesta, N!IntroEnFila, N!PulsarFila
<1>9. CASE N!Borrar
  BY <1>9 DEF N!Borrar, N!PasoContado, N!ToSet
<1>10. CASE N!Notify \/ N!CloseNotification \/ N!Vence \/ N!Acaba \/ N!Frame \/ N!Reloj \/ N!AbrirTarjeta \/ N!AbrirOtra \/ N!CerrarEmergente
            \/ N!NoMolestar \/ N!PulsarCuerpo \/ N!PulsarResponder \/ N!Flecha \/ UNCHANGED N!vars
  BY <1>1, <1>10 DEF N!Notify, N!CloseNotification, N!Vence, N!Acaba, N!Frame, N!Reloj, N!AbrirTarjeta,
     N!AbrirOtra, N!CerrarEmergente,
       N!NoMolestar, N!PulsarCuerpo, N!PulsarResponder, N!Flecha, N!vars
<1>. QED BY <1>5, <1>6, <1>7, <1>8, <1>9, <1>10 DEF N!Next

-----------------------------------------------------------------------------
(* The capture.                                                            *)

\* A screen, a bar whose cells fit in it and a pill that fits on the screen.
ASSUME CapturaAssumption ==
  /\ AnchoCaptura \in Nat \ {0} /\ AltoCaptura \in Nat \ {0} /\ MINIMO \in Nat \ {0} /\ AGARRE \in Nat
  /\ CELDA_W \in Nat /\ CELDA_H \in Nat /\ CELDA_HUECO \in Nat /\ DIVISOR_HUECO \in Nat
  /\ BARRA_PADDING \in Nat /\ BARRA_ALTO \in Nat /\ BARRA_MARGEN \in Nat /\ BARRA_PADDING + CELDA_H <= BARRA_ALTO
  /\ PASTILLA_ANCHO \in 0..AnchoCaptura /\ PASTILLA_ALTO \in 0..AltoCaptura /\ PASTILLA_HUECO \in Nat
  /\ PuntosCaptura \subseteq Int \X Int
  /\ UNIDAD \in Nat \ {0} /\ EscN \in Nat \ {0} /\ EscD \in Nat \ {0}
  /\ PulsosCaptura \in Nat /\ MaxFotos \in Nat /\ Volteada \in BOOLEAN

\* Logical pixels, and a whole number of physical ones to each.
EscalaEntera == UNIDAD = 1 /\ \E k \in Nat \ {0} : EscN = k * EscD

Rects == [clase : {"rect"}, x : Nat, y : Nat, w : Nat, h : Nat]
EnPantalla(r) == r \in Rects /\ Sn!Cabe(r)
Marcable(r) == r = Sn!Nada \/ (EnPantalla(r) /\ Sn!Vale(r))
Lienzo == (0..AnchoCaptura) \X (0..AltoCaptura)
Lados == {"inicio", "fin", "ninguno"}
Arrastres == [clase : {"nuevo"}, desde : Lienzo, hasta : Lienzo]
             \cup [clase : {"ajuste"}, antes : {r \in Rects : Sn!Cabe(r) /\ Sn!Vale(r)}, agarre : Lados \X Lados,
                   desde : Lienzo, hasta : Lienzo]
TiposCaptura == /\ abierta \in BOOLEAN /\ modoSn \in {"pantalla", "seleccion"}
                /\ senalada \in 0..Sn!Celdas /\ punteroSn \in PuntosCaptura
Marcas == Marcable(hecho) /\ (arrastreSn = Sn!Nada \/ arrastreSn \in Arrastres)
CursorAlDia == abierta => cursor = Sn!Forma(punteroSn, modoSn, arrastreSn, hecho)
PedidaBien ==
  pedida # Sn!Nada => /\ EnPantalla(pedida.visto) /\ pedida.visto.w >= 1 /\ pedida.visto.h >= 1
                      /\ pedida.x = pedida.visto.x \div UNIDAD /\ pedida.y = pedida.visto.y \div UNIDAD
                      /\ pedida.ancho = pedida.visto.w \div UNIDAD /\ pedida.alto = pedida.visto.h \div UNIDAD
CuentasCaptura == /\ fotos \in 0..MaxFotos /\ pulsosSn \in 0..PulsosCaptura /\ guardadas \in Nat
                  /\ guardadas <= fotos /\ (pedida # Sn!Nada => guardadas < fotos)
CapturaInv == TiposCaptura /\ Marcas /\ Sn!PintadoAlDia /\ CursorAlDia /\ PedidaBien /\ CuentasCaptura /\ Sn!FotoDeLoMarcado

\* The rectangle between two points of the screen.
LEMMA EntreBien == ASSUME NEW a \in Lienzo, NEW b \in Lienzo PROVE EnPantalla(Sn!Entre(a, b))
<1>1. a[1] \in 0..AnchoCaptura /\ a[2] \in 0..AltoCaptura /\ b[1] \in 0..AnchoCaptura /\ b[2] \in 0..AltoCaptura
  BY DEF Lienzo
<1>2. Sn!Entre(a, b) = [clase |-> "rect", x |-> Sn!Menor(a[1], b[1]), y |-> Sn!Menor(a[2], b[2]),
                     w |-> Sn!Valor(b[1] - a[1]), h |-> Sn!Valor(b[2] - a[2])]
  BY DEF Sn!Entre, Sn!Rect
<1>3. \A m \in Nat : \A u, v \in 0..m : Sn!Menor(u, v) \in Nat /\ Sn!Valor(v - u) \in Nat
        /\ Sn!Menor(u, v) + Sn!Valor(v - u) <= m
  BY DEF Sn!Menor, Sn!Valor
<1>4. Sn!Menor(a[1], b[1]) \in Nat /\ Sn!Valor(b[1] - a[1]) \in Nat
        /\ Sn!Menor(a[1], b[1]) + Sn!Valor(b[1] - a[1]) <= AnchoCaptura
  BY <1>1, <1>3, CapturaAssumption
<1>5. Sn!Menor(a[2], b[2]) \in Nat /\ Sn!Valor(b[2] - a[2]) \in Nat
        /\ Sn!Menor(a[2], b[2]) + Sn!Valor(b[2] - a[2]) <= AltoCaptura
  BY <1>1, <1>3, CapturaAssumption
<1>. QED BY <1>2, <1>4, <1>5 DEF EnPantalla, Rects, Sn!Cabe

\* An edge that is pulled stays within the screen.
LEMMA TiraBien ==
  ASSUME NEW lado, NEW m \in Nat, NEW i \in 0..m, NEW f \in 0..m, NEW d \in Int
  PROVE  Sn!Tira(lado, i, f, d, m)[1] \in 0..m /\ Sn!Tira(lado, i, f, d, m)[2] \in 0..m
BY DEF Sn!Tira, Sn!Acotado, Sn!Mayor, Sn!Menor

\* A rectangle of the screen that is moved or resized is one of the screen.
LEMMA AjustadoBien ==
  ASSUME NEW r, EnPantalla(r), NEW g, NEW d1 \in Int, NEW d2 \in Int
  PROVE  EnPantalla(Sn!Ajustado(r, g, <<d1, d2>>))
<1>1. r \in Rects /\ r.x \in Nat /\ r.y \in Nat /\ r.w \in Nat /\ r.h \in Nat
      /\ r.x + r.w <= AnchoCaptura /\ r.y + r.h <= AltoCaptura /\ r.clase = "rect"
  BY DEF EnPantalla, Sn!Cabe, Rects
<1>2. CASE g = Sn!Mover
  <2>1. PICK x, y : x = Sn!Acotado(r.x + d1, Sn!Mayor(0, AnchoCaptura - r.w))
          /\ y = Sn!Acotado(r.y + d2, Sn!Mayor(0, AltoCaptura - r.h))
    OBVIOUS
  <2>2. x \in Nat /\ y \in Nat /\ x + r.w <= AnchoCaptura /\ y + r.h <= AltoCaptura
    BY <1>1, <2>1, CapturaAssumption DEF Sn!Acotado, Sn!Mayor, Sn!Menor
  <2>3. Sn!Ajustado(r, g, <<d1, d2>>) = [r EXCEPT !.x = x, !.y = y]
    BY <1>2, <2>1 DEF Sn!Ajustado
  <2>4. PICK s : s = [r EXCEPT !.x = x]
    OBVIOUS
  <2>5. s \in Rects /\ s.x = x /\ s.y = r.y /\ s.w = r.w /\ s.h = r.h
    BY <1>1, <2>2, <2>4 DEF Rects
  <2>6. PICK t : t = [s EXCEPT !.y = y]
    OBVIOUS
  <2>7. t \in Rects /\ t.x = x /\ t.y = y /\ t.w = r.w /\ t.h = r.h
    BY <2>2, <2>5, <2>6 DEF Rects
  <2>8. [r EXCEPT !.x = x, !.y = y] = t
    BY <2>4, <2>6
  <2>9. Sn!Ajustado(r, g, <<d1, d2>>) = t
    BY <2>3, <2>8
  <2>. QED BY <2>2, <2>7, <2>9 DEF EnPantalla, Sn!Cabe
<1>3. CASE g # Sn!Mover
  <2>1. PICK ex, ey : /\ ex = Sn!Tira(g[1], r.x, r.x + r.w, d1, AnchoCaptura)
          /\ ey = Sn!Tira(g[2], r.y, r.y + r.h, d2, AltoCaptura)
    OBVIOUS
  <2>2. r.x \in 0..AnchoCaptura /\ r.x + r.w \in 0..AnchoCaptura /\ r.y \in 0..AltoCaptura
          /\ r.y + r.h \in 0..AltoCaptura /\ AnchoCaptura \in Nat /\ AltoCaptura \in Nat
    BY <1>1, CapturaAssumption
  <2>3. ex[1] \in 0..AnchoCaptura /\ ex[2] \in 0..AnchoCaptura /\ ey[1] \in 0..AltoCaptura
          /\ ey[2] \in 0..AltoCaptura
    BY <2>1, <2>2, TiraBien
  <2>4. <<ex[1], ey[1]>> \in Lienzo /\ <<ex[2], ey[2]>> \in Lienzo
    BY <2>3 DEF Lienzo
  <2>5. Sn!Ajustado(r, g, <<d1, d2>>) = Sn!Entre(<<ex[1], ey[1]>>, <<ex[2], ey[2]>>)
    BY <1>3, <2>1 DEF Sn!Ajustado
  <2>. QED BY <2>4, <2>5, EntreBien
<1>. QED BY <1>2, <1>3

\* What a drag marks, and what is kept of it.
LEMMA MarcadoBien ==
  ASSUME NEW a, NEW h, Marcable(h), a = Sn!Nada \/ a \in Arrastres
  PROVE  Marcable(Sn!SiVale(Sn!MarcandoCon(a, h)))
<1>1. CASE a = Sn!Nada
  <2>1. Sn!MarcandoCon(a, h) = h
    BY <1>1 DEF Sn!MarcandoCon, Sn!Nada
  <2>. QED BY <2>1 DEF Sn!SiVale, Marcable
<1>2. CASE a \in Arrastres /\ a.clase = "nuevo"
  <2>1. a.desde \in Lienzo /\ a.hasta \in Lienzo
    BY <1>2 DEF Arrastres
  <2>2. Sn!MarcandoCon(a, h) = Sn!Entre(a.desde, a.hasta)
    BY <1>2 DEF Sn!MarcandoCon
  <2>3. EnPantalla(Sn!MarcandoCon(a, h))
    BY <2>1, <2>2, EntreBien
  <2>. QED BY <2>3 DEF Sn!SiVale, Marcable
<1>3. CASE a \in Arrastres /\ a.clase = "ajuste"
  <2>1. a.desde \in Lienzo /\ a.hasta \in Lienzo /\ a.antes \in Rects /\ Sn!Cabe(a.antes)
    BY <1>3 DEF Arrastres
  <2>2. PICK d1, d2 : d1 = a.hasta[1] - a.desde[1] /\ d2 = a.hasta[2] - a.desde[2]
    OBVIOUS
  <2>3. d1 \in Int /\ d2 \in Int
    BY <2>1, <2>2, CapturaAssumption DEF Lienzo
  <2>4. Sn!MarcandoCon(a, h) = Sn!Ajustado(a.antes, a.agarre, <<d1, d2>>)
    BY <1>3, <2>2 DEF Sn!MarcandoCon
  <2>5. EnPantalla(Sn!MarcandoCon(a, h))
    BY <2>1, <2>3, <2>4, AjustadoBien DEF EnPantalla
  <2>. QED BY <2>5 DEF Sn!SiVale, Marcable
<1>. QED BY <1>1, <1>2, <1>3 DEF Arrastres

\* What is framed is nothing or a piece of the screen.
LEMMA RecuadroBien ==
  ASSUME NEW m, NEW a, NEW h, Marcable(h), a = Sn!Nada \/ a \in Arrastres
  PROVE  /\ Sn!RecuadroCon(m, a, h) = Sn!Nada \/ EnPantalla(Sn!RecuadroCon(m, a, h))
         /\ Sn!RecuadroCon(m, a, h) # Sn!Nada => Sn!RecuadroCon(m, a, h).w >= 1 /\ Sn!RecuadroCon(m, a, h).h >= 1
<1>1. CASE m = "pantalla"
  <2>1. Sn!RecuadroCon(m, a, h) = [clase |-> "rect", x |-> 0, y |-> 0, w |-> AnchoCaptura, h |-> AltoCaptura]
    BY <1>1 DEF Sn!RecuadroCon, Sn!Rect
  <2>. QED BY <2>1, CapturaAssumption DEF EnPantalla, Rects, Sn!Cabe
<1>2. CASE m # "pantalla"
  <2>1. Sn!RecuadroCon(m, a, h) = Sn!SiVale(Sn!MarcandoCon(a, h))
    BY <1>2 DEF Sn!RecuadroCon
  <2>2. Marcable(Sn!RecuadroCon(m, a, h))
    BY <2>1, MarcadoBien
  <2>. QED BY <2>2, CapturaAssumption DEF Marcable, EnPantalla, Sn!Vale, Rects
<1>. QED BY <1>1, <1>2

\* The bar of cells, in figures.
LEMMA DeBarra ==
  /\ Sn!Celdas = 4 /\ Sn!XBarra \in Int /\ Sn!YBarra \in Int /\ Sn!AnchoBarra = CELDA_W * 4 + CELDA_HUECO * 3 + DIVISOR_HUECO + BARRA_PADDING * 2
  /\ \A i \in 1..4 : Sn!XCelda(i) = Sn!XBarra + BARRA_PADDING + (i - 1) * (CELDA_W + CELDA_HUECO) + (IF i > 2 THEN DIVISOR_HUECO ELSE 0)
<1>1. Len(Sn!Modos) = 2 /\ Len(Sn!Destinos) = 2
  BY DEF Sn!Modos, Sn!Destinos
<1>2. Sn!Celdas = 4
  BY <1>1 DEF Sn!Celdas
<1>3. Sn!AnchoBarra = CELDA_W * 4 + CELDA_HUECO * 3 + DIVISOR_HUECO + BARRA_PADDING * 2
  BY <1>2, CapturaAssumption DEF Sn!AnchoBarra
<1>4. Sn!AnchoBarra \in Int
  BY <1>3, CapturaAssumption
<1>5. Sn!XBarra \in Int /\ Sn!YBarra \in Int
  BY <1>4, CapturaAssumption DEF Sn!XBarra, Sn!YBarra
<1>. QED BY <1>1, <1>2, <1>3, <1>5 DEF Sn!XCelda

\* Whoever is on a cell is on the bar.
LEMMA CeldaDeBarra ==
  ASSUME NEW p \in PuntosCaptura
  PROVE  Sn!CeldaEn(p) \in 0..Sn!Celdas /\ (Sn!CeldaEn(p) # 0 => Sn!EnLaBarra(p))
<1>. DEFINE bajo == {i \in 1..Sn!Celdas : p[1] >= Sn!XCelda(i) /\ p[1] < Sn!XCelda(i) + CELDA_W}
            e == Sn!CeldaEn(p)
<1>1. p[1] \in Int /\ p[2] \in Int
  BY CapturaAssumption
<1>2. CASE e # 0
  <2>1. bajo # {} /\ p[2] >= Sn!YBarra + BARRA_PADDING /\ p[2] <= Sn!YBarra + BARRA_PADDING + CELDA_H
    BY <1>1, <1>2, DeBarra, CapturaAssumption DEF Sn!CeldaEn
  <2>2. e = CHOOSE i \in bajo : \A j \in bajo : i <= j
    BY <1>1, <1>2, <2>1 DEF Sn!CeldaEn
  <2>3. \E i \in bajo : \A j \in bajo : i <= j
    <3>1. bajo \subseteq 1..4 /\ bajo # {}
      BY <2>1, DeBarra
    <3>. HIDE DEF bajo
    <3>2. CASE 1 \in bajo
      BY <3>1, <3>2
    <3>3. CASE 1 \notin bajo /\ 2 \in bajo
      BY <3>1, <3>3
    <3>4. CASE 1 \notin bajo /\ 2 \notin bajo /\ 3 \in bajo
      BY <3>1, <3>4
    <3>5. CASE bajo \subseteq {4}
      <4>1. 4 \in bajo /\ \A j \in bajo : j = 4
        BY <3>1, <3>5
      <4>. QED BY <4>1
    <3>6. \A i \in 1..4 : i \in {1, 2, 3, 4}
      OBVIOUS
    <3>. QED BY <3>1, <3>2, <3>3, <3>4, <3>5, <3>6
  <2>4. e \in bajo
    <3>. HIDE DEF bajo, e
    <3>. QED BY <2>2, <2>3
  <2>5. e \in 1..4 /\ p[1] >= Sn!XCelda(e) /\ p[1] < Sn!XCelda(e) + CELDA_W
    BY <2>4, DeBarra
  <2>. HIDE DEF e
  <2>6. e = 1 \/ e = 2 \/ e = 3 \/ e = 4
    BY <2>5
  <2>7. Sn!XCelda(e) = Sn!XBarra + BARRA_PADDING + (e - 1) * (CELDA_W + CELDA_HUECO) + (IF e > 2 THEN DIVISOR_HUECO ELSE 0)
    BY <2>5, DeBarra
  <2>8. p[1] >= Sn!XBarra /\ p[1] <= Sn!XBarra + Sn!AnchoBarra
    <3>0. Sn!XBarra \in Int /\ Sn!AnchoBarra = CELDA_W * 4 + CELDA_HUECO * 3 + DIVISOR_HUECO + BARRA_PADDING * 2
      BY DeBarra
    <3>1. CASE e = 1
      <4>1. Sn!XCelda(e) = Sn!XBarra + BARRA_PADDING
        BY <2>7, <3>0, <3>1, CapturaAssumption
      <4>. QED BY <1>1, <2>5, <3>0, <4>1, CapturaAssumption
    <3>2. CASE e = 2
      <4>1. Sn!XCelda(e) = Sn!XBarra + BARRA_PADDING + CELDA_W + CELDA_HUECO
        BY <2>7, <3>0, <3>2, CapturaAssumption
      <4>. QED BY <1>1, <2>5, <3>0, <4>1, CapturaAssumption
    <3>3. CASE e = 3
      <4>1. Sn!XCelda(e) = Sn!XBarra + BARRA_PADDING + CELDA_W * 2 + CELDA_HUECO * 2 + DIVISOR_HUECO
        BY <2>7, <3>0, <3>3, CapturaAssumption
      <4>. QED BY <1>1, <2>5, <3>0, <4>1, CapturaAssumption
    <3>4. CASE e = 4
      <4>1. Sn!XCelda(e) = Sn!XBarra + BARRA_PADDING + CELDA_W * 3 + CELDA_HUECO * 3 + DIVISOR_HUECO
        BY <2>7, <3>0, <3>4, CapturaAssumption
      <4>. QED BY <1>1, <2>5, <3>0, <4>1, CapturaAssumption
    <3>. QED BY <2>6, <3>1, <3>2, <3>3, <3>4
  <2>9. p[2] >= Sn!YBarra /\ p[2] <= Sn!YBarra + BARRA_ALTO
    BY <1>1, <2>1, DeBarra, CapturaAssumption
  <2>. QED BY <2>5, <2>8, <2>9, DeBarra DEF Sn!EnLaBarra, e
<1>3. CASE e = 0
  BY <1>3, DeBarra
<1>. QED BY <1>2, <1>3

\* With a whole scale what is rounded is what is multiplied.
LEMMA Redondeo == ASSUME NEW n \in Nat, NEW d \in Nat \ {0} PROVE (2 * (n * d) + d) \div (2 * d) = n
<1>. DEFINE u == 2 * d
            v == n * d
            q == (2 * v + d) \div u
            m == (2 * v + d) % u
<1>1. u \in Nat \ {0} /\ v \in Nat /\ 2 * v + d \in Nat
  OBVIOUS
<1>2. q \in Int /\ m \in 0..(u - 1) /\ 2 * v + d = u * q + m
  BY <1>1
<1>. HIDE DEF q, m
<1>3. 2 * v = n * u
  OBVIOUS
<1>. HIDE DEF u, v
<1>4. n * u + d = u * q + m
  BY <1>2, <1>3
<1>5. u * q = q * u /\ (n - q) * u = n * u - q * u
  BY <1>1, <1>2
<1>6. (n - q) * u = m - d
  <2>1. n * u \in Int /\ q * u \in Int /\ m \in Int
    BY <1>1, <1>2
  <2>. QED BY <1>4, <1>5, <2>1
<1>7. \A z \in Int : z >= 1 => z * u >= u
  BY <1>1
<1>8. \A z \in Int : z <= -1 => z * u <= -u
  BY <1>1
<1>9. m - d < u /\ m - d > -u
  BY <1>1, <1>2 DEF u
<1>10. n - q \in Int
  BY <1>2
<1>11. ~(n - q >= 1) /\ ~(n - q <= -1)
  BY <1>1, <1>2, <1>6, <1>7, <1>8, <1>9, <1>10
<1>12. n = q
  BY <1>2, <1>10, <1>11
<1>. QED BY <1>12 DEF q, u, v

\* A whole scale multiplies.
LEMMA DeEscala ==
  ASSUME EscalaEntera
  PROVE  UNIDAD = 1 /\ \E k \in Nat \ {0} : \A v \in Nat : /\ Sn!Fisico(v) = v * k
                                                          /\ (2 * v * EscN + EscD * UNIDAD) \div (2 * EscD * UNIDAD) = v * k
<1>1. PICK k \in Nat \ {0} : EscN = k * EscD
  BY DEF EscalaEntera
<1>2. UNIDAD = 1 /\ EscD \in Nat \ {0} /\ EscN \in Nat
  BY CapturaAssumption DEF EscalaEntera
<1>3. ASSUME NEW v \in Nat
      PROVE  Sn!Fisico(v) = v * k /\ (2 * v * EscN + EscD * UNIDAD) \div (2 * EscD * UNIDAD) = v * k
  <2>1. v * k \in Nat
    BY <1>1
  <2>2. 2 * v * EscN = 2 * ((v * k) * EscD)
    BY <1>1, <1>2
  <2>3. (2 * ((v * k) * EscD) + EscD) \div (2 * EscD) = v * k
    BY <1>2, <2>1, Redondeo
  <2>4. EscD * UNIDAD = EscD /\ 2 * EscD * UNIDAD = 2 * EscD
    BY <1>2
  <2>. QED BY <2>2, <2>3, <2>4 DEF Sn!Fisico
<1>. QED BY <1>2, <1>3

\* The rows that are read, in their order, whichever way they lie.
LEMMA FilasEnOrden ==
  ASSUME NEW y0 \in Nat, NEW h \in Nat, Sn!AltoF \in Int
  PROVE  Sn!Volcar([i \in 1..h |-> Sn!FilaEnMemoria(Sn!RegionGl(y0, h) + i - 1)]) = [i \in 1..h |-> y0 + i - 1]
<1>. DEFINE l == [i \in 1..h |-> Sn!FilaEnMemoria(Sn!RegionGl(y0, h) + i - 1)]
<1>1. CASE Volteada
  <2>1. \A i \in 1..h : l[i] = y0 + h - i
    BY <1>1 DEF Sn!FilaEnMemoria, Sn!RegionGl
  <2>2. Len(l) = h
    OBVIOUS
  <2>. HIDE DEF l
  <2>3. Sn!Volcar(l) = [i \in 1..h |-> l[h + 1 - i]]
    BY <1>1, <2>2 DEF Sn!Volcar
  <2>4. \A i \in 1..h : h + 1 - i \in 1..h
    OBVIOUS
  <2>5. \A i \in 1..h : l[h + 1 - i] = y0 + i - 1
    BY <2>1, <2>4
  <2>6. [i \in 1..h |-> l[h + 1 - i]] = [i \in 1..h |-> y0 + i - 1]
    BY <2>5
  <2>. QED BY <2>3, <2>6 DEF l
<1>2. CASE ~Volteada
  <2>1. \A i \in 1..h : Sn!FilaEnMemoria(Sn!RegionGl(y0, h) + i - 1) = y0 + i - 1
    BY <1>2 DEF Sn!FilaEnMemoria, Sn!RegionGl
  <2>. QED BY <1>2, <2>1 DEF Sn!Volcar
<1>. QED BY <1>1, <1>2, CapturaAssumption

\* A piece of the screen, clipped to it.
Recortado(k, m, x, w) == /\ Sn!Menor(m * k, x * k + Sn!Mayor(1, w * k)) = (x + w) * k /\ x * k < (x + w) * k
                         /\ (x + w) * k - x * k \in Nat
\* It is what it says it is.
LEMMA Recorte ==
  ASSUME NEW k \in Nat \ {0}, NEW m \in Nat, NEW x \in Nat, NEW w \in Nat, w >= 1, x + w <= m
  PROVE  Recortado(k, m, x, w)
<1>1. x * k \in Nat /\ w * k \in Nat /\ (x + w) * k = x * k + w * k
  OBVIOUS
<1>2. w * k >= 1
  OBVIOUS
<1>3. (x + w) * k <= m * k
  OBVIOUS
<1>4. m * k \in Nat
  OBVIOUS
<1>. QED BY <1>1, <1>2, <1>3, <1>4 DEF Sn!Menor, Sn!Mayor, Recortado

\* The photograph is what was framed.
LEMMA FotoBien == ASSUME EscalaEntera, CapturaInv, Sn!Servir PROVE Sn!FotoDeLoMarcado'
<1>1. PICK k \in Nat \ {0} : \A v \in Nat : Sn!Fisico(v) = v * k
        /\ (2 * v * EscN + EscD * UNIDAD) \div (2 * EscD * UNIDAD) = v * k
  BY DeEscala
<1>2. PICK r : r = pedida.visto
  OBVIOUS
<1>3. /\ r.x \in Nat /\ r.y \in Nat /\ r.w \in Nat /\ r.h \in Nat /\ r.w >= 1 /\ r.h >= 1
        /\ r.x + r.w <= AnchoCaptura /\ r.y + r.h <= AltoCaptura
      /\ pedida.x = r.x /\ pedida.y = r.y /\ pedida.ancho = r.w /\ pedida.alto = r.h
  <2>1. EnPantalla(r) /\ r.w >= 1 /\ r.h >= 1 /\ pedida.x = r.x \div UNIDAD /\ pedida.y = r.y \div UNIDAD
        /\ pedida.ancho = r.w \div UNIDAD /\ pedida.alto = r.h \div UNIDAD
    BY <1>2 DEF CapturaInv, PedidaBien, Sn!Servir
  <2>2. r.x \in Nat /\ r.y \in Nat /\ r.w \in Nat /\ r.h \in Nat /\ r.x + r.w <= AnchoCaptura
          /\ r.y + r.h <= AltoCaptura
    BY <2>1 DEF EnPantalla, Rects, Sn!Cabe
  <2>3. UNIDAD = 1
    BY DEF EscalaEntera
  <2>4. \A v \in Nat : v \div UNIDAD = v
    BY <2>3
  <2>. QED BY <2>1, <2>2, <2>4
<1>4. AnchoCaptura \in Nat /\ AltoCaptura \in Nat /\ AnchoCaptura \div UNIDAD = AnchoCaptura
        /\ AltoCaptura \div UNIDAD = AltoCaptura
  BY CapturaAssumption DEF EscalaEntera
<1>5. Sn!AnchoF = AnchoCaptura * k /\ Sn!AltoF = AltoCaptura * k /\ Sn!AnchoF \in Nat /\ Sn!AltoF \in Nat
  BY <1>1, <1>4 DEF Sn!AnchoF, Sn!AltoF
<1>. DEFINE x0 == Sn!Fisico(pedida.x)
            y0 == Sn!Fisico(pedida.y)
            x1 == Sn!Menor(Sn!AnchoF, x0 + Sn!Mayor(1, Sn!Fisico(pedida.ancho)))
            y1 == Sn!Menor(Sn!AltoF, y0 + Sn!Mayor(1, Sn!Fisico(pedida.alto)))
            leidas == [i \in 1..(y1 - y0) |-> Sn!FilaEnMemoria(Sn!RegionGl(y0, y1 - y0) + i - 1)]
<1>6. Recortado(k, AnchoCaptura, r.x, r.w) /\ Recortado(k, AltoCaptura, r.y, r.h)
  <2>1. k \in Nat \ {0}
    BY <1>1
  <2>2. r.x \in Nat /\ r.w \in Nat /\ AnchoCaptura \in Nat /\ r.w >= 1 /\ r.x + r.w <= AnchoCaptura
    BY <1>3, <1>4
  <2>3. r.y \in Nat /\ r.h \in Nat /\ AltoCaptura \in Nat /\ r.h >= 1 /\ r.y + r.h <= AltoCaptura
    BY <1>3, <1>4
  <2>. QED BY <2>1, <2>2, <2>3, Recorte
<1>7. x0 = r.x * k /\ y0 = r.y * k /\ x1 = (r.x + r.w) * k /\ y1 = (r.y + r.h) * k
  <2>1. Sn!Fisico(pedida.x) = r.x * k /\ Sn!Fisico(pedida.y) = r.y * k
          /\ Sn!Fisico(pedida.ancho) = r.w * k /\ Sn!Fisico(pedida.alto) = r.h * k
    BY <1>1, <1>3
  <2>3. Sn!Menor(AnchoCaptura * k, r.x * k + Sn!Mayor(1, r.w * k)) = (r.x + r.w) * k
    BY <1>6 DEF Recortado
  <2>4. Sn!Menor(AltoCaptura * k, r.y * k + Sn!Mayor(1, r.h * k)) = (r.y + r.h) * k
    BY <1>6 DEF Recortado
  <2>. QED BY <1>5, <2>1, <2>3, <2>4
<1>8. x0 < x1 /\ y0 < y1 /\ y1 - y0 \in Nat /\ y0 \in Nat
  <2>1. r.x * k < (r.x + r.w) * k /\ r.y * k < (r.y + r.h) * k /\ (r.y + r.h) * k - r.y * k \in Nat
    BY <1>6 DEF Recortado
  <2>2. r.y * k \in Nat
    BY <1>3
  <2>. HIDE DEF x0, x1, y0, y1
  <2>. QED BY <1>7, <2>1, <2>2
<1>9. foto' = [clase |-> "foto", x0 |-> x0, x1 |-> x1, filas |-> Sn!Volcar(leidas), visto |-> pedida.visto]
  BY <1>8 DEF Sn!Servir
<1>. HIDE DEF x0, x1
<1>10. Sn!Volcar(leidas) = [i \in 1..(y1 - y0) |-> y0 + i - 1]
  <2>1. Sn!AltoF \in Int
    BY <1>5
  <2>. HIDE DEF y0, y1
  <2>. QED BY <1>8, <2>1, FilasEnOrden
<1>11. Sn!HuecoDe(r) = [x0 |-> r.x * k, x1 |-> (r.x + r.w) * k, y0 |-> r.y * k, y1 |-> (r.y + r.h) * k]
  <2>1. r.x + r.w \in Nat /\ r.y + r.h \in Nat
    BY <1>3
  <2>. QED BY <1>1, <1>3, <2>1 DEF Sn!HuecoDe
<1>. HIDE DEF y0, y1, leidas
<1>12. foto'.visto = r /\ foto'.x0 = Sn!HuecoDe(r).x0 /\ foto'.x1 = Sn!HuecoDe(r).x1
       /\ foto'.filas = [i \in 1..(Sn!HuecoDe(r).y1 - Sn!HuecoDe(r).y0) |-> Sn!HuecoDe(r).y0 + i - 1]
  BY <1>2, <1>7, <1>9, <1>10, <1>11
<1>. QED BY <1>12 DEF Sn!FotoDeLoMarcado

\* The invariant says what the property asks.
LEMMA CapturaBasta == CapturaInv => Sn!TypeOK /\ Sn!CapturaEnOrden
<1>. SUFFICES ASSUME CapturaInv PROVE Sn!TypeOK /\ Sn!CapturaEnOrden
  OBVIOUS
<1>1. Sn!TypeOK
  <2>1. arrastreSn.clase \in {"nada", "nuevo", "ajuste"}
    BY DEF CapturaInv, Marcas, Arrastres, Sn!Nada
  <2>2. hecho.clase \in {"nada", "rect"}
    BY DEF CapturaInv, Marcas, Marcable, EnPantalla, Rects, Sn!Nada
  <2>3. guardadas \in 0..MaxFotos
    BY CapturaAssumption DEF CapturaInv, CuentasCaptura
  <2>4. abierta \in BOOLEAN
    BY Zenon DEF CapturaInv, TiposCaptura
  <2>. QED BY <2>1, <2>2, <2>3, <2>4 DEF CapturaInv, TiposCaptura, CuentasCaptura, Sn!TypeOK
<1>2. Sn!MarcadoVale
  BY DEF CapturaInv, Marcas, Marcable, EnPantalla, Sn!MarcadoVale
<1>3. Sn!CursorVeraz
  <2>. SUFFICES ASSUME abierta, arrastreSn = Sn!Nada
                PROVE  /\ (cursor = "flecha") = Sn!EnLaBarra(punteroSn)
                       /\ Sn!CeldaEn(punteroSn) # 0 => Sn!EnLaBarra(punteroSn)
                       /\ ~Sn!EnLaBarra(punteroSn) => cursor = Sn!FormaDeAgarre(Sn!AgarreDe(punteroSn, modoSn, hecho))
    BY DEF Sn!CursorVeraz
  <2>1. cursor = Sn!Forma(punteroSn, modoSn, arrastreSn, hecho)
    BY DEF CapturaInv, CursorAlDia
  <2>2. \A g : Sn!FormaDeAgarre(g) # "flecha"
    BY DEF Sn!FormaDeAgarre
  <2>3. Sn!EnLaBarra(punteroSn) => cursor = "flecha"
    BY <2>1 DEF Sn!Forma, Sn!Nada
  <2>4. ~Sn!EnLaBarra(punteroSn) => cursor = Sn!FormaDeAgarre(Sn!AgarreDe(punteroSn, modoSn, hecho))
    BY <2>1 DEF Sn!Forma, Sn!Nada
  <2>5. (cursor = "flecha") <=> Sn!EnLaBarra(punteroSn)
    BY <2>2, <2>3, <2>4
  <2>6. Sn!EnLaBarra(punteroSn) \in BOOLEAN
    BY DEF Sn!EnLaBarra
  <2>7. Sn!CeldaEn(punteroSn) # 0 => Sn!EnLaBarra(punteroSn)
    BY CeldaDeBarra DEF CapturaInv, TiposCaptura
  <2>. QED BY <2>4, <2>5, <2>6, <2>7
<1>4. Sn!PastillaDentro
  <2>. SUFFICES ASSUME Sn!Recuadro # Sn!Nada
                PROVE  /\ Sn!OrigenPastilla(Sn!Recuadro)[1] >= 0 /\ Sn!OrigenPastilla(Sn!Recuadro)[1] + PASTILLA_ANCHO <= AnchoCaptura
                       /\ Sn!OrigenPastilla(Sn!Recuadro)[2] >= 0 /\ Sn!OrigenPastilla(Sn!Recuadro)[2] + PASTILLA_ALTO <= AltoCaptura
    BY DEF Sn!PastillaDentro
  <2>1. PICK r : r = Sn!Recuadro
    OBVIOUS
  <2>2. EnPantalla(r)
    BY <2>1, RecuadroBien DEF Sn!Recuadro, CapturaInv, Marcas
  <2>3. r.x \in Nat /\ r.y \in Nat /\ r.w \in Nat /\ r.h \in Nat /\ r.y + r.h <= AltoCaptura
    BY <2>2 DEF EnPantalla, Rects, Sn!Cabe
  <2>4. PICK q : q = r.x + (r.w - PASTILLA_ANCHO) \div 2
    OBVIOUS
  <2>5. q \in Int
    BY <2>3, <2>4, CapturaAssumption
  <2>6. Sn!OrigenPastilla(r)[1] = Sn!Acotado(q, Sn!Mayor(0, AnchoCaptura - PASTILLA_ANCHO))
    BY <2>4 DEF Sn!OrigenPastilla
  <2>7. Sn!OrigenPastilla(r)[1] >= 0 /\ Sn!OrigenPastilla(r)[1] + PASTILLA_ANCHO <= AnchoCaptura
    BY <2>5, <2>6, CapturaAssumption DEF Sn!Acotado, Sn!Mayor, Sn!Menor
  <2>8. Sn!OrigenPastilla(r)[2] >= 0 /\ Sn!OrigenPastilla(r)[2] + PASTILLA_ALTO <= AltoCaptura
    BY <2>3, CapturaAssumption DEF Sn!OrigenPastilla, Sn!Mayor
  <2>. QED BY <2>1, <2>7, <2>8
<1>. QED BY <1>1, <1>2, <1>3, <1>4 DEF Sn!CapturaEnOrden, CapturaInv

\* No layer at the start.
LEMMA CapturaInicial == Sn!Init => CapturaInv
<1>. SUFFICES ASSUME Sn!Init PROVE CapturaInv
  OBVIOUS
<1>1. abierta = FALSE /\ modoSn = "seleccion" /\ arrastreSn = Sn!Nada /\ hecho = Sn!Nada /\ senalada = 0
        /\ punteroSn \in PuntosCaptura
      /\ pedida = Sn!Nada /\ foto = Sn!Nada /\ guardadas = 0 /\ pulsosSn = 0 /\ fotos = 0
  BY DEF Sn!Init
<1>2. abierta \in BOOLEAN
  BY <1>1, Zenon
<1>3. TiposCaptura
  BY <1>1, <1>2, DeBarra DEF TiposCaptura
<1>. QED BY <1>1, <1>3, CapturaAssumption DEF CapturaInv, Marcas, Marcable, Sn!PintadoAlDia, CursorAlDia,
        PedidaBien, CuentasCaptura, Sn!FotoDeLoMarcado

\* The photograph and its count are left alone.
LEMMA MismaFoto == ASSUME CapturaInv, UNCHANGED <<pedida, foto, Sn!disco, fotos>>, pulsosSn' \in 0..PulsosCaptura
                   PROVE  PedidaBien' /\ CuentasCaptura' /\ Sn!FotoDeLoMarcado'
BY DEF CapturaInv, PedidaBien, CuentasCaptura, Sn!FotoDeLoMarcado, Sn!disco

\* Everything is painted and the cursor is set.
LEMMA TodoPintado == ASSUME Sn!PintarTodo, Sn!CursorDeCaptura PROVE Sn!PintadoAlDia' /\ CursorAlDia'
BY DEF Sn!PintarTodo, Sn!CursorDeCaptura, Sn!PintadoAlDia, CursorAlDia, Sn!Recuadro

\* A layer that is closed.
LEMMA CapaCerrada ==
  ASSUME CapturaInv, Sn!CerrarCapa, UNCHANGED punteroSn
  PROVE  TiposCaptura' /\ Marcas' /\ Sn!PintadoAlDia' /\ CursorAlDia'
<1>1. abierta' \in BOOLEAN
  BY Zenon DEF Sn!CerrarCapa
<1>. QED BY <1>1, DeBarra DEF Sn!CerrarCapa, CapturaInv, TiposCaptura, Marcas, Marcable, Sn!PintadoAlDia,
        CursorAlDia

\* The layer opens.
LEMMA CapaAbierta == ASSUME CapturaInv, Sn!Abrir PROVE CapturaInv'
<1>1. abierta' \in BOOLEAN
  BY Zenon DEF Sn!Abrir
<1>2. TiposCaptura' /\ Marcas'
  BY <1>1, DeBarra DEF Sn!Abrir, CapturaInv, TiposCaptura, Marcas, Marcable
<1>3. Sn!PintadoAlDia' /\ CursorAlDia'
  BY TodoPintado DEF Sn!Abrir
<1>4. PedidaBien' /\ CuentasCaptura' /\ Sn!FotoDeLoMarcado'
  BY CapturaAssumption DEF Sn!Abrir, CapturaInv, PedidaBien, CuentasCaptura, Sn!FotoDeLoMarcado, Sn!disco
<1>. QED BY <1>2, <1>3, <1>4 DEF CapturaInv

\* It closes.
LEMMA CapaSeCierra == ASSUME CapturaInv, Sn!Cerrar PROVE CapturaInv'
<1>1. pulsosSn' \in 0..PulsosCaptura
  BY DEF Sn!Cerrar, CapturaInv, CuentasCaptura, Sn!cuenta
<1>2. PedidaBien' /\ CuentasCaptura' /\ Sn!FotoDeLoMarcado'
  BY <1>1, MismaFoto DEF Sn!Cerrar, Sn!cuenta
<1>. QED BY <1>2, CapaCerrada DEF Sn!Cerrar, CapturaInv

\* The photograph is asked for.
LEMMA PedirBien ==
  ASSUME CapturaInv, NEW r, EnPantalla(r), r.w >= 1, r.h >= 1, NEW d, Sn!Pedir(r, d) PROVE CapturaInv'
<1>1. TiposCaptura' /\ Marcas' /\ Sn!PintadoAlDia' /\ CursorAlDia'
  BY CapaCerrada DEF Sn!Pedir
<1>2. /\ pedida'.visto = r /\ pedida'.x = r.x \div UNIDAD /\ pedida'.y = r.y \div UNIDAD
      /\ pedida'.ancho = r.w \div UNIDAD /\ pedida'.alto = r.h \div UNIDAD
  BY DEF Sn!Pedir
<1>3. PedidaBien'
  BY <1>2 DEF PedidaBien
<1>4. CuentasCaptura'
  BY CapturaAssumption DEF Sn!Pedir, CapturaInv, CuentasCaptura, Sn!disco
<1>5. Sn!FotoDeLoMarcado'
  BY DEF Sn!Pedir, CapturaInv, Sn!FotoDeLoMarcado
<1>. QED BY <1>1, <1>3, <1>4, <1>5 DEF CapturaInv

\* The pointer moves over it.
LEMMA PunteroSnP == ASSUME CapturaInv, NEW p \in PuntosCaptura, Sn!MoverPuntero(p) PROVE CapturaInv'
<1>1. Sn!Dentro(p) \in Lienzo
  BY CapturaAssumption DEF Sn!Dentro, Lienzo, Sn!Acotado, Sn!Mayor, Sn!Menor
<1>2. arrastreSn' = Sn!Nada \/ arrastreSn' \in Arrastres
  <2>1. CASE arrastreSn = Sn!Nada
    BY <2>1 DEF Sn!MoverPuntero
  <2>2. CASE arrastreSn # Sn!Nada /\ arrastreSn \in Arrastres
    <3>1. arrastreSn' = [arrastreSn EXCEPT !.hasta = Sn!Dentro(p)]
      BY <2>2 DEF Sn!MoverPuntero
    <3>2. CASE arrastreSn \in [clase : {"nuevo"}, desde : Lienzo, hasta : Lienzo]
      BY <1>1, <3>1, <3>2 DEF Arrastres
    <3>3. CASE arrastreSn \in [clase : {"ajuste"}, antes : {r \in Rects : Sn!Cabe(r)
            /\ Sn!Vale(r)}, agarre : Lados \X Lados,
                             desde : Lienzo, hasta : Lienzo]
      BY <1>1, <3>1, <3>3 DEF Arrastres
    <3>. QED BY <2>2, <3>2, <3>3 DEF Arrastres
  <2>. QED BY <2>1, <2>2 DEF CapturaInv, Marcas
<1>3. abierta' \in BOOLEAN
  BY Zenon DEF Sn!MoverPuntero, CapturaInv, TiposCaptura
<1>4. TiposCaptura' /\ Marcas'
  BY <1>2, <1>3, CeldaDeBarra DEF Sn!MoverPuntero, CapturaInv, TiposCaptura, Marcas
<1>5. Sn!PintadoAlDia'
  <2>1. pastilla' = Sn!MedidasDe(modoSn', Sn!Recuadro')
    BY DEF Sn!MoverPuntero, CapturaInv, Sn!PintadoAlDia, Sn!Recuadro
  <2>2. ASSUME arrastreSn' = Sn!Nada PROVE barra' = Sn!BarraDe(modoSn', senalada', Sn!Recuadro')
    <3>1. arrastreSn = Sn!Nada
      <4>. SUFFICES ASSUME arrastreSn # Sn!Nada PROVE FALSE
        OBVIOUS
      <4>1. arrastreSn' = [arrastreSn EXCEPT !.hasta = Sn!Dentro(p)] /\ arrastreSn \in Arrastres
        BY DEF Sn!MoverPuntero, CapturaInv, Marcas
      <4>2. arrastreSn'.clase = arrastreSn.clase /\ arrastreSn.clase # "nada"
        BY <4>1 DEF Arrastres
      <4>. QED BY <2>2, <4>2 DEF Sn!Nada
    <3>. QED BY <2>2, <3>1 DEF Sn!MoverPuntero, CapturaInv, Sn!PintadoAlDia, Sn!Recuadro
  <2>. QED BY <2>1, <2>2 DEF Sn!PintadoAlDia
<1>6. CursorAlDia'
  BY DEF Sn!MoverPuntero, Sn!CursorDeCaptura, CursorAlDia
<1>7. PedidaBien' /\ CuentasCaptura' /\ Sn!FotoDeLoMarcado'
  BY MismaFoto DEF Sn!MoverPuntero, Sn!cuenta, CapturaInv, CuentasCaptura
<1>. QED BY <1>4, <1>5, <1>6, <1>7 DEF CapturaInv

\* A cell is pressed.
LEMMA PulsarCeldaP == ASSUME CapturaInv, Sn!PulsarCelda PROVE CapturaInv'
<1>0. abierta \in BOOLEAN /\ punteroSn \in PuntosCaptura
  BY Zenon DEF CapturaInv, TiposCaptura
<1>1. PICK i : i = Sn!CeldaEn(punteroSn)
  OBVIOUS
<1>2. i \in 1..4 /\ Len(Sn!Modos) = 2
  <2>1. Sn!CeldaEn(punteroSn) \in 0..4 /\ Sn!CeldaEn(punteroSn) # 0
    BY <1>0, CeldaDeBarra, DeBarra DEF Sn!PulsarCelda
  <2>. QED BY <1>1, <2>1 DEF Sn!Modos
<1>3. CASE i <= Len(Sn!Modos) /\ modoSn' = Sn!Modos[i]
        /\ UNCHANGED <<abierta, arrastreSn, hecho, senalada, pedida, fotos>> /\ Sn!PintarTodo
           /\ pulsosSn' = pulsosSn + 1 /\ UNCHANGED <<punteroSn, foto, Sn!disco>>
  <2>1. modoSn' \in {"pantalla", "seleccion"}
    BY <1>2, <1>3 DEF Sn!Modos
  <2>2. pulsosSn' \in 0..PulsosCaptura
    BY <1>3, CapturaAssumption DEF Sn!PulsarCelda, CapturaInv, CuentasCaptura
  <2>3. abierta' \in BOOLEAN
    BY <1>0, <1>3, Zenon
  <2>4. TiposCaptura' /\ Marcas'
    BY <1>3, <2>1, <2>3 DEF CapturaInv, TiposCaptura, Marcas
  <2>. QED BY <1>3, <2>2, <2>4, TodoPintado, MismaFoto DEF CapturaInv, Sn!PulsarCelda
<1>4. CASE Sn!Recuadro # Sn!Nada /\ Sn!Pedir(Sn!Recuadro, Sn!Destinos[i - Len(Sn!Modos)])
  <2>1. EnPantalla(Sn!Recuadro) /\ Sn!Recuadro.w >= 1 /\ Sn!Recuadro.h >= 1
    BY <1>4, RecuadroBien DEF Sn!Recuadro, CapturaInv, Marcas
  <2>. QED BY <1>4, <2>1, PedirBien
<1>5. CASE UNCHANGED <<abierta, Sn!capa, punteroSn, Sn!vista, pedida, foto, Sn!disco, Sn!cuenta>>
  <2>1. CursorAlDia'
    BY DEF Sn!PulsarCelda, Sn!CursorDeCaptura, CursorAlDia
  <2>2. TiposCaptura' /\ Marcas'
    BY <1>5 DEF CapturaInv, TiposCaptura, Marcas, Sn!capa
  <2>3. Sn!PintadoAlDia'
    BY <1>5 DEF CapturaInv, Sn!PintadoAlDia, Sn!Recuadro, Sn!capa, Sn!vista
  <2>. QED BY <1>5, <2>1, <2>2, <2>3, MismaFoto DEF CapturaInv, CuentasCaptura, Sn!cuenta
<1>. QED BY <1>1, <1>3, <1>4, <1>5 DEF Sn!PulsarCelda

\* The veil is pressed.
LEMMA PulsarVeloP == ASSUME CapturaInv, Sn!PulsarVelo PROVE CapturaInv'
<1>0. abierta \in BOOLEAN /\ punteroSn \in PuntosCaptura
  BY Zenon DEF CapturaInv, TiposCaptura
<1>1. PICK g : g = Sn!AgarreDe(punteroSn, modoSn, hecho)
  OBVIOUS
<1>2. PICK p : p = Sn!Dentro(punteroSn)
  OBVIOUS
<1>3. p \in Lienzo
  BY <1>0, <1>2, CapturaAssumption DEF Sn!Dentro, Lienzo, Sn!Acotado, Sn!Mayor, Sn!Menor
<1>4. pulsosSn' \in 0..PulsosCaptura
  BY CapturaAssumption DEF Sn!PulsarVelo, CapturaInv, CuentasCaptura
<1>5. TiposCaptura' /\ Marcas'
  <2>1. abierta' \in BOOLEAN
    BY <1>0, Zenon DEF Sn!PulsarVelo
  <2>2. CASE g # Sn!Fuera
    <3>1. arrastreSn' = [clase |-> "ajuste", antes |-> hecho, agarre |-> g, desde |-> p, hasta |-> p]
            /\ UNCHANGED <<modoSn, hecho>>
      BY <1>1, <1>2, <2>2 DEF Sn!PulsarVelo
    <3>2. hecho # Sn!Nada
      BY <1>1, <2>2 DEF Sn!AgarreDe, Sn!AjustableCon
    <3>3. hecho \in {r \in Rects : Sn!Cabe(r) /\ Sn!Vale(r)}
      BY <3>2 DEF CapturaInv, Marcas, Marcable, EnPantalla
    <3>4. g = Sn!AgarreEn(hecho, punteroSn)
      BY <1>1, <2>2 DEF Sn!AgarreDe
    <3>5. g \in Lados \X Lados
      BY <2>2, <3>4 DEF Sn!AgarreEn, Sn!Fuera, Sn!Lado, Lados
    <3>6. arrastreSn' \in Arrastres
      BY <1>3, <3>1, <3>3, <3>5 DEF Arrastres
    <3>. QED BY <2>1, <3>1, <3>6 DEF Sn!PulsarVelo, CapturaInv, TiposCaptura, Marcas
  <2>3. CASE g = Sn!Fuera
    <3>1. modoSn' = "seleccion" /\ arrastreSn' = [clase |-> "nuevo", desde |-> p, hasta |-> p]
            /\ hecho' = Sn!Nada
      BY <1>1, <1>2, <2>3 DEF Sn!PulsarVelo
    <3>2. arrastreSn' \in Arrastres
      BY <1>3, <3>1 DEF Arrastres
    <3>. QED BY <2>1, <3>1, <3>2 DEF Sn!PulsarVelo, CapturaInv, TiposCaptura, Marcas, Marcable
  <2>. QED BY <2>2, <2>3
<1>. QED BY <1>4, <1>5, TodoPintado, MismaFoto DEF Sn!PulsarVelo, CapturaInv

\* The button is let go of.
LEMMA SoltarSnP == ASSUME CapturaInv, Sn!Soltar PROVE CapturaInv'
<1>0. abierta' \in BOOLEAN
  BY Zenon DEF CapturaInv, TiposCaptura, Sn!Soltar
<1>1. PICK n : n = Sn!SiVale(Sn!MarcandoCon(arrastreSn, hecho))
  OBVIOUS
<1>2. Marcable(n)
  BY <1>1, MarcadoBien DEF CapturaInv, Marcas
<1>3. arrastreSn \in Arrastres
  BY DEF Sn!Soltar, CapturaInv, Marcas
<1>4. arrastreSn.clase = "ajuste" => Marcable(arrastreSn.antes)
  BY <1>3 DEF Arrastres, Marcable, EnPantalla
<1>5. Marcable(hecho') /\ arrastreSn' = Sn!Nada
  BY <1>1, <1>2, <1>4 DEF Sn!Soltar
<1>6. TiposCaptura' /\ Marcas'
  BY <1>0, <1>5 DEF Sn!Soltar, CapturaInv, TiposCaptura, Marcas
<1>. QED BY <1>6, TodoPintado, MismaFoto DEF Sn!Soltar, CapturaInv, CuentasCaptura, Sn!cuenta

\* An arrow.
LEMMA FlechaSnP == ASSUME CapturaInv, Sn!Flecha PROVE CapturaInv'
<1>0. abierta' \in BOOLEAN
  BY Zenon DEF CapturaInv, TiposCaptura, Sn!Flecha
<1>1. TiposCaptura' /\ Marcas'
  BY <1>0 DEF Sn!Flecha, CapturaInv, TiposCaptura, Marcas
<1>2. pulsosSn' \in 0..PulsosCaptura
  BY CapturaAssumption DEF Sn!Flecha, CapturaInv, CuentasCaptura
<1>. QED BY <1>1, <1>2, TodoPintado, MismaFoto DEF Sn!Flecha, CapturaInv

\* Intro.
LEMMA IntroSnP == ASSUME CapturaInv, Sn!Intro PROVE CapturaInv'
<1>1. PICK r : r = IF Sn!Recuadro = Sn!Nada THEN Sn!Rect(0, 0, AnchoCaptura, AltoCaptura) ELSE Sn!Recuadro
  OBVIOUS
<1>2. Sn!Pedir(r, "copiar")
  BY <1>1 DEF Sn!Intro
<1>3. EnPantalla(r) /\ r.w >= 1 /\ r.h >= 1
  <2>1. CASE Sn!Recuadro = Sn!Nada
    BY <1>1, <2>1, CapturaAssumption DEF Sn!Rect, EnPantalla, Rects, Sn!Cabe
  <2>2. CASE Sn!Recuadro # Sn!Nada
    BY <1>1, <2>2, RecuadroBien DEF Sn!Recuadro, CapturaInv, Marcas
  <2>. QED BY <2>1, <2>2
<1>. QED BY <1>2, <1>3, PedirBien

\* The photograph is taken.
LEMMA ServirSnP == ASSUME EscalaEntera, CapturaInv, Sn!Servir PROVE CapturaInv'
<1>0. abierta' \in BOOLEAN
  BY Zenon DEF CapturaInv, TiposCaptura, Sn!Servir
<1>1. TiposCaptura' /\ Marcas' /\ Sn!PintadoAlDia' /\ CursorAlDia'
  BY <1>0 DEF CapturaInv, Sn!Servir, TiposCaptura, Marcas, Sn!PintadoAlDia, CursorAlDia, Sn!Recuadro, Sn!capa,
     Sn!vista
<1>2. PedidaBien'
  BY DEF Sn!Servir, PedidaBien
<1>3. guardadas' = guardadas \/ guardadas' = guardadas + 1
  BY DEF Sn!Servir, Sn!GuardarPng
<1>4. CuentasCaptura'
  BY <1>3 DEF CapturaInv, Sn!Servir, CuentasCaptura, Sn!cuenta
<1>. QED BY <1>1, <1>2, <1>4, FotoBien DEF CapturaInv

\* A step of somebody else.
LEMMA CapturaQuieta == ASSUME CapturaInv, Sn!Segundo \/ UNCHANGED Sn!vars PROVE CapturaInv'
<1>0. abierta' \in BOOLEAN
  BY Zenon DEF CapturaInv, TiposCaptura, Sn!Segundo, Sn!vars
<1>1. UNCHANGED <<abierta, Sn!capa, punteroSn, Sn!vista, cursor, pedida, foto, guardadas, Sn!cuenta>>
  BY DEF Sn!Segundo, Sn!vars, Sn!disco
<1>2. TiposCaptura' /\ Marcas' /\ Sn!PintadoAlDia' /\ CursorAlDia'
  BY <1>0, <1>1 DEF CapturaInv, TiposCaptura, Marcas, Sn!PintadoAlDia, CursorAlDia, Sn!Recuadro, Sn!capa,
     Sn!vista
<1>3. PedidaBien' /\ CuentasCaptura' /\ Sn!FotoDeLoMarcado'
  BY <1>1 DEF CapturaInv, PedidaBien, CuentasCaptura, Sn!FotoDeLoMarcado, Sn!cuenta
<1>. QED BY <1>2, <1>3 DEF CapturaInv

\* Every step keeps it.
LEMMA CapturaPaso == ASSUME EscalaEntera, CapturaInv, [Sn!Next]_(Sn!vars) PROVE CapturaInv'
BY CapaAbierta, CapaSeCierra, PunteroSnP, PulsarCeldaP, PulsarVeloP, SoltarSnP, FlechaSnP, IntroSnP, ServirSnP,
   CapturaQuieta DEF Sn!Next, Sn!Pulsar, Sn!Tecla

-----------------------------------------------------------------------------
(* The switcher.                                                           *)

\* Screens no smaller than any the code lays the grid out for.
ASSUME PantallasAssumption == \A p \in Pantallas : p[1] \in Nat /\ p[2] \in Nat /\ p[1] >= 560 /\ p[2] >= 388

\* The windows are finitely many, and no window is nobody.
ASSUME VentanasAssumption == IsFiniteSet(Ventanas) /\ Nadie \notin Ventanas /\ MAXIMO \in Nat /\ ActosFila \in Nat

\* A quotient is what its product says it is.
LEMMA Cociente ==
  ASSUME NEW q \in Nat \ {0}, NEW a \in Int, NEW b \in 0..(q - 1)
  PROVE  (a * q + b) \div q = a /\ (a * q + b) % q = b
<1>. DEFINE n == a * q + b
            d == n \div q
            m == n % q
<1>1. n \in Int /\ d \in Int /\ m \in 0..(q - 1) /\ n = q * d + m
  OBVIOUS
<1>. HIDE DEF d, m
<1>2. (a - d) * q = m - b
  <2>1. (a - d) * q = a * q - d * q /\ q * d = d * q /\ a * q \in Int /\ d * q \in Int
    BY <1>1
  <2>. QED BY <1>1, <2>1
<1>. HIDE DEF n
<1>3. \A z \in Int : z >= 1 => z * q >= q
  OBVIOUS
<1>4. \A z \in Int : z <= -1 => z * q <= -q
  OBVIOUS
<1>5. m - b < q /\ m - b > -q
  BY <1>1
<1>6. a - d \in Int
  BY <1>1
<1>7. ~(a - d >= 1) /\ ~(a - d <= -1)
  BY <1>1, <1>2, <1>3, <1>4, <1>5, <1>6
<1>8. a = d
  BY <1>1, <1>6, <1>7
<1>9. m = b
  BY <1>1, <1>2, <1>8
<1>. QED BY <1>8, <1>9 DEF d, m, n

\* Between which bounds a quotient is.
LEMMA CocienteEntre ==
  ASSUME NEW a \in Int, NEW b \in Nat \ {0}
  PROVE  /\ a \div b \in Int /\ b * (a \div b) <= a
         /\ \A m \in Int : a >= m * b => a \div b >= m
         /\ \A m \in Int : a < m * b => a \div b < m
<1>. DEFINE d == a \div b
            e == a % b
<1>1. d \in Int /\ e \in 0..(b - 1) /\ a = b * d + e
  OBVIOUS
<1>. HIDE DEF d, e
<1>2. b * d \in Int /\ b * d <= a /\ a < b * d + b
  BY <1>1
<1>3. ASSUME NEW m \in Int, a >= m * b, ~(d >= m) PROVE FALSE
  <2>1. d + 1 <= m
    BY <1>1, <1>3
  <2>2. (d + 1) * b <= m * b
    BY <1>1, <2>1
  <2>3. (d + 1) * b = b * d + b
    BY <1>1
  <2>. QED BY <1>2, <1>3, <2>2, <2>3
<1>4. ASSUME NEW m \in Int, a < m * b, ~(d < m) PROVE FALSE
  <2>1. d >= m
    BY <1>1, <1>4
  <2>2. d * b >= m * b
    BY <1>1, <2>1
  <2>3. d * b = b * d
    BY <1>1
  <2>. QED BY <1>2, <1>4, <2>2, <2>3
<1>. QED BY <1>1, <1>2, <1>3, <1>4 DEF d

\* A proportion is kept between the two it is given.
LEMMA ProporcionEntre ==
  ASSUME NEW a \in Nat \ {0}, NEW b \in Nat \ {0}
  PROVE  /\ \E x, y \in Nat \ {0} : W!Proporcion(a, b, <<2, 5>>, <<7, 5>>) = <<x, y>> /\ 5 * x >= 2 * y /\ 5 * x <= 7 * y
         /\ \E x, y \in Nat \ {0} : W!Proporcion(a, b, <<1, 2>>, <<3, 1>>) = <<x, y>> /\ 2 * x >= y /\ x <= 3 * y
<1>1. \E x, y \in Nat \ {0} : W!Proporcion(a, b, <<2, 5>>, <<7, 5>>) = <<x, y>> /\ 5 * x >= 2 * y
        /\ 5 * x <= 7 * y
  <2>1. CASE a * 5 < 2 * b
    BY <2>1 DEF W!Proporcion
  <2>2. CASE ~(a * 5 < 2 * b) /\ a * 5 > 7 * b
    BY <2>2 DEF W!Proporcion
  <2>3. CASE ~(a * 5 < 2 * b) /\ ~(a * 5 > 7 * b)
    <3>1. W!Proporcion(a, b, <<2, 5>>, <<7, 5>>) = <<a, b>>
      BY <2>3 DEF W!Proporcion
    <3>. QED BY <2>3, <3>1
  <2>. QED BY <2>1, <2>2, <2>3
<1>2. \E x, y \in Nat \ {0} : W!Proporcion(a, b, <<1, 2>>, <<3, 1>>) = <<x, y>> /\ 2 * x >= y /\ x <= 3 * y
  <2>1. CASE a * 2 < 1 * b
    BY <2>1 DEF W!Proporcion
  <2>2. CASE ~(a * 2 < 1 * b) /\ a * 1 > 3 * b
    BY <2>2 DEF W!Proporcion
  <2>3. CASE ~(a * 2 < 1 * b) /\ ~(a * 1 > 3 * b)
    <3>1. W!Proporcion(a, b, <<1, 2>>, <<3, 1>>) = <<a, b>>
      BY <2>3 DEF W!Proporcion
    <3>. QED BY <2>3, <3>1
  <2>. QED BY <2>1, <2>2, <2>3
<1>. QED BY <1>1, <1>2

\* The columns: as many as make the cells as wide as the screen asks.
LEMMA RaizEntre ==
  ASSUME NEW n \in 1..24, NEW x \in Nat \ {0}, NEW y \in Nat \ {0}, 2 * x >= y, x <= 3 * y
  PROVE  W!Raiz(n, <<x, y>>) \in 1..9 /\ 2 * W!Raiz(n, <<x, y>>) * W!Raiz(n, <<x, y>>) >= n
<1>. DEFINE S == {k \in 1..(2 * n) : k * k * y >= n * x}
<1>1. n * x \in Nat /\ n * x >= x /\ n * x <= 3 * (n * y) /\ n * y \in Nat
  <2>1. n * x <= n * (3 * y)
    OBVIOUS
  <2>. QED BY <2>1
<1>2. 2 * n \in S
  <2>1. (2 * n) * (2 * n) * y = (4 * n) * (n * y)
    OBVIOUS
  <2>2. (4 * n) * (n * y) >= 4 * (n * y)
    BY <1>1
  <2>3. (2 * n) * (2 * n) * y >= n * x
    BY <1>1, <2>1, <2>2
  <2>. QED BY <2>3
<1>3. PICK k \in S : \A j \in S : k <= j
  <2>1. S \subseteq Nat /\ S # {}
    BY <1>2
  <2>. HIDE DEF S
  <2>. QED BY <2>1, Minimo
<1>4. k \in 1..(2 * n) /\ k * k * y >= n * x
  BY <1>3
<1>5. (k - 1) * (k - 1) * y < n * x
  <2>1. CASE k = 1
    <3>1. (k - 1) * (k - 1) * y = 0
      BY <2>1
    <3>. QED BY <1>1, <3>1
  <2>2. CASE k # 1
    <3>1. k - 1 \in 1..(2 * n) /\ ~(k <= k - 1)
      BY <1>4, <2>2
    <3>2. k - 1 \notin S
      BY <1>3, <3>1
    <3>3. ~((k - 1) * (k - 1) * y >= n * x)
      BY <3>1, <3>2
    <3>4. (k - 1) * (k - 1) * y \in Int
      BY <3>1
    <3>. QED BY <1>1, <3>3, <3>4
  <2>. QED BY <2>1, <2>2
<1>. HIDE DEF S
<1>6. PICK r : r = W!Raiz(n, <<x, y>>)
  OBVIOUS
<1>7. r \in 1..(2 * n) /\ r * r * y >= n * x /\ (r - 1) * (r - 1) * y < n * x
  BY <1>4, <1>5, <1>6 DEF W!Raiz
<1>8. r <= 9
  <2>. SUFFICES ASSUME r >= 10 PROVE FALSE
    BY <1>7
  <2>1. r - 1 \in Nat /\ r - 1 >= 9
    BY <1>7
  <2>2. (r - 1) * (r - 1) >= 81 /\ (r - 1) * (r - 1) \in Nat
    BY <2>1
  <2>3. (r - 1) * (r - 1) * y >= 81 * y
    BY <2>2
  <2>4. n * y <= 24 * y
    OBVIOUS
  <2>5. (r - 1) * (r - 1) * y \in Int
    BY <2>2
  <2>. QED BY <1>1, <1>7, <2>3, <2>4, <2>5
<1>9. 2 * r * r >= n
  <2>. SUFFICES ASSUME 2 * r * r < n PROVE FALSE
    BY <1>7
  <2>1. r * r \in Nat /\ 2 * (r * r) + 1 <= n
    BY <1>7
  <2>2. (2 * (r * r) + 1) * x <= n * x
    BY <2>1
  <2>3. (2 * (r * r) + 1) * x = 2 * (r * r) * x + x /\ 2 * (r * r) * x = (r * r) * (2 * x)
    BY <2>1
  <2>4. (r * r) * (2 * x) >= (r * r) * y
    BY <2>1
  <2>5. (r * r) * y = r * r * y /\ (r * r) * y \in Int /\ (r * r) * (2 * x) \in Int /\ r * r * y >= n * x
    BY <1>7, <2>1
  <2>. QED BY <1>1, <1>7, <2>2, <2>3, <2>4, <2>5
<1>. QED BY <1>6, <1>7, <1>8, <1>9

\* The rows of a grid that is not one row are six at most.
LEMMA FilasEntre ==
  ASSUME NEW n \in 1..24, NEW k \in 1..9, 2 * k * k >= n, NEW cols, cols = W!Acotar(k, 1, n)
  PROVE  cols \in 1..9 /\ cols <= n /\ W!Techo(n, cols) \in 1..6 /\ cols * W!Techo(n, cols) >= n
<1>1. cols = IF k < n THEN k ELSE n
  BY DEF W!Acotar, W!Mayor, W!Menor
<1>2. CASE cols = n
  <2>1. n + n - 1 = 1 * n + (n - 1) /\ n - 1 \in 0..(n - 1)
    OBVIOUS
  <2>2. W!Techo(n, cols) = 1
    <3>1. (1 * n + (n - 1)) \div n = 1
      BY Cociente
    <3>. QED BY <1>2, <2>1, <3>1 DEF W!Techo
  <2>. QED BY <1>1, <1>2, <2>2
<1>3. CASE cols # n
  <2>1. cols = k /\ k < n
    BY <1>1, <1>3
  <2>2. W!Techo(n, k) = (n + k - 1) \div k
    BY DEF W!Techo
  <2>3. CASE k = 1
    BY <2>1, <2>2, <2>3
  <2>4. CASE k = 2
    BY <2>1, <2>2, <2>4
  <2>5. CASE k = 3
    BY <2>1, <2>2, <2>5
  <2>6. CASE k = 4
    BY <2>1, <2>2, <2>6
  <2>7. CASE k = 5
    BY <2>1, <2>2, <2>7
  <2>8. CASE k = 6
    BY <2>1, <2>2, <2>8
  <2>9. CASE k = 7
    BY <2>1, <2>2, <2>9
  <2>10. CASE k = 8
    BY <2>1, <2>2, <2>10
  <2>11. CASE k = 9
    BY <2>1, <2>2, <2>11
  <2>12. k \in {1, 2, 3, 4, 5, 6, 7, 8, 9}
    OBVIOUS
  <2>. QED BY <2>3, <2>4, <2>5, <2>6, <2>7, <2>8, <2>9, <2>10, <2>11, <2>12
<1>. QED BY <1>2, <1>3

\* What is left of a length for each of cols cells: at least m, and the gaps between them fit.
ReparteFila(cols, largo, m, q) == q \in Nat /\ q >= m /\ cols * q + (cols - 1) * W!PREVIA_HUECO <= largo
\* cols cells in a length, with the gaps between them, each of at least m.
LEMMA RepartoFila ==
  ASSUME NEW cols \in Nat \ {0}, NEW largo \in Nat, NEW m \in Nat,
          largo >= cols * m + W!PREVIA_HUECO * (cols - 1),
         NEW q, q = (largo - W!PREVIA_HUECO * (cols - 1)) \div cols
  PROVE  ReparteFila(cols, largo, m, q)
<1>. DEFINE a == largo - W!PREVIA_HUECO * (cols - 1)
<1>1. a \in Int /\ a >= m * cols /\ W!PREVIA_HUECO * (cols - 1) = (cols - 1) * W!PREVIA_HUECO
        /\ (cols - 1) * W!PREVIA_HUECO \in Nat
  <2>1. cols * m \in Nat /\ m * cols = cols * m
    OBVIOUS
  <2>2. W!PREVIA_HUECO * (cols - 1) \in Nat /\ W!PREVIA_HUECO * (cols - 1) = (cols - 1) * W!PREVIA_HUECO
    BY DEF W!PREVIA_HUECO
  <2>3. a \in Int /\ a >= cols * m
    BY <2>1, <2>2
  <2>. QED BY <2>1, <2>2, <2>3
<1>2. a = largo - (cols - 1) * W!PREVIA_HUECO
  BY <1>1
<1>. HIDE DEF a
<1>3. a \div cols \in Int /\ cols * (a \div cols) <= a /\ a \div cols >= m /\ cols * (a \div cols) \in Int
  BY <1>1, CocienteEntre
<1>4. cols * (a \div cols) + (cols - 1) * W!PREVIA_HUECO <= largo
  BY <1>1, <1>2, <1>3
<1>. QED BY <1>3, <1>4 DEF a, ReparteFila

\* The measures of the grid: it has a place for each window, and fits the screen.
MedidaFila(r, n, p) ==
  /\ r.columnas \in 1..n /\ r.filas \in Nat \ {0} /\ r.columnas * r.filas >= n
  /\ r.w \in Nat /\ r.h \in Nat /\ r.w >= 2000 /\ r.h >= 2800
  /\ r.columnas * r.w + (r.columnas - 1) * W!PREVIA_HUECO <= p[1] * 100 - 12400
  /\ r.filas * r.h + (r.filas - 1) * W!PREVIA_HUECO <= p[2] * 100 - 15000
\* What is known of the measures of a grid.
LEMMA RejillaMide == ASSUME NEW p \in Pantallas, NEW n \in 1..24 PROVE MedidaFila(W!Rejilla(n, p), n, p)
<1>0. p[1] \in Nat /\ p[2] \in Nat /\ p[1] >= 560 /\ p[2] >= 388
  BY PantallasAssumption
<1>1. PICK ancho, alto : ancho = W!AnchoUtil(p) /\ alto = W!AltoUtil(p)
  OBVIOUS
<1>2. ancho \in Nat /\ alto \in Nat /\ ancho = p[1] * 100 - 12400 /\ alto = p[2] * 100 - 15000
        /\ ancho >= 43600 /\ alto >= 23800
  BY <1>0, <1>1 DEF W!AnchoUtil, W!AltoUtil, W!Mayor, W!PREVIA_MARGEN_PANTALLA, W!MARGEN, W!NOMBRE
<1>3. PICK pa, pb \in Nat \ {0} : W!Proporcion(p[2], p[1], <<2, 5>>, <<7, 5>>) = <<pa, pb>>
        /\ 5 * pa >= 2 * pb /\ 5 * pa <= 7 * pb
  <2>1. p[1] \in Nat \ {0} /\ p[2] \in Nat \ {0}
    BY <1>0
  <2>. QED BY <2>1, ProporcionEntre
<1>4. PICK aa, ab \in Nat \ {0} : W!Proporcion(ancho \div 100, alto \div 100, <<1, 2>>, <<3, 1>>) = <<aa,
        ab>> /\ 2 * aa >= ab /\ aa <= 3 * ab
  <2>1. ancho \div 100 \in Nat \ {0} /\ alto \div 100 \in Nat \ {0}
    BY <1>2
  <2>. QED BY <2>1, ProporcionEntre
<1>5. PICK raiz : raiz = W!Raiz(n, <<aa, ab>>)
  OBVIOUS
<1>6. raiz \in 1..9 /\ 2 * raiz * raiz >= n
  BY <1>4, <1>5, RaizEntre
<1>7. PICK una : una = W!Menor((ancho - W!PREVIA_HUECO * (n - 1)) \div n, W!PREVIA_ANCHO_MAX)
  OBVIOUS
<1>8. PICK cols : cols = IF una >= W!PREVIA_UNA_FILA_MIN THEN n ELSE W!Acotar(raiz, 1, n)
  OBVIOUS
<1>9. PICK f : f = W!Techo(n, cols)
  OBVIOUS
<1>10. PICK qw, qh : qw = (ancho - W!PREVIA_HUECO * (cols - 1)) \div cols
         /\ qh = (alto - W!PREVIA_HUECO * (f - 1)) \div f
  OBVIOUS
<1>11. cols \in 1..n /\ f \in 1..6 /\ cols * f >= n /\ qw \in Nat /\ qw >= 3600
         /\ cols * qw + (cols - 1) * W!PREVIA_HUECO <= ancho
  <2>1. CASE una >= W!PREVIA_UNA_FILA_MIN
    <3>1. cols = n
      BY <1>8, <2>1
    <3>2. f = 1
      <4>1. n + n - 1 = 1 * n + (n - 1) /\ n - 1 \in 0..(n - 1)
        OBVIOUS
      <4>2. (1 * n + (n - 1)) \div n = 1
        BY Cociente
      <4>. QED BY <1>9, <3>1, <4>1, <4>2 DEF W!Techo
    <3>3. ancho - W!PREVIA_HUECO * (n - 1) \in Int /\ W!PREVIA_HUECO * (n - 1) \in Int
      BY <1>2 DEF W!PREVIA_HUECO
    <3>4. qw \in Int /\ qw >= 15000
      <4>1. qw \in Int
        BY <1>10, <3>1, <3>3
      <4>. QED BY <1>7, <1>10, <2>1, <3>1, <4>1 DEF W!Menor, W!PREVIA_UNA_FILA_MIN, W!PREVIA_ANCHO_MAX
    <3>5. n * qw <= ancho - W!PREVIA_HUECO * (n - 1)
      BY <1>10, <3>1, <3>3, CocienteEntre
    <3>6. cols * qw + (cols - 1) * W!PREVIA_HUECO <= ancho
      BY <1>2, <3>1, <3>4, <3>5 DEF W!PREVIA_HUECO
    <3>. QED BY <3>1, <3>2, <3>4, <3>6
  <2>2. CASE ~(una >= W!PREVIA_UNA_FILA_MIN)
    <3>1. cols = W!Acotar(raiz, 1, n)
      BY <1>8, <2>2
    <3>2. cols \in 1..9 /\ cols <= n /\ f \in 1..6 /\ cols * f >= n
      BY <1>6, <1>9, <3>1, FilasEntre
    <3>3. ancho >= cols * 3600 + W!PREVIA_HUECO * (cols - 1)
      BY <1>2, <3>2 DEF W!PREVIA_HUECO
    <3>4. cols \in Nat \ {0} /\ ancho \in Nat /\ qw = (ancho - W!PREVIA_HUECO * (cols - 1)) \div cols
      BY <1>2, <1>10, <3>2
    <3>5. PICK m : m = 3600
      OBVIOUS
    <3>6. m \in Nat /\ ancho >= cols * m + W!PREVIA_HUECO * (cols - 1)
      BY <3>3, <3>5
    <3>7. ReparteFila(cols, ancho, m, qw)
      BY <3>4, <3>6, RepartoFila, Zenon
    <3>. QED BY <3>2, <3>5, <3>7 DEF ReparteFila
  <2>. QED BY <2>1, <2>2
<1>12. qh \in Nat /\ qh >= 2800 /\ f * qh + (f - 1) * W!PREVIA_HUECO <= alto
  <2>1. alto >= f * 2800 + W!PREVIA_HUECO * (f - 1)
    BY <1>2, <1>11 DEF W!PREVIA_HUECO
  <2>2. f \in Nat \ {0} /\ alto \in Nat
    BY <1>2, <1>11
  <2>3. qh = (alto - W!PREVIA_HUECO * (f - 1)) \div f
    BY <1>10
  <2>4. PICK m : m = 2800 
    OBVIOUS
  <2>5. m \in Nat /\ alto >= f * m + W!PREVIA_HUECO * (f - 1)
    BY <2>1, <2>4
  <2>6. ReparteFila(f, alto, m, qh)
    BY <2>2, <2>3, <2>5, RepartoFila, Zenon
  <2>. QED BY <2>4, <2>6 DEF ReparteFila
<1>13. PICK w0 : w0 = W!Acotar(qw, 3600, W!PREVIA_ANCHO_MAX)
  OBVIOUS
<1>14. w0 \in Nat /\ w0 >= 3600 /\ w0 <= qw
  BY <1>11, <1>13 DEF W!Acotar, W!Mayor, W!Menor, W!PREVIA_ANCHO_MAX
<1>15. PICK hp : hp = (w0 * pa) \div pb
  OBVIOUS
<1>16. PICK h : h = W!Acotar(W!Menor(hp, qh), 2800, W!PREVIA_ALTO_MAX)
  OBVIOUS
<1>17. h \in Nat /\ h >= 2800 /\ h <= qh
  <2>1. hp \in Int
    BY <1>3, <1>14, <1>15
  <2>. QED BY <1>12, <1>16, <2>1 DEF W!Acotar, W!Mayor, W!Menor, W!PREVIA_ALTO_MAX
<1>18. PICK wp : wp = (h * pb) \div pa
  OBVIOUS
<1>19. wp \in Int /\ wp >= 2000
  <2>1. h * pb \in Int /\ h * pb >= 2800 * pb
    BY <1>3, <1>17
  <2>2. 2800 * pb >= 2000 * pa
    BY <1>3
  <2>. QED BY <1>3, <1>18, <2>1, <2>2, CocienteEntre
<1>20. PICK w : w = W!Menor(w0, wp)
  OBVIOUS
<1>21. w \in Nat /\ w >= 2000 /\ w <= qw
  BY <1>11, <1>14, <1>19, <1>20 DEF W!Menor
<1>22. cols * w <= cols * qw /\ f * h <= f * qh
  BY <1>11, <1>12, <1>17, <1>21
<1>23. cols * w + (cols - 1) * W!PREVIA_HUECO <= ancho /\ f * h + (f - 1) * W!PREVIA_HUECO <= alto
  <2>1. cols * w \in Int /\ cols * qw \in Int /\ (cols - 1) * W!PREVIA_HUECO \in Int /\ f * h \in Int
          /\ f * qh \in Int /\ (f - 1) * W!PREVIA_HUECO \in Int
    BY <1>11, <1>12, <1>17, <1>21 DEF W!PREVIA_HUECO
  <2>. QED BY <1>2, <1>11, <1>12, <1>22, <2>1
<1>24. W!Rejilla(n, p) = [columnas |-> cols, filas |-> f, h |-> h, w |-> w]
  <2>1. W!Columnas(n, p) = cols
    <3>1. W!Raiz(n, W!Proporcion(W!AnchoUtil(p) \div 100, W!AltoUtil(p) \div 100, <<1, 2>>, <<3, 1>>)) = raiz
      BY <1>1, <1>4, <1>5, Zenon
    <3>2. W!Menor((W!AnchoUtil(p) - W!PREVIA_HUECO * (n - 1)) \div n, W!PREVIA_ANCHO_MAX) = una
      BY <1>1, <1>7, Zenon
    <3>. QED BY <1>8, <3>1, <3>2, Zenon DEF W!Columnas
  <2>2. W!Filas(n, p) = f
    BY <1>9, <2>1, Zenon DEF W!Filas
  <2>3. W!AnchoCelda(n, p) = w0
    <3>1. PICK x : x = (W!AnchoUtil(p) - W!PREVIA_HUECO * (W!Columnas(n, p) - 1)) \div W!Columnas(n, p)
      OBVIOUS
    <3>2. x = qw
      BY <1>1, <1>10, <2>1, <3>1
    <3>3. W!AnchoCelda(n, p) = W!Acotar(x, 3600, W!PREVIA_ANCHO_MAX)
      BY <3>1 DEF W!AnchoCelda
    <3>. QED BY <1>13, <3>2, <3>3
  <2>4. W!Pantalla(p)[1] = pa /\ W!Pantalla(p)[2] = pb
    BY <1>3 DEF W!Pantalla
  <2>5. W!AltoCelda(n, p) = h
    <3>1. (W!AltoUtil(p) - W!PREVIA_HUECO * (W!Filas(n, p) - 1)) \div W!Filas(n, p) = qh
      BY <1>1, <1>10, <2>2
    <3>2. (W!AnchoCelda(n, p) * W!Pantalla(p)[1]) \div W!Pantalla(p)[2] = hp
      BY <1>15, <2>3, <2>4
    <3>3. PICK x, y : /\ x = (W!AnchoCelda(n, p) * W!Pantalla(p)[1]) \div W!Pantalla(p)[2]
                      /\ y = (W!AltoUtil(p) - W!PREVIA_HUECO * (W!Filas(n, p) - 1)) \div W!Filas(n, p)
      OBVIOUS
    <3>4. x = hp /\ y = qh
      BY <3>1, <3>2, <3>3
    <3>5. W!AltoCelda(n, p) = W!Acotar(W!Menor(x, y), 2800, W!PREVIA_ALTO_MAX)
      BY <3>3 DEF W!AltoCelda
    <3>. QED BY <1>16, <3>4, <3>5
  <2>6. (W!AltoCelda(n, p) * W!Pantalla(p)[2]) \div W!Pantalla(p)[1] = wp
    BY <1>18, <2>4, <2>5
  <2>. QED BY <1>20, <2>1, <2>2, <2>3, <2>5, <2>6, Zenon DEF W!Rejilla
<1>. QED BY <1>2, <1>11, <1>12, <1>17, <1>21, <1>23, <1>24 DEF MedidaFila

\* The point at (a, b) of a cell is of the cell, or of nobody from its end on.
EsDeCelda(r, n, col, fil, a, b) ==
  W!En(r, W!MARGEN + col * (r.w + W!PREVIA_HUECO) + a, W!MARGEN + fil * (r.h + W!PREVIA_HUECO) + b, n)
    = IF a < r.w THEN fil * r.columnas + col + 1 ELSE 0
\* The cell of a point within it, and of one in the gap at its right.
LEMMA EnCelda ==
  ASSUME NEW r, r.columnas \in Nat, r.filas \in Nat, r.w \in Nat, r.h \in Nat, NEW col \in Nat, NEW fil \in Nat,
         col < r.columnas, fil < r.filas, NEW n \in Nat, fil * r.columnas + col + 1 <= n, NEW a \in Nat, NEW b \in Nat, a <= r.w, b < r.h
  PROVE  EsDeCelda(r, n, col, fil, a, b)
<1>1. PICK qx, qy : qx = r.w + W!PREVIA_HUECO /\ qy = r.h + W!PREVIA_HUECO
  OBVIOUS
<1>2. qx \in Nat \ {0} /\ qy \in Nat \ {0} /\ a \in 0..(qx - 1) /\ b \in 0..(qy - 1)
  BY <1>1 DEF W!PREVIA_HUECO
<1>0. PICK x, y : x = W!MARGEN + col * (r.w + W!PREVIA_HUECO) + a
        /\ y = W!MARGEN + fil * (r.h + W!PREVIA_HUECO) + b
  OBVIOUS
<1>3. PICK dx, dy : dx = x - W!MARGEN /\ dy = y - W!MARGEN
  OBVIOUS
<1>4. col * qx \in Nat /\ fil * qy \in Nat
  BY <1>2
<1>5. dx = col * qx + a /\ dy = fil * qy + b /\ dx >= 0 /\ dy >= 0
  BY <1>0, <1>1, <1>3, <1>4 DEF W!MARGEN
<1>6. dx \div qx = col /\ dx % qx = a /\ dy \div qy = fil /\ dy % qy = b
  <2>3. col \in Int /\ fil \in Int
    OBVIOUS
  <2>1. (col * qx + a) \div qx = col /\ (col * qx + a) % qx = a
    BY <1>2, <2>3, Cociente, Zenon
  <2>2. (fil * qy + b) \div qy = fil /\ (fil * qy + b) % qy = b
    BY <1>2, <2>3, Cociente, Zenon
  <2>. QED BY <1>5, <2>1, <2>2
<1>7. W!En(r, x, y, n) = IF a < r.w THEN fil * r.columnas + col + 1 ELSE 0
  BY <1>1, <1>3, <1>5, <1>6 DEF W!En
<1>. QED BY <1>0, <1>7 DEF EsDeCelda

\* A number is its quotient times its divisor and what is left.
Divide(j, cols, d, m) == d \in Int /\ m \in 0..(cols - 1) /\ j = cols * d + m
\* Division with a remainder.
LEMMA Division ==
  ASSUME NEW j \in Int, NEW cols \in Nat \ {0}, NEW d, d = j \div cols, NEW m, m = j % cols
  PROVE  Divide(j, cols, d, m)
BY DEF Divide

\* The place of a cell in the grid.
LEMMA LugarDe ==
  ASSUME NEW cols \in Nat \ {0}, NEW f \in Nat \ {0}, NEW n \in Nat, cols * f >= n, NEW i \in 1..n
  PROVE  \E col, fil \in Nat : /\ (i - 1) % cols = col /\ (i - 1) \div cols = fil /\ fil * cols + col + 1 = i
                               /\ col < cols /\ fil < f
<1>9. PICK j \in Nat : j = i - 1 /\ j + 1 = i /\ j < n
  OBVIOUS
<1>8. PICK col, fil : col = j % cols /\ fil = j \div cols
  OBVIOUS
<1>1. fil \in Int /\ col \in 0..(cols - 1) /\ j = cols * fil + col
  <2>1. j \in Int
    BY <1>9
  <2>2. Divide(j, cols, fil, col)
    BY <1>8, <2>1, Division, Zenon
  <2>. QED BY <2>2 DEF Divide
<1>2. col \in Nat /\ col < cols /\ cols * fil \in Int /\ fil * cols = cols * fil
  BY <1>1
<1>3. fil >= 0
  <2>. SUFFICES ASSUME fil <= -1 PROVE FALSE
    BY <1>1
  <2>1. cols * fil <= -cols
    BY <1>1
  <2>. QED BY <1>1, <1>2, <1>9, <2>1
<1>4. fil < f
  <2>. SUFFICES ASSUME fil >= f PROVE FALSE
    BY <1>1
  <2>1. cols * fil >= cols * f /\ cols * f \in Nat
    BY <1>1
  <2>. QED BY <1>1, <1>2, <1>9, <2>1
<1>5. fil \in Nat /\ fil * cols + col + 1 = i
  BY <1>1, <1>2, <1>3, <1>9
<1>. QED BY <1>1, <1>2, <1>4, <1>5, <1>8, <1>9

\* Up to the end of a place, among k of them.
LEMMA HastaElFinal ==
  ASSUME NEW k \in Nat \ {0}, NEW j \in Nat, j < k, NEW l \in Nat
  PROVE  /\ j * (l + W!PREVIA_HUECO) \in Nat /\ k * l \in Nat /\ (k - 1) * W!PREVIA_HUECO \in Nat
         /\ j * (l + W!PREVIA_HUECO) + l <= k * l + (k - 1) * W!PREVIA_HUECO
<1>1. W!PREVIA_HUECO \in Nat
  BY DEF W!PREVIA_HUECO
<1>2. j * (l + W!PREVIA_HUECO) = j * l + j * W!PREVIA_HUECO /\ j * l \in Nat /\ j * W!PREVIA_HUECO \in Nat
  BY <1>1
<1>3. k * l \in Nat /\ (k - 1) * W!PREVIA_HUECO \in Nat /\ (k - 1) * l \in Nat /\ k * l = (k - 1) * l + l
  BY <1>1
<1>4. j * l <= (k - 1) * l /\ j * W!PREVIA_HUECO <= (k - 1) * W!PREVIA_HUECO
  <2>1. k - 1 - j \in Nat
    OBVIOUS
  <2>2. (k - 1 - j) * l \in Nat /\ (k - 1 - j) * l = (k - 1) * l - j * l
    BY <2>1
  <2>3. (k - 1 - j) * W!PREVIA_HUECO \in Nat /\ (k - 1 - j) * W!PREVIA_HUECO = (k - 1) * W!PREVIA_HUECO - j * W!PREVIA_HUECO
    BY <1>1, <2>1
  <2>. QED BY <1>2, <1>3, <2>2, <2>3
<1>. QED BY <1>1, <1>2, <1>3, <1>4

\* Each thumbnail is within its cell, and its points are those of its window.
LEMMA CeldaEntera ==
  ASSUME NEW r, NEW p \in Pantallas, NEW n \in 1..24, MedidaFila(r, n, p), NEW i \in 1..n
  PROVE  LET v == W!Miniatura(r, i)
             d == W!Celda(r, i)
             t == W!Tamano(r)
         IN  /\ d.x + d.w <= t.w - W!MARGEN /\ d.y + d.h <= t.h - W!MARGEN - W!NOMBRE
             /\ v.x + v.w <= d.x + d.w /\ v.y + v.h <= d.y + d.h
             /\ W!En(r, v.x, v.y, n) = i
             /\ W!En(r, v.x + v.w - 1, v.y + v.h - 1, n) = i
             /\ W!En(r, d.x + d.w, d.y, n) # i
<1>. DEFINE v == W!Miniatura(r, i)
            d == W!Celda(r, i)
            t == W!Tamano(r)
<1>0. /\ r.columnas \in Nat \ {0} /\ r.filas \in Nat \ {0} /\ r.w \in Nat /\ r.h \in Nat /\ r.w >= 2000
        /\ r.h >= 2800
      /\ r.columnas * r.filas >= n /\ n \in Nat
  BY DEF MedidaFila
<1>1. PICK col \in Nat, fil \in Nat : /\ (i - 1) % r.columnas = col /\ (i - 1) \div r.columnas = fil
                           /\ fil * r.columnas + col + 1 = i /\ col < r.columnas /\ fil < r.filas
  <2>1. PICK cols, f : cols = r.columnas /\ f = r.filas
    OBVIOUS
  <2>2. cols \in Nat \ {0} /\ f \in Nat \ {0} /\ cols * f >= n /\ n \in Nat
    BY <1>0, <2>1
  <2>3. PICK col \in Nat, fil \in Nat : /\ (i - 1) % cols = col /\ (i - 1) \div cols = fil
                                       /\ fil * cols + col + 1 = i /\ col < cols /\ fil < f
    BY <2>2, LugarDe
  <2>. QED BY <2>1, <2>3
<1>2. /\ d.x = W!MARGEN + col * (r.w + W!PREVIA_HUECO) /\ d.y = W!MARGEN + fil * (r.h + W!PREVIA_HUECO)
      /\ d.w = r.w /\ d.h = r.h
  BY <1>1 DEF W!Celda
<1>3. /\ t.w = r.columnas * r.w + (r.columnas - 1) * W!PREVIA_HUECO + W!MARGEN * 2
      /\ t.h = r.filas * r.h + (r.filas - 1) * W!PREVIA_HUECO + W!NOMBRE + W!MARGEN * 2
  BY DEF W!Tamano
<1>4. /\ v.x = d.x + 800 /\ v.y = d.y + 800 /\ v.w = r.w - 1600 /\ v.h = r.h - 1600
  <2>1. v.x = d.x + 800 /\ v.y = d.y + 800 /\ v.w = W!Mayor(d.w - 800 * 2, 100)
          /\ v.h = W!Mayor(d.h - 800 * 2, 100)
    BY DEF W!Miniatura, W!PREVIA_BORDE
  <2>. QED BY <1>0, <1>2, <2>1 DEF W!Mayor
<1>. HIDE DEF v, d, t
<1>5. PICK X, Y : X = col * (r.w + W!PREVIA_HUECO) /\ Y = fil * (r.h + W!PREVIA_HUECO)
  OBVIOUS
<1>6. PICK AA, BB : AA = r.columnas * r.w + (r.columnas - 1) * W!PREVIA_HUECO
        /\ BB = r.filas * r.h + (r.filas - 1) * W!PREVIA_HUECO
  OBVIOUS
<1>7. X \in Nat /\ Y \in Nat /\ AA \in Nat /\ BB \in Nat /\ X + r.w <= AA /\ Y + r.h <= BB
  <2>1. X \in Nat /\ AA \in Nat /\ X + r.w <= AA
    BY <1>0, <1>1, <1>5, <1>6, HastaElFinal
  <2>2. Y \in Nat /\ BB \in Nat /\ Y + r.h <= BB
    BY <1>0, <1>1, <1>5, <1>6, HastaElFinal
  <2>. QED BY <2>1, <2>2
<1>8. d.x + d.w <= t.w - W!MARGEN /\ d.y + d.h <= t.h - W!MARGEN - W!NOMBRE /\ v.x + v.w <= d.x + d.w
        /\ v.y + v.h <= d.y + d.h
  BY <1>0, <1>2, <1>3, <1>4, <1>5, <1>6, <1>7 DEF W!MARGEN, W!NOMBRE
<1>9. \A a, b \in Nat : a <= r.w /\ b < r.h => W!En(r, d.x + a, d.y + b, n) = IF a < r.w THEN i ELSE 0
  <2>. TAKE a, b \in Nat
  <2>. HAVE a <= r.w /\ b < r.h
  <2>1. r.columnas \in Nat /\ r.filas \in Nat /\ n \in Nat /\ fil * r.columnas + col + 1 <= n
        /\ r.w \in Nat /\ r.h \in Nat /\ col \in Nat /\ fil \in Nat /\ col < r.columnas /\ fil < r.filas
    BY <1>0, <1>1
  <2>2. EsDeCelda(r, n, col, fil, a, b)
    BY <2>1, EnCelda, Zenon
  <2>. QED BY <1>1, <1>2, <2>2 DEF EsDeCelda
<1>10. W!En(r, v.x, v.y, n) = i
  BY <1>0, <1>4, <1>9
<1>11. v.x + v.w - 1 = d.x + (r.w - 801) /\ v.y + v.h - 1 = d.y + (r.h - 801) /\ r.w - 801 \in Nat
         /\ r.h - 801 \in Nat
  <2>1. d.x \in Nat /\ d.y \in Nat
    BY <1>2, <1>5, <1>7 DEF W!MARGEN
  <2>. QED BY <1>0, <1>4, <2>1
<1>12. W!En(r, v.x + v.w - 1, v.y + v.h - 1, n) = i
  BY <1>0, <1>9, <1>11
<1>13. W!En(r, d.x + d.w, d.y, n) # i
  <2>1. d.y + 0 = d.y /\ 0 \in Nat
    BY <1>2, <1>5, <1>7 DEF W!MARGEN
  <2>2. W!En(r, d.x + r.w, d.y + 0, n) = 0
    BY <1>0, <1>9
  <2>. QED BY <1>2, <2>1, <2>2
<1>. QED BY <1>8, <1>10, <1>12, <1>13 DEF v, d, t

\* The grid is whole on any screen.
LEMMA EnteraLaRejilla == W!RejillaEntera
<1>. SUFFICES ASSUME NEW p \in Pantallas, NEW n \in 1..24, NEW r, r = W!Rejilla(n, p)
              PROVE  /\ W!Tamano(r).w <= p[1] * 100 - W!PREVIA_MARGEN_PANTALLA * 2
                     /\ W!Tamano(r).h <= p[2] * 100 - W!PREVIA_MARGEN_PANTALLA * 2
  BY RejillaMide, CeldaEntera, Zenon DEF W!RejillaEntera
<1>1. MedidaFila(r, n, p) /\ p[1] \in Nat /\ p[2] \in Nat
  BY RejillaMide, PantallasAssumption
<1>2. PICK AA, BB : AA = r.columnas * r.w + (r.columnas - 1) * W!PREVIA_HUECO
        /\ BB = r.filas * r.h + (r.filas - 1) * W!PREVIA_HUECO
  OBVIOUS
<1>3. AA \in Int /\ BB \in Int
  BY <1>1, <1>2 DEF MedidaFila, W!PREVIA_HUECO
<1>4. W!Tamano(r).w = AA + W!MARGEN * 2 /\ W!Tamano(r).h = BB + W!NOMBRE + W!MARGEN * 2
  BY <1>2 DEF W!Tamano
<1>5. AA <= p[1] * 100 - 12400 /\ BB <= p[2] * 100 - 15000
  BY <1>1, <1>2 DEF MedidaFila
<1>. QED BY <1>1, <1>3, <1>4, <1>5 DEF W!MARGEN, W!NOMBRE, W!PREVIA_MARGEN_PANTALLA

\* What the row filters is what the notifications filter.
LEMMA FiltraFila ==
  ASSUME NEW s \in Seq(Ventanas), NEW T
  PROVE  /\ W!Elegidas(s, T) \in Seq(Ventanas) /\ W!Range(W!Elegidas(s, T)) = W!Range(s) \cap T
         /\ s # <<>> /\ s[1] \in T => 1 \in DOMAIN W!Elegidas(s, T) /\ W!Elegidas(s, T)[1] = s[1]
<1>1. W!Elegidas(s, T) = N!Elegidas(s, T)
  BY DEF W!Elegidas, N!Elegidas
<1>2. \A x : W!Range(x) = N!ToSet(x)
  BY DEF W!Range, N!ToSet
<1>3. PICK e : e = N!Elegidas(s, T)
  OBVIOUS
<1>4. e \in Seq(Ventanas) /\ N!ToSet(e) = N!ToSet(s) \cap T /\ (s # <<>> /\ s[1] \in T => 1 \in DOMAIN e
        /\ e[1] = s[1])
  BY <1>3, Filtra
<1>5. W!Range(e) = N!ToSet(e) /\ W!Range(s) = N!ToSet(s)
  BY <1>2
<1>. QED BY <1>1, <1>3, <1>4, <1>5


ModosFila == {"aplicaciones", "ventanas"}
TiposFila == [clase : {"fila"}, modo : ModosFila, celdas : Seq(Ventanas), elegida : Nat]
\* The windows, and the keyboard in one that lives, the one used last.
Espacio(m, q, a) == m \in Seq(Ventanas) /\ q \subseteq Ventanas /\ a \subseteq q /\ W!Range(m) \cap q = {}
Teclado(m, q, u, f) == /\ u \in Seq(Ventanas) /\ f \in Ventanas \cup {Nadie}
                       /\ f = Nadie \/ (f \in W!Range(m) \cup q /\ 1 \in DOMAIN u /\ u[1] = f)
VentanasBien == Espacio(mapa, fuera, apartadas) /\ Teclado(mapa, fuera, uso, foco)
\* The row closed, and open.
Muda == /\ cW = W!Nada /\ destinos = <<>> /\ modoW = "cerrado" /\ pegado \in BOOLEAN
        /\ tarjetaW = W!Nada /\ realce = 0 /\ rotulo = Nadie
Pintada(f, t, m, r) ==
  /\ t.clase = "tarjeta" /\ t.celdas = f.celdas /\ t.modo = f.modo
  /\ f.modo = "ventanas" => m = f.elegida /\ r = f.celdas[f.elegida]
  /\ f.modo = "aplicaciones" => t.marca = f.elegida /\ t.nombre = f.celdas[f.elegida] /\ m = 0
Elegible(f) == f \in TiposFila /\ f.elegida \in DOMAIN f.celdas
Viva == /\ Elegible(cW) /\ cW.modo = modoW /\ cW.celdas = destinos /\ W!Range(destinos) \subseteq W!Range(mapa) \cup fuera
        /\ Pintada(cW, tarjetaW, realce, rotulo)
Sujeta == pegado = FALSE => W!Tecla(modoW) \in mods
CasosFila == mods \subseteq W!Hacia /\ clic \in BOOLEAN /\ vista \in BOOLEAN /\ moviendo \in BOOLEAN
         /\ pegado \in BOOLEAN
FilaInv == CasosFila /\ VentanasBien /\ (Muda \/ (Viva /\ Sujeta))

\* Whoever is in a sequence.
LEMMA Contiene == ASSUME NEW s \in Seq(Ventanas), NEW w PROVE W!Contains(s, w) <=> w \in W!Range(s)
BY DEF W!Contains, W!Range

\* One more at the end.
LEMMA DeLaFilaMas ==
  ASSUME NEW s \in Seq(Ventanas), NEW w \in Ventanas
  PROVE  Append(s, w) \in Seq(Ventanas) /\ W!Range(Append(s, w)) = W!Range(s) \cup {w}
<1>1. /\ Append(s, w) \in Seq(Ventanas) /\ Len(Append(s, w)) = Len(s) + 1 /\ Append(s, w)[Len(s) + 1] = w
        /\ Len(s) \in Nat
      /\ \A k \in 1..Len(s) : Append(s, w)[k] = s[k]
      /\ DOMAIN s = 1..Len(s) /\ DOMAIN Append(s, w) = 1..(Len(s) + 1)
  OBVIOUS
<1>2. \A k : k \in 1..(Len(s) + 1) <=> (k \in 1..Len(s) \/ k = Len(s) + 1)
  BY <1>1
<1>. QED BY <1>1, <1>2 DEF W!Range

\* The last one is one of them.
LEMMA DeLaFilaUltimo ==
  ASSUME NEW s \in Seq(Ventanas), s # <<>>
  PROVE  W!Last(s) \in W!Range(s) /\ W!Last(s) \in Ventanas
<1>1. Len(s) \in 1..Len(s) /\ DOMAIN s = 1..Len(s)
  OBVIOUS
<1>. QED BY <1>1 DEF W!Last, W!Range

\* A sequence without a window.
LEMMA DeSin ==
  ASSUME NEW s \in Seq(Ventanas), NEW w
  PROVE  /\ W!Sin(s, w) \in Seq(Ventanas) /\ W!Range(W!Sin(s, w)) = W!Range(s) \ {w}
         /\ 1 \in DOMAIN s /\ s[1] # w => 1 \in DOMAIN W!Sin(s, w) /\ W!Sin(s, w)[1] = s[1]
<1>1. PICK T : T = W!Range(s) \ {w}
  OBVIOUS
<1>2. /\ W!Elegidas(s, T) \in Seq(Ventanas) /\ W!Range(W!Elegidas(s, T)) = W!Range(s) \cap T
      /\ s # <<>> /\ s[1] \in T => 1 \in DOMAIN W!Elegidas(s, T) /\ W!Elegidas(s, T)[1] = s[1]
  BY FiltraFila
<1>3. 1 \in DOMAIN s /\ s[1] # w => s # <<>> /\ s[1] \in T
  BY <1>1 DEF W!Range
<1>. QED BY <1>1, <1>2, <1>3 DEF W!Sin

\* A window goes before the rest, and the one that was first is the second.
LEMMA DeSobre ==
  ASSUME NEW s \in Seq(Ventanas), NEW w \in Ventanas
  PROVE  /\ W!Sobre(w, s) \in Seq(Ventanas) /\ 1 \in DOMAIN W!Sobre(w, s) /\ W!Sobre(w, s)[1] = w
         /\ 1 \in DOMAIN s /\ s[1] # w => W!Sobre(w, s)[2] = s[1]
<1>1. PICK q : q = W!Sin(s, w)
  OBVIOUS
<1>2. q \in Seq(Ventanas) /\ (1 \in DOMAIN s /\ s[1] # w => 1 \in DOMAIN q /\ q[1] = s[1])
  BY <1>1, DeSin
<1>3. /\ <<w>> \o q \in Seq(Ventanas) /\ Len(<<w>> \o q) = Len(q) + 1 /\ (<<w>> \o q)[1] = w /\ Len(q) \in Nat
      /\ DOMAIN (<<w>> \o q) = 1..(Len(q) + 1) /\ DOMAIN q = 1..Len(q)
      /\ \A k \in 1..Len(q) : (<<w>> \o q)[k + 1] = q[k]
  BY <1>2
<1>4. 1 \in DOMAIN (<<w>> \o q)
  BY <1>3
<1>5. 1 \in DOMAIN q => (<<w>> \o q)[2] = q[1]
  BY <1>3
<1>. QED BY <1>1, <1>2, <1>3, <1>4, <1>5 DEF W!Sobre

\* The order of the row is of windows that are in the space.
LEMMA DeUsadas ==
  ASSUME NEW u \in Seq(Ventanas), NEW m \in Seq(Ventanas)
  PROVE  W!Usadas(m, u) \in Seq(Ventanas) /\ W!Range(W!Usadas(m, u)) \subseteq W!Range(m)
<1>1. PICK a, b : a = W!Elegidas(u, W!Range(m)) /\ b = W!Elegidas(m, W!Range(m) \ W!Range(u))
  OBVIOUS
<1>2. a \in Seq(Ventanas) /\ W!Range(a) \subseteq W!Range(m) /\ b \in Seq(Ventanas)
        /\ W!Range(b) \subseteq W!Range(m)
  BY <1>1, FiltraFila
<1>3. /\ a \o b \in Seq(Ventanas) /\ Len(a) \in Nat /\ Len(b) \in Nat /\ DOMAIN (a \o b) = 1..(Len(a) + Len(b))
      /\ DOMAIN a = 1..Len(a) /\ DOMAIN b = 1..Len(b)
      /\ \A k \in 1..(Len(a) + Len(b)) : (a \o b)[k] = IF k <= Len(a) THEN a[k] ELSE b[k - Len(a)]
  BY <1>2
<1>4. ASSUME NEW k \in DOMAIN (a \o b) PROVE (a \o b)[k] \in W!Range(a) \cup W!Range(b)
  <2>1. k \in 1..(Len(a) + Len(b)) /\ (k <= Len(a) => k \in DOMAIN a)
          /\ (~(k <= Len(a)) => k - Len(a) \in DOMAIN b)
    BY <1>3, <1>4
  <2>. QED BY <1>3, <2>1 DEF W!Range
<1>5. W!Range(a \o b) \subseteq W!Range(m)
  BY <1>2, <1>4 DEF W!Range
<1>. QED BY <1>1, <1>3, <1>5 DEF W!Usadas

\* As many as fit.
LEMMA DeOrden ==
  ASSUME uso \in Seq(Ventanas), mapa \in Seq(Ventanas), NEW tope \in Nat
  PROVE  W!Orden(tope) \in Seq(Ventanas) /\ W!Range(W!Orden(tope)) \subseteq W!Range(mapa)
<1>1. PICK u : u = W!Usadas(mapa, uso)
  OBVIOUS
<1>2. u \in Seq(Ventanas) /\ W!Range(u) \subseteq W!Range(mapa) /\ Len(u) \in Nat /\ DOMAIN u = 1..Len(u)
  BY <1>1, DeUsadas
<1>3. PICK k : k = W!Menor(tope, Len(u))
  OBVIOUS
<1>4. k \in 0..Len(u)
  <2>1. \A a, b \in Nat : W!Menor(a, b) \in 0..b
    BY DEF W!Menor
  <2>. QED BY <1>2, <1>3, <2>1
<1>5. SubSeq(u, 1, k) \in Seq(Ventanas) /\ DOMAIN SubSeq(u, 1, k) = 1..k
        /\ \A j \in 1..k : SubSeq(u, 1, k)[j] = u[j]
  BY <1>2, <1>4
<1>6. \A j \in 1..k : j \in DOMAIN u
  BY <1>2, <1>4
<1>7. W!Range(SubSeq(u, 1, k)) \subseteq W!Range(u)
  BY <1>5, <1>6 DEF W!Range
<1>. QED BY <1>1, <1>2, <1>3, <1>5, <1>7 DEF W!Orden

\* How many fit.
LEMMA DeTope == ASSUME mapa \in Seq(Ventanas), NEW m PROVE W!TopeDe(m) \in Nat
BY VentanasAssumption DEF W!TopeDe

\* One step along a row that is not empty.
LEMMA DeMover ==
  ASSUME NEW f, Elegible(f), NEW pasos \in {-1, 1}
  PROVE  Elegible(W!Mover(f, pasos)) /\ W!Mover(f, pasos).modo = f.modo /\ W!Mover(f, pasos).celdas = f.celdas
<1>1. f \in TiposFila /\ Len(f.celdas) \in Nat /\ DOMAIN f.celdas = 1..Len(f.celdas)
        /\ f.elegida \in 1..Len(f.celdas)
  BY DEF Elegible, TiposFila
<1>2. PICK n : n = Len(f.celdas)
  OBVIOUS
<1>3. n \in Nat \ {0} /\ f.elegida \in Nat
  BY <1>1, <1>2
<1>4. PICK e : e = f.elegida - 1 + pasos
  OBVIOUS
<1>5. e \in Int
  BY <1>3, <1>4
<1>6. PICK r : r = e % n
  OBVIOUS
<1>7. r \in 0..(n - 1)
  BY <1>3, <1>5, <1>6
<1>8. (r + n) % n \in 0..(n - 1)
  BY <1>3, <1>7
<1>9. PICK k : k = W!Ciclo(e, n) + 1
  OBVIOUS
<1>10. k \in 1..n
  BY <1>3, <1>6, <1>8, <1>9 DEF W!Ciclo
<1>11. W!Mover(f, pasos) = [f EXCEPT !.elegida = k]
  BY <1>2, <1>4, <1>9 DEF W!Mover
<1>12. PICK h : h = [f EXCEPT !.elegida = k]
  OBVIOUS
<1>13. h \in TiposFila /\ h.elegida = k /\ h.modo = f.modo /\ h.celdas = f.celdas
  BY <1>1, <1>10, <1>12 DEF TiposFila
<1>. QED BY <1>1, <1>2, <1>10, <1>11, <1>12, <1>13 DEF Elegible

\* Nothing of the row changes.
LEMMA FilaQuieta ==
  ASSUME FilaInv, UNCHANGED <<W!fila, tarjetaW, realce, rotulo>>, VentanasBien', CasosFila',
         cW = W!Nada \/ (mods \subseteq mods' /\ W!Range(mapa) \cup fuera \subseteq W!Range(mapa') \cup fuera')
  PROVE  FilaInv'
<1>1. CASE Muda
  BY <1>1 DEF FilaInv, Muda, W!fila
<1>2. CASE Viva /\ Sujeta
  <2>1. cW # W!Nada
    BY <1>2 DEF Viva, Elegible, TiposFila, W!Nada
  <2>2. Viva'
    BY <1>2, <2>1 DEF Viva, W!fila
  <2>3. Sujeta'
    BY <1>2, <2>1 DEF Sujeta, W!fila
  <2>. QED BY <2>2, <2>3 DEF FilaInv
<1>. QED BY <1>1, <1>2 DEF FilaInv

\* The windows do not change.
LEMMA VentanasQuietas == ASSUME VentanasBien, UNCHANGED W!ventanas
  PROVE  VentanasBien' /\ mapa' = mapa /\ fuera' = fuera
BY DEF VentanasBien, Espacio, Teclado, W!ventanas

\* The keyboard goes to a window that lives.
LEMMA EnfocarP ==
  ASSUME VentanasBien, NEW w \in W!Range(mapa) \cup fuera, W!Enfocar(w)
  PROVE  VentanasBien'
<1>1. mapa \in Seq(Ventanas) /\ uso \in Seq(Ventanas) /\ w \in Ventanas
  BY DEF VentanasBien, Espacio, Teclado, W!Range
<1>2. PICK q : q = W!Sin(mapa, w)
  OBVIOUS
<1>3. q \in Seq(Ventanas) /\ W!Range(q) = W!Range(mapa) \ {w}
  BY <1>1, <1>2, DeSin
<1>5. mapa' \in Seq(Ventanas) /\ W!Range(mapa') = W!Range(mapa)
  <2>1. CASE w \in W!Range(mapa)
    <3>1. mapa' = Append(q, w)
      BY <1>1, <1>2, <2>1, Contiene DEF W!Enfocar
    <3>2. Append(q, w) \in Seq(Ventanas) /\ W!Range(Append(q, w)) = W!Range(q) \cup {w}
      BY <1>1, <1>3, DeLaFilaMas
    <3>. QED BY <1>3, <2>1, <3>1, <3>2
  <2>2. CASE w \notin W!Range(mapa)
    BY <1>1, <2>2, Contiene DEF W!Enfocar
  <2>. QED BY <2>1, <2>2
<1>6. uso' \in Seq(Ventanas) /\ 1 \in DOMAIN uso' /\ uso'[1] = w
  BY <1>1, DeSobre DEF W!Enfocar
<1>7. foco' = w /\ fuera' = fuera /\ apartadas' = apartadas
  BY DEF W!Enfocar
<1>. QED BY <1>1, <1>5, <1>6, <1>7 DEF VentanasBien, Espacio, Teclado

\* The row closes on the chosen one.
LEMMA ConmutarFinP ==
  ASSUME FilaInv, cW # W!Nada, NEW f, W!ConmutarFin(f)
  PROVE  VentanasBien' /\ Muda' /\ moviendo' = FALSE
<1>1. Viva /\ VentanasBien
  BY DEF FilaInv, Muda
<1>2. Muda' /\ moviendo' = FALSE
  BY DEF W!ConmutarFin, W!Cerrada, W!SoltarSuperficies, Muda
<1>3. CASE f.elegida \in DOMAIN destinos /\ (W!Contains(mapa,
        destinos[f.elegida]) \/ destinos[f.elegida] \in fuera)
  <2>1. destinos[f.elegida] \in W!Range(mapa) \cup fuera
    BY <1>1, <1>3 DEF Viva, W!Range
  <2>2. W!Enfocar(destinos[f.elegida])
    BY <1>3 DEF W!ConmutarFin
  <2>. QED BY <1>1, <1>2, <2>1, <2>2, EnfocarP
<1>4. CASE ~(f.elegida \in DOMAIN destinos /\ (W!Contains(mapa,
        destinos[f.elegida]) \/ destinos[f.elegida] \in fuera))
  BY <1>1, <1>2, <1>4, VentanasQuietas DEF W!ConmutarFin
<1>. QED BY <1>3, <1>4

\* The row is abandoned.
LEMMA CancelarP == ASSUME FilaInv, W!ConmutarCancelar PROVE VentanasBien' /\ Muda' /\ moviendo' = FALSE
BY VentanasQuietas DEF FilaInv, W!ConmutarCancelar, W!Cerrada, W!SoltarSuperficies, Muda

\* With the row closed whatever else is in its place.
LEMMA ConFilaMuda ==
  ASSUME FilaInv, VentanasBien', Muda', moviendo' \in BOOLEAN, mods' \subseteq W!Hacia, clic' \in BOOLEAN,
          vista' \in BOOLEAN
  PROVE  FilaInv'
BY DEF FilaInv, CasosFila, Muda

\* A modifier is pressed or let go of.
LEMMA ModificadorP ==
  ASSUME FilaInv, NEW m \in W!Hacia, W!PulsarModificador(m) \/ W!SoltarModificador(m)
  PROVE  FilaInv'
<1>1. CASE W!PulsarModificador(m)
  <2>1. VentanasBien' /\ mapa' = mapa /\ fuera' = fuera
    BY <1>1, VentanasQuietas DEF FilaInv, W!PulsarModificador
  <2>2. CasosFila'
    BY <1>1 DEF FilaInv, CasosFila, W!PulsarModificador, W!fila, W!pintado
  <2>3. UNCHANGED <<W!fila, tarjetaW, realce, rotulo>> /\ vista' = vista /\ mods \subseteq mods'
    BY <1>1 DEF W!PulsarModificador, W!pintado
  <2>. QED BY <2>1, <2>2, <2>3, FilaQuieta
<1>2. CASE W!SoltarModificador(m)
  <2>1. mods' \subseteq W!Hacia /\ clic' \in BOOLEAN /\ vista' \in BOOLEAN /\ clic' = clic /\ vista' = vista
    BY <1>2 DEF FilaInv, CasosFila, W!SoltarModificador
  <2>2. CASE cW # W!Nada /\ ~pegado /\ modoW # "cerrado" /\ W!Tecla(modoW) \notin mods'
    <3>1. W!ConmutarFin(cW)
      BY <1>2, <2>2 DEF W!SoltarModificador
    <3>2. VentanasBien' /\ Muda' /\ moviendo' = FALSE
      BY <2>2, <3>1, ConmutarFinP
    <3>. QED BY <2>1, <3>2, ConFilaMuda
  <2>3. CASE ~(cW # W!Nada /\ ~pegado /\ modoW # "cerrado" /\ W!Tecla(modoW) \notin mods')
    <3>1. UNCHANGED <<W!ventanas, W!fila, W!pintado>>
      BY <1>2, <2>3 DEF W!SoltarModificador
    <3>2. VentanasBien' /\ mapa' = mapa /\ fuera' = fuera
      BY <3>1, VentanasQuietas DEF FilaInv
    <3>3. CasosFila'
      BY <2>1, <3>1 DEF FilaInv, CasosFila, W!fila, W!pintado
    <3>4. UNCHANGED <<W!fila, tarjetaW, realce, rotulo>>
      BY <3>1 DEF W!pintado
    <3>5. CASE cW = W!Nada
      BY <3>2, <3>3, <3>4, <3>5, FilaQuieta
    <3>6. CASE cW # W!Nada
      <4>1. Viva /\ Sujeta
        BY <3>6 DEF FilaInv, Muda
      <4>2. modoW # "cerrado"
        BY <4>1 DEF Viva, Elegible, TiposFila, ModosFila
      <4>3. Viva'
        BY <3>2, <3>4, <4>1 DEF Viva, W!fila
      <4>4. pegado \/ W!Tecla(modoW) \in mods'
        BY <2>3, <3>6, <4>2
      <4>5. Sujeta'
        BY <2>1, <3>4, <4>1, <4>4 DEF Sujeta, W!fila, FilaInv, CasosFila
      <4>. QED BY <3>2, <3>3, <4>3, <4>5 DEF FilaInv
    <3>. QED BY <3>5, <3>6
  <2>. QED BY <2>2, <2>3
<1>. QED BY <1>1, <1>2

\* A row in the hand of the one that holds it is painted anew.
LEMMA PintarP ==
  ASSUME Viva, NEW f, Elegible(f), f.modo = cW.modo, f.celdas = cW.celdas, W!Pintar(f)
  PROVE  Pintada(f, tarjetaW', realce', rotulo')
<1>1. f.modo \in ModosFila /\ Pintada(cW, tarjetaW, realce, rotulo) /\ tarjetaW # W!Nada
  BY DEF Viva, Elegible, TiposFila, Pintada, W!Nada
<1>2. CASE f.modo = "ventanas"
  <2>1. tarjetaW' = tarjetaW /\ realce' = f.elegida /\ rotulo' = f.celdas[f.elegida]
    BY <1>1, <1>2 DEF W!Pintar, W!Sincronizar
  <2>. QED BY <1>1, <1>2, <2>1 DEF Pintada
<1>3. CASE f.modo = "aplicaciones"
  <2>1. tarjetaW' = W!VistaIconos(f) /\ realce' = realce
    BY <1>3 DEF W!Pintar, W!Sincronizar, W!Vista
  <2>2. realce = 0
    BY <1>1, <1>3 DEF Pintada
  <2>. QED BY <1>3, <2>1, <2>2 DEF Pintada, W!VistaIconos
<1>. QED BY <1>1, <1>2, <1>3 DEF ModosFila

\* Another one is chosen in the same row.
LEMMA OtraElegida ==
  ASSUME FilaInv, cW # W!Nada, Elegible(cW'), cW'.modo = cW.modo, cW'.celdas = cW.celdas, W!Pintar(cW'),
         UNCHANGED <<W!ventanas, destinos, modoW, pegado, mods, clic, vista>>, moviendo' \in BOOLEAN
  PROVE  FilaInv'
<1>1. Viva /\ Sujeta /\ VentanasBien
  BY DEF FilaInv, Muda
<1>2. Pintada(cW', tarjetaW', realce', rotulo')
  BY <1>1, PintarP
<1>3. VentanasBien' /\ mapa' = mapa /\ fuera' = fuera
  BY <1>1, VentanasQuietas
<1>4. Viva'
  BY <1>1, <1>2, <1>3 DEF Viva
<1>5. Sujeta'
  BY <1>1 DEF Sujeta
<1>6. CasosFila'
  BY DEF FilaInv, CasosFila
<1>. QED BY <1>3, <1>4, <1>5, <1>6 DEF FilaInv

\* A Tab.
LEMMA TabularP ==
  ASSUME FilaInv, NEW m \in ModosFila, NEW pasos \in {-1, 1}, W!Tabular(m, pasos)
  PROVE  FilaInv'
<1>1. VentanasBien /\ VentanasBien' /\ mapa' = mapa /\ fuera' = fuera /\ uso \in Seq(Ventanas) /\ mapa \in Seq(Ventanas)
  BY VentanasQuietas DEF FilaInv, W!Tabular, VentanasBien, Espacio, Teclado
<1>2. mods = {W!Tecla(m)} /\ mods' = mods /\ clic' = clic /\ vista' = vista /\ UNCHANGED W!ventanas
  BY DEF W!Tabular
<1>3. CasosFila
  BY DEF FilaInv
<1>4. CASE vista
  <2>1. UNCHANGED <<W!fila, W!pintado>>
    BY <1>4 DEF W!Tabular, W!Conmutar
  <2>2. CasosFila'
    BY <1>2, <1>3, <2>1 DEF CasosFila, W!fila, W!pintado
  <2>. QED BY <1>1, <1>2, <2>1, <2>2, FilaQuieta DEF W!pintado
<1>5. CASE ~vista /\ cW # W!Nada /\ cW.modo = m
  <2>1. W!Mueve(pasos) /\ UNCHANGED <<destinos, modoW, pegado>>
    BY <1>5 DEF W!Tabular, W!Conmutar
  <2>2. Elegible(cW)
    BY <1>5 DEF FilaInv, Muda, Viva
  <2>3. cW' = W!Mover(cW, pasos)
    BY <2>1 DEF W!Mueve
  <2>4. Elegible(cW') /\ cW'.modo = cW.modo /\ cW'.celdas = cW.celdas
    BY <2>2, <2>3, DeMover
  <2>5. W!Pintar(cW') /\ moviendo' \in BOOLEAN
    BY <2>1 DEF W!Mueve
  <2>. QED BY <1>2, <1>5, <2>1, <2>4, <2>5, OtraElegida
<1>6. CASE ~vista /\ ~(cW # W!Nada /\ cW.modo = m)
  <2>1. W!Abrir(m, pasos) /\ pegado' = pegado
    BY <1>6 DEF W!Tabular, W!Conmutar
  <2>2. PICK nuevo : nuevo = W!Orden(W!TopeDe(m))
    OBVIOUS
  <2>3. nuevo \in Seq(Ventanas) /\ W!Range(nuevo) \subseteq W!Range(mapa)
    BY <1>1, <2>2, DeTope, DeOrden
  <2>4. CASE nuevo = <<>>
    <3>1. Muda' /\ moviendo' = FALSE
      BY <1>2, <1>3, <2>1, <2>2, <2>4 DEF W!Abrir, W!SoltarSuperficies, Muda, CasosFila
    <3>. QED BY <1>1, <1>2, <1>3, <3>1, ConFilaMuda DEF CasosFila
  <2>5. CASE nuevo # <<>>
    <3>1. PICK nueva : nueva = [clase |-> "fila", modo |-> m, celdas |-> nuevo, elegida |-> 1]
      OBVIOUS
    <3>2. 1 \in DOMAIN nuevo
      BY <2>3, <2>5
    <3>3. Elegible(nueva) /\ nueva.modo = m /\ nueva.celdas = nuevo
      BY <2>3, <3>1, <3>2 DEF Elegible, TiposFila
    <3>4. /\ cW' = W!Mover(nueva, pasos) /\ destinos' = nuevo /\ modoW' = m /\ tarjetaW' = W!Vista(cW')
          /\ realce' = (IF m = "ventanas" THEN cW'.elegida ELSE 0)
          /\ rotulo' = (IF m = "ventanas" THEN cW'.celdas[cW'.elegida] ELSE Nadie)
          /\ moviendo' = (pasos # 0)
      BY <2>1, <2>2, <2>5, <3>1 DEF W!Abrir
    <3>5. Elegible(cW') /\ cW'.modo = m /\ cW'.celdas = nuevo
      BY <3>3, <3>4, DeMover
    <3>6. Pintada(cW', tarjetaW', realce', rotulo')
      <4>1. CASE m = "ventanas"
        BY <3>4, <3>5, <4>1 DEF W!Vista, W!VistaVentanas, Pintada
      <4>2. CASE m = "aplicaciones"
        BY <3>4, <3>5, <4>2 DEF W!Vista, W!VistaIconos, Pintada
      <4>. QED BY <4>1, <4>2 DEF ModosFila
    <3>7. Viva'
      BY <1>1, <2>3, <3>4, <3>5, <3>6 DEF Viva
    <3>8. Sujeta'
      BY <1>2, <1>3, <1>6, <2>1, <3>4 DEF Sujeta, CasosFila
    <3>9. moviendo' \in BOOLEAN
      BY <3>4
    <3>10. CasosFila'
      BY <1>2, <1>3, <2>1, <3>9 DEF CasosFila
    <3>. QED BY <1>1, <3>7, <3>8, <3>10 DEF FilaInv
  <2>. QED BY <2>4, <2>5
<1>. QED BY <1>4, <1>5, <1>6

\* Escape, or the gesture ends.
LEMMA EscaparP == ASSUME FilaInv, W!Escapar \/ W!CerrarExposicion PROVE FilaInv'
<1>1. W!ConmutarCancelar /\ UNCHANGED <<mods, clic, vista>>
  BY DEF W!Escapar, W!CerrarExposicion
<1>2. VentanasBien' /\ Muda' /\ moviendo' = FALSE
  BY <1>1, CancelarP
<1>. QED BY <1>1, <1>2, ConFilaMuda DEF FilaInv, CasosFila

\* A press on a cell, or off them.
LEMMA PulsarBotonP == ASSUME FilaInv, NEW i, W!PulsarBoton(i) PROVE FilaInv'
<1>1. cW # W!Nada /\ clic' = TRUE /\ UNCHANGED <<mods, vista>>
  BY DEF W!PulsarBoton
<1>2. W!ConmutarCancelar \/ W!ConmutarFin([cW EXCEPT !.elegida = i])
  BY DEF W!PulsarBoton
<1>3. VentanasBien' /\ Muda' /\ moviendo' = FALSE
  BY <1>1, <1>2, CancelarP, ConmutarFinP
<1>. QED BY <1>1, <1>3, ConFilaMuda DEF FilaInv, CasosFila

\* The pointer goes over another cell.
LEMMA PunteroFilaP == ASSUME FilaInv, NEW i, W!MoverPuntero(i) PROVE FilaInv'
<1>1. /\ cW # W!Nada /\ i \in 1..Len(cW.celdas) /\ i # cW.elegida
      /\ UNCHANGED <<W!ventanas, destinos, modoW, pegado, mods, clic, vista>>
  BY DEF W!MoverPuntero
<1>2. cW' = [cW EXCEPT !.elegida = i] /\ W!Pintar(cW') /\ moviendo' = TRUE
  BY <1>1 DEF W!MoverPuntero, W!Elegir
<1>3. Elegible(cW)
  BY <1>1 DEF FilaInv, Muda, Viva
<1>4. PICK h : h = [cW EXCEPT !.elegida = i]
  OBVIOUS
<1>5. h \in TiposFila /\ h.elegida = i /\ h.modo = cW.modo /\ h.celdas = cW.celdas
  BY <1>1, <1>3, <1>4 DEF Elegible, TiposFila
<1>6. Elegible(h)
  BY <1>1, <1>3, <1>5 DEF Elegible, TiposFila
<1>. QED BY <1>1, <1>2, <1>4, <1>5, <1>6, OtraElegida

\* The button comes up; the overview opens or closes.
LEMMA SoltarBotonP == ASSUME FilaInv, W!SoltarBoton \/ W!AlternarVista PROVE FilaInv'
<1>1. VentanasBien' /\ mapa' = mapa /\ fuera' = fuera
  BY VentanasQuietas DEF FilaInv, W!SoltarBoton, W!AlternarVista
<1>2. UNCHANGED <<W!fila, tarjetaW, realce, rotulo, moviendo>> /\ mods' = mods
  BY DEF W!SoltarBoton, W!AlternarVista, W!pintado
<1>3. CasosFila'
  BY <1>2 DEF FilaInv, CasosFila, W!SoltarBoton, W!AlternarVista, W!fila
<1>. QED BY <1>1, <1>2, <1>3, FilaQuieta

\* A frame.
LEMMA FotogramaFilaP == ASSUME FilaInv, W!Fotograma PROVE FilaInv'
<1>1. VentanasBien' /\ mapa' = mapa /\ fuera' = fuera
  BY VentanasQuietas DEF FilaInv, W!Fotograma
<1>2. UNCHANGED <<W!fila, realce, rotulo, mods, clic, vista>> /\ moviendo' = FALSE
  BY DEF W!Fotograma
<1>3. CasosFila'
  BY <1>2 DEF FilaInv, CasosFila, W!fila
<1>4. CASE cW # W!Nada /\ cW.modo = "aplicaciones"
  <2>1. tarjetaW' = W!VistaIconos(cW) /\ Viva /\ Sujeta
    BY <1>4 DEF W!Fotograma, W!Vista, FilaInv, Muda
  <2>2. Pintada(cW, tarjetaW', realce, rotulo)
    BY <1>4, <2>1 DEF Viva, Pintada, W!VistaIconos
  <2>3. Viva'
    BY <1>1, <1>2, <2>1, <2>2 DEF Viva, W!fila
  <2>4. Sujeta'
    BY <1>2, <2>1 DEF Sujeta, W!fila
  <2>. QED BY <1>1, <1>3, <2>3, <2>4 DEF FilaInv
<1>5. CASE ~(cW # W!Nada /\ cW.modo = "aplicaciones")
  <2>1. tarjetaW' = tarjetaW
    BY <1>5 DEF W!Fotograma
  <2>. QED BY <1>1, <1>2, <1>3, <2>1, FilaQuieta
<1>. QED BY <1>4, <1>5

\* The focus goes to the top window of those that are left.
Hereda(q, u, f, v) == /\ f = IF q = <<>> THEN Nadie ELSE W!Last(q)
                      /\ v = IF q = <<>> THEN u ELSE W!Sobre(W!Last(q), u)
\* Whoever inherits is in sight and is the one used last.
LEMMA Heredero ==
  ASSUME NEW q \in Seq(Ventanas), NEW u \in Seq(Ventanas), NEW f, NEW v, NEW S, Hereda(q, u, f, v)
  PROVE  Teclado(q, S, v, f)
<1>1. CASE q = <<>>
  BY <1>1 DEF Hereda, Teclado
<1>2. CASE q # <<>>
  <2>1. f = W!Last(q) /\ v = W!Sobre(f, u)
    BY <1>2 DEF Hereda
  <2>2. f \in W!Range(q) /\ f \in Ventanas
    BY <1>2, <2>1, DeLaFilaUltimo
  <2>3. v \in Seq(Ventanas) /\ 1 \in DOMAIN v /\ v[1] = f
    BY <2>1, <2>2, DeSobre
  <2>. QED BY <2>2, <2>3 DEF Teclado
<1>. QED BY <1>1, <1>2

\* A window arrives.
LEMMA NuevaP == ASSUME FilaInv, NEW w \in Ventanas, W!Nueva(w) PROVE FilaInv'
<1>1. /\ mapa \in Seq(Ventanas) /\ uso \in Seq(Ventanas) /\ fuera \subseteq Ventanas
        /\ apartadas \subseteq fuera
      /\ W!Range(mapa) \cap fuera = {}
  BY DEF FilaInv, VentanasBien, Espacio, Teclado
<1>2. /\ mapa' = Append(mapa, w) /\ uso' = W!Sobre(w, uso) /\ foco' = w /\ w \notin fuera
      /\ fuera' = fuera /\ apartadas' = apartadas
      /\ UNCHANGED <<W!fila, mods, clic, vista, W!pintado>>
  BY DEF W!Nueva
<1>3. Append(mapa, w) \in Seq(Ventanas) /\ W!Range(Append(mapa, w)) = W!Range(mapa) \cup {w}
  BY <1>1, DeLaFilaMas
<1>4. W!Sobre(w, uso) \in Seq(Ventanas) /\ 1 \in DOMAIN W!Sobre(w, uso) /\ W!Sobre(w, uso)[1] = w
  BY <1>1, DeSobre
<1>5. VentanasBien'
  BY <1>1, <1>2, <1>3, <1>4 DEF VentanasBien, Espacio, Teclado
<1>6. CasosFila'
  BY <1>2 DEF FilaInv, CasosFila, W!fila, W!pintado
<1>7. W!Range(mapa) \cup fuera \subseteq W!Range(mapa') \cup fuera' /\ UNCHANGED <<W!fila, tarjetaW, realce, rotulo>>
        /\ mods \subseteq mods'
  BY <1>2, <1>3 DEF W!pintado
<1>. QED BY <1>2, <1>5, <1>6, <1>7, FilaQuieta

\* A client goes.
LEMMA CierraP == ASSUME FilaInv, NEW w \in Ventanas, W!Cierra(w) PROVE FilaInv'
<1>1. /\ mapa \in Seq(Ventanas) /\ uso \in Seq(Ventanas) /\ fuera \subseteq Ventanas
        /\ apartadas \subseteq fuera
      /\ W!Range(mapa) \cap fuera = {}
  BY DEF FilaInv, VentanasBien, Espacio, Teclado
<1>2. PICK q : q = W!Sin(mapa, w)
  OBVIOUS
<1>3. PICK u : u = W!Sin(uso, w)
  OBVIOUS
<1>4. q \in Seq(Ventanas) /\ u \in Seq(Ventanas) /\ W!Range(q) = W!Range(mapa) \ {w}
  BY <1>1, <1>2, <1>3, DeSin
<1>5. /\ mapa' = q /\ fuera' = fuera \ {w} /\ apartadas' = apartadas \ {w}
      /\ UNCHANGED <<mods, clic, vista>>
  BY <1>2 DEF W!Cierra
<1>6. Hereda(q, u, foco', uso')
  BY <1>2, <1>3 DEF W!Cierra, Hereda
<1>7. Teclado(mapa', fuera', uso', foco')
  BY <1>4, <1>5, <1>6, Heredero
<1>8. VentanasBien'
  BY <1>1, <1>4, <1>5, <1>7 DEF VentanasBien, Espacio
<1>9. CASE cW # W!Nada
  <2>1. Muda' /\ moviendo' = FALSE
    BY <1>9 DEF W!Cierra, W!Cerrada, W!SoltarSuperficies, Muda
  <2>. QED BY <1>5, <1>8, <2>1, ConFilaMuda DEF FilaInv, CasosFila
<1>10. CASE cW = W!Nada
  <2>1. UNCHANGED <<W!fila, W!pintado>>
    BY <1>10 DEF W!Cierra
  <2>2. CasosFila'
    BY <1>5, <2>1 DEF FilaInv, CasosFila, W!fila, W!pintado
  <2>3. UNCHANGED <<W!fila, tarjetaW, realce, rotulo>>
    BY <2>1 DEF W!pintado
  <2>. QED BY <1>8, <1>10, <2>2, <2>3, FilaQuieta
<1>. QED BY <1>9, <1>10

\* Windows leave the space, with the row closed or open.
LEMMA DesmapearP ==
  ASSUME FilaInv, NEW T, T \subseteq Ventanas, NEW aparta \in BOOLEAN, W!Desmapear(T, aparta),
         UNCHANGED <<W!fila, mods, clic, vista, W!pintado>>
  PROVE  FilaInv'
<1>1. /\ mapa \in Seq(Ventanas) /\ uso \in Seq(Ventanas) /\ fuera \subseteq Ventanas
        /\ apartadas \subseteq fuera
      /\ W!Range(mapa) \cap fuera = {}
  BY DEF FilaInv, VentanasBien, Espacio, Teclado
<1>2. PICK q : q = W!Elegidas(mapa, W!Range(mapa) \ T)
  OBVIOUS
<1>3. q \in Seq(Ventanas) /\ W!Range(q) = W!Range(mapa) \cap (W!Range(mapa) \ T)
  BY <1>1, <1>2, FiltraFila
<1>4. /\ mapa' = q /\ fuera' = fuera \cup T
      /\ apartadas' = IF aparta THEN apartadas \cup T ELSE apartadas
  BY <1>2 DEF W!Desmapear
<1>5. Hereda(q, uso, foco', uso')
  BY <1>2 DEF W!Desmapear, Hereda
<1>6. Teclado(mapa', fuera', uso', foco')
  BY <1>1, <1>3, <1>4, <1>5, Heredero
<1>7. VentanasBien'
  BY <1>1, <1>3, <1>4, <1>6 DEF VentanasBien, Espacio
<1>8. CasosFila'
  BY DEF FilaInv, CasosFila, W!fila, W!pintado
<1>9. UNCHANGED <<W!fila, tarjetaW, realce, rotulo>> /\ mods' = mods
  BY DEF W!pintado
<1>10. W!Range(mapa) \cup fuera \subseteq W!Range(mapa') \cup fuera'
  BY <1>3, <1>4
<1>. QED BY <1>7, <1>8, <1>9, <1>10, FilaQuieta

\* Windows are minimized or put aside.
LEMMA QuitarP == ASSUME FilaInv, W!Minimizar \/ W!Despejar PROVE FilaInv'
<1>1. mapa \in Seq(Ventanas)
  BY DEF FilaInv, VentanasBien, Espacio
<1>2. W!Range(mapa) \subseteq Ventanas
  BY <1>1 DEF W!Range
<1>3. CASE W!Minimizar
  <2>1. foco \in W!Range(mapa)
    BY <1>1, <1>3, Contiene DEF W!Minimizar
  <2>2. W!Desmapear({foco}, FALSE) /\ UNCHANGED <<W!fila, mods, clic, vista, W!pintado>>
    BY <1>3 DEF W!Minimizar
  <2>3. {foco} \subseteq Ventanas
    BY <1>2, <2>1
  <2>. QED BY <2>2, <2>3, DesmapearP
<1>4. CASE W!Despejar
  BY <1>2, <1>4, DesmapearP DEF W!Despejar
<1>. QED BY <1>3, <1>4

\* A set laid out in a sequence.
LEMMA EnFila ==
  ASSUME NEW S, S \subseteq Ventanas
  PROVE  W!SetToSeq(S) \in Seq(Ventanas) /\ W!Range(W!SetToSeq(S)) = S
<1>1. IsFiniteSet(S)
  BY VentanasAssumption, FS_Subset
<1>2. PICK k : k = Cardinality(S)
  OBVIOUS
<1>3. k \in Nat
  BY <1>1, <1>2, FS_CardinalityType
<1>4. \E f \in [1..k -> S] : \A a, b \in DOMAIN f : f[a] = f[b] => a = b
  <2>1. ExistsBijection(1..k, S)
    BY <1>1, <1>2, FS_CardinalityType
  <2>. QED BY <2>1 DEF ExistsBijection, Bijection, Injection, IsInjective
<1>40. W!Cardinality(S) = Cardinality(S)
  BY DEF W!Cardinality, Cardinality
<1>5. W!SetToSeq(S) \in [1..k -> S]
  BY <1>2, <1>4, <1>40 DEF W!SetToSeq, W!IsInjective
<1>6. PICK z : z = W!SetToSeq(S)
  OBVIOUS
<1>7. z \in [1..k -> S] /\ z \in Seq(S) /\ \A a, b \in 1..k : z[a] = z[b] => a = b
  <2>1. z \in [1..k -> S] /\ W!IsInjective(z)
    BY <1>2, <1>4, <1>40, <1>6 DEF W!SetToSeq, W!IsInjective
  <2>. QED BY <1>3, <2>1 DEF W!IsInjective
<1>8. z \in Seq(Ventanas) /\ W!Range(z) \subseteq S
  BY <1>7 DEF W!Range
<1>9. ASSUME NEW x \in S, x \notin W!Range(z) PROVE FALSE
  <2>1. z \in [1..k -> S \ {x}]
    BY <1>7, <1>9 DEF W!Range
  <2>2. IsFiniteSet(S \ {x}) /\ Cardinality(S \ {x}) = k - 1
    BY <1>1, <1>2, <1>9, FS_RemoveElement
  <2>3. IsFiniteSet(1..k) /\ Cardinality(1..k) = k
    <3>1. 1 \in Int /\ k \in Int
      BY <1>3
    <3>2. IsFiniteSet(1..k) /\ Cardinality(1..k) = IF 1 > k THEN 0 ELSE k - 1 + 1
      BY <3>1, FS_Interval
    <3>. QED BY <1>3, <3>2
  <2>4. \E a, b \in 1..k : a # b /\ z[a] = z[b]
    <3>1. Cardinality(S \ {x}) < Cardinality(1..k)
      BY <1>3, <2>2, <2>3
    <3>2. PICK A, B : A = 1..k /\ B = S \ {x}
      OBVIOUS
    <3>3. IsFiniteSet(A) /\ IsFiniteSet(B) /\ Cardinality(B) < Cardinality(A) /\ z \in [A -> B]
      BY <2>1, <2>2, <2>3, <3>1, <3>2
    <3>4. \E a, b \in A : a # b /\ z[a] = z[b]
      BY <3>3, FS_PigeonHole
    <3>. QED BY <3>2, <3>4
  <2>. QED BY <1>7, <2>4
<1>. QED BY <1>6, <1>8, <1>9

\* What the shown desktop gives back goes over the rest.
LEMMA Juntas ==
  ASSUME NEW m \in Seq(Ventanas), NEW z \in Seq(Ventanas)
  PROVE  m \o z \in Seq(Ventanas) /\ W!Range(m \o z) = W!Range(m) \cup W!Range(z)
<1>1. /\ m \o z \in Seq(Ventanas) /\ Len(m) \in Nat /\ Len(z) \in Nat /\ DOMAIN (m \o z) = 1..(Len(m) + Len(z))
      /\ DOMAIN m = 1..Len(m) /\ DOMAIN z = 1..Len(z)
      /\ \A k \in 1..(Len(m) + Len(z)) : (m \o z)[k] = IF k <= Len(m) THEN m[k] ELSE z[k - Len(m)]
  OBVIOUS
<1>2. ASSUME NEW k \in DOMAIN (m \o z) PROVE (m \o z)[k] \in W!Range(m) \cup W!Range(z)
  <2>1. k \in 1..(Len(m) + Len(z)) /\ (k <= Len(m) => k \in DOMAIN m)
          /\ (~(k <= Len(m)) => k - Len(m) \in DOMAIN z)
    BY <1>1, <1>2
  <2>. QED BY <1>1, <2>1 DEF W!Range
<1>3. ASSUME NEW k \in DOMAIN m PROVE k \in DOMAIN (m \o z) /\ (m \o z)[k] = m[k]
  BY <1>1, <1>3
<1>4. ASSUME NEW k \in DOMAIN z PROVE k + Len(m) \in DOMAIN (m \o z) /\ (m \o z)[k + Len(m)] = z[k]
  BY <1>1, <1>4
<1>5. W!Range(m \o z) \subseteq W!Range(m) \cup W!Range(z)
  BY <1>2 DEF W!Range
<1>6. W!Range(m) \subseteq W!Range(m \o z) /\ W!Range(z) \subseteq W!Range(m \o z)
  BY <1>3, <1>4 DEF W!Range
<1>. QED BY <1>1, <1>5, <1>6

\* What the shown desktop hides comes back: whoever was alive is, and the keyboard is in the top.
LEMMA RecuperarP ==
  ASSUME VentanasBien, W!Recuperar
  PROVE  VentanasBien' /\ W!Range(mapa) \cup fuera \subseteq W!Range(mapa') \cup fuera'
<1>1. /\ mapa \in Seq(Ventanas) /\ uso \in Seq(Ventanas) /\ fuera \subseteq Ventanas
        /\ apartadas \subseteq fuera
      /\ W!Range(mapa) \cap fuera = {} /\ Teclado(mapa, fuera, uso, foco)
  BY DEF VentanasBien, Espacio, Teclado
<1>2. CASE apartadas = {}
  <2>1. UNCHANGED W!ventanas
    BY <1>2 DEF W!Recuperar
  <2>. QED BY <2>1, VentanasQuietas
<1>3. CASE apartadas # {}
  <2>1. PICK z : z = W!SetToSeq(apartadas)
    OBVIOUS
  <2>2. z \in Seq(Ventanas) /\ W!Range(z) = apartadas
    <3>1. apartadas \subseteq Ventanas
      BY <1>1
    <3>. QED BY <2>1, <3>1, EnFila
  <2>3. PICK q : q = mapa \o z
    OBVIOUS
  <2>4. q \in Seq(Ventanas) /\ W!Range(q) = W!Range(mapa) \cup apartadas
    BY <1>1, <2>2, <2>3, Juntas
  <2>5. /\ mapa' = q /\ fuera' = fuera \ apartadas /\ apartadas' = {} /\ foco' = W!Last(q)
        /\ uso' = W!Sobre(W!Last(q), uso)
    BY <1>3, <2>1, <2>3 DEF W!Recuperar
  <2>6. q # <<>>
    BY <1>3, <2>4 DEF W!Range
  <2>7. Hereda(q, uso, foco', uso')
    BY <2>5, <2>6 DEF Hereda
  <2>8. Teclado(mapa', fuera', uso', foco')
    BY <1>1, <2>4, <2>5, <2>7, Heredero
  <2>. QED BY <1>1, <2>4, <2>5, <2>8 DEF VentanasBien, Espacio
<1>. QED BY <1>2, <1>3

\* Show desktop is undone.
LEMMA RecobrarP == ASSUME FilaInv, W!Recobrar PROVE FilaInv'
<1>1. W!Recuperar /\ UNCHANGED <<W!fila, mods, clic, vista, W!pintado>>
  BY DEF W!Recobrar
<1>2. VentanasBien' /\ W!Range(mapa) \cup fuera \subseteq W!Range(mapa') \cup fuera'
  BY <1>1, RecuperarP DEF FilaInv
<1>3. CasosFila'
  BY <1>1 DEF FilaInv, CasosFila, W!fila, W!pintado
<1>4. UNCHANGED <<W!fila, tarjetaW, realce, rotulo>> /\ mods' = mods
  BY <1>1 DEF W!pintado
<1>. QED BY <1>2, <1>3, <1>4, FilaQuieta

\* Three fingers up.
LEMMA ExponerP == ASSUME FilaInv, W!Exponer PROVE FilaInv'
<1>1. cW = W!Nada /\ W!Recuperar /\ UNCHANGED <<mods, clic, vista>>
  BY DEF W!Exponer
<1>2. VentanasBien'
  BY <1>1, RecuperarP DEF FilaInv
<1>3. mapa' \in Seq(Ventanas) /\ uso' \in Seq(Ventanas)
  BY <1>2 DEF VentanasBien, Espacio, Teclado
<1>4. Muda
  BY <1>1 DEF FilaInv, Viva, Elegible, TiposFila, W!Nada
<1>5. PICK nuevo : nuevo = W!Usadas(mapa', uso')
  OBVIOUS
<1>6. nuevo \in Seq(Ventanas) /\ W!Range(nuevo) \subseteq W!Range(mapa')
  BY <1>3, <1>5, DeUsadas
<1>7. CASE vista \/ nuevo = <<>>
  <2>1. pegado' = FALSE /\ UNCHANGED <<cW, destinos, modoW, W!pintado>>
    BY <1>5, <1>7 DEF W!Exponer
  <2>2. Muda' /\ moviendo' = moviendo
    BY <1>4, <2>1 DEF Muda, W!pintado
  <2>. QED BY <1>1, <1>2, <2>2, ConFilaMuda DEF FilaInv, CasosFila
<1>8. CASE ~(vista \/ nuevo = <<>>)
  <2>1. /\ cW' = [clase |-> "fila", modo |-> "ventanas", celdas |-> nuevo, elegida |-> 1]
        /\ destinos' = nuevo /\ modoW' = "ventanas" /\ pegado' = TRUE
        /\ tarjetaW' = W!VistaVentanas(cW') /\ realce' = 1 /\ rotulo' = nuevo[1] /\ moviendo' = FALSE
    BY <1>5, <1>8 DEF W!Exponer
  <2>2. 1 \in DOMAIN nuevo
    BY <1>6, <1>8
  <2>3. Elegible(cW') /\ cW'.modo = "ventanas" /\ cW'.celdas = nuevo /\ cW'.elegida = 1
    BY <1>6, <2>1, <2>2 DEF Elegible, TiposFila, ModosFila
  <2>4. Pintada(cW', tarjetaW', realce', rotulo')
    BY <2>1, <2>3 DEF W!VistaVentanas, Pintada
  <2>5. Viva'
    BY <1>6, <2>1, <2>3, <2>4 DEF Viva
  <2>6. Sujeta'
    BY <2>1 DEF Sujeta
  <2>7. CasosFila'
    BY <1>1, <2>1 DEF FilaInv, CasosFila
  <2>. QED BY <1>2, <2>5, <2>6, <2>7 DEF FilaInv
<1>. QED BY <1>7, <1>8

\* How much has been done is a number.
CuentaFila == actosW \in Nat
\* What is done is counted one by one.
LEMMA CuentaP ==
  ASSUME CuentaFila, W!Next \/ UNCHANGED W!vars
  PROVE  CuentaFila' /\ (actosW' = actosW \/ actosW' = actosW + 1)
<1>1. actosW' = actosW \/ actosW' = actosW + 1
  BY DEF W!Next, W!vars, W!Acto, W!PulsarModificador, W!SoltarModificador, W!Tabular, W!Escapar, W!Exponer,
     W!CerrarExposicion,
         W!PulsarBoton, W!MoverPuntero, W!SoltarBoton, W!Fotograma, W!Nueva, W!Cierra, W!Minimizar, W!Despejar,
     W!Recobrar, W!AlternarVista
<1>. QED BY <1>1 DEF CuentaFila

\* The row is closed at the start.
LEMMA ArranqueP == W!Init => FilaInv /\ CuentaFila
<1>. SUFFICES ASSUME W!Init PROVE FilaInv /\ CuentaFila
  OBVIOUS
<1>1. PICK s : s = W!SetToSeq(Ventanas)
  OBVIOUS
<1>2. s \in Seq(Ventanas) /\ Len(s) \in Nat /\ DOMAIN s = 1..Len(s)
  BY <1>1, EnFila
<1>3. PICK n \in 1..Len(s) : mapa = SubSeq(s, 1, n) /\ uso = <<s[n]>> /\ foco = s[n]
  BY <1>1 DEF W!Init
<1>4. /\ mapa \in Seq(Ventanas) /\ DOMAIN mapa = 1..n /\ mapa[n] = s[n] /\ s[n] \in Ventanas /\ n \in 1..n
  BY <1>2, <1>3
<1>5. foco \in W!Range(mapa) /\ foco \in Ventanas
  BY <1>3, <1>4 DEF W!Range
<1>6. uso \in Seq(Ventanas) /\ 1 \in DOMAIN uso /\ uso[1] = foco
  BY <1>3, <1>4
<1>7. fuera = {} /\ apartadas = {}
  BY DEF W!Init
<1>8. VentanasBien
  BY <1>4, <1>5, <1>6, <1>7 DEF VentanasBien, Espacio, Teclado
<1>9. Muda /\ CasosFila /\ CuentaFila
  BY DEF W!Init, Muda, CasosFila, CuentaFila
<1>. QED BY <1>8, <1>9 DEF FilaInv

\* Every step keeps it.
LEMMA FilaPaso ==
  ASSUME FilaInv, W!Next \/ UNCHANGED W!vars
  PROVE  FilaInv'
<1>1. ASSUME NEW m \in W!Hacia, W!PulsarModificador(m) \/ W!SoltarModificador(m) PROVE FilaInv'
  BY <1>1, ModificadorP
<1>2. ASSUME NEW m \in ModosFila, NEW pasos \in {-1, 1}, W!Tabular(m, pasos) PROVE FilaInv'
  BY <1>2, TabularP
<1>3. CASE W!Escapar \/ W!CerrarExposicion
  BY <1>3, EscaparP
<1>4. CASE W!Exponer
  BY <1>4, ExponerP
<1>5. ASSUME NEW i, W!PulsarBoton(i) \/ W!MoverPuntero(i) PROVE FilaInv'
  BY <1>5, PulsarBotonP, PunteroFilaP
<1>6. CASE W!SoltarBoton \/ W!AlternarVista
  BY <1>6, SoltarBotonP
<1>7. CASE W!Fotograma
  BY <1>7, FotogramaFilaP
<1>8. ASSUME NEW w \in Ventanas, W!Nueva(w) \/ W!Cierra(w) PROVE FilaInv'
  BY <1>8, NuevaP, CierraP
<1>9. CASE W!Minimizar \/ W!Despejar \/ W!Recobrar
  BY <1>9, QuitarP, RecobrarP
<1>10. CASE UNCHANGED W!vars
  <2>1. VentanasBien' /\ mapa' = mapa /\ fuera' = fuera
    BY <1>10, VentanasQuietas DEF FilaInv, W!vars
  <2>2. UNCHANGED <<W!fila, tarjetaW, realce, rotulo>> /\ mods' = mods
    BY <1>10 DEF W!vars, W!pintado
  <2>3. CasosFila'
    BY <1>10 DEF FilaInv, CasosFila, W!vars, W!fila, W!pintado
  <2>. QED BY <2>1, <2>2, <2>3, FilaQuieta
<1>. QED BY <1>1, <1>2, <1>3, <1>4, <1>5, <1>6, <1>7, <1>8, <1>9, <1>10 DEF W!Next, ModosFila

\* The invariant says what the property asks.
LEMMA FilaBasta == FilaInv => W!TypeOK /\ W!ConmutadorEnOrden
<1>. SUFFICES ASSUME FilaInv PROVE W!TypeOK /\ W!ConmutadorEnOrden
  OBVIOUS
<1>0. W!TypeOK
  <2>1. CasosFila /\ Espacio(mapa, fuera, apartadas) /\ Teclado(mapa, fuera, uso, foco)
    BY DEF FilaInv, VentanasBien
  <2>2. W!Range(mapa) \subseteq Ventanas /\ W!Range(uso) \subseteq Ventanas
    BY <2>1 DEF Espacio, Teclado, W!Range
  <2>3. modoW \in {"cerrado", "aplicaciones", "ventanas"}
    BY DEF FilaInv, Muda, Viva, Elegible, TiposFila, ModosFila
  <2>4. pegado \in BOOLEAN /\ clic \in BOOLEAN /\ vista \in BOOLEAN /\ moviendo \in BOOLEAN
    BY <2>1 DEF CasosFila
  <2>5. {pegado, clic, vista, moviendo} \subseteq BOOLEAN
    BY <2>4, Zenon
  <2>. QED BY <2>1, <2>2, <2>3, <2>5 DEF Espacio, Teclado, CasosFila, W!TypeOK
<1>1. mapa \in Seq(Ventanas) /\ Teclado(mapa, fuera, uso, foco)
  BY DEF FilaInv, VentanasBien, Espacio
<1>2. W!FocoVivo
  BY <1>1, Contiene DEF Teclado, W!FocoVivo
<1>3. CASE Muda
  <2>1. W!FilaFiel
    BY <1>3 DEF Muda, W!FilaFiel
  <2>2. W!SeResuelveAlSoltar
    BY <1>3 DEF Muda, W!SeResuelveAlSoltar
  <2>. QED BY <1>0, <1>2, <2>1, <2>2, EnteraLaRejilla DEF W!ConmutadorEnOrden
<1>4. CASE Viva /\ Sujeta
  <2>1. cW # W!Nada /\ modoW # "cerrado" /\ tarjetaW # W!Nada /\ modoW \in ModosFila
    BY <1>4 DEF Viva, Elegible, TiposFila, Pintada, W!Nada, ModosFila
  <2>2. destinos # <<>>
    BY <1>4 DEF Viva, Elegible
  <2>3. /\ modoW = cW.modo /\ cW.celdas = destinos /\ cW.elegida \in DOMAIN destinos
        /\ W!Range(destinos) \subseteq W!Range(mapa) \cup fuera /\ Pintada(cW, tarjetaW, realce, rotulo)
    BY <1>4 DEF Viva, Elegible
  <2>4. tarjetaW.celdas = destinos /\ tarjetaW.modo = modoW
    BY <2>3 DEF Pintada
  <2>5. modoW = "ventanas" => realce = cW.elegida /\ rotulo = destinos[cW.elegida]
    BY <2>3 DEF Pintada
  <2>6. modoW # "ventanas" => tarjetaW.marca = cW.elegida /\ tarjetaW.nombre = destinos[cW.elegida]
          /\ realce = 0
    BY <2>1, <2>3 DEF Pintada, ModosFila
  <2>7. W!FilaFiel
    BY <2>1, <2>2, <2>3, <2>4, <2>5, <2>6 DEF W!FilaFiel
  <2>8. W!SeResuelveAlSoltar
    BY <1>4 DEF Sujeta, W!SeResuelveAlSoltar, FilaInv, CasosFila
  <2>. QED BY <1>0, <1>2, <2>7, <2>8, EnteraLaRejilla DEF W!ConmutadorEnOrden
<1>. QED BY <1>3, <1>4 DEF FilaInv

\* One Tab between two windows: on letting go it goes to the one used before, and the one
\* left is the one used before from then on.
LEMMA DeVuelta ==
  ASSUME FilaInv, CuentaFila, W!Next \/ UNCHANGED W!vars
  PROVE  W!PasoDeVuelta
<1>. SUFFICES ASSUME cW # W!Nada, cW' = W!Nada, cW.elegida = 2, foco' # foco, actosW' = actosW,
        cW.celdas[1] = foco, clic' = clic
              PROVE  foco' = cW.celdas[2] /\ uso'[2] = foco
  BY DEF W!PasoDeVuelta
<1>1. Viva /\ VentanasBien /\ clic \in BOOLEAN
  BY DEF FilaInv, Muda, CasosFila
<1>2. ~W!Acto
  BY DEF W!Acto, CuentaFila
<1>3. PICK m \in W!Hacia : W!SoltarModificador(m)
  <2>1. ASSUME NEW i, W!PulsarBoton(i) PROVE FALSE
    BY <2>1 DEF W!PulsarBoton
  <2>2. ~W!Escapar /\ ~W!CerrarExposicion /\ ~W!Fotograma /\ ~W!SoltarBoton /\ ~UNCHANGED W!vars
    BY DEF W!Escapar, W!CerrarExposicion, W!ConmutarCancelar, W!ventanas, W!fila, W!Fotograma, W!SoltarBoton,
       W!vars
  <2>. QED BY <1>2, <2>1, <2>2 DEF W!Next, W!PulsarModificador, W!Tabular, W!Exponer, W!MoverPuntero,
          W!Nueva, W!Cierra, W!Minimizar,
                                   W!Despejar, W!Recobrar, W!AlternarVista
<1>4. W!ConmutarFin(cW)
  BY <1>3 DEF W!SoltarModificador, W!ventanas
<1>5. cW.elegida \in DOMAIN destinos /\ W!Enfocar(destinos[cW.elegida])
  BY <1>4 DEF W!ConmutarFin, W!ventanas
<1>6. cW.celdas = destinos /\ 2 \in DOMAIN destinos /\ W!Range(destinos) \subseteq W!Range(mapa) \cup fuera
        /\ destinos \in Seq(Ventanas)
  BY <1>1, <1>5 DEF Viva, Elegible, TiposFila
<1>7. PICK w : w = destinos[2]
  OBVIOUS
<1>8. w \in Ventanas /\ foco' = w /\ uso' = W!Sobre(w, uso) /\ 1 \in DOMAIN destinos
  BY <1>5, <1>6, <1>7 DEF W!Enfocar
<1>9. foco # Nadie
  BY <1>6, <1>8, VentanasAssumption
<1>10. uso \in Seq(Ventanas) /\ 1 \in DOMAIN uso /\ uso[1] = foco
  BY <1>1, <1>9 DEF VentanasBien, Teclado
<1>11. W!Sobre(w, uso)[2] = uso[1]
  BY <1>8, <1>10, DeSobre
<1>. QED BY <1>6, <1>7, <1>8, <1>10, <1>11

-----------------------------------------------------------------------------
\* A step of the shell is, for the notifications, one of theirs or none.
LEMMA AvisosAparte ==
  ASSUME [Next]_<<parte, deLaunchpad, deNotifications, deCards, deControlCenter, deSwitcher, deSnip,
          deLockView>>,
         parte' = "notifications"
  PROVE  parte = "notifications" /\ (N!Next \/ UNCHANGED N!vars)
<1>1. UNCHANGED <<parte, deNotifications>> => parte' = parte /\ UNCHANGED N!vars
  BY DEF deNotifications, N!vars
<1>2. Next => parte' = parte /\ (parte = "notifications" => N!Next)
  BY DEF Next, EnLaunchpad, EnNotifications, EnCards, EnControlCenter, EnSwitcher, EnSnip, EnLockView, N!Next
<1>. QED BY <1>1, <1>2

\* For the switcher.
LEMMA FilaAparte ==
  ASSUME [Next]_<<parte, deLaunchpad, deNotifications, deCards, deControlCenter, deSwitcher, deSnip,
          deLockView>>,
         parte' = "switcher"
  PROVE  parte = "switcher" /\ (W!Next \/ UNCHANGED W!vars)
<1>1. UNCHANGED <<parte, deSwitcher>> => parte' = parte /\ UNCHANGED W!vars
  BY DEF deSwitcher, W!vars, W!ventanas, W!fila, W!pintado
<1>2. Next => parte' = parte /\ (parte = "switcher" => W!Next)
  BY DEF Next, EnLaunchpad, EnNotifications, EnCards, EnControlCenter, EnSwitcher, EnSnip, EnLockView, W!Next
<1>. QED BY <1>1, <1>2

\* And for the capture.
LEMMA CapturaAparte ==
  ASSUME [Next]_<<parte, deLaunchpad, deNotifications, deCards, deControlCenter, deSwitcher, deSnip,
          deLockView>>,
         parte' = "snip"
  PROVE  parte = "snip" /\ (Sn!Next \/ UNCHANGED Sn!vars)
<1>1. UNCHANGED <<parte, deSnip>> => parte' = parte /\ UNCHANGED Sn!vars
  BY DEF deSnip, Sn!vars, Sn!capa, Sn!vista, Sn!disco, Sn!cuenta
<1>2. Next => parte' = parte /\ (parte = "snip" => Sn!Next)
  BY DEF Next, EnLaunchpad, EnNotifications, EnCards, EnControlCenter, EnSwitcher, EnSnip, EnLockView, Sn!Next
<1>. QED BY <1>1, <1>2


\* What is known of the notifications.
AvisosConInv == parte = "notifications" => AvisosInv

\* What is shown of the notifications and what is kept agree: with any identifiers, any queue, any
\* number of toasts in sight and any number of messages on the bus, nobody is twice in the queue or
\* past its end, an open card shows the queue, the toasts are no more than those in sight and none
\* is left leaving on a still screen.
THEOREM AvisosBien == Spec => []AvisosFieles
<1>1. Init => AvisosConInv
  BY AvisosInicial DEF Init, AvisosConInv
<1>2. AvisosConInv /\ [Next]_<<parte, deLaunchpad, deNotifications, deCards, deControlCenter, deSwitcher,
        deSnip, deLockView>>
        => AvisosConInv'
  BY AvisosPaso, AvisosAparte DEF AvisosConInv
<1>3. AvisosConInv => AvisosFieles
  BY AvisosBasta DEF AvisosConInv, AvisosFieles
<1>. QED BY <1>1, <1>2, <1>3, PTL DEF Spec

\* What is known of the capture.
CapturaConInv == parte = "snip" => CapturaInv

\* What is marked is what is captured, and what is painted and the cursor are of what is marked: on
\* any screen, with any layout of the bar and any points of the pointer, off the screen too, and any
\* number of presses and photographs, if a logical pixel is a whole number of physical ones.
THEOREM CapturaBien == ASSUME EscalaEntera PROVE Spec => []CapturaEnOrden
<1>1. Init => CapturaConInv
  BY CapturaInicial DEF Init, CapturaConInv
<1>2. CapturaConInv /\ [Next]_<<parte, deLaunchpad, deNotifications, deCards, deControlCenter, deSwitcher,
        deSnip, deLockView>>
        => CapturaConInv'
  BY CapturaPaso, CapturaAparte DEF CapturaConInv
<1>3. CapturaConInv => CapturaEnOrden
  BY CapturaBasta DEF CapturaConInv, CapturaEnOrden
<1>. QED BY <1>1, <1>2, <1>3, PTL DEF Spec

\* What is known of the switcher.
FilaConInv == parte = "switcher" => FilaInv /\ CuentaFila

\* The row of the shell, the windows the compositor would focus and what is painted are one, and
\* each of them lives; a row that is not a gesture's lives as long as its key is held; the keyboard
\* is in a window that lives, the one used last; and the grid fits the screen with each thumbnail
\* in its cell: with any windows, any number of acts and any screens of at least 560 by 388, and
\* whatever is minimized, put aside, opened or shown over the row meanwhile.
THEOREM ConmutadorBien == Spec => []ConmutadorEnOrden
<1>1. Init => FilaConInv
  BY ArranqueP DEF Init, FilaConInv
<1>2. FilaConInv /\ [Next]_<<parte, deLaunchpad, deNotifications, deCards, deControlCenter, deSwitcher,
        deSnip, deLockView>>
        => FilaConInv'
  BY FilaPaso, CuentaP, FilaAparte DEF FilaConInv
<1>3. FilaConInv => ConmutadorEnOrden
  BY FilaBasta DEF FilaConInv, ConmutadorEnOrden
<1>. QED BY <1>1, <1>2, <1>3, PTL DEF Spec

\* The machine of a behaviour never changes, for the three of the steps below.
LEMMA SigueSiendo ==
  ASSUME [Next]_<<parte, deLaunchpad, deNotifications, deCards, deControlCenter, deSwitcher, deSnip,
          deLockView>>
  PROVE  /\ parte = "notifications" => N!Next \/ UNCHANGED N!vars
         /\ parte = "switcher" => W!Next \/ UNCHANGED W!vars
         /\ parte = "lockview" => V!Next \/ UNCHANGED V!vars
<1>1. parte' = parte
  BY DEF Next, EnLaunchpad, EnNotifications, EnCards, EnControlCenter, EnSwitcher, EnSnip, EnLockView
<1>2. parte = "notifications" => N!Next \/ UNCHANGED N!vars
  BY <1>1, AvisosAparte
<1>3. parte = "switcher" => W!Next \/ UNCHANGED W!vars
  BY <1>1, FilaAparte
<1>4. parte = "lockview" => V!Next \/ UNCHANGED V!vars
  BY <1>1, HojaAparte
<1>. QED BY <1>2, <1>3, <1>4

\* What is known of the three.
PasosInv == AvisosConInv /\ FilaConInv /\ MenuInv

\* Nobody leaves the queue of the notifications without its application being told, or pushed off
\* the end; one Tab between two windows goes to the one used before, and leaves this one to be
\* the one used before; the lock does what its image offered.  Under what is expected of the lock,
\* its three hypotheses.
THEOREM PasosBien ==
  ASSUME Tardon = FALSE, Deprisa = FALSE, ConfigEnMenu = FALSE
  PROVE  Spec => PasosDelShell
<1>1. Init => PasosInv
  <2>1. Init => MenuInv
    BY InitTipos, InitAlDia, InitMenu DEF Init, MenuInv
  <2>2. Init => AvisosConInv /\ FilaConInv
    BY AvisosInicial, ArranqueP DEF Init, AvisosConInv, FilaConInv
  <2>. QED BY <2>1, <2>2 DEF PasosInv
<1>2. PasosInv /\ [Next]_<<parte, deLaunchpad, deNotifications, deCards, deControlCenter, deSwitcher, deSnip,
        deLockView>>
        => PasosInv'
  <2>. SUFFICES ASSUME PasosInv, [Next]_<<parte, deLaunchpad, deNotifications, deCards, deControlCenter,
          deSwitcher, deSnip, deLockView>> PROVE PasosInv'
    OBVIOUS
  <2>1. MenuInv'
    BY NextTipos, NextAlDia, NextVelo, NextMenu, HojaAparte DEF PasosInv, MenuInv
  <2>2. AvisosConInv'
    BY AvisosPaso, AvisosAparte DEF PasosInv, AvisosConInv
  <2>3. FilaConInv'
    BY FilaPaso, CuentaP, FilaAparte DEF PasosInv, FilaConInv
  <2>. QED BY <2>1, <2>2, <2>3 DEF PasosInv
<1>3. PasosInv /\ [Next]_<<parte, deLaunchpad, deNotifications, deCards, deControlCenter, deSwitcher, deSnip,
        deLockView>>
        => [/\ parte = "notifications" => N!PasoContado
            /\ parte = "switcher" => W!PasoDeVuelta
            /\ parte = "lockview" => V!PasoBloqueo]_<<parte, deNotifications, deSwitcher, deLockView>>
  <2>. SUFFICES ASSUME PasosInv, [Next]_<<parte, deLaunchpad, deNotifications, deCards, deControlCenter,
          deSwitcher, deSnip, deLockView>>
                PROVE  /\ parte = "notifications" => N!PasoContado
                       /\ parte = "switcher" => W!PasoDeVuelta
                       /\ parte = "lockview" => V!PasoBloqueo
    OBVIOUS
  <2>1. parte = "notifications" => N!PasoContado
    BY PasoDeAvisos, SigueSiendo DEF PasosInv, AvisosConInv
  <2>2. parte = "switcher" => W!PasoDeVuelta
    BY DeVuelta, SigueSiendo DEF PasosInv, FilaConInv
  <2>3. parte = "lockview" => V!PasoBloqueo
    BY PasoDelBloqueo, SigueSiendo DEF PasosInv, MenuInv
  <2>. QED BY <2>1, <2>2, <2>3
<1>. QED BY <1>1, <1>2, <1>3, PTL DEF Spec, PasosDelShell
==============================================================================
