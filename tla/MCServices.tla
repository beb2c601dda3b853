------------------------------ MODULE MCServices ------------------------------
(***************************************************************************)
(* The login screen, the daemons and the settings, side by side as in      *)
(* MCSeat.                                                                 *)
(***************************************************************************)
EXTENDS Integers, Sequences, FiniteSets, TLC, FiniteSetTheorems, TLAPS

\* Assumptions about the surroundings: see the modules.
CONSTANTS FondosRotos, CancelaAvisos, Tarde, DosEscriben, Lento, Cruzan, Deslizador, Mudo,
          Solapan, LeeEnFoto, Depende, Lenta

CONSTANT Dia    \* the minutes of a day, for the night light and the theme

\* Of the login screen: the accounts of its list, those that may be typed, what PAM may say and
\* the bounds; of its card of networks: those in the air, those without a key and the bounds.
CONSTANTS Personas, Otras, Conversaciones, MaxCola, MaxFallosG,
          Redes, Abiertas, MaxTareas, MaxFallosGW

\* Of the brightness: the levels, the steps and what comes from outside, see the module.
CONSTANTS Suelo, Tope, Maximo, Umbral, Tolerancia, DesvioMax, Reparto, Tramo, Curva, Teclas,
          Automaticos, Cargas, MaxSucesos

\* Of the activities: the applications, in their order, the tracks of the player, those that
\* may come to the front, the configurations and the bounds.
CONSTANTS Clase, Serie, Pistas, ConPortada, Delante, Configs, MaxConexiones, MaxBus

\* Two accounts in the list.
MCPersonas == <<"eve", "otra">>
\* PAM as the lock's file sets it up, the reader's notice and then the password, and
\* with a notice after the password.
MCConversaciones == {<<"secreta", "ok">>, <<"secreta", "no">>, <<"ok">>, <<"no">>, <<"aviso", "ok">>,
                 <<"aviso", "no">>, <<"aviso", "secreta", "ok">>, <<"secreta", "aviso", "no">>}

\* What the earbuds may send: frames of both kinds, one whose data holds the byte that
\* begins a frame, one of size zero, noise, and a frame cut short.
Piezas == {<<8, 3, 0, 1, 0, 0, 5>>, <<8, 0, 1, 2, 8, 0, 0, 5>>, <<9, 0, 3, 3, 0, 0, 6>>,
           <<9, 0, 0, 4>>, <<1, 2>>, <<8, 0, 0, 7>>}
Cortadas == {<<>>, <<8, 0, 2, 1, 1>>, <<9, 0>>}
MCFlujos == {p \o q \o r \o s : p \in Piezas, q \in Piezas, r \in Piezas, s \in Cortadas}

\* A settings file nobody has written, and one written by hand with a comment, a key
\* twice, a number out of range and a mistake; what the settings application asks.
Linea(k, v) == [clave |-> k, valor |-> v]
AMano == <<Linea("#", "nota"), Linea("luz_nocturna", "si"), Linea("dock_tamano", "alto"),
           Linea("bloqueo_inactividad", "alto"), Linea("luz_nocturna", "programada"),
           Linea("fondo", "uno"), Linea("dock_esquiva", "quiza")>>
MCPeticiones == {[luz_nocturna |-> "si"], [dock_esquiva |-> "si", sonido_volumen |-> "no"],
                 [fondo |-> "", fondo_claro |-> "otro"],
                 [dock_tamano |-> "minimo", bloqueo_inactividad |-> "maximo"],
                 [dock_tamano |-> "alto", luz_nocturna |-> "programada"]}

\* The night light off, at two temperatures, across midnight and for a minute.
Luz(que, grados, de, a) == [modo |-> que, temperatura |-> grados, desde |-> de, hasta |-> a]
Luces == {Luz("apagada", 2, 4, 1), Luz("encendida", 4, 4, 1), Luz("programada", 2, 4, 1),
          Luz("programada", 2, 2, 3)}

\* A dark and a bright room, and the brightness key up and down.
MCCurva == 0 :> 2 @@ 1 :> 6
MCTeclas == {1, -1}

\* A player, that may come back, and a recorder; the island may be turned off.
MCClase == [player |-> "player", recorder |-> "recorder"]
MCSerie == <<"player", "recorder">>
MCConexiones == [player |-> 2, recorder |-> 1]
MCConfigs == {[habilitadas |-> h, siempre |-> FALSE] : h \in BOOLEAN}

VARIABLE parte        \* the machine this behaviour is of
nada == "-"

\* Greeter.
VARIABLES estadoG, usuario, manual, senalada, respuesta, respondido, panelG, colaG, llegadas,
          conv, sesion, fallosG, fondo
G == INSTANCE Greeter WITH
       MaxFallos <- MaxFallosG, estado <- estadoG, panel <- panelG, cola <- colaG, fallos <- fallosG
deGreeter == <<estadoG, usuario, manual, senalada, respuesta, respondido, panelG, colaG,
    llegadas, conv, sesion, fallosG, fondo>>
SinGreeter == estadoG = nada /\ usuario = nada /\ manual = nada /\ senalada = nada /\
    respuesta = nada /\ respondido = nada /\ panelG = nada /\ colaG = nada /\ llegadas = nada /\
    conv = nada /\ sesion = nada /\ fallosG = nada /\ fondo = nada

\* GreeterWifi.
VARIABLES panelGW, estadoGW, cargando, conectarA, clave, tareasGW, nm, fallosGW
GW == INSTANCE GreeterWifi WITH
       MaxFallos <- MaxFallosGW, panel <- panelGW, estado <- estadoGW, tareas <- tareasGW,
       fallos <- fallosGW
deGreeterWifi == <<panelGW, estadoGW, cargando, conectarA, clave, tareasGW, nm, fallosGW>>
SinGreeterWifi == panelGW = nada /\ estadoGW = nada /\ cargando = nada /\ conectarA = nada /\
    clave = nada /\ tareasGW = nada /\ nm = nada /\ fallosGW = nada

\* Buds: one pair of earbuds, two tries.
VARIABLES audio, avisosBu, mirando, tareasBu, conexionBu, conectando, suelto, tardias, islaBu,
          colgado, recientes, cambiosBu
Bu == INSTANCE Buds WITH
       Macs <- {"cascos"}, Intentos <- 2, MaxTareas <- 2, MaxAvisos <- 2, MaxCambios <- 2,
       avisos <- avisosBu, tareas <- tareasBu, conexion <- conexionBu, isla <- islaBu,
       cambios <- cambiosBu
deBuds == <<audio, avisosBu, mirando, tareasBu, conexionBu, conectando, suelto, tardias, islaBu,
    colgado, recientes, cambiosBu>>
SinBuds == audio = nada /\ avisosBu = nada /\ mirando = nada /\ tareasBu = nada /\
    conexionBu = nada /\ conectando = nada /\ suelto = nada /\ tardias = nada /\ islaBu = nada /\
    colgado = nada /\ recientes = nada /\ cambiosBu = nada

\* BudsProtocol: three frames in a row and the beginning of another; three modes and two
\* charges of the case.
VARIABLES flujo, queda, buf, leidas
VARIABLES buds, tramas, estadoBS, discoBS, lector, servicio, canalBS
BP == INSTANCE BudsProtocol WITH
       Som <- 8, SomViejo <- 9, Flujos <- MCFlujos, Modos <- {0, 1, 2}, Estuches <- {0, 40, 80},
       MaxTramas <- 1, estado <- estadoBS, disco <- discoBS, canal <- canalBS
deBudsReader == <<flujo, queda, buf, leidas>>
SinBudsReader == flujo = nada /\ queda = nada /\ buf = nada /\ leidas = nada
deBudsStatus == <<buds, tramas, estadoBS, discoBS, lector, servicio, canalBS>>
SinBudsStatus == buds = nada /\ tramas = nada /\ estadoBS = nada /\ discoBS = nada /\
    lector = nada /\ servicio = nada /\ canalBS = nada

\* Activities.
VARIABLES conexionAc, usadas, real, sucia, servidor, canalAc, ordenes, remitentes, actividades,
          islaAc, principal, enfocada, configAc, superficie
Ac == INSTANCE Activities WITH
       Orden <- Serie, conexion <- conexionAc, canal <- canalAc, isla <- islaAc, config <- configAc
deActivities == <<conexionAc, usadas, real, sucia, servidor, canalAc, ordenes, remitentes,
    actividades, islaAc, principal, enfocada, configAc, superficie>>
SinActivities == conexionAc = nada /\ usadas = nada /\ real = nada /\ sucia = nada /\
    servidor = nada /\ canalAc = nada /\ ordenes = nada /\ remitentes = nada /\
    actividades = nada /\ islaAc = nada /\ principal = nada /\ enfocada = nada /\
    configAc = nada /\ superficie = nada

\* SystemService: the lane of the network, that also answers for all.
VARIABLES hw, avisosY, canalY, bucle, estadoY, llamada, senales, cacheY, cuenta
Y == INSTANCE SystemService WITH
       Carriles <- [red |-> {"network"}], MaxCambios <- 1, MaxCanal <- 4, MaxPedidos <- 1,
       MaxFallos <- 1, MaxVence <- 1, avisos <- avisosY, canal <- canalY, estado <- estadoY,
       cache <- cacheY
deSystemService == <<hw, avisosY, canalY, bucle, estadoY, llamada, senales, cacheY, cuenta>>
SinSystemService == hw = nada /\ avisosY = nada /\ canalY = nada /\ bucle = nada /\
    estadoY = nada /\ llamada = nada /\ senales = nada /\ cacheY = nada /\ cuenta = nada

\* VolumeKeys: a mixer of a few levels that starts half way.
VARIABLES pulsadas, repeticion, chasquido, colaVo, enCursoVo, avisosVo, mezcla, cacheVo, visto,
          tarjeta, osd, timers, hist
Vo == INSTANCE VolumeKeys WITH
       Tope <- 16, Arranque <- 8, Niveles <- {7, 9}, Pulsar <- 2, Mantener <- 1, MaxEspera <- 3,
       MaxOps <- 3, MaxFallos <- 1, cola <- colaVo, enCurso <- enCursoVo, avisos <- avisosVo,
       cache <- cacheVo
deVolumeKeys == <<pulsadas, repeticion, chasquido, colaVo, enCursoVo, avisosVo, mezcla, cacheVo,
    visto, tarjeta, osd, timers, hist>>
SinVolumeKeys == pulsadas = nada /\ repeticion = nada /\ chasquido = nada /\ colaVo = nada /\
    enCursoVo = nada /\ avisosVo = nada /\ mezcla = nada /\ cacheVo = nada /\ visto = nada /\
    tarjeta = nada /\ osd = nada /\ timers = nada /\ hist = nada

\* WifiProfiles: two networks, each with its password.
VARIABLES alcance, perfiles, activaWP, op, guarda, ops
WP == INSTANCE WifiProfiles WITH
       Redes <- {"casa", "bar"}, Claves <- {"a", "b"}, Buena <- [casa |-> "a", bar |-> "b"],
       MaxPerfiles <- 3, MaxOps <- 3, activa <- activaWP
deWifiProfiles == <<alcance, perfiles, activaWP, op, guarda, ops>>
SinWifiProfiles == alcance = nada /\ perfiles = nada /\ activaWP = nada /\ op = nada /\
    guarda = nada /\ ops = nada

\* Settings: the two files, three changes.
VARIABLES discoAj, elegido, vivo, forzadaAj, canalAj, hilo, perdido, cambiosAj
Aj == INSTANCE Settings WITH
       Ficheros <- {<<>>, AMano}, Peticiones <- MCPeticiones, MaxCambios <- 3, disco <- discoAj,
       forzada <- forzadaAj, canal <- canalAj, cambios <- cambiosAj
deSettings == <<discoAj, elegido, vivo, forzadaAj, canalAj, hilo, perdido, cambiosAj>>
SinSettings == discoAj = nada /\ elegido = nada /\ vivo = nada /\ forzadaAj = nada /\
    canalAj = nada /\ hilo = nada /\ perdido = nada /\ cambiosAj = nada

\* NightLight: a day of six minutes.
VARIABLES relojNL, configNL, forzadaNL, aplicada, fundido, tickNL, marca, curva, activaNL,
          discoNL, avisoNL, dormidaNL, saltadoNL
NL == INSTANCE NightLight WITH
       Configs <- Luces, NEUTRA <- 6, PASOS <- 2, Curvas <- {6, 3}, reloj <- relojNL,
       config <- configNL, forzada <- forzadaNL, tick <- tickNL, activa <- activaNL,
       disco <- discoNL, aviso <- avisoNL, dormida <- dormidaNL, saltado <- saltadoNL
deNightLight == <<relojNL, configNL, forzadaNL, aplicada, fundido, tickNL, marca, curva,
    activaNL, discoNL, avisoNL, dormidaNL, saltadoNL>>
SinNightLight == relojNL = nada /\ configNL = nada /\ forzadaNL = nada /\ aplicada = nada /\
    fundido = nada /\ tickNL = nada /\ marca = nada /\ curva = nada /\ activaNL = nada /\
    discoNL = nada /\ avisoNL = nada /\ dormidaNL = nada /\ saltadoNL = nada

\* AutoTheme: by day, across midnight, a minute long, both edges the same.
VARIABLES relojAT, modo, horas, tema, tickAT, viva, anterior, foto, apps, imagen, recargar,
          discoAT, avisoAT, dormidaAT, saltadoAT
AT == INSTANCE AutoTheme WITH
       Horarios <- {<<1, 4>>, <<4, 1>>, <<2, 3>>, <<2, 2>>}, reloj <- relojAT,
       tick <- tickAT, disco <- discoAT, aviso <- avisoAT, dormida <- dormidaAT,
       saltado <- saltadoAT
deAutoTheme == <<relojAT, modo, horas, tema, tickAT, viva, anterior, foto, apps, imagen,
    recargar, discoAT, avisoAT, dormidaAT, saltadoAT>>
SinAutoTheme == relojAT = nada /\ modo = nada /\ horas = nada /\ tema = nada /\ tickAT = nada /\
    viva = nada /\ anterior = nada /\ foto = nada /\ apps = nada /\ imagen = nada /\
    recargar = nada /\ discoAT = nada /\ avisoAT = nada /\ dormidaAT = nada /\ saltadoAT = nada

\* Brightness.
VARIABLES bBr, enCursoBr, sucesos, pedido, querido, manos, fijo, restaurado
Br == INSTANCE Brightness WITH Pasos <- Tramo, b <- bBr, enCurso <- enCursoBr
deBrightness == <<bBr, enCursoBr, sucesos, pedido, querido, manos, fijo, restaurado>>
SinBrightness == bBr = nada /\ enCursoBr = nada /\ sucesos = nada /\ pedido = nada /\
    querido = nada /\ manos = nada /\ fijo = nada /\ restaurado = nada

Init ==
  \/ parte = "greeter" /\ G!Init /\ SinGreeterWifi /\ SinBuds /\ SinBudsReader /\
     SinBudsStatus /\ SinActivities /\ SinSystemService /\ SinVolumeKeys /\ SinWifiProfiles /\
     SinSettings /\ SinNightLight /\ SinAutoTheme /\ SinBrightness
  \/ parte = "wifi" /\ GW!Init /\ SinGreeter /\ SinBuds /\ SinBudsReader /\ SinBudsStatus /\
     SinActivities /\ SinSystemService /\ SinVolumeKeys /\ SinWifiProfiles /\ SinSettings /\
     SinNightLight /\ SinAutoTheme /\ SinBrightness
  \/ parte = "buds" /\ Bu!Init /\ SinGreeter /\ SinGreeterWifi /\ SinBudsReader /\
     SinBudsStatus /\ SinActivities /\ SinSystemService /\ SinVolumeKeys /\ SinWifiProfiles /\
     SinSettings /\ SinNightLight /\ SinAutoTheme /\ SinBrightness
  \/ parte = "reader" /\ BP!InitLectura /\ SinGreeter /\ SinGreeterWifi /\ SinBuds /\ SinBudsStatus /\
     SinActivities /\ SinSystemService /\ SinVolumeKeys /\ SinWifiProfiles /\ SinSettings /\
     SinNightLight /\ SinAutoTheme /\ SinBrightness
  \/ parte = "status" /\ BP!InitEstado /\ SinGreeter /\ SinGreeterWifi /\ SinBuds /\ SinBudsReader /\
     SinActivities /\ SinSystemService /\ SinVolumeKeys /\ SinWifiProfiles /\ SinSettings /\
     SinNightLight /\ SinAutoTheme /\ SinBrightness
  \/ parte = "activities" /\ Ac!Init /\ SinGreeter /\ SinGreeterWifi /\ SinBuds /\
     SinBudsReader /\ SinBudsStatus /\ SinSystemService /\ SinVolumeKeys /\ SinWifiProfiles /\
     SinSettings /\ SinNightLight /\ SinAutoTheme /\ SinBrightness
  \/ parte = "system" /\ Y!Init /\ SinGreeter /\ SinGreeterWifi /\ SinBuds /\ SinBudsReader /\
     SinBudsStatus /\ SinActivities /\ SinVolumeKeys /\ SinWifiProfiles /\ SinSettings /\
     SinNightLight /\ SinAutoTheme /\ SinBrightness
  \/ parte = "volume" /\ Vo!Init /\ SinGreeter /\ SinGreeterWifi /\ SinBuds /\ SinBudsReader /\
     SinBudsStatus /\ SinActivities /\ SinSystemService /\ SinWifiProfiles /\ SinSettings /\
     SinNightLight /\ SinAutoTheme /\ SinBrightness
  \/ parte = "profiles" /\ WP!Init /\ SinGreeter /\ SinGreeterWifi /\ SinBuds /\ SinBudsReader /\
     SinBudsStatus /\ SinActivities /\ SinSystemService /\ SinVolumeKeys /\ SinSettings /\
     SinNightLight /\ SinAutoTheme /\ SinBrightness
  \/ parte = "settings" /\ Aj!Init /\ SinGreeter /\ SinGreeterWifi /\ SinBuds /\ SinBudsReader /\
     SinBudsStatus /\ SinActivities /\ SinSystemService /\ SinVolumeKeys /\ SinWifiProfiles /\
     SinNightLight /\ SinAutoTheme /\ SinBrightness
  \/ parte = "night" /\ NL!Init /\ SinGreeter /\ SinGreeterWifi /\ SinBuds /\ SinBudsReader /\
     SinBudsStatus /\ SinActivities /\ SinSystemService /\ SinVolumeKeys /\ SinWifiProfiles /\
     SinSettings /\ SinAutoTheme /\ SinBrightness
  \/ parte = "theme" /\ AT!Init /\ SinGreeter /\ SinGreeterWifi /\ SinBuds /\ SinBudsReader /\
     SinBudsStatus /\ SinActivities /\ SinSystemService /\ SinVolumeKeys /\ SinWifiProfiles /\
     SinSettings /\ SinNightLight /\ SinBrightness
  \/ parte = "brightness" /\ Br!Init /\ SinGreeter /\ SinGreeterWifi /\ SinBuds /\
     SinBudsReader /\ SinBudsStatus /\ SinActivities /\ SinSystemService /\ SinVolumeKeys /\
     SinWifiProfiles /\ SinSettings /\ SinNightLight /\ SinAutoTheme

EnGreeter(A) == parte = "greeter" /\ estadoG # "fuera" /\ A /\ UNCHANGED <<parte, deGreeterWifi,
    deBuds, deBudsReader, deBudsStatus, deActivities, deSystemService, deVolumeKeys,
    deWifiProfiles, deSettings, deNightLight, deAutoTheme, deBrightness>>
EnGreeterWifi(A) == parte = "wifi" /\ A /\ UNCHANGED <<parte, deGreeter, deBuds, deBudsReader,
    deBudsStatus, deActivities, deSystemService, deVolumeKeys, deWifiProfiles, deSettings,
    deNightLight, deAutoTheme, deBrightness>>
EnBuds(A) == parte = "buds" /\ A /\ UNCHANGED <<parte, deGreeter, deGreeterWifi, deBudsReader,
    deBudsStatus, deActivities, deSystemService, deVolumeKeys, deWifiProfiles, deSettings,
    deNightLight, deAutoTheme, deBrightness>>
EnBudsReader(A) == parte = "reader" /\ A /\ UNCHANGED <<parte, deGreeter, deGreeterWifi, deBuds,
    deBudsStatus, deActivities, deSystemService, deVolumeKeys, deWifiProfiles, deSettings,
    deNightLight, deAutoTheme, deBrightness>>
EnBudsStatus(A) == parte = "status" /\ A /\ UNCHANGED <<parte, deGreeter, deGreeterWifi, deBuds,
    deBudsReader, deActivities, deSystemService, deVolumeKeys, deWifiProfiles, deSettings,
    deNightLight, deAutoTheme, deBrightness>>
EnActivities(A) == parte = "activities" /\ A /\ UNCHANGED <<parte, deGreeter, deGreeterWifi,
    deBuds, deBudsReader, deBudsStatus, deSystemService, deVolumeKeys, deWifiProfiles,
    deSettings, deNightLight, deAutoTheme, deBrightness>>
EnSystemService(A) == parte = "system" /\ A /\ UNCHANGED <<parte, deGreeter, deGreeterWifi,
    deBuds, deBudsReader, deBudsStatus, deActivities, deVolumeKeys, deWifiProfiles, deSettings,
    deNightLight, deAutoTheme, deBrightness>>
EnVolumeKeys(A) == parte = "volume" /\ A /\ UNCHANGED <<parte, deGreeter, deGreeterWifi, deBuds,
    deBudsReader, deBudsStatus, deActivities, deSystemService, deWifiProfiles, deSettings,
    deNightLight, deAutoTheme, deBrightness>>
EnWifiProfiles(A) == parte = "profiles" /\ A /\ UNCHANGED <<parte, deGreeter, deGreeterWifi,
    deBuds, deBudsReader, deBudsStatus, deActivities, deSystemService, deVolumeKeys, deSettings,
    deNightLight, deAutoTheme, deBrightness>>
EnSettings(A) == parte = "settings" /\ A /\ UNCHANGED <<parte, deGreeter, deGreeterWifi, deBuds,
    deBudsReader, deBudsStatus, deActivities, deSystemService, deVolumeKeys, deWifiProfiles,
    deNightLight, deAutoTheme, deBrightness>>
EnNightLight(A) == parte = "night" /\ A /\ UNCHANGED <<parte, deGreeter, deGreeterWifi, deBuds,
    deBudsReader, deBudsStatus, deActivities, deSystemService, deVolumeKeys, deWifiProfiles,
    deSettings, deAutoTheme, deBrightness>>
EnAutoTheme(A) == parte = "theme" /\ A /\ UNCHANGED <<parte, deGreeter, deGreeterWifi, deBuds,
    deBudsReader, deBudsStatus, deActivities, deSystemService, deVolumeKeys, deWifiProfiles,
    deSettings, deNightLight, deBrightness>>
EnBrightness(A) == parte = "brightness" /\ A /\ UNCHANGED <<parte, deGreeter, deGreeterWifi,
    deBuds, deBudsReader, deBudsStatus, deActivities, deSystemService, deVolumeKeys,
    deWifiProfiles, deSettings, deNightLight, deAutoTheme>>

Next ==
  \/ EnGreeter(\E i \in G!Filas : G!Elegir(i)) \/ EnGreeter(\E i \in G!Filas : G!Mover(i))
  \/ EnGreeter(\E c \in G!Cuentas : G!EscribirUsuario(c)) \/ EnGreeter(G!EscribirRespuesta)
  \/ EnGreeter(G!Continuar) \/ EnGreeter(G!Cancelar) \/ EnGreeter(G!AbrirPanel)
  \/ EnGreeter(G!Pantalla)
  \/ EnGreeter(\E i \in fondo.cargando, bien \in BOOLEAN : G!FondoCargado(i, bien))
  \/ EnGreeter(G!Atender) \/ EnGreeter(G!Perder) \/ EnGreeter(G!Recibir)
  \/ EnGreeterWifi(GW!AbrirRed) \/ EnGreeterWifi(GW!AbrirOtro) \/ EnGreeterWifi(GW!Cerrar)
  \/ EnGreeterWifi(GW!Energia) \/ EnGreeterWifi(GW!WifiAlternar)
  \/ EnGreeterWifi(GW!WifiRefrescar)
  \/ EnGreeterWifi(\E r \in Redes : GW!WifiElegir(r)) \/ EnGreeterWifi(GW!WifiClave)
  \/ EnGreeterWifi(GW!WifiCancelarClave) \/ EnGreeterWifi(GW!WifiConectar)
  \/ EnGreeterWifi(GW!WifiDesconectar) \/ EnGreeterWifi(\E t \in tareasGW : GW!Ejecutar(t))
  \/ EnGreeterWifi(\E t \in tareasGW : GW!WifiEstado(t))
  \/ EnBuds(\E m \in {"cascos"} : Bu!AudioCambia(m))
  \/ EnBuds(\E m \in {"cascos"} : Bu!Connect(m))
  \/ EnBuds(\E m \in {"cascos"} : Bu!LlegaTarde(m)) \/ EnBuds(\E m \in {"cascos"} : Bu!Olvida(m))
  \/ EnBuds(Bu!Cae) \/ EnBuds(Bu!LlegaEstado) \/ EnBuds(\E t \in tareasBu : Bu!Empieza(t))
  \/ EnBuds(\E t \in tareasBu : Bu!AudioListo(t)) \/ EnBuds(\E t \in tareasBu : Bu!Abre(t))
  \/ EnBuds(\E t \in tareasBu : Bu!Falla(t))
  \/ EnBuds(\E t \in tareasBu, m \in tardias : Bu!AbreTarde(t, m)) \/ EnBuds(Bu!Disconnect)
  \/ EnBuds(Bu!AudioConectado) \/ EnBuds(Bu!AudioDesconectado)
  \/ EnBuds(\E baja \in BOOLEAN : Bu!Estado(baja)) \/ EnBuds(Bu!Caido) \/ EnBuds(Bu!Mirado)
  \/ EnBuds(\E n \in islaBu.relojes : Bu!Vence(n)) \/ EnBuds(Bu!TocarIsla)
  \/ EnBudsReader(\E n \in DOMAIN queda : BP!Recv(n))
  \/ EnBudsStatus(\E v \in {0, 40, 80} : BP!Informa("basico", v))
  \/ EnBudsStatus(\E v \in {0, 40, 80} : BP!Informa("extendido", v))
  \/ EnBudsStatus(\E v \in {0, 1} : BP!Informa("prueba", v)) \/ EnBudsStatus(BP!Leer)
  \/ EnBudsStatus(BP!GuardarLector) \/ EnBudsStatus(\E modox \in {0, 1, 2} : BP!SetAnc(modox))
  \/ EnBudsStatus(BP!GuardarServicio) \/ EnBudsStatus(BP!FitTestStart)
  \/ EnBudsStatus(BP!Iniciar) \/ EnBudsStatus(BP!Cerrar)
  \/ EnActivities(\E app \in Ac!Apps : Ac!Conectar(app))
  \/ EnActivities(\E app \in Ac!Apps : Ac!Morir(app))
  \/ EnActivities(\E app \in Ac!Apps : Ac!Cambiar(app))
  \/ EnActivities(\E app \in Ac!Apps : Ac!Publicar(app))
  \/ EnActivities(\E app \in Ac!Apps : Ac!Retirar(app)) \/ EnActivities(Ac!Servir)
  \/ EnActivities(Ac!Obedecer) \/ EnActivities(Ac!Recibir)
  \/ EnActivities(\E app \in Delante \cup {Ac!Sin} : Ac!PonerAppEnfocada(app))
  \/ EnActivities(\E cfg \in Configs : Ac!AplicarConfig(cfg))
  \/ EnActivities(\E app \in Ac!Apps : Ac!PulsarBurbuja(app)) \/ EnActivities(Ac!Alternar)
  \/ EnActivities(Ac!PulsarCola) \/ EnActivities(Ac!PulsarMando)
  \/ EnSystemService(\E d \in Y!Dominios : Y!Cambiar(d))
  \/ EnSystemService(\E d \in Y!Dominios : Y!Vigilar(d)) \/ EnSystemService(Y!Recibir)
  \/ EnSystemService(Y!Agrupar) \/ EnSystemService(\E d \in Y!Dominios : Y!Leer(d, hw[d]))
  \/ EnSystemService(\E d \in Y!Dominios : Y!Leer(d, Y!Fallo)) \/ EnSystemService(Y!Escribir)
  \/ EnSystemService(Y!Emitir) \/ EnSystemService(Y!Contestar)
  \/ EnSystemService(\E l \in Y!Lineas : \E dom \in [red |-> {"network"}][l] : Y!Pedir(l, dom))
  \/ EnSystemService(\E l \in Y!Lineas : Y!Entrar(l))
  \/ EnSystemService(\E l \in Y!Lineas, cambia \in BOOLEAN, ok \in BOOLEAN : Y!Hacer(l, cambia, ok))
  \/ EnSystemService(\E l \in Y!Lineas : Y!Avisar(l))
  \/ EnSystemService(\E l \in Y!Lineas : Y!Vencer(l))
  \/ EnSystemService(\E l \in Y!Lineas : Y!GetState(l))
  \/ EnSystemService(\E l \in Y!Lineas : Y!Rechazada(l))
  \/ EnSystemService(\E l \in Y!Lineas : Y!Llega(l)) \/ EnSystemService(Y!StateChanged)
  \/ EnVolumeKeys(\E s \in Vo!Sentidos : Vo!Pulsa(s))
  \/ EnVolumeKeys(\E s \in Vo!Sentidos : Vo!Suelta(s)) \/ EnVolumeKeys(Vo!OtraTecla)
  \/ EnVolumeKeys(Vo!Silenciar) \/ EnVolumeKeys(Vo!Repetir)
  \/ EnVolumeKeys(\E n \in {7, 9} : Vo!Deslizar(n)) \/ EnVolumeKeys(Vo!AbrirTarjeta)
  \/ EnVolumeKeys(Vo!Tomar) \/ EnVolumeKeys(\E ok \in BOOLEAN : Vo!Hecha(ok))
  \/ EnVolumeKeys(\E n \in {7, 9} : Vo!Ajena(n)) \/ EnVolumeKeys(Vo!Recibir)
  \/ EnVolumeKeys(Vo!Sonar) \/ EnVolumeKeys(Vo!AvisoSuelto) \/ EnVolumeKeys(Vo!Tick)
  \/ EnWifiProfiles(\E r \in {"casa", "bar"}, c \in {"a", "b"} \cup {WP!SinClave} : WP!Empieza("conecta", r, c))
  \/ EnWifiProfiles(\E q \in {"olvida", "auto", "corta"}, r \in {"casa", "bar"} : WP!Empieza(q, r, WP!SinClave))
  \/ EnWifiProfiles(WP!Conectar) \/ EnWifiProfiles(WP!LeerPerfil) \/ EnWifiProfiles(WP!Escribir)
  \/ EnWifiProfiles(WP!Activar) \/ EnWifiProfiles(WP!Anadir) \/ EnWifiProfiles(WP!Esperar)
  \/ EnWifiProfiles(WP!Vencer) \/ EnWifiProfiles(WP!Contestar) \/ EnWifiProfiles(WP!Listar)
  \/ EnWifiProfiles(WP!BorrarUno) \/ EnWifiProfiles(WP!Actualizar)
  \/ EnWifiProfiles(WP!Desconectar) \/ EnWifiProfiles(WP!Resolver)
  \/ EnWifiProfiles(\E r \in {"casa", "bar"} : WP!Aire(r))
  \/ EnSettings(\E h \in Aj!Hilos : Aj!LeerFichero(h))
  \/ EnSettings(\E h \in Aj!Hilos : Aj!Truncar(h))
  \/ EnSettings(\E h \in Aj!Hilos : Aj!Volcar(h)) \/ EnSettings(\E h \in Aj!Hilos : Aj!NoCabe(h))
  \/ EnSettings(\E peticion \in MCPeticiones : Aj!ApplyConfig(peticion))
  \/ EnSettings(\E seccion \in {"desktop", "brightness", "wallpaper", "lockscreen"} : Aj!ReloadConfig(seccion))
  \/ EnSettings(Aj!Recargar) \/ EnSettings(Aj!AlternarBarra) \/ EnSettings(Aj!ElegirFondo)
  \/ EnSettings(Aj!Anclar) \/ EnSettings(Aj!Borde) \/ EnSettings(Aj!OtraSesion)
  \/ EnSettings(\E encender \in {"si", "no"} : Aj!AlternarLuz(encender))
  \/ EnNightLight(NL!Relee) \/ EnNightLight(NL!Vence) \/ EnNightLight(NL!Pasa)
  \/ EnNightLight(NL!PauseSession) \/ EnNightLight(NL!ActivateSession)
  \/ EnNightLight(NL!PantallaNueva)
  \/ EnNightLight(\E encender \in BOOLEAN : NL!Alternar(encender))
  \/ EnNightLight(\E c \in Luces : NL!ApplyConfig(c))
  \/ EnNightLight(\E f \in fundido : NL!Avanza(f))
  \/ EnNightLight(\E k \in {6, 3} : NL!OtroMaestro(k))
  \/ EnNightLight(\E ahora \in NL!Minutos : NL!Dormir(ahora)) \/ EnNightLight(NL!Reanudar)
  \/ EnAutoTheme(AT!Vence) \/ EnAutoTheme(AT!Relee) \/ EnAutoTheme(AT!Escena)
  \/ EnAutoTheme(AT!Fotografiada) \/ EnAutoTheme(AT!Read) \/ EnAutoTheme(AT!Muere)
  \/ EnAutoTheme(AT!Pasa) \/ EnAutoTheme(AT!Reanudar)
  \/ EnAutoTheme(\E m \in AT!Modos : AT!Elegir(m))
  \/ EnAutoTheme(\E m \in AT!Modos, h \in {<<1, 4>>, <<4, 1>>, <<2, 3>>, <<2, 2>>} : AT!ApplyConfig(m, h))
  \/ EnAutoTheme(\E ahora \in AT!Minutos : AT!Dormir(ahora))
  \/ EnBrightness(Br!Escritor) \/ EnBrightness(Br!Temporizadores) \/ EnBrightness(Br!Usuario)
  \/ EnBrightness(Br!Entorno)

Spec == Init /\ [][Next]_<<parte, deGreeter, deGreeterWifi, deBuds, deBudsReader, deBudsStatus,
    deActivities, deSystemService, deVolumeKeys, deWifiProfiles, deSettings, deNightLight,
    deAutoTheme, deBrightness>>

\* Who is let in is who answered, what was cancelled leaves nothing behind, and the login
\* screen's list of networks is never answered by an older reading.
AccesoEnOrden == 
    /\ parte = "greeter" => G!TypeOK /\ G!AccesoEnOrden /\ G!CanceladaSinRestos
    /\ parte = "wifi" => GW!TypeOK /\ GW!RedEnOrden

\* The island and the channel of the earbuds agree, the case's charge and the chosen mode are
\* remembered, and where the socket cuts the bytes does not matter.
CascosEnOrden == 
    /\ parte = "buds" => Bu!TypeOK /\ Bu!BudsEnOrden
    /\ parte = "reader" => BP!CorteIndiferente
    /\ parte = "status" => BP!EstucheRecordado /\ BP!PreferenciaFiel

\* The island shows the activities that are running, in their order.
ActividadesEnOrden == parte = "activities" => Ac!ActividadesEnOrden /\ Ac!EstadoReal

\* The state that the shell keeps is the machine's once nothing is on its way; each press of a
\* volume key is carried out; the passwords kept are of networks that were asked for.
SistemaEnOrden == 
    /\ parte = "system" => Y!ServicioEnOrden /\ Y!CacheAlDia
    /\ parte = "volume" => Vo!VolumenEnOrden
    /\ parte = "profiles" => WP!RedesEnOrden

\* What was written in the settings stays, what is in use is what they say, and the night light
\* and the automatic theme follow the clock.
AjustesAlDia == 
    /\ parte = "settings" => Aj!AjustesFieles
    /\ parte = "night" => NL!TypeOK /\ NL!LuzAlDia
    /\ parte = "theme" => AT!TypeOK /\ AT!TemaAlDia /\ AT!AppsAlDia

\* One hand at a time sets the level of the panel, and what the user chose is not undone.
BrilloEnOrden == parte = "brightness" => Br!UnSoloMando /\ Br!DeseoDelUsuario

\* What PAM may say.
Dichos == {"secreta", "aviso", "ok", "no"}
\* The list is one of accounts, and PAM says what it can say.
ASSUME AccesoAssumption ==
  /\ Personas \in Seq(G!Range(Personas)) /\ Conversaciones \subseteq Seq(Dichos) /\ MaxCola \in Nat \ {0}
\* The tasks of the card are counted.
ASSUME RedAssumption == MaxTareas \in Nat

\* The activities that may be published have an order among them; that of no one is not among
\* them.
ASSUME ActividadesAssumption ==
  /\ \A a \in Ac!Apps : Clase[a] \in {"recorder", "timer", "player"}
  /\ DOMAIN Serie \subseteq Nat /\ \A a \in Ac!Apps : \E i \in DOMAIN Serie : Serie[i] = a
  /\ Ac!Sin \notin Ac!Apps
  /\ Configs \subseteq [habilitadas : BOOLEAN, siempre : BOOLEAN] /\ Delante \subseteq Ac!Apps
  /\ MaxConexiones \in [DOMAIN Clase -> Nat]

\* The levels and what comes from outside are numbers, as the module says.
ASSUME BrilloAssumption == Br!NivelesAssumption /\ Br!EntradasAssumption

-----------------------------------------------------------------------------
(* One alarm per change is enough: between now and the next of the two     *)
(* edges the stretch does not begin nor end, and on that edge it does.     *)

\* Until the alarm of tema.rs:158 goes off the stretch has not changed, whatever the
\* edges and the hour, and however long the day.
THEOREM NadaCambiaAntes ==
  ASSUME Dia \in Nat, NEW desde \in NL!Minutos, NEW hasta \in NL!Minutos, NEW ahora \in NL!Minutos,
          desde # hasta,
         NEW m \in Nat, m < NL!MinutosAlBorde(desde, hasta, ahora)
  PROVE  NL!EnTramo(desde, hasta, NL!Despues(ahora, m)) = NL!EnTramo(desde, hasta, ahora)
<1>1. CASE desde < hasta
  BY <1>1 DEF NL!Minutos, NL!MinutosAlBorde, NL!Falta, NL!EnTramo, NL!Despues
<1>2. CASE hasta < desde
  BY <1>2 DEF NL!Minutos, NL!MinutosAlBorde, NL!Falta, NL!EnTramo, NL!Despues
<1> QED
  BY <1>1, <1>2 DEF NL!Minutos

\* And when it goes off there is something to do: the stretch is the other one.
THEOREM CambiaEnElBorde ==
  ASSUME Dia \in Nat, NEW desde \in NL!Minutos, NEW hasta \in NL!Minutos, NEW ahora \in NL!Minutos,
          desde # hasta
  PROVE  /\ NL!MinutosAlBorde(desde, hasta, ahora) \in 1..Dia
         /\ NL!EnTramo(desde, hasta, NL!Despues(ahora, NL!MinutosAlBorde(desde, hasta, ahora)))
              # NL!EnTramo(desde, hasta, ahora)
<1>1. CASE desde < hasta
  BY <1>1 DEF NL!Minutos, NL!MinutosAlBorde, NL!Falta, NL!EnTramo, NL!Despues
<1>2. CASE hasta < desde
  BY <1>2 DEF NL!Minutos, NL!MinutosAlBorde, NL!Falta, NL!EnTramo, NL!Despues
<1> QED
  BY <1>1, <1>2 DEF NL!Minutos

-----------------------------------------------------------------------------
(***************************************************************************)
(* The login screen: one thing at a time is on its way.                    *)
(***************************************************************************)
Prudente == FondosRotos = FALSE /\ CancelaAvisos = FALSE

Gente == G!Cuentas \cup {G!Nadie}
Ocioso == colaG = <<>> /\ llegadas = <<>>
PorAtender(p) == colaG = <<p>> /\ llegadas = <<>>
PorLeer(a) == colaG = <<>> /\ llegadas = <<a>>
\* greetd's conversation, if there is one, is of the account on the screen.
Suya == conv = G!SinConversacion \/ conv.de = usuario
\* What is on its way is what the screen is waiting for, and at most one thing is.
Esperada(p) ==
  \/ p = G!Peticion("autenticar", "crear", usuario) /\ estadoG = "autenticar"
  \/ \E d \in {usuario, G!Nadie} : p = G!Peticion("autenticar", "contestar", d) /\ estadoG \in {"autenticar", "aviso"} /\ Suya
  \/ p = G!Peticion("iniciar", "iniciar", G!Nadie) /\ estadoG = "iniciar" /\ Suya
  \/ p = G!Peticion("cancelar", "cancelar", G!Nadie) /\ estadoG = "cancelar"
Buenas == {"confirmado", "pregunta", "aviso"}
Dada(oper, res) ==
  \/ /\ oper = "autenticar" /\ estadoG \in {"autenticar", "aviso"}
     /\ res \in Buenas \cup {"rechazo", "error"} /\ (res \in Buenas => Suya)
  \/ oper = "iniciar" /\ estadoG = "iniciar" /\ res \in {"confirmado", "rechazo", "error"}
  \/ oper = "cancelar" /\ estadoG = "cancelar" /\ res \in {"confirmado", "error"}
Turno ==
  \/ estadoG \in {"usuario", "pregunta", "fuera"} /\ Ocioso /\ (estadoG = "pregunta" => Suya)
  \/ \E p : PorAtender(p) /\ Esperada(p)
  \/ \E oper, res : PorLeer([op |-> oper, res |-> res]) /\ Dada(oper, res)
Escrito == respuesta \in {usuario, G!Nadie} /\ (estadoG # "pregunta" => respuesta = G!Nadie)
TiposAcceso ==
  /\ usuario \in Gente /\ manual \in BOOLEAN /\ respondido \in BOOLEAN /\ panelG \in BOOLEAN /\ senalada \in G!Filas
  /\ conv \in [de : Gente, quedan : Seq(Dichos)] /\ sesion \in Gente
Vestidos == [de : G!Filas, pedido : G!Filas \cup {0}, cargando : SUBSET G!Filas, visto : G!Filas \cup {0}]
ConLosDe == fondo \in Vestidos
\* The wallpaper of who dresses the screen is on its way, or there.
Vestida ==
  /\ ConLosDe /\ fondo.pedido \in {0, fondo.de}
  /\ (fondo.pedido # 0 => fondo.pedido \in fondo.cargando \/ fondo.visto = fondo.pedido)
AccesoInv == TiposAcceso /\ Turno /\ Escrito /\ Vestida

\* The rows of the list.
LEMMA DeFilas == G!Filas \subseteq Nat \ {0} /\ 1 \in G!Filas /\ Len(Personas) \in Nat
  /\ \A i \in G!Filas : i > Len(Personas) \/ Personas[i] \in G!Cuentas
<1>1. Len(Personas) \in Nat /\ DOMAIN Personas = 1..Len(Personas)
  BY AccesoAssumption
<1>2. \A i \in G!Filas : i > Len(Personas) \/ i \in DOMAIN Personas
  BY <1>1 DEF G!Filas
<1>3. \A i \in DOMAIN Personas : Personas[i] \in G!Cuentas
  BY DEF G!Cuentas, G!Range
<1>. QED BY <1>1, <1>2, <1>3 DEF G!Filas

\* At most one thing is on its way, and one is while the screen waits.
LEMMA DeCola == ASSUME Turno PROVE
  /\ (Ocioso /\ estadoG \in {"usuario", "pregunta", "fuera"} /\ Len(colaG) = 0 /\ Len(llegadas) = 0)
     \/ (estadoG \in G!Esperas /\ ((Len(colaG) = 1 /\ Len(llegadas) = 0) \/ (Len(colaG) = 0 /\ Len(llegadas) = 1)))
<1>1. ASSUME NEW p, PorAtender(p), Esperada(p) PROVE estadoG \in G!Esperas /\ Len(colaG) = 1
        /\ Len(llegadas) = 0
  BY <1>1 DEF PorAtender, Esperada, G!Esperas, G!Ocupaciones
<1>2. ASSUME NEW oper, NEW res, PorLeer([op |-> oper, res |-> res]), Dada(oper, res)
        PROVE estadoG \in G!Esperas /\ Len(colaG) = 0 /\ Len(llegadas) = 1
  BY <1>2 DEF PorLeer, Dada, G!Esperas, G!Ocupaciones
<1>3. Ocioso => Len(colaG) = 0 /\ Len(llegadas) = 0
  BY DEF Ocioso
<1>4. CASE estadoG \in {"usuario", "pregunta", "fuera"} /\ Ocioso
  BY <1>3, <1>4
<1>5. CASE \E p : PorAtender(p) /\ Esperada(p)
  BY <1>1, <1>5
<1>6. CASE \E oper, res : PorLeer([op |-> oper, res |-> res]) /\ Dada(oper, res)
  BY <1>2, <1>6
<1>. QED BY <1>4, <1>5, <1>6 DEF Turno

\* The invariant says what the property asks.
LEMMA AccesoBasta == AccesoInv => G!TypeOK /\ G!AccesoEnOrden /\ G!CanceladaSinRestos
<1>. SUFFICES ASSUME AccesoInv PROVE G!TypeOK /\ G!AccesoEnOrden /\ G!CanceladaSinRestos
  OBVIOUS
<1>0. TiposAcceso /\ Turno /\ Escrito /\ Vestida
  BY DEF AccesoInv
<1>1. G!Pendientes \in {0, 1} /\ (estadoG \in G!Esperas => G!Pendientes = 1)
        /\ (estadoG = "usuario" => G!Pendientes = 0)
      /\ estadoG \in {"usuario", "pregunta", "fuera"} \cup G!Esperas
  BY <1>0, DeCola DEF G!Pendientes, G!Esperas, G!Ocupaciones
<1>2. G!TypeOK
  <2>1. respuesta \in G!Cuentas \cup {G!Nadie} /\ usuario \in G!Cuentas \cup {G!Nadie}
    BY <1>0 DEF Escrito, TiposAcceso, Gente
  <2>2. G!Pendientes <= MaxCola
    BY <1>1, AccesoAssumption
  <2>3. conv.de \in G!Cuentas \cup {G!Nadie} /\ sesion \in G!Cuentas \cup {G!Nadie} /\ senalada \in G!Filas
    BY <1>0 DEF TiposAcceso, Gente
  <2>4. manual \in BOOLEAN /\ respondido \in BOOLEAN /\ panelG \in BOOLEAN
    BY <1>0, Zenon DEF TiposAcceso
  <2>5. fondo.cargando \subseteq G!Filas
    BY <1>0 DEF Vestida, ConLosDe, Vestidos
  <2>. QED BY <1>1, <2>1, <2>2, <2>3, <2>4, <2>5 DEF G!TypeOK
<1>3. G!NadieColgado /\ G!CanceladaSinRestos
  BY <1>1 DEF G!NadieColgado, G!CanceladaSinRestos
<1>4. G!SesionDeQuienEligio /\ G!RespuestaASuCuenta
  <2>. SUFFICES ASSUME colaG # <<>> PROVE G!SesionDeQuienEligio /\ G!RespuestaASuCuenta
    BY DEF G!SesionDeQuienEligio, G!RespuestaASuCuenta
  <2>1. PICK p : PorAtender(p) /\ Esperada(p)
    BY <1>0 DEF Turno, Ocioso, PorLeer
  <2>2. Head(colaG) = p
    BY <2>1 DEF PorAtender
  <2>3. G!Lista(conv) => conv # G!SinConversacion
    BY DEF G!Lista, G!SinConversacion
  <2>. QED BY <2>1, <2>2, <2>3 DEF Esperada, G!Peticion, Suya, G!SesionDeQuienEligio, G!RespuestaASuCuenta
<1>5. G!FondoDeQuienViste
  BY <1>0 DEF Vestida, G!FondoDeQuienViste
<1>. QED BY <1>2, <1>3, <1>4, <1>5 DEF G!AccesoEnOrden

\* The first screen, with one account asking for it.
LEMMA AccesoInicial == G!Init => AccesoInv
<1>. SUFFICES ASSUME G!Init PROVE AccesoInv
  OBVIOUS
<1>1. conv = G!SinConversacion /\ conv \in [de : Gente, quedan : Seq(Dichos)]
  BY DEF G!Init, G!SinConversacion, Gente
<1>2. TiposAcceso
  <2>1. manual \in BOOLEAN /\ respondido \in BOOLEAN /\ panelG \in BOOLEAN
    BY Zenon DEF G!Init
  <2>2. usuario \in Gente
    BY DeFilas DEF G!Init, Gente, G!Filas
  <2>. QED BY <1>1, <2>1, <2>2, DeFilas DEF G!Init, TiposAcceso, Gente
<1>3. Turno
  <2>1. CASE Len(Personas) = 1
    <3>1. PorAtender(G!Peticion("autenticar", "crear", usuario))
            /\ Esperada(G!Peticion("autenticar", "crear", usuario))
      BY <2>1 DEF G!Init, PorAtender, Esperada
    <3>. QED BY <3>1 DEF Turno
  <2>2. CASE Len(Personas) # 1
    BY <2>2 DEF G!Init, Turno, Ocioso
  <2>. QED BY <2>1, <2>2
<1>4. Escrito
  BY DEF G!Init, Escrito
<1>5. Vestida
  BY DeFilas DEF G!Init, G!Inicial, Vestida, ConLosDe, Vestidos
<1>. QED BY <1>2, <1>3, <1>4, <1>5 DEF AccesoInv

-----------------------------------------------------------------------------
\* The wallpaper of another account, or of the same.
LEMMA ConFondoBien == ASSUME NEW f, f \in Vestidos
  PROVE G!ConFondo(f) \in Vestidos
        /\ G!ConFondo(f).pedido = G!ConFondo(f).de /\ G!ConFondo(f).de = f.de /\ G!ConFondo(f).visto = f.visto
        /\ (f.pedido = f.de => G!ConFondo(f) = f) /\ (f.pedido # f.de => f.de \in G!ConFondo(f).cargando)
BY DEF G!ConFondo, Vestidos

\* Another account is pointed at.
LEMMA VestidoBien == ASSUME Vestida, NEW i \in G!Filas, fondo' = G!Vestido(fondo, i) PROVE Vestida'
<1>. DEFINE f == [fondo EXCEPT !.de = i]
<1>1. f \in Vestidos
      /\ f.de = i /\ f.pedido = fondo.pedido /\ f.cargando = fondo.cargando /\ f.visto = fondo.visto
  BY DEF Vestida, ConLosDe, Vestidos
<1>2. fondo' = G!ConFondo(f)
  BY DEF G!Vestido
<1>. HIDE DEF f
<1>. QED BY <1>1, <1>2, ConFondoBien, DeFilas DEF Vestida, ConLosDe, Vestidos

\* A screen is plugged in.
LEMMA PantallaP == ASSUME AccesoInv, G!Pantalla PROVE AccesoInv'
<1>1. Vestida'
  BY ConFondoBien, DeFilas DEF AccesoInv, G!Pantalla, Vestida, ConLosDe, Vestidos
<1>2. TiposAcceso' /\ Turno' /\ Escrito'
  BY Zenon DEF AccesoInv, TiposAcceso, Turno, Escrito, G!Pantalla, G!pantalla, G!greetd, Ocioso, PorAtender,
     PorLeer, Esperada, Dada, Suya
<1>. QED BY <1>1, <1>2 DEF AccesoInv

\* A wallpaper is loaded, late or in time.
LEMMA FondoCargadoP ==
  ASSUME Prudente, AccesoInv, NEW i \in fondo.cargando, NEW bien \in BOOLEAN, G!FondoCargado(i, bien)
  PROVE  AccesoInv'
<1>1. Vestida'
  <2>1. ConLosDe /\ fondo.pedido \in {0, fondo.de}
          /\ (fondo.pedido # 0 => fondo.pedido \in fondo.cargando \/ fondo.visto = fondo.pedido)
    BY DEF AccesoInv, Vestida
  <2>2. bien
    BY DEF G!FondoCargado, Prudente
  <2>3. fondo' = [fondo EXCEPT !.cargando = fondo.cargando \ {i},
          !.visto = IF fondo.pedido = i THEN i ELSE fondo.visto]
    BY <2>2 DEF G!FondoCargado
  <2>4. fondo' \in Vestidos
        /\ fondo'.de = fondo.de /\ fondo'.pedido = fondo.pedido /\ fondo'.cargando = fondo.cargando \ {i}
        /\ fondo'.visto = IF fondo.pedido = i THEN i ELSE fondo.visto
    BY <2>1, <2>3 DEF ConLosDe, Vestidos
  <2>. QED BY <2>1, <2>4 DEF Vestida, ConLosDe, Vestidos
<1>2. TiposAcceso' /\ Turno' /\ Escrito'
  BY Zenon DEF AccesoInv, TiposAcceso, Turno, Escrito, G!FondoCargado, G!pantalla, G!greetd, Ocioso,
     PorAtender, PorLeer, Esperada, Dada, Suya
<1>. QED BY <1>1, <1>2 DEF AccesoInv

\* The screen as it was but for what is pointed at, typed or open.
LEMMA RestoP ==
  ASSUME AccesoInv, UNCHANGED <<estadoG, usuario, colaG, llegadas, conv, sesion, fondo>>,
          manual' \in BOOLEAN, panelG' \in BOOLEAN,
         respondido' = respondido, senalada' \in G!Filas, Escrito'
  PROVE  AccesoInv'
<1>1. Vestida'
  BY DEF AccesoInv, Vestida, ConLosDe, Vestidos
<1>2. TiposAcceso' /\ Turno'
  BY Zenon DEF AccesoInv, TiposAcceso, Turno, Ocioso, PorAtender, PorLeer, Esperada, Dada, Suya
<1>. QED BY <1>1, <1>2 DEF AccesoInv

\* Another row is pointed at.
LEMMA MoverP == ASSUME AccesoInv, NEW i \in G!Filas, G!Mover(i) PROVE AccesoInv'
<1>1. Escrito' /\ manual' \in BOOLEAN /\ panelG' \in BOOLEAN
        /\ UNCHANGED <<estadoG, usuario, colaG, llegadas, conv, sesion, fondo>>
  BY Zenon DEF G!Mover, G!greetd, AccesoInv, Escrito, TiposAcceso
<1>. QED BY <1>1, RestoP DEF G!Mover

\* A card of the corner.
LEMMA AbrirPanelP == ASSUME AccesoInv, G!AbrirPanel PROVE AccesoInv'
<1>1. Escrito' /\ manual' \in BOOLEAN /\ panelG' \in BOOLEAN /\ senalada' \in G!Filas
        /\ UNCHANGED <<estadoG, usuario, colaG, llegadas, conv, sesion, fondo>>
  BY Zenon DEF G!AbrirPanel, G!greetd, AccesoInv, Escrito, TiposAcceso
<1>. QED BY <1>1, RestoP DEF G!AbrirPanel

\* Something is typed under the question.
LEMMA EscribirRespuestaP == ASSUME AccesoInv, G!EscribirRespuesta PROVE AccesoInv'
<1>1. manual' \in BOOLEAN /\ panelG' \in BOOLEAN /\ senalada' \in G!Filas
        /\ UNCHANGED <<estadoG, usuario, colaG, llegadas, conv, sesion, fondo>>
  BY Zenon DEF G!EscribirRespuesta, G!greetd, AccesoInv, TiposAcceso
<1>2. Escrito'
  BY DEF G!EscribirRespuesta, Escrito
<1>. QED BY <1>1, <1>2, RestoP DEF G!EscribirRespuesta

\* Another account on the screen: only in the list, with nothing on its way.
LEMMA EscribirUsuarioP == ASSUME AccesoInv, NEW c \in G!Cuentas, G!EscribirUsuario(c) PROVE AccesoInv'
<1>0. estadoG = "usuario" /\ usuario' = c /\ UNCHANGED <<estadoG, colaG, llegadas, conv, sesion, fondo,
        respuesta>>
  BY DEF G!EscribirUsuario, G!greetd
<1>1. Ocioso
  BY <1>0, DeCola DEF AccesoInv, G!Esperas, G!Ocupaciones
<1>2. Turno'
  BY <1>0, <1>1 DEF Turno, Ocioso
<1>3. TiposAcceso'
  <2>1. manual' \in BOOLEAN /\ panelG' \in BOOLEAN /\ respondido' \in BOOLEAN
    BY Zenon DEF G!EscribirUsuario, AccesoInv, TiposAcceso
  <2>2. usuario' \in Gente /\ senalada' \in G!Filas /\ conv' \in [de : Gente, quedan : Seq(Dichos)]
          /\ sesion' \in Gente
    BY <1>0 DEF G!EscribirUsuario, AccesoInv, TiposAcceso, Gente
  <2>. QED BY <2>1, <2>2 DEF TiposAcceso
<1>4. Escrito' /\ Vestida'
  BY <1>0 DEF AccesoInv, Escrito, Vestida, ConLosDe, Vestidos
<1>. QED BY <1>2, <1>3, <1>4 DEF AccesoInv

\* A request goes out from the list or from the question, where nothing is on its way.
LEMMA Sale ==
  ASSUME Turno, estadoG \in {"usuario", "pregunta"}, NEW p, G!Envia(colaG, p), llegadas' = llegadas,
          Esperada(p)'
  PROVE  Turno' /\ estadoG' = p.op
<1>1. Ocioso
  BY DeCola DEF G!Esperas, G!Ocupaciones
<1>2. colaG' = <<p>> /\ llegadas' = <<>> /\ estadoG' = p.op
  BY <1>1 DEF Ocioso, G!Envia
<1>3. PorAtender(p)'
  BY <1>2 DEF PorAtender
<1>. QED BY <1>2, <1>3 DEF Turno

\* A conversation is asked for.
LEMMA AutenticarBien ==
  ASSUME Turno, estadoG \in {"usuario", "pregunta"}, NEW quien, G!Autenticar(quien), llegadas' = llegadas,
          usuario' = quien
  PROVE  Turno' /\ estadoG' = "autenticar" /\ respondido' = FALSE
<1>. DEFINE p == G!Peticion("autenticar", "crear", quien)
<1>1. p.op = "autenticar" /\ G!Envia(colaG, p) /\ respondido' = FALSE
  BY DEF G!Peticion, G!Autenticar
<1>2. estadoG' = "autenticar"
  BY <1>1 DEF G!Envia
<1>3. Esperada(p)'
  BY <1>2 DEF Esperada, G!Peticion
<1>. HIDE DEF p
<1>. QED BY <1>1, <1>2, <1>3, Sale

\* A row of the list.
LEMMA ElegirFilaBien ==
  ASSUME AccesoInv, G!EnLista, NEW i \in G!Filas, G!ElegirFila(i), UNCHANGED <<respuesta, panelG, llegadas,
          conv, sesion>>
  PROVE  AccesoInv'
<1>0. estadoG = "usuario" /\ TiposAcceso /\ Turno /\ Escrito /\ Vestida
  BY DEF AccesoInv, G!EnLista
<1>1. CASE i > Len(Personas)
  <2>1. manual' = TRUE /\ usuario' = G!Nadie /\ UNCHANGED <<estadoG, senalada, respondido, colaG, fondo>>
    BY <1>1 DEF G!ElegirFila
  <2>2. Ocioso
    BY <1>0, DeCola DEF G!Esperas, G!Ocupaciones
  <2>3. Turno'
    BY <1>0, <2>1, <2>2 DEF Turno, Ocioso
  <2>4. TiposAcceso'
    <3>1. manual' \in BOOLEAN /\ panelG' \in BOOLEAN /\ respondido' \in BOOLEAN
      BY <1>0, <2>1, Zenon DEF TiposAcceso
    <3>. QED BY <1>0, <2>1, <3>1 DEF TiposAcceso, Gente
  <2>5. Escrito' /\ Vestida'
    BY <1>0, <2>1 DEF Escrito, Vestida, ConLosDe, Vestidos
  <2>. QED BY <2>3, <2>4, <2>5 DEF AccesoInv
<1>2. CASE ~(i > Len(Personas))
  <2>1. usuario' = Personas[i] /\ senalada' = i /\ fondo' = G!Vestido(fondo, i)
          /\ G!Autenticar(Personas[i]) /\ manual' = manual
    BY <1>2 DEF G!ElegirFila
  <2>2. Personas[i] \in G!Cuentas
    BY <1>2, DeFilas
  <2>3. Turno' /\ estadoG' = "autenticar" /\ respondido' = FALSE
    BY <1>0, <2>1, AutenticarBien
  <2>4. TiposAcceso'
    <3>1. manual' \in BOOLEAN /\ panelG' \in BOOLEAN /\ respondido' \in BOOLEAN
      BY <1>0, <2>1, <2>3, Zenon DEF TiposAcceso
    <3>. QED BY <1>0, <2>1, <2>2, <3>1 DEF TiposAcceso, Gente
  <2>5. Escrito'
    BY <1>0, <2>3 DEF Escrito
  <2>6. Vestida'
    BY <1>0, <2>1, VestidoBien
  <2>. QED BY <2>3, <2>4, <2>5, <2>6 DEF AccesoInv
<1>. QED BY <1>1, <1>2

\* A press on a row.
LEMMA ElegirP == ASSUME AccesoInv, NEW i \in G!Filas, G!Elegir(i) PROVE AccesoInv'
BY ElegirFilaBien DEF G!Elegir, G!greetd

\* Enter, in the list, after a name or under a question.
LEMMA ContinuarP == ASSUME AccesoInv, G!Continuar PROVE AccesoInv'
<1>0. TiposAcceso /\ Turno /\ Escrito /\ Vestida /\ UNCHANGED <<panelG, llegadas, conv, sesion>>
  BY DEF AccesoInv, G!Continuar, G!greetd
<1>1. CASE G!EnLista /\ G!ElegirFila(senalada) /\ UNCHANGED respuesta
  BY <1>0, <1>1, ElegirFilaBien DEF TiposAcceso
<1>2. CASE estadoG = "usuario" /\ manual /\ usuario # G!Nadie /\ G!Autenticar(usuario)
        /\ UNCHANGED <<usuario, manual, senalada, respuesta, fondo>>
  <2>1. Turno' /\ estadoG' = "autenticar" /\ respondido' = FALSE
    BY <1>0, <1>2, AutenticarBien
  <2>2. manual' \in BOOLEAN /\ panelG' \in BOOLEAN /\ respondido' \in BOOLEAN
    BY <1>0, <1>2, <2>1, Zenon DEF TiposAcceso
  <2>3. TiposAcceso'
    BY <1>0, <1>2, <2>2 DEF TiposAcceso
  <2>4. Escrito' /\ Vestida'
    BY <1>0, <1>2, <2>1 DEF Escrito, Vestida, ConLosDe, Vestidos
  <2>. QED BY <2>1, <2>3, <2>4 DEF AccesoInv
<1>3. CASE /\ estadoG = "pregunta" /\ respondido' = TRUE /\ respuesta' = G!Nadie
           /\ G!Envia(colaG, G!Peticion("autenticar", "contestar", respuesta)) /\ UNCHANGED <<usuario, manual, senalada, fondo>>
  <2>1. PICK p : p = G!Peticion("autenticar", "contestar", respuesta)
    OBVIOUS
  <2>2. p.op = "autenticar" /\ estadoG' = "autenticar" /\ G!Envia(colaG, p)
    BY <1>3, <2>1 DEF G!Peticion, G!Envia
  <2>3. Suya /\ respuesta \in {usuario, G!Nadie}
    BY <1>0, <1>3 DEF Turno, Escrito, PorAtender, Esperada, PorLeer, Dada
  <2>a. Esperada(p)'
    BY <1>0, <1>3, <2>1, <2>2, <2>3 DEF Esperada, Suya, G!Peticion
  <2>4. Turno'
    BY <1>0, <1>3, <2>2, <2>a, Sale
  <2>5. manual' \in BOOLEAN /\ panelG' \in BOOLEAN /\ respondido' \in BOOLEAN
    BY <1>0, <1>3, Zenon DEF TiposAcceso
  <2>6. TiposAcceso'
    BY <1>0, <1>3, <2>5 DEF TiposAcceso
  <2>7. Escrito' /\ Vestida'
    BY <1>0, <1>3, <2>2 DEF Escrito, Vestida, ConLosDe, Vestidos
  <2>. QED BY <2>4, <2>6, <2>7 DEF AccesoInv
<1>. QED BY <1>1, <1>2, <1>3 DEF G!Continuar

\* Escape.
LEMMA CancelarP == ASSUME Prudente, AccesoInv, G!Cancelar PROVE AccesoInv'
<1>0. TiposAcceso /\ Turno /\ Escrito /\ Vestida
  BY DEF AccesoInv
<1>1. CASE panelG /\ panelG' = FALSE /\ UNCHANGED <<estadoG, usuario, manual, senalada, respuesta,
        respondido, colaG, llegadas, G!greetd, fondo>>
  <2>1. Escrito' /\ manual' \in BOOLEAN /\ panelG' \in BOOLEAN /\ senalada' \in G!Filas
          /\ UNCHANGED <<estadoG, usuario, colaG, llegadas, conv, sesion, fondo>>
    BY <1>0, <1>1, Zenon DEF G!greetd, Escrito, TiposAcceso
  <2>. QED BY <1>1, <2>1, RestoP
<1>2. CASE ~panelG /\ estadoG = "usuario" /\ manual /\ manual' = FALSE
           /\ UNCHANGED <<estadoG, usuario, senalada, respuesta, respondido, panelG, colaG, llegadas, G!greetd, fondo>>
  <2>1. Escrito' /\ manual' \in BOOLEAN /\ panelG' \in BOOLEAN /\ senalada' \in G!Filas
          /\ UNCHANGED <<estadoG, usuario, colaG, llegadas, conv, sesion, fondo>>
    BY <1>0, <1>2, Zenon DEF G!greetd, Escrito, TiposAcceso
  <2>. QED BY <1>2, <2>1, RestoP
<1>3. CASE /\ estadoG = "pregunta" /\ respuesta' = G!Nadie
        /\ G!Envia(colaG, G!Peticion("cancelar", "cancelar", G!Nadie))
           /\ UNCHANGED <<usuario, manual, senalada, respondido, panelG, llegadas, G!greetd, fondo>>
  <2>. DEFINE p == G!Peticion("cancelar", "cancelar", G!Nadie)
  <2>1. p.op = "cancelar" /\ estadoG' = "cancelar" /\ G!Envia(colaG, p)
    BY <1>3 DEF G!Peticion, G!Envia
  <2>2. Esperada(p)'
    BY <2>1 DEF Esperada, G!Peticion
  <2>. HIDE DEF p
  <2>3. Turno'
    BY <1>0, <1>3, <2>1, <2>2, Sale
  <2>4. manual' \in BOOLEAN /\ panelG' \in BOOLEAN /\ respondido' \in BOOLEAN
    BY <1>0, <1>3, Zenon DEF TiposAcceso
  <2>5. TiposAcceso'
    BY <1>0, <1>3, <2>4 DEF TiposAcceso, G!greetd
  <2>6. Escrito' /\ Vestida'
    BY <1>0, <1>3, <2>1 DEF Escrito, Vestida, ConLosDe, Vestidos
  <2>. QED BY <2>3, <2>5, <2>6 DEF AccesoInv
<1>. QED BY <1>1, <1>2, <1>3 DEF G!Cancelar, Prudente

-----------------------------------------------------------------------------
\* What PAM says next.
LEMMA DeDice == ASSUME NEW q \in Seq(Dichos) PROVE G!Dice(q) \in Buenas \cup {"rechazo"}
<1>. DEFINE h == Head(q)
<1>1. G!Dice(q) = (CASE q = <<>> -> "rechazo" [] h = "secreta" -> "pregunta" [] h = "aviso" -> "aviso"
                   [] h = "ok" -> "confirmado" [] h = "no" -> "rechazo")
  BY DEF G!Dice
<1>2. q = <<>> \/ h \in Dichos
  OBVIOUS
<1>. HIDE DEF h
<1>3. CASE q = <<>>
  BY <1>1, <1>3 DEF Buenas
<1>4. CASE q # <<>>
  BY <1>1, <1>2, <1>4 DEF Dichos, Buenas
<1>. QED BY <1>3, <1>4

Conversa == [de : Gente, quedan : Seq(Dichos)]
\* A conversation that is over leaves none.
LEMMA DeCerrada ==
  ASSUME NEW c \in Conversa
  PROVE  G!Cerrada(c) \in Conversa /\ (G!Cerrada(c) = G!SinConversacion \/ G!Cerrada(c).de = c.de)
<1>1. G!SinConversacion \in Conversa
  BY DEF G!SinConversacion, Conversa, Gente
<1>. QED BY <1>1 DEF G!Cerrada

\* A conversation with an answer more.
LEMMA DeContestada == ASSUME NEW c \in Conversa PROVE G!Contestada(c) \in Conversa /\ G!Contestada(c).de = c.de
<1>1. CASE c.quedan = <<>> \/ Head(c.quedan) = "ok"
  BY <1>1 DEF G!Contestada
<1>2. CASE ~(c.quedan = <<>> \/ Head(c.quedan) = "ok")
  <2>1. Tail(c.quedan) \in Seq(Dichos)
    BY <1>2 DEF Conversa
  <2>2. G!Contestada(c) = [c EXCEPT !.quedan = Tail(c.quedan)]
    BY <1>2 DEF G!Contestada
  <2>. QED BY <2>1, <2>2 DEF Conversa
<1>. QED BY <1>1, <1>2

\* What greetd may do and say, to each of the requests of the screen.
LEMMA LoQueContesta ==
  ASSUME AccesoInv, NEW p, Esperada(p), NEW x \in G!Resultados(p)
  PROVE  /\ x.c \in Conversa /\ x.s \in Gente
         /\ p.op = "autenticar" => x.r \in Buenas \cup {"rechazo"} /\ (x.c = G!SinConversacion \/ x.c.de = usuario)
         /\ p.op = "iniciar" => x.r \in {"confirmado", "rechazo"} /\ (x.c = G!SinConversacion \/ x.c.de = usuario)
         /\ p.op = "cancelar" => x.r = "confirmado" /\ x.c = G!SinConversacion
<1>0. conv \in Conversa /\ sesion \in Gente /\ usuario \in Gente
  BY DEF AccesoInv, TiposAcceso, Conversa
<1>s. G!SinConversacion \in Conversa
  BY DEF G!SinConversacion, Conversa, Gente
<1>1. CASE p = G!Peticion("autenticar", "crear", usuario)
  <2>1. p.op = "autenticar" /\ p.que = "crear" /\ p.de = usuario
    BY <1>1 DEF G!Peticion
  <2>2. PICK g \in Conversaciones : x = [c |-> G!Cerrada([de |-> p.de, quedan |-> g]), s |-> sesion,
          r |-> G!Dice(g)]
    BY <2>1 DEF G!Resultados
  <2>3. g \in Seq(Dichos)
    BY AccesoAssumption
  <2>4. [de |-> p.de, quedan |-> g] \in Conversa /\ [de |-> p.de, quedan |-> g].de = usuario
    BY <1>0, <2>1, <2>3 DEF Conversa
  <2>5. G!Dice(g) \in Buenas \cup {"rechazo"}
    BY <2>3, DeDice
  <2>6. x.c \in Conversa /\ (x.c = G!SinConversacion \/ x.c.de = usuario)
    BY <2>2, <2>4, DeCerrada
  <2>. QED BY <1>0, <2>1, <2>2, <2>5, <2>6
<1>2. CASE \E d \in {usuario, G!Nadie} : p = G!Peticion("autenticar", "contestar", d)
        /\ estadoG \in {"autenticar", "aviso"} /\ Suya
  <2>1. p.op = "autenticar" /\ p.que = "contestar" /\ Suya
    BY <1>2 DEF G!Peticion
  <2>2. x = [c |-> G!Cerrada(G!Contestada(conv)), s |-> sesion,
          r |-> IF G!Lista(conv) THEN "rechazo" ELSE G!Dice(G!Contestada(conv).quedan)]
    BY <2>1 DEF G!Resultados
  <2>. DEFINE k == G!Contestada(conv)
  <2>3. k \in Conversa /\ k.de = conv.de /\ k.quedan \in Seq(Dichos)
    BY <1>0, DeContestada DEF Conversa
  <2>4. conv = G!SinConversacion => k = G!SinConversacion
    BY DEF G!Contestada, G!SinConversacion
  <2>. HIDE DEF k
  <2>5. G!Cerrada(k) \in Conversa /\ (G!Cerrada(k) = G!SinConversacion \/ G!Cerrada(k).de = k.de)
    BY <2>3, DeCerrada
  <2>6. k = G!SinConversacion => G!Cerrada(k) = G!SinConversacion
    BY DEF G!Cerrada
  <2>7. x.c = G!Cerrada(k) /\ x.s = sesion
    BY <2>2 DEF k
  <2>8. x.r \in Buenas \cup {"rechazo"}
    <3>1. G!Dice(k.quedan) \in Buenas \cup {"rechazo"}
      BY <2>3, DeDice
    <3>2. x.r = IF G!Lista(conv) THEN "rechazo" ELSE G!Dice(k.quedan)
      BY <2>2 DEF k
    <3>. QED BY <3>1, <3>2
  <2>. QED BY <1>0, <2>1, <2>3, <2>4, <2>5, <2>6, <2>7, <2>8 DEF Suya
<1>3. CASE p = G!Peticion("iniciar", "iniciar", G!Nadie) /\ estadoG = "iniciar" /\ Suya
  <2>1. p.op = "iniciar" /\ p.que = "iniciar"
    BY <1>3 DEF G!Peticion
  <2>2. x \in {[c |-> conv, s |-> sesion, r |-> "rechazo"]}
              \cup (IF G!Lista(conv) THEN {[c |-> G!SinConversacion, s |-> conv.de, r |-> "confirmado"]} ELSE {})
    BY <2>1 DEF G!Resultados
  <2>3. conv.de \in Gente
    BY <1>0 DEF Conversa
  <2>4. x = [c |-> conv, s |-> sesion, r |-> "rechazo"] \/ x = [c |-> G!SinConversacion, s |-> conv.de,
          r |-> "confirmado"]
    BY <2>2
  <2>. QED BY <1>0, <1>3, <1>s, <2>1, <2>3, <2>4 DEF Suya
<1>4. CASE p = G!Peticion("cancelar", "cancelar", G!Nadie) /\ estadoG = "cancelar"
  <2>1. p.op = "cancelar" /\ p.que = "cancelar"
    BY <1>4 DEF G!Peticion
  <2>2. x = [c |-> G!SinConversacion, s |-> sesion, r |-> "confirmado"]
    BY <2>1 DEF G!Resultados
  <2>. QED BY <1>0, <1>s, <2>1, <2>2
<1>. QED BY <1>1, <1>2, <1>3, <1>4 DEF Esperada

\* The request that greetd has before it.
LEMMA LaPrimera ==
  ASSUME AccesoInv, colaG # <<>>
  PROVE  \E p : PorAtender(p) /\ Esperada(p) /\ Head(colaG) = p /\ Tail(colaG) = <<>> /\ llegadas = <<>>
<1>1. PICK p : PorAtender(p) /\ Esperada(p)
  BY DEF AccesoInv, Turno, Ocioso, PorLeer
<1>2. Head(colaG) = p /\ Tail(colaG) = <<>> /\ llegadas = <<>>
  BY <1>1 DEF PorAtender
<1>. QED BY <1>1, <1>2

\* The answer comes in, with what greetd has done.
LEMMA Llega ==
  ASSUME AccesoInv, NEW p, Esperada(p), NEW res, UNCHANGED <<G!pantalla, fondo>>, colaG' = <<>>,
          llegadas' = <<[op |-> p.op, res |-> res]>>,
         conv' \in Conversa, sesion' \in Gente,
         p.op = "autenticar" => res \in Buenas \cup {"rechazo", "error"} /\ (res \in Buenas => Suya'),
         p.op = "iniciar" => res \in {"confirmado", "rechazo", "error"},
         p.op = "cancelar" => res \in {"confirmado", "error"}
  PROVE  AccesoInv'
<1>1. UNCHANGED <<estadoG, usuario, manual, senalada, respuesta, respondido, panelG, fondo>>
  BY DEF G!pantalla
<1>2. Dada(p.op, res)'
  BY <1>1 DEF Esperada, Dada, G!Peticion
<1>3. PorLeer([op |-> p.op, res |-> res])'
  BY DEF PorLeer
<1>4. Turno'
  BY <1>2, <1>3 DEF Turno
<1>5. TiposAcceso'
  <2>1. manual' \in BOOLEAN /\ panelG' \in BOOLEAN /\ respondido' \in BOOLEAN
    BY <1>1, Zenon DEF AccesoInv, TiposAcceso
  <2>. QED BY <1>1, <2>1 DEF AccesoInv, TiposAcceso, Conversa
<1>6. Escrito' /\ Vestida'
  BY <1>1 DEF AccesoInv, Escrito, Vestida, ConLosDe, Vestidos
<1>. QED BY <1>4, <1>5, <1>6 DEF AccesoInv

\* greetd answers.
LEMMA AtenderP == ASSUME AccesoInv, G!Atender PROVE AccesoInv'
<1>1. PICK p : PorAtender(p) /\ Esperada(p) /\ Head(colaG) = p /\ Tail(colaG) = <<>> /\ llegadas = <<>>
  BY LaPrimera DEF G!Atender
<1>2. PICK x \in G!Resultados(p) : conv' = x.c /\ sesion' = x.s
        /\ llegadas' = Append(llegadas, [op |-> p.op, res |-> x.r])
  BY <1>1 DEF G!Atender
<1>3. colaG' = <<>> /\ UNCHANGED <<G!pantalla, fondo>> /\ llegadas' = <<[op |-> p.op, res |-> x.r]>>
  BY <1>1, <1>2 DEF G!Atender
<1>4. /\ x.c \in Conversa /\ x.s \in Gente
      /\ p.op = "autenticar" => x.r \in Buenas \cup {"rechazo"} /\ (x.c = G!SinConversacion \/ x.c.de = usuario)
      /\ p.op = "iniciar" => x.r \in {"confirmado", "rechazo"} /\ (x.c = G!SinConversacion \/ x.c.de = usuario)
      /\ p.op = "cancelar" => x.r = "confirmado" /\ x.c = G!SinConversacion
  BY <1>1, LoQueContesta
<1>5. usuario' = usuario
  BY <1>3 DEF G!pantalla
<1>6. p.op = "autenticar" => Suya'
  BY <1>2, <1>4, <1>5 DEF Suya
<1>7. p.op = "autenticar" => x.r \in Buenas \cup {"rechazo", "error"} /\ (x.r \in Buenas => Suya')
  BY <1>4, <1>6
<1>8. /\ p.op = "iniciar" => x.r \in {"confirmado", "rechazo", "error"}
      /\ p.op = "cancelar" => x.r \in {"confirmado", "error"}
  BY <1>4
<1>9. conv' \in Conversa /\ sesion' \in Gente
  BY <1>2, <1>4
<1>. QED BY <1>1, <1>3, <1>7, <1>8, <1>9, Llega

\* The socket breaks, before greetd has done it or after.
LEMMA PerderP == ASSUME AccesoInv, G!Perder PROVE AccesoInv'
<1>1. PICK p : PorAtender(p) /\ Esperada(p) /\ Head(colaG) = p /\ Tail(colaG) = <<>> /\ llegadas = <<>>
  BY LaPrimera DEF G!Perder
<1>2. llegadas' = Append(llegadas, [op |-> p.op, res |-> "error"])
  BY <1>1 DEF G!Perder
<1>3. colaG' = <<>> /\ UNCHANGED <<G!pantalla, fondo>> /\ llegadas' = <<[op |-> p.op, res |-> "error"]>>
  BY <1>1, <1>2 DEF G!Perder
<1>4. conv' \in Conversa /\ sesion' \in Gente
  <2>1. CASE UNCHANGED <<conv, sesion>>
    BY <2>1 DEF AccesoInv, TiposAcceso, Conversa
  <2>2. CASE \E x \in G!Resultados(p) : conv' = x.c /\ sesion' = x.s
    BY <1>1, <2>2, LoQueContesta
  <2>. QED BY <1>1, <2>1, <2>2 DEF G!Perder
<1>5. "error" \notin Buenas
  BY DEF Buenas
<1>. QED BY <1>1, <1>3, <1>4, <1>5, Llega

-----------------------------------------------------------------------------
\* The screen sees an answer.
LEMMA RecibirP == ASSUME AccesoInv, G!Recibir PROVE AccesoInv'
<1>0. TiposAcceso /\ Turno /\ Escrito /\ Vestida /\ UNCHANGED <<usuario, manual, senalada, panelG, conv,
        sesion, fondo>> /\ respuesta' = G!Nadie
  BY DEF AccesoInv, G!Recibir, G!greetd
<1>1. PICK oper, res : PorLeer([op |-> oper, res |-> res]) /\ Dada(oper, res)
  BY <1>0 DEF G!Recibir, Turno, Ocioso, PorAtender
<1>2. Head(llegadas) = [op |-> oper, res |-> res] /\ llegadas' = <<>> /\ colaG = <<>>
  BY <1>1 DEF PorLeer, G!Recibir
<1>3. Turno' /\ respondido' \in BOOLEAN
  <2>1. CASE res = "confirmado" /\ oper = "autenticar"
    <3>1. PICK p : p = G!Peticion("iniciar", "iniciar", G!Nadie)
      OBVIOUS
    <3>2. G!Envia(colaG, p) /\ respondido' = respondido
      BY <1>2, <2>1, <3>1 DEF G!Recibir
    <3>3. colaG' = <<p>> /\ estadoG' = "iniciar"
      BY <1>2, <3>1, <3>2 DEF G!Envia, G!Peticion
    <3>4. Esperada(p)' /\ PorAtender(p)'
      BY <1>0, <1>1, <1>2, <2>1, <3>1, <3>3 DEF Esperada, PorAtender, Dada, Suya, Buenas, G!Peticion
    <3>5. Turno'
      BY <3>4 DEF Turno
    <3>6. respondido' \in BOOLEAN
      BY <1>0, <3>2, Zenon DEF TiposAcceso
    <3>. QED BY <3>5, <3>6
  <2>2. CASE res = "confirmado" /\ oper = "iniciar"
    <3>1. estadoG' = "fuera" /\ colaG' = <<>> /\ respondido' = respondido
      BY <1>2, <2>2 DEF G!Recibir
    <3>2. Turno'
      BY <1>2, <3>1 DEF Turno, Ocioso
    <3>3. respondido' \in BOOLEAN
      BY <1>0, <3>1, Zenon DEF TiposAcceso
    <3>. QED BY <3>2, <3>3
  <2>3. CASE res = "pregunta"
    <3>1. estadoG' = "pregunta" /\ colaG' = <<>> /\ respondido' = respondido
      BY <1>2, <2>3 DEF G!Recibir
    <3>2. Suya
      BY <1>1, <2>3 DEF Dada, Buenas
    <3>3. Turno'
      BY <1>0, <1>2, <3>1, <3>2 DEF Turno, Ocioso, Suya
    <3>4. respondido' \in BOOLEAN
      BY <1>0, <3>1, Zenon DEF TiposAcceso
    <3>. QED BY <3>3, <3>4
  <2>4. CASE res = "aviso"
    <3>1. PICK p : p = G!Peticion("autenticar", "contestar", G!Nadie)
      OBVIOUS
    <3>2. colaG' = Append(colaG, p) /\ estadoG' = "aviso" /\ respondido' = respondido
      BY <1>2, <2>4, <3>1 DEF G!Recibir, G!Avisada
    <3>3. colaG' = <<p>>
      BY <1>2, <3>2
    <3>4. Esperada(p)' /\ PorAtender(p)'
      BY <1>0, <1>1, <1>2, <2>4, <3>1, <3>2, <3>3 DEF Esperada, PorAtender, Dada, Suya, Buenas, G!Peticion
    <3>5. Turno'
      BY <3>4 DEF Turno
    <3>6. respondido' \in BOOLEAN
      BY <1>0, <3>2, Zenon DEF TiposAcceso
    <3>. QED BY <3>5, <3>6
  <2>5. CASE res = "rechazo" /\ respondido
    <3>1. PICK p : p = G!Peticion("autenticar", "crear", usuario)
      OBVIOUS
    <3>a. G!Autenticar(usuario)
      <4>1. Head(llegadas).op = oper /\ Head(llegadas).res = "rechazo"
        BY <1>2, <2>5
      <4>2. Head(llegadas).res # "confirmado" /\ Head(llegadas).res # "pregunta" /\ Head(llegadas).res # "aviso"
            /\ Head(llegadas).res # "error"
        BY <4>1
      <4>. QED BY <2>5, <4>2, Zenon DEF G!Recibir
    <3>2. G!Envia(colaG, p) /\ respondido' = FALSE
      BY <3>1, <3>a DEF G!Autenticar
    <3>3. colaG' = <<p>> /\ estadoG' = "autenticar"
      BY <1>2, <3>1, <3>2 DEF G!Envia, G!Peticion
    <3>4. Esperada(p)' /\ PorAtender(p)'
      BY <1>0, <1>2, <3>1, <3>3 DEF Esperada, PorAtender, G!Peticion
    <3>5. Turno'
      BY <3>4 DEF Turno
    <3>. QED BY <3>2, <3>5
  <2>6. CASE (res = "confirmado" /\ oper = "cancelar") \/ (res = "rechazo" /\ ~respondido) \/ res = "error"
    <3>1. estadoG' = "usuario" /\ colaG' = <<>> /\ respondido' = respondido
      BY <1>2, <2>6 DEF G!Recibir, G!Volver
    <3>2. Turno'
      BY <1>2, <3>1 DEF Turno, Ocioso
    <3>3. respondido' \in BOOLEAN
      BY <1>0, <3>1, Zenon DEF TiposAcceso
    <3>. QED BY <3>2, <3>3
  <2>. QED BY <1>1, <2>1, <2>2, <2>3, <2>4, <2>5, <2>6 DEF Dada, Buenas
<1>4. TiposAcceso'
  <2>1. manual' \in BOOLEAN /\ panelG' \in BOOLEAN
    BY <1>0, Zenon DEF TiposAcceso
  <2>. QED BY <1>0, <1>3, <2>1 DEF TiposAcceso
<1>5. Escrito' /\ Vestida'
  BY <1>0 DEF Escrito, Vestida, ConLosDe, Vestidos
<1>. QED BY <1>3, <1>4, <1>5 DEF AccesoInv

\* A step that changes nothing.
LEMMA AccesoQuieto == ASSUME AccesoInv, UNCHANGED G!vars PROVE AccesoInv'
<1>1. Vestida'
  BY DEF G!vars, AccesoInv, Vestida, ConLosDe, Vestidos
<1>2. TiposAcceso' /\ Turno' /\ Escrito'
  BY Zenon DEF G!vars, AccesoInv, TiposAcceso, Turno, Escrito, Ocioso, PorAtender, PorLeer, Esperada, Dada, Suya
<1>. QED BY <1>1, <1>2 DEF AccesoInv

\* Every step of the login screen keeps the invariant.
LEMMA AccesoPaso == ASSUME Prudente, AccesoInv, [G!Next]_(G!vars) PROVE AccesoInv'
<1>1. ASSUME NEW i \in G!Filas, G!Elegir(i) \/ G!Mover(i) PROVE AccesoInv'
  BY <1>1, ElegirP, MoverP
<1>2. ASSUME NEW c \in G!Cuentas, G!EscribirUsuario(c) PROVE AccesoInv'
  BY <1>2, EscribirUsuarioP
<1>3. ASSUME NEW i \in fondo.cargando, NEW bien \in BOOLEAN, G!FondoCargado(i, bien) PROVE AccesoInv'
  BY <1>3, FondoCargadoP
<1>4. G!EscribirRespuesta \/ G!Continuar \/ G!Cancelar \/ G!AbrirPanel \/ G!Pantalla
      \/ G!Atender \/ G!Perder \/ G!Recibir => AccesoInv'
  BY EscribirRespuestaP, ContinuarP, CancelarP, AbrirPanelP, PantallaP, AtenderP, PerderP, RecibirP
<1>. QED BY <1>1, <1>2, <1>3, <1>4, AccesoQuieto DEF G!Next

-----------------------------------------------------------------------------
(***************************************************************************)
(* Its card of networks: any number of things may be.                      *)
(***************************************************************************)
\* The card counts as anybody does.
LEMMA CuentaRed == ASSUME NEW T PROVE GW!Cardinality(T) = Cardinality(T)
BY DEF GW!Cardinality, Cardinality

Cosas == {"leer", "encender", "apagar", "conectar", "desconectar"}
VistasRed == [encendida : BOOLEAN, actual : Redes \cup {GW!Ninguna}, guardadas : SUBSET Redes]
TareaRed == [num : 1 .. MaxTareas, que : Cosas, red : Redes \cup {GW!Ninguna}, leido : SUBSET VistasRed]
Redondas == [radio : BOOLEAN, activa : Redes \cup {GW!Ninguna}, guardadas : SUBSET Redes]
\* A task connects to some network.
TareaBuena(t) == t \in TareaRed /\ (t.que = "conectar" => t.red \in Redes)
RedInv ==
  /\ GW!TypeOK /\ nm \in Redondas /\ IsFiniteSet(tareasGW) /\ \A t \in tareasGW : TareaBuena(t)
  /\ GW!BuscaAlgo /\ GW!ClaveDeSuRed

\* The invariant says what the property asks of the card.
LEMMA RedBasta == RedInv => GW!TypeOK /\ GW!RedEnOrden
BY DEF RedInv, GW!RedEnOrden

\* No task at the start.
LEMMA RedInicial == GW!Init => RedInv
<1>. SUFFICES ASSUME GW!Init PROVE RedInv
  OBVIOUS
<1>1. tareasGW = {} /\ IsFiniteSet(tareasGW) /\ Cardinality(tareasGW) = 0
  BY FS_EmptySet DEF GW!Init
<1>2. estadoGW \in VistasRed /\ nm \in Redondas
  BY DEF GW!Init, VistasRed, Redondas
<1>3. cargando \in BOOLEAN
  BY Zenon DEF GW!Init
<1>4. GW!TypeOK
  BY CuentaRed, <1>1, <1>2, <1>3, RedAssumption DEF GW!Init, GW!TypeOK, GW!Paneles, VistasRed, Redondas
<1>. QED BY <1>1, <1>2, <1>4 DEF GW!Init, RedInv, GW!BuscaAlgo, GW!ClaveDeSuRed

\* What is read.
LEMMA DeLeer == ASSUME NEW n \in Redondas PROVE GW!LeerWifi(n) \in VistasRed
BY DEF GW!LeerWifi, Redondas, VistasRed

\* What a task does to NetworkManager.
LEMMA DeHacer == ASSUME NEW n \in Redondas, NEW que \in Cosas, NEW red \in Redes \cup {GW!Ninguna},
         que = "conectar" => red \in Redes
  PROVE  GW!Hacer(n, que, red) \in Redondas
<1>1. CASE que = "leer"
  BY <1>1 DEF GW!Hacer
<1>2. CASE que = "encender"
  BY <1>2 DEF GW!Hacer, Redondas
<1>3. CASE que = "apagar"
  <2>1. GW!Hacer(n, que, red) = [n EXCEPT !.radio = FALSE, !.activa = GW!Ninguna]
    BY <1>3 DEF GW!Hacer
  <2>. QED BY <2>1 DEF Redondas
<1>4. CASE que = "conectar"
  <2>1. ~n.radio => GW!Hacer(n, que, red) = n
    BY <1>4 DEF GW!Hacer
  <2>2. n.radio => GW!Hacer(n, que, red) = [n EXCEPT !.activa = red, !.guardadas = @ \cup {red}]
    BY <1>4, Zenon DEF GW!Hacer
  <2>3. [n EXCEPT !.activa = red, !.guardadas = @ \cup {red}] \in Redondas
    BY <1>4 DEF Redondas
  <2>. QED BY <2>1, <2>2, <2>3
<1>5. CASE que = "desconectar"
  BY <1>5 DEF GW!Hacer, Redondas
<1>. QED BY <1>1, <1>2, <1>3, <1>4, <1>5 DEF Cosas

\* What a failed task tells.
LEMMA DeFallida == ASSUME NEW n \in Redondas, NEW que \in Cosas PROVE GW!Fallida(n, que) \in VistasRed
<1>1. GW!LeerWifi(n) \in VistasRed
  BY DeLeer
<1>. DEFINE v == GW!LeerWifi(n)
<1>2. GW!Fallida(n, que) = [v EXCEPT !.encendida = FALSE] \/ GW!Fallida(n,
        que) = [v EXCEPT !.encendida = TRUE] \/ GW!Fallida(n, que) = v
  BY DEF GW!Fallida, Cosas
<1>. HIDE DEF v
<1>3. v \in VistasRed
  BY <1>1 DEF v
<1>. QED BY <1>2, <1>3 DEF VistasRed

\* One more task.
LEMMA LanzarBien ==
  ASSUME RedInv, NEW que \in Cosas, NEW red \in Redes \cup {GW!Ninguna}, que = "conectar" => red \in Redes,
          GW!Lanzar(que, red),
         panelGW' \in GW!Paneles, estadoGW' \in VistasRed, conectarA' \in Redes \cup {GW!Ninguna}, clave' \in Redes \cup {GW!Ninguna},
         GW!ClaveDeSuRed'
  PROVE  RedInv'
<1>1. PICK i \in 1 .. MaxTareas : tareasGW' = tareasGW \cup {[num |-> i, que |-> que, red |-> red,
        leido |-> {}]}
  BY DEF GW!Lanzar
<1>2. cargando' = TRUE /\ nm' = nm /\ fallosGW' = fallosGW /\ Cardinality(tareasGW) < MaxTareas
        /\ IsFiniteSet(tareasGW)
  BY CuentaRed DEF GW!Lanzar, RedInv
<1>. DEFINE t == [num |-> i, que |-> que, red |-> red, leido |-> {}]
<1>3. TareaBuena(t)
  BY DEF TareaBuena, TareaRed
<1>. HIDE DEF t
<1>4. tareasGW' = tareasGW \cup {t}
  BY <1>1 DEF t
<1>5. IsFiniteSet(tareasGW') /\ Cardinality(tareasGW') <= MaxTareas
  <2>1. IsFiniteSet(tareasGW \cup {t}) /\ Cardinality(tareasGW \cup {t})
        = IF t \in tareasGW THEN Cardinality(tareasGW) ELSE Cardinality(tareasGW) + 1
    BY <1>2, FS_AddElement
  <2>2. Cardinality(tareasGW) \in Nat
    BY <1>2, FS_CardinalityType
  <2>. QED BY <1>2, <1>4, <2>1, <2>2, RedAssumption
<1>6. GW!TypeOK'
  BY CuentaRed, <1>2, <1>5 DEF RedInv, GW!TypeOK, Redondas, VistasRed
<1>. QED BY <1>2, <1>3, <1>4, <1>5, <1>6 DEF RedInv, GW!BuscaAlgo

\* The card changes and nothing is asked.
LEMMA TarjetaBien ==
  ASSUME RedInv, UNCHANGED <<estadoGW, cargando, tareasGW, nm, fallosGW>>, panelGW' \in GW!Paneles,
          conectarA' \in Redes \cup {GW!Ninguna},
         clave' \in Redes \cup {GW!Ninguna}, GW!ClaveDeSuRed'
  PROVE  RedInv'
<1>1. cargando' \in BOOLEAN
  BY Zenon DEF RedInv, GW!TypeOK
<1>2. GW!TypeOK'
  BY CuentaRed, <1>1 DEF RedInv, GW!TypeOK
<1>. QED BY <1>2 DEF RedInv, GW!BuscaAlgo

\* What the types say of the card.
LEMMA DeTipos ==
  ASSUME RedInv
  PROVE  panelGW \in GW!Paneles /\ estadoGW \in VistasRed /\ conectarA \in Redes \cup {GW!Ninguna}
          /\ clave \in Redes \cup {GW!Ninguna} /\ estadoGW.encendida \in BOOLEAN
BY DEF RedInv, GW!TypeOK, VistasRed

\* The keys of the card.
LEMMA TarjetaP ==
  ASSUME RedInv, GW!AbrirRed \/ GW!AbrirOtro \/ GW!Cerrar \/ GW!Energia \/ GW!WifiAlternar \/ GW!WifiRefrescar
  PROVE  RedInv'
<1>t. panelGW \in GW!Paneles /\ estadoGW \in VistasRed /\ conectarA \in Redes \cup {GW!Ninguna}
        /\ clave \in Redes \cup {GW!Ninguna} /\ GW!ClaveDeSuRed
  BY DeTipos DEF RedInv
<1>1. CASE GW!AbrirRed
  BY <1>1, <1>t, LanzarBien DEF GW!AbrirRed, GW!formulario, Cosas, GW!Paneles, GW!ClaveDeSuRed
<1>2. CASE GW!AbrirOtro
  BY <1>2, <1>t, TarjetaBien DEF GW!AbrirOtro, GW!formulario, GW!Paneles, GW!ClaveDeSuRed
<1>3. CASE GW!Cerrar
  BY <1>3, <1>t, TarjetaBien DEF GW!Cerrar, GW!Paneles, GW!ClaveDeSuRed
<1>4. CASE GW!Energia
  BY <1>4, <1>t, TarjetaBien DEF GW!Energia, GW!formulario, GW!Paneles, GW!ClaveDeSuRed
<1>5. CASE GW!WifiAlternar
  <2>1. estadoGW' \in VistasRed
    BY <1>5, <1>t DEF GW!WifiAlternar, VistasRed
  <2>2. PICK que \in {"apagar", "encender"} : GW!Lanzar(que, GW!Ninguna)
    BY <1>5 DEF GW!WifiAlternar
  <2>3. conectarA' = GW!Ninguna /\ clave' = GW!Ninguna /\ panelGW' = panelGW
    BY <1>5 DEF GW!WifiAlternar
  <2>. QED BY <1>t, <2>1, <2>2, <2>3, LanzarBien DEF Cosas, GW!ClaveDeSuRed
<1>6. CASE GW!WifiRefrescar
  BY <1>6, <1>t, LanzarBien DEF GW!WifiRefrescar, GW!formulario, Cosas, GW!ClaveDeSuRed
<1>. QED BY <1>1, <1>2, <1>3, <1>4, <1>5, <1>6

\* The rows of its list.
LEMMA ListaP ==
  ASSUME RedInv, GW!WifiClave \/ GW!WifiCancelarClave \/ GW!WifiConectar \/ GW!WifiDesconectar
         \/ \E r \in Redes : GW!WifiElegir(r)
  PROVE  RedInv'
<1>t. panelGW \in GW!Paneles /\ estadoGW \in VistasRed /\ conectarA \in Redes \cup {GW!Ninguna}
        /\ clave \in Redes \cup {GW!Ninguna} /\ GW!ClaveDeSuRed
  BY DeTipos DEF RedInv
<1>1. CASE GW!WifiClave
  BY <1>1, <1>t, TarjetaBien DEF GW!WifiClave, GW!ClaveDeSuRed
<1>2. CASE GW!WifiCancelarClave
  BY <1>2, <1>t, TarjetaBien DEF GW!WifiCancelarClave, GW!ClaveDeSuRed
<1>3. CASE GW!WifiConectar
  BY <1>3, <1>t, LanzarBien DEF GW!WifiConectar, GW!EnFormulario, Cosas, GW!ClaveDeSuRed
<1>4. CASE GW!WifiDesconectar
  BY <1>4, <1>t, LanzarBien DEF GW!WifiDesconectar, GW!formulario, Cosas, GW!ClaveDeSuRed
<1>5. ASSUME NEW r \in Redes, GW!WifiElegir(r) PROVE RedInv'
  <2>1. CASE r \notin Abiertas \cup estadoGW.guardadas
    BY <1>5, <1>t, <2>1, TarjetaBien DEF GW!WifiElegir, GW!ClaveDeSuRed
  <2>2. CASE ~(r \notin Abiertas \cup estadoGW.guardadas)
    BY <1>5, <1>t, <2>2, LanzarBien DEF GW!WifiElegir, Cosas, GW!ClaveDeSuRed
  <2>. QED BY <2>1, <2>2
<1>. QED BY <1>1, <1>2, <1>3, <1>4, <1>5

\* One element more.
LEMMA UnoMas ==
  ASSUME NEW T, IsFiniteSet(T), NEW u
  PROVE  IsFiniteSet(T \cup {u}) /\ Cardinality(T \cup {u}) \in Nat
          /\ Cardinality(T \cup {u}) <= Cardinality(T) + 1
<1>1. Cardinality(T) \in Nat
  BY FS_CardinalityType
<1>2. IsFiniteSet(T \cup {u}) /\ Cardinality(T \cup {u})
        = IF u \in T THEN Cardinality(T) ELSE Cardinality(T) + 1
  BY FS_AddElement
<1>. QED BY <1>1, <1>2

\* A task takes the place of itself.
LEMMA Cambiada ==
  ASSUME RedInv, NEW t \in tareasGW, NEW v \in VistasRed,
          tareasGW' = (tareasGW \ {t}) \cup {[t EXCEPT !.leido = {v}]}, nm' \in Redondas,
         UNCHANGED <<panelGW, estadoGW, cargando, GW!formulario>>
  PROVE  RedInv'
<1>. DEFINE u == [t EXCEPT !.leido = {v}]
<1>1. TareaBuena(u)
  BY DEF RedInv, TareaBuena, TareaRed
<1>. HIDE DEF u
<1>2. tareasGW' = (tareasGW \ {t}) \cup {u}
  BY DEF u
<1>3. IsFiniteSet(tareasGW') /\ Cardinality(tareasGW') <= MaxTareas
  <2>1. IsFiniteSet(tareasGW) /\ Cardinality(tareasGW) <= MaxTareas /\ Cardinality(tareasGW) \in Nat
    BY CuentaRed, FS_CardinalityType DEF RedInv, GW!TypeOK
  <2>2. IsFiniteSet(tareasGW \ {t}) /\ Cardinality(tareasGW \ {t}) = Cardinality(tareasGW) - 1
    BY <2>1, FS_RemoveElement
  <2>3. IsFiniteSet((tareasGW \ {t}) \cup {u}) /\ Cardinality((tareasGW \ {t}) \cup {u}) \in Nat
       /\ Cardinality((tareasGW \ {t}) \cup {u}) <= Cardinality(tareasGW \ {t}) + 1
    BY <2>2, UnoMas, Zenon
  <2>4. Cardinality((tareasGW \ {t}) \cup {u}) <= MaxTareas
    BY <2>1, <2>2, <2>3, RedAssumption
  <2>. QED BY <1>2, <2>3, <2>4
<1>4. cargando' \in BOOLEAN
  BY Zenon DEF RedInv, GW!TypeOK
<1>5. GW!TypeOK'
  BY CuentaRed, <1>3, <1>4 DEF RedInv, GW!TypeOK, Redondas, GW!formulario
<1>. QED BY <1>1, <1>2, <1>3, <1>5 DEF RedInv, GW!BuscaAlgo, GW!ClaveDeSuRed, GW!formulario

\* A task is done, or fails.
LEMMA EjecutarP == ASSUME RedInv, NEW t \in tareasGW, GW!Ejecutar(t) PROVE RedInv'
<1>t. nm \in Redondas /\ t.que \in Cosas /\ t.red \in Redes \cup {GW!Ninguna}
        /\ (t.que = "conectar" => t.red \in Redes)
  BY DEF RedInv, TareaBuena, TareaRed
<1>c. UNCHANGED <<panelGW, estadoGW, cargando, GW!formulario>>
  BY DEF GW!Ejecutar
<1>1. CASE nm' = GW!Hacer(nm, t.que, t.red) /\ tareasGW' = (tareasGW \ {t}) \cup {[t EXCEPT !.leido = {GW!LeerWifi(nm')}]}
  <2>1. nm' \in Redondas
    BY <1>t, <1>1, DeHacer
  <2>2. PICK v : v = GW!LeerWifi(nm')
    OBVIOUS
  <2>3. v \in VistasRed
    BY <2>1, <2>2, DeLeer
  <2>. QED BY <1>c, <1>1, <2>1, <2>2, <2>3, Cambiada
<1>2. CASE tareasGW' = (tareasGW \ {t}) \cup {[t EXCEPT !.leido = {GW!Fallida(nm, t.que)}]} /\ UNCHANGED nm
  <2>1. GW!Fallida(nm, t.que) \in VistasRed
    BY <1>t, DeFallida
  <2>. QED BY <1>t, <1>c, <1>2, <2>1, Cambiada
<1>. QED BY <1>1, <1>2 DEF GW!Ejecutar

\* It comes back.
LEMMA WifiEstadoP == ASSUME RedInv, NEW t \in tareasGW, GW!WifiEstado(t) PROVE RedInv'
<1>1. estadoGW' \in VistasRed
  <2>1. t.leido \subseteq VistasRed /\ t.leido # {}
    BY DEF RedInv, TareaBuena, TareaRed, GW!WifiEstado
  <2>2. (CHOOSE e \in t.leido : TRUE) \in t.leido
    BY <2>1
  <2>. QED BY <2>1, <2>2 DEF GW!WifiEstado
<1>2. tareasGW' = tareasGW \ {t} /\ cargando' = FALSE /\ UNCHANGED <<panelGW, GW!formulario, nm, fallosGW>>
  BY DEF GW!WifiEstado
<1>3. IsFiniteSet(tareasGW') /\ Cardinality(tareasGW') <= MaxTareas
  <2>1. IsFiniteSet(tareasGW) /\ Cardinality(tareasGW) <= MaxTareas /\ Cardinality(tareasGW) \in Nat
    BY CuentaRed, FS_CardinalityType DEF RedInv, GW!TypeOK
  <2>2. IsFiniteSet(tareasGW \ {t}) /\ Cardinality(tareasGW \ {t}) = Cardinality(tareasGW) - 1
    BY <2>1, FS_RemoveElement
  <2>. QED BY <1>2, <2>1, <2>2, RedAssumption
<1>4. GW!TypeOK'
  BY CuentaRed, <1>1, <1>2, <1>3 DEF RedInv, GW!TypeOK, Redondas, VistasRed, GW!formulario
<1>. QED BY <1>2, <1>3, <1>4 DEF RedInv, GW!BuscaAlgo, GW!ClaveDeSuRed, GW!formulario

\* A step that changes nothing.
LEMMA RedQuieta == ASSUME RedInv, UNCHANGED GW!vars PROVE RedInv'
BY TarjetaBien, DeTipos DEF GW!vars, RedInv, GW!ClaveDeSuRed

\* Every step of the card keeps the invariant.
LEMMA RedPaso == ASSUME RedInv, [GW!Next]_(GW!vars) PROVE RedInv'
BY TarjetaP, ListaP, EjecutarP, WifiEstadoP, RedQuieta DEF GW!Next

-----------------------------------------------------------------------------
\* The machines do not touch each other: a step of the whole is, for the login screen, one of its
\* own or none.
LEMMA AccesoAparte ==
  ASSUME [Next]_<<parte, deGreeter, deGreeterWifi, deBuds, deBudsReader, deBudsStatus,
        deActivities, deSystemService, deVolumeKeys, deWifiProfiles, deSettings, deNightLight,
        deAutoTheme, deBrightness>>,
         parte' = "greeter"
  PROVE  parte = "greeter" /\ (G!Next \/ UNCHANGED G!vars)
<1>1. UNCHANGED <<parte, deGreeter>> => parte' = parte /\ UNCHANGED G!vars
  BY DEF deGreeter, G!vars
<1>2. Next => parte' = parte /\ (parte = "greeter" => G!Next)
  BY DEF Next, EnGreeter, EnGreeterWifi, EnBuds, EnBudsReader, EnBudsStatus, EnActivities,
      EnSystemService, EnVolumeKeys, EnWifiProfiles, EnSettings, EnNightLight, EnAutoTheme,
      EnBrightness, G!Next
<1>. QED BY <1>1, <1>2

\* And for its card of networks.
LEMMA RedAparte ==
  ASSUME [Next]_<<parte, deGreeter, deGreeterWifi, deBuds, deBudsReader, deBudsStatus,
        deActivities, deSystemService, deVolumeKeys, deWifiProfiles, deSettings, deNightLight,
        deAutoTheme, deBrightness>>,
         parte' = "wifi"
  PROVE  parte = "wifi" /\ (GW!Next \/ UNCHANGED GW!vars)
<1>1. UNCHANGED <<parte, deGreeterWifi>> => parte' = parte /\ UNCHANGED GW!vars
  BY DEF deGreeterWifi, GW!vars
<1>2. Next => parte' = parte /\ (parte = "wifi" => GW!Next)
  BY DEF Next, EnGreeter, EnGreeterWifi, EnBuds, EnBudsReader, EnBudsStatus, EnActivities,
      EnSystemService, EnVolumeKeys, EnWifiProfiles, EnSettings, EnNightLight, EnAutoTheme,
      EnBrightness, GW!Next
<1>. QED BY <1>1, <1>2

\* What is known of the login screen and of its card of networks.
EntradaInv == /\ parte = "greeter" => AccesoInv
              /\ parte = "wifi" => RedInv

\* Whoever is let in is who answered PAM: with any accounts, any conversation of PAM and any loss,
\* an answer never goes to another account's conversation, a session starts for the account on the
\* screen, nothing waits for an answer that will not come, what was cancelled leaves nothing and
\* the wallpaper is of who dresses the screen; and the card of networks says it is looking while
\* it is, and asks the key of the network it was asked for.
THEOREM AccesoBien == ASSUME Prudente PROVE Spec => []AccesoEnOrden
<1>1. Init => EntradaInv
  BY AccesoInicial, RedInicial DEF Init, EntradaInv
<1>2. EntradaInv /\ [Next]_<<parte, deGreeter, deGreeterWifi, deBuds, deBudsReader, deBudsStatus,
        deActivities, deSystemService, deVolumeKeys, deWifiProfiles, deSettings, deNightLight,
        deAutoTheme, deBrightness>>
        => EntradaInv'
  BY AccesoPaso, RedPaso, AccesoAparte, RedAparte DEF EntradaInv
<1>3. EntradaInv => AccesoEnOrden
  BY AccesoBasta, RedBasta DEF EntradaInv, AccesoEnOrden
<1>. QED BY <1>1, <1>2, <1>3, PTL DEF Spec

-----------------------------------------------------------------------------
(***************************************************************************)
(* The level of the panel: who asks last has it.                           *)
(***************************************************************************)
\* The device shows each level as it is.
Exacta == \A n \in 0..Tope : Br!Leido(Br!Crudo(n)) = n
\* Or near enough not to be taken for somebody else's doing.
Cercana == \A n \in 0..Tope : Br!Abs(Br!Leido(Br!Crudo(n)) - n) <= Tolerancia

\* Showing each level as it is is near enough.
LEMMA ExactaEsCercana == Exacta => Cercana
<1>. SUFFICES ASSUME Exacta, NEW n \in 0..Tope PROVE Br!Abs(Br!Leido(Br!Crudo(n)) - n) <= Tolerancia
  BY DEF Cercana
<1>1. Br!Leido(Br!Crudo(n)) - n = 0 /\ Tolerancia \in Nat
  BY BrilloAssumption DEF Exacta, Br!NivelesAssumption
<1>. QED BY <1>1 DEF Br!Abs

-----------------------------------------------------------------------------
\* A quotient is between the bounds its dividend gives.
LEMMA CocienteEntre ==
  ASSUME NEW n \in Nat, NEW d \in Nat \ {0}, NEW m \in Nat, n <= m * d
  PROVE  n \div d \in 0..m
<1>. DEFINE q == n \div d
            r == n % d
<1>1. q \in Int /\ r \in 0..(d - 1) /\ n = d * q + r
  OBVIOUS
<1>. HIDE DEF q, r
<1>2. d * q <= m * d /\ d * q > -d
  BY <1>1
<1>3. \A z \in Int : z >= 1 => z * d >= d
  OBVIOUS
<1>4. \A z \in Int : z <= -1 => z * d <= -d
  OBVIOUS
<1>5. ~(q <= -1)
  <2>1. q * d = d * q
    BY <1>1
  <2>. QED BY <1>1, <1>2, <1>4, <2>1
<1>6. ~(q - m >= 1)
  <2>1. (q - m) * d = d * q - m * d
    BY <1>1
  <2>2. (q - m) * d <= 0
    BY <1>1, <1>2, <2>1
  <2>. QED BY <1>1, <1>3, <2>2
<1>. QED BY <1>1, <1>5, <1>6 DEF q

\* And so is a rounded one.
LEMMA RedondeoEntre ==
  ASSUME NEW n \in Nat, NEW d \in Nat \ {0}, NEW m \in Nat, n <= m * d
  PROVE  Br!Redondeo(n, d) \in 0..m
<1>1. PICK a, b0 : a = 2 * n + d /\ b0 = 2 * d
  OBVIOUS
<1>. DEFINE q == a \div b0
            r == a % b0
<1>2. a \in Nat /\ b0 \in Nat \ {0}
  BY <1>1
<1>3. q \in Int /\ r \in 0..(b0 - 1) /\ a = b0 * q + r
  BY <1>2
<1>4. Br!Redondeo(n, d) = q
  BY <1>1 DEF Br!Redondeo
<1>. HIDE DEF q, r
<1>5. q \in Int /\ r \in 0..(2 * d - 1) /\ 2 * n + d = (2 * d) * q + r
  BY <1>1, <1>3
<1>6. m * d \in Nat /\ d * q \in Int /\ (2 * d) * q = 2 * (d * q)
  BY <1>5
<1>7. 2 * (d * q) <= 2 * (m * d) + d /\ 2 * (d * q) > -d
  BY <1>5, <1>6
<1>8. \A z \in Int : z >= 1 => z * d >= d
  OBVIOUS
<1>9. \A z \in Int : z <= -1 => z * d <= -d
  OBVIOUS
<1>10. ~(q <= -1)
  <2>1. q * d = d * q
    BY <1>5
  <2>. QED BY <1>5, <1>6, <1>7, <1>9, <2>1
<1>11. ~(q - m >= 1)
  <2>1. (q - m) * d = d * q - m * d
    BY <1>5
  <2>2. 2 * ((q - m) * d) <= d /\ (q - m) * d \in Int
    BY <1>5, <1>6, <1>7, <2>1
  <2>. QED BY <1>5, <1>8, <2>2
<1>. QED BY <1>5, <1>10, <1>11, <1>4

\* A level is within the device.
LEMMA CrudoEntre == ASSUME NEW n \in 0..Tope PROVE Br!Crudo(n) \in Br!Crudos
<1>1. Maximo \in Nat /\ Tope \in Nat \ {0} /\ n \in Nat /\ n <= Tope
  BY BrilloAssumption DEF Br!NivelesAssumption
<1>2. PICK a : a = Maximo * n
  OBVIOUS
<1>3. a \in Nat /\ a <= Maximo * Tope
  BY <1>1, <1>2
<1>4. Br!Redondeo(a, Tope) \in 0..Maximo
  BY <1>1, <1>3, RedondeoEntre
<1>. QED BY <1>2, <1>4 DEF Br!Crudo, Br!Crudos

\* And what is read is a level.
LEMMA LeidoEntre == ASSUME NEW k \in Br!Crudos PROVE Br!Leido(k) \in 0..Tope
<1>1. Maximo \in Nat \ {0} /\ Tope \in Nat /\ k \in Nat /\ k <= Maximo
  BY BrilloAssumption DEF Br!NivelesAssumption, Br!Crudos
<1>2. PICK a : a = k * Tope
  OBVIOUS
<1>3. a \in Nat /\ a <= Tope * Maximo
  BY <1>1, <1>2
<1>4. a \div Maximo \in 0..Tope
  BY <1>1, <1>3, CocienteEntre
<1>. QED BY <1>2, <1>4 DEF Br!Leido

Bajadas == [paso : 0..Tramo, de : 0..Tope, a : 0..Tope]
\* Between two levels.
LEMMA BajadaEntre == ASSUME NEW r \in Bajadas PROVE Br!CrudoDeBajada(r) \in Br!Crudos
<1>1. /\ Maximo \in Nat /\ Tope \in Nat \ {0} /\ Tramo \in Nat \ {0}
      /\ r.paso \in Nat /\ r.paso <= Tramo /\ r.de \in Nat /\ r.de <= Tope /\ r.a \in Nat /\ r.a <= Tope
  BY BrilloAssumption DEF Br!NivelesAssumption, Bajadas
<1>2. PICK x, y, p : x = r.de /\ y = r.a /\ p = r.paso
  OBVIOUS
<1>3. x \in Nat /\ x <= Tope /\ y \in Nat /\ y <= Tope /\ p \in Nat /\ p <= Tramo
  BY <1>1, <1>2
<1>4. PICK v : v = x * Tramo + (y - x) * p
  OBVIOUS
<1>5. v = x * (Tramo - p) + y * p /\ Tramo - p \in Nat
  BY <1>1, <1>3, <1>4
<1>6. x * (Tramo - p) \in Nat /\ x * (Tramo - p) <= Tope * (Tramo - p)
  BY <1>1, <1>3, <1>5
<1>7. y * p \in Nat /\ y * p <= Tope * p
  BY <1>1, <1>3
<1>8. Tope * (Tramo - p) + Tope * p = Tope * Tramo
  BY <1>1, <1>3
<1>9. v \in Nat /\ v <= Tope * Tramo
  BY <1>1, <1>3, <1>5, <1>6, <1>7, <1>8
<1>10. PICK d : d = Tope * Tramo
  OBVIOUS
<1>11. d \in Nat \ {0}
  BY <1>1, <1>10
<1>12. PICK a : a = Maximo * v
  OBVIOUS
<1>13. a \in Nat /\ a <= Maximo * d
  BY <1>1, <1>9, <1>10, <1>11, <1>12
<1>14. Br!Redondeo(a, d) \in 0..Maximo
  BY <1>1, <1>11, <1>13, RedondeoEntre
<1>15. Br!CrudoDeBajada(r) = Br!Redondeo(a, d)
  BY <1>2, <1>4, <1>10, <1>12 DEF Br!CrudoDeBajada
<1>. QED BY <1>14, <1>15 DEF Br!Crudos

\* What is clamped is between its bounds.
LEMMA Recortado == ASSUME NEW n \in Int, NEW x \in Int, NEW y \in Int, x <= y PROVE Br!Recorta(n, x, y) \in x..y
BY DEF Br!Recorta

\* A step of the sensor's ramp stays between where it is and where it goes.
LEMMA PasoEntre ==
  ASSUME NEW x \in 0..Tope, NEW y \in 0..Tope, x # y
  PROVE  x + Br!Paso(y - x) \in 0..Tope
<1>1. Tope \in Nat /\ Reparto \in Nat \ {0} /\ x \in Nat /\ y \in Nat /\ x <= Tope /\ y <= Tope /\ Tope >= 1
  BY BrilloAssumption DEF Br!NivelesAssumption
<1>2. PICK a : a = Br!Abs(y - x)
  OBVIOUS
<1>3. a \in Nat /\ a >= 1 /\ a <= Tope /\ (y - x < 0 => a = x - y) /\ (~(y - x < 0) => a = y - x)
  BY <1>1, <1>2 DEF Br!Abs
<1>4. PICK q : q = a \div Reparto
  OBVIOUS
<1>5. q \in 0..a
  <2>1. a <= a * Reparto
    BY <1>1, <1>3
  <2>. QED BY <1>1, <1>3, <1>4, <2>1, CocienteEntre
<1>6. PICK k : k = Br!Recorta(q, 1, Tope)
  OBVIOUS
<1>7. k \in 1..a
  BY <1>1, <1>3, <1>5, <1>6 DEF Br!Recorta
<1>8. Br!Paso(y - x) = k * (IF y - x < 0 THEN -1 ELSE 1)
  BY <1>2, <1>4, <1>6 DEF Br!Paso
<1>9. CASE y - x < 0
  BY <1>1, <1>3, <1>7, <1>8, <1>9
<1>10. CASE ~(y - x < 0)
  BY <1>1, <1>3, <1>7, <1>8, <1>10
<1>. QED BY <1>9, <1>10

\* A device with as many steps as levels shows each as it is or one below.
LEMMA CasiExacta == ASSUME Tope <= Maximo, NEW n \in 0..Tope PROVE Br!Leido(Br!Crudo(n)) \in {n - 1, n}
<1>1. PICK M, T : M = Maximo /\ T = Tope
  OBVIOUS
<1>2. M \in Nat \ {0} /\ T \in Nat \ {0} /\ n \in Nat /\ T <= M
  BY <1>1, BrilloAssumption DEF Br!NivelesAssumption
<1>3. PICK c, e : c = 2 * (M * n) + T /\ e = 2 * T
  OBVIOUS
<1>4. c \in Nat /\ e \in Nat \ {0}
  BY <1>2, <1>3
<1>. DEFINE k == c \div e
            r == c % e
<1>5. k \in Int /\ r \in 0..(e - 1) /\ c = e * k + r
  BY <1>4
<1>6. Br!Crudo(n) = k
  BY <1>1, <1>3 DEF Br!Crudo, Br!Redondeo
<1>. HIDE DEF k, r
<1>7. PICK f : f = k * T
  OBVIOUS
<1>8. f \in Int /\ e * k = 2 * f
  BY <1>2, <1>3, <1>5, <1>7
<1>9. PICK a : a = M * n
  OBVIOUS
<1>10. a \in Nat /\ 2 * f <= 2 * a + T /\ 2 * f > 2 * a - T
  BY <1>2, <1>3, <1>5, <1>8, <1>9
<1>. DEFINE q == f \div M
            s == f % M
<1>11. q \in Int /\ s \in 0..(M - 1) /\ f = M * q + s
  BY <1>2, <1>8
<1>12. Br!Leido(Br!Crudo(n)) = q
  BY <1>1, <1>6, <1>7 DEF Br!Leido
<1>. HIDE DEF q, s
<1>13. \A z \in Int : z >= 1 => M * z >= M
  BY <1>2
<1>14. \A z \in Int : z <= -1 => M * z <= -M
  BY <1>2
<1>15. q - n <= 0
  <2>1. M * (q - n) = M * q - a
    BY <1>2, <1>9, <1>11
  <2>2. 2 * (M * (q - n)) <= T
    BY <1>2, <1>10, <1>11, <2>1
  <2>3. ~(q - n >= 1)
    BY <1>2, <1>11, <1>13, <2>2
  <2>. QED BY <1>2, <1>11, <2>3
<1>16. q + 1 - n >= 0
  <2>1. M * (q + 1 - n) = M * q + M - a
    BY <1>2, <1>9, <1>11
  <2>2. 2 * (M * (q + 1 - n)) > -T
    BY <1>2, <1>10, <1>11, <2>1
  <2>3. ~(q + 1 - n <= -1)
    BY <1>2, <1>11, <1>14, <2>2
  <2>. QED BY <1>2, <1>11, <2>3
<1>. QED BY <1>2, <1>11, <1>12, <1>15, <1>16

\* So the tolerance of the code is enough for it.
LEMMA BastaLaTolerancia == Tope <= Maximo /\ Tolerancia >= 1 => Cercana
<1>. SUFFICES ASSUME Tope <= Maximo, Tolerancia >= 1, NEW n \in 0..Tope
        PROVE Br!Abs(Br!Leido(Br!Crudo(n)) - n) <= Tolerancia
  BY DEF Cercana
<1>1. Br!Leido(Br!Crudo(n)) \in {n - 1, n} /\ n \in Int /\ Tolerancia \in Int
  BY CasiExacta, BrilloAssumption DEF Br!NivelesAssumption
<1>. QED BY <1>1 DEF Br!Abs

-----------------------------------------------------------------------------
\* What runs has who asked for it.
Rampas(s) ==
  /\ s.bajada # Br!SinBajada => s.atenuada # Br!SinAtenuar /\ s.escrito = TRUE
  /\ s.rampa # Br!SinRampa => s.elegido = TRUE /\ s.atenuada = Br!SinAtenuar /\ s.puesta = s.rampa.objetivo
                          /\ s.rampa.nivel # s.rampa.objetivo
  /\ s.atenuada = Br!SinAtenuar \/ s.atenuada.motivo # "no"
BaseBr(s) == s \in Br!Estado /\ Rampas(s)
\* Evaluating the light leaves these as they were.
Mismo(s, t) == /\ t.cola = s.cola /\ t.brillo = s.brillo /\ t.atenuada = s.atenuada /\ t.bajada = s.bajada
               /\ t.elegido = s.elegido /\ t.escrito = s.escrito

\* What the light asks for is a level.
LEMMA ObjetivoEntre ==
  ASSUME NEW s \in Br!Estado, s.lux # Br!Nada
  PROVE  Br!Objetivo(s) \in Suelo..Tope /\ Br!Objetivo(s) \in 0..Tope
<1>1. s.lux \in DOMAIN Curva /\ s.desvio \in Int
  BY BrilloAssumption DEF Br!Estado, Br!Luces, Br!NivelesAssumption
<1>2. Curva[s.lux] + s.desvio \in Int
  BY <1>1, BrilloAssumption DEF Br!EntradasAssumption
<1>3. Suelo \in Nat /\ Tope \in Nat /\ Suelo <= Tope
  BY BrilloAssumption DEF Br!NivelesAssumption
<1>4. PICK z, x, y : z = Curva[s.lux] + s.desvio /\ x = Suelo /\ y = Tope
  OBVIOUS
<1>5. Br!Recorta(z, x, y) \in x..y
  <2>1. z \in Int /\ x \in Int /\ y \in Int /\ x <= y
    BY <1>2, <1>3, <1>4
  <2>. QED BY <2>1, Recortado
<1>6. Br!Objetivo(s) \in Suelo..Tope
  BY <1>4, <1>5 DEF Br!Objetivo
<1>. QED BY <1>3, <1>6

\* Learning moves only the offset.
LEMMA AprendidoBien ==
  ASSUME NEW s, BaseBr(s)
  PROVE  /\ BaseBr(Br!Aprendido(s)) /\ Mismo(s, Br!Aprendido(s)) /\ Br!Aprendido(s).lux = s.lux
         /\ Br!Aprendido(s).rampa = s.rampa /\ Br!Aprendido(s).puesta = s.puesta
<1>1. CASE s.puesta # Br!Nada /\ ~Br!Reciente(s) /\ Br!Abs(Br!Leido(s.brillo) - s.puesta) > Tolerancia
  <2>1. s.puesta \in Int /\ s.desvio \in Int /\ s.brillo \in Br!Crudos /\ DesvioMax \in Nat
    BY <1>1, BrilloAssumption DEF BaseBr, Br!Estado, Br!NivelesAssumption
  <2>2. Br!Leido(s.brillo) \in Int
    BY <2>1, LeidoEntre
  <2>3. PICK d : d = Br!Desviado(s, Br!Leido(s.brillo))
    OBVIOUS
  <2>4. d \in (-DesvioMax)..DesvioMax
    <3>1. s.desvio + Br!Leido(s.brillo) - s.puesta \in Int /\ -DesvioMax \in Int /\ -DesvioMax <= DesvioMax
      BY <2>1, <2>2
    <3>. QED BY <2>1, <2>3, <3>1, Recortado DEF Br!Desviado
  <2>5. PICK t : t = [s EXCEPT !.desvio = d]
    OBVIOUS
  <2>6. /\ t \in Br!Estado /\ Mismo(s, t) /\ t.lux = s.lux /\ t.rampa = s.rampa /\ t.puesta = s.puesta
    BY <2>4, <2>5 DEF BaseBr, Br!Estado, Mismo
  <2>7. BaseBr(t)
    BY <2>6 DEF BaseBr, Rampas, Mismo
  <2>. QED BY <1>1, <2>3, <2>5, <2>6, <2>7 DEF Br!Aprendido
<1>2. CASE ~(s.puesta # Br!Nada /\ ~Br!Reciente(s) /\ Br!Abs(Br!Leido(s.brillo) - s.puesta) > Tolerancia)
  BY <1>2 DEF Br!Aprendido, Mismo
<1>. QED BY <1>1, <1>2

\* What deciding the level of the panel leaves.
LEMMA PantallaBien ==
  ASSUME NEW s, BaseBr(s), s.lux # Br!Nada, s.elegido = TRUE, s.atenuada = Br!SinAtenuar
  PROVE  /\ BaseBr(Br!Pantalla(s)) /\ Mismo(s, Br!Pantalla(s))
         /\ \/ Br!Pantalla(s) = Br!Aprendido(s)
            \/ ~Br!Reciente(s) /\ Br!Pantalla(s) = [Br!Aprendido(s) EXCEPT !.puesta = Br!Leido(s.brillo)]
            \/ Br!Pantalla(s).rampa # Br!SinRampa /\ Br!Pantalla(s).desvio = Br!Aprendido(s).desvio
<1>1. PICK t : t = Br!Aprendido(s)
  OBVIOUS
<1>2. BaseBr(t) /\ Mismo(s, t) /\ t.lux = s.lux /\ t.rampa = s.rampa /\ t.puesta = s.puesta
  BY <1>1, AprendidoBien
<1>3. t \in Br!Estado /\ t.brillo \in Br!Crudos /\ t.atenuada = Br!SinAtenuar /\ t.elegido = TRUE
        /\ t.brillo = s.brillo
  BY <1>2 DEF BaseBr, Br!Estado, Mismo
<1>4. Br!Reciente(t) <=> Br!Reciente(s)
  BY <1>2 DEF Br!Reciente, Mismo
<1>5. PICK l, o : l = Br!Leido(t.brillo) /\ o = Br!Objetivo(t)
  OBVIOUS
<1>6. l \in 0..Tope /\ o \in 0..Tope /\ o \in Suelo..Tope
  BY <1>2, <1>3, <1>5, LeidoEntre, ObjetivoEntre
<1>7. CASE Br!Abs(o - l) < Umbral /\ Br!Reciente(t)
  BY <1>1, <1>2, <1>5, <1>7 DEF Br!Pantalla
<1>8. CASE Br!Abs(o - l) < Umbral /\ ~Br!Reciente(t)
  <2>1. PICK u : u = [t EXCEPT !.puesta = l]
    OBVIOUS
  <2>2. u \in Br!Estado /\ Mismo(t, u) /\ u.rampa = t.rampa
    BY <1>3, <1>6, <2>1 DEF Br!Estado, Mismo
  <2>3. t.rampa = Br!SinRampa
    BY <1>8 DEF Br!Reciente
  <2>4. BaseBr(u)
    BY <1>2, <2>2, <2>3 DEF BaseBr, Rampas, Mismo
  <2>5. Mismo(s, u)
    BY <1>2, <2>2 DEF Mismo
  <2>6. Br!Pantalla(s) = u
    BY <1>1, <1>5, <1>8, <2>1 DEF Br!Pantalla
  <2>. QED BY <1>1, <1>3, <1>4, <1>5, <1>8, <2>1, <2>4, <2>5, <2>6
<1>9. CASE ~(Br!Abs(o - l) < Umbral)
  <2>1. PICK r : r = [nivel |-> l, objetivo |-> o]
    OBVIOUS
  <2>2. PICK u : u = [t EXCEPT !.puesta = o, !.rampa = r]
    OBVIOUS
  <2>3. u \in Br!Estado /\ Mismo(t, u) /\ u.puesta = o /\ u.rampa = r /\ u.desvio = t.desvio
    BY <1>3, <1>6, <2>1, <2>2 DEF Br!Estado, Mismo
  <2>10. l # o
    BY <1>6, <1>9, BrilloAssumption DEF Br!Abs, Br!NivelesAssumption
  <2>4. BaseBr(u)
    BY <1>2, <1>3, <2>1, <2>3, <2>10 DEF BaseBr, Rampas, Mismo
  <2>5. Mismo(s, u)
    BY <1>2, <2>3 DEF Mismo
  <2>6. o # 0
    BY <1>6, BrilloAssumption DEF Br!NivelesAssumption
  <2>7. u.rampa # Br!SinRampa
    BY <2>1, <2>3, <2>6 DEF Br!SinRampa
  <2>8. Br!Pantalla(s) = u
    BY <1>1, <1>5, <1>9, <2>1, <2>2 DEF Br!Pantalla
  <2>. QED BY <1>1, <2>3, <2>4, <2>5, <2>7, <2>8
<1>. QED BY <1>7, <1>8, <1>9

\* Evaluating the light requests nothing, and does nothing unless it is chosen.
LEMMA EvaluarBien ==
  ASSUME NEW s, BaseBr(s)
  PROVE  BaseBr(Br!Evaluar(s)) /\ Mismo(s, Br!Evaluar(s)) /\ (s.elegido = FALSE => Br!Evaluar(s) = s)
<1>1. CASE s.lux = Br!Nada \/ ~s.encendido \/ s.atenuada # Br!SinAtenuar \/ ~s.elegido
  BY <1>1 DEF Br!Evaluar, Mismo
<1>2. CASE ~(s.lux = Br!Nada \/ ~s.encendido \/ s.atenuada # Br!SinAtenuar \/ ~s.elegido)
  <2>1. s.elegido = TRUE /\ s.lux # Br!Nada /\ s.atenuada = Br!SinAtenuar
    BY <1>2 DEF BaseBr, Br!Estado
  <2>2. Br!Evaluar(s) = Br!Pantalla(s)
    BY <1>2 DEF Br!Evaluar
  <2>. QED BY <2>1, <2>2, PantallaBien
<1>. QED BY <1>1, <1>2

\* While nobody moves the level: nothing is learnt, what is not recent is on the panel, and what the
\* automatic brightness believes it set is the last request.
Inocente(s, e, p) ==
  /\ s.desvio = 0 /\ (s.escrito = FALSE => s.cola = Br!Nada /\ e = {} /\ s.brillo = p)
  /\ s.elegido = TRUE /\ s.atenuada = Br!SinAtenuar /\ s.rampa = Br!SinRampa
     /\ s.puesta # Br!Nada => Br!Abs(Br!Leido(p) - s.puesta) <= Tolerancia

\* While nobody moves the level there is nothing to learn in it.
LEMMA EvaluarInocente ==
  ASSUME NEW s, NEW e, NEW p \in Br!Crudos, BaseBr(s), Inocente(s, e, p)
  PROVE  Inocente(Br!Evaluar(s), e, p)
<1>1. CASE s.lux = Br!Nada \/ ~s.encendido \/ s.atenuada # Br!SinAtenuar \/ ~s.elegido
  BY <1>1 DEF Br!Evaluar
<1>2. CASE ~(s.lux = Br!Nada \/ ~s.encendido \/ s.atenuada # Br!SinAtenuar \/ ~s.elegido)
  <2>1. s.elegido = TRUE /\ s.lux # Br!Nada /\ s.atenuada = Br!SinAtenuar /\ s \in Br!Estado
          /\ s.escrito \in BOOLEAN
    BY <1>2 DEF BaseBr, Br!Estado
  <2>2. Br!Evaluar(s) = Br!Pantalla(s)
    BY <1>2 DEF Br!Evaluar
  <2>3. ~Br!Reciente(s) => s.rampa = Br!SinRampa /\ s.escrito = FALSE /\ s.brillo = p
    BY <2>1 DEF Br!Reciente, Inocente
  <2>4. Br!Aprendido(s) = s
    <3>. SUFFICES ASSUME s.puesta # Br!Nada, ~Br!Reciente(s),
            Br!Abs(Br!Leido(s.brillo) - s.puesta) > Tolerancia PROVE FALSE
      BY DEF Br!Aprendido
    <3>1. Br!Abs(Br!Leido(p) - s.puesta) <= Tolerancia /\ s.brillo = p
      BY <2>1, <2>3 DEF Inocente
    <3>2. Br!Abs(Br!Leido(p) - s.puesta) \in Int /\ Tolerancia \in Int
      BY <2>1, LeidoEntre, BrilloAssumption DEF Br!Abs, Br!Estado, Br!NivelesAssumption
    <3>. QED BY <3>1, <3>2
  <2>5. BaseBr(Br!Pantalla(s)) /\ Mismo(s, Br!Pantalla(s))
    BY <2>1, PantallaBien
  <2>6. CASE Br!Pantalla(s) = s
    BY <2>2, <2>6
  <2>7. CASE ~Br!Reciente(s) /\ Br!Pantalla(s) = [s EXCEPT !.puesta = Br!Leido(s.brillo)]
    <3>1. PICK u : u = [s EXCEPT !.puesta = Br!Leido(s.brillo)]
      OBVIOUS
    <3>2. u.puesta = Br!Leido(p) /\ u.desvio = s.desvio /\ Mismo(s, u)
      BY <2>1, <2>3, <2>7, <3>1 DEF Br!Estado, Mismo
    <3>3. Br!Abs(Br!Leido(p) - u.puesta) <= Tolerancia
      <4>1. Br!Leido(p) - u.puesta = 0 /\ Tolerancia \in Nat
        BY <3>2, LeidoEntre, BrilloAssumption DEF Br!NivelesAssumption
      <4>. QED BY <4>1 DEF Br!Abs
    <3>. QED BY <2>2, <2>7, <3>1, <3>2, <3>3 DEF Inocente, Mismo
  <2>8. CASE Br!Pantalla(s).rampa # Br!SinRampa /\ Br!Pantalla(s).desvio = s.desvio
    BY <2>2, <2>5, <2>8 DEF Inocente, Mismo
  <2>. QED BY <2>1, <2>4, <2>6, <2>7, <2>8, PantallaBien
<1>. QED BY <1>1, <1>2

-----------------------------------------------------------------------------
\* What each function of the compositor leaves.
Sigue(s, t) == t.brillo = s.brillo /\ (t.cola = s.cola \/ t.cola # Br!Nada)

\* Two steps in a row.
LEMMA SigueDos == ASSUME NEW s, NEW t, NEW u, Sigue(s, t), Sigue(t, u) PROVE Sigue(s, u)
BY DEF Sigue

\* A request is all that changes.
LEMMA SolicitarBien ==
  ASSUME NEW s, BaseBr(s), NEW k \in Br!Crudos
  PROVE  /\ BaseBr(Br!Solicitar(s, k)) /\ Sigue(s, Br!Solicitar(s, k))
<1>1. PICK t : t = [s EXCEPT !.cola = k]
  OBVIOUS
<1>2. t \in Br!Estado /\ t.cola = k /\ t.brillo = s.brillo /\ t.bajada = s.bajada /\ t.atenuada = s.atenuada
      /\ t.escrito = s.escrito /\ t.rampa = s.rampa /\ t.elegido = s.elegido /\ t.puesta = s.puesta
  BY <1>1 DEF BaseBr, Br!Estado
<1>3. BaseBr(t)
  BY <1>2 DEF BaseBr, Rampas
<1>4. k # Br!Nada
  BY BrilloAssumption DEF Br!Nada, Br!Crudos, Br!NivelesAssumption
<1>. QED BY <1>1, <1>2, <1>3, <1>4 DEF Br!Solicitar, Sigue

\* A level set as its own.
LEMMA FijarBien ==
  ASSUME NEW s \in Br!Estado, s.bajada # Br!SinBajada => s.atenuada # Br!SinAtenuar,
         s.atenuada = Br!SinAtenuar \/ s.atenuada.motivo # "no", NEW n \in 0..Tope
  PROVE  /\ BaseBr(Br!Fijar(s, n)) /\ Sigue(s, Br!Fijar(s, n)) /\ Br!Fijar(s, n).cola = s.cola
         /\ Br!Fijar(s, n).rampa = Br!SinRampa /\ Br!Fijar(s, n).escrito = TRUE
            /\ Br!Fijar(s, n).desvio = s.desvio
         /\ Br!Fijar(s, n).atenuada = s.atenuada /\ Br!Fijar(s, n).elegido = s.elegido
         /\ (Br!Fijar(s, n).puesta # Br!Nada => Br!Fijar(s, n).puesta = n)
<1>1. PICK q : q = (IF s.puesta = Br!Nada THEN Br!Nada ELSE n)
  OBVIOUS
<1>2. PICK t : t = [s EXCEPT !.rampa = Br!SinRampa, !.puesta = q, !.aMano = n, !.escrito = TRUE]
  OBVIOUS
<1>3. Br!SinRampa \in [nivel : 0..Tope, objetivo : 0..Tope]
  BY BrilloAssumption DEF Br!SinRampa, Br!NivelesAssumption
<1>4. q \in (0..Tope) \cup {Br!Nada}
  BY <1>1
<1>5. t \in Br!Estado /\ t.cola = s.cola /\ t.brillo = s.brillo /\ t.bajada = s.bajada
        /\ t.atenuada = s.atenuada
      /\ t.escrito = TRUE /\ t.rampa = Br!SinRampa /\ t.elegido = s.elegido /\ t.puesta = q
         /\ t.desvio = s.desvio
  BY <1>2, <1>3, <1>4 DEF Br!Estado
<1>6. BaseBr(t)
  BY <1>5 DEF BaseBr, Rampas
<1>7. Br!Fijar(s, n) = t
  BY <1>1, <1>2 DEF Br!Fijar
<1>. QED BY <1>1, <1>5, <1>6, <1>7 DEF Sigue

\* In short.
LEMMA EvaluarSigue == ASSUME NEW s, BaseBr(s) PROVE BaseBr(Br!Evaluar(s)) /\ Sigue(s, Br!Evaluar(s))
BY EvaluarBien DEF Sigue, Mismo

\* Restoring, step by step: the dimming is over, the level is asked for, set and evaluated.
Suelta(s) == [s EXCEPT !.atenuada = Br!SinAtenuar, !.bajada = Br!SinBajada]
Vuelta(s) == Br!Fijar(Br!Solicitar(Suelta(s), Br!Crudo(s.atenuada.previo)), s.atenuada.previo)

\* Nothing dimmed, no ramp.
LEMMA NadaRueda == Br!SinAtenuar \in [motivo : {"no", "inactividad", "bateria"}, previo : 0..Tope]
                   /\ Br!SinBajada \in [paso : 0..Tramo, de : 0..Tope, a : 0..Tope]
                   /\ Br!SinRampa \in [nivel : 0..Tope, objetivo : 0..Tope]
BY BrilloAssumption DEF Br!SinAtenuar, Br!SinBajada, Br!SinRampa, Br!NivelesAssumption

\* What letting go of the dimming leaves.
LEMMA SueltaBien ==
  ASSUME NEW s \in Br!Estado
  PROVE  /\ Suelta(s) \in Br!Estado /\ Suelta(s).cola = s.cola /\ Suelta(s).brillo = s.brillo
         /\ Suelta(s).atenuada = Br!SinAtenuar /\ Suelta(s).bajada = Br!SinBajada
            /\ Suelta(s).elegido = s.elegido
         /\ Suelta(s).desvio = s.desvio /\ Suelta(s).rampa = s.rampa /\ Suelta(s).puesta = s.puesta
         /\ Suelta(s).escrito = s.escrito
BY NadaRueda DEF Suelta, Br!Estado

\* The level of before is asked for, and is the one it believes it set.
LEMMA VueltaBien ==
  ASSUME NEW s, BaseBr(s)
  PROVE  /\ BaseBr(Vuelta(s)) /\ Sigue(s, Vuelta(s)) /\ s.atenuada.previo \in 0..Tope
         /\ Vuelta(s).cola = Br!Crudo(s.atenuada.previo) /\ Vuelta(s).cola # Br!Nada
         /\ Vuelta(s).atenuada = Br!SinAtenuar /\ Vuelta(s).elegido = s.elegido /\ Vuelta(s).escrito = TRUE
         /\ Vuelta(s).desvio = s.desvio /\ Vuelta(s).rampa = Br!SinRampa
         /\ (Vuelta(s).puesta # Br!Nada => Vuelta(s).puesta = s.atenuada.previo)
<1>1. PICK n, k : n = s.atenuada.previo /\ k = Br!Crudo(n)
  OBVIOUS
<1>2. n \in 0..Tope
  BY <1>1 DEF BaseBr, Br!Estado
<1>3. k \in Br!Crudos
  BY <1>1, <1>2, CrudoEntre
<1>4. k # Br!Nada
  BY <1>3, BrilloAssumption DEF Br!Nada, Br!Crudos, Br!NivelesAssumption
<1>5. PICK u : u = Suelta(s)
  OBVIOUS
<1>6. u \in Br!Estado /\ u.brillo = s.brillo /\ u.atenuada = Br!SinAtenuar /\ u.bajada = Br!SinBajada
      /\ u.elegido = s.elegido /\ u.desvio = s.desvio
  BY <1>5, SueltaBien DEF BaseBr
<1>7. PICK v : v = [u EXCEPT !.cola = k]
  OBVIOUS
<1>8. v \in Br!Estado /\ v.brillo = s.brillo /\ v.atenuada = Br!SinAtenuar /\ v.bajada = Br!SinBajada
        /\ v.cola = k
      /\ v.elegido = s.elegido /\ v.desvio = s.desvio
  BY <1>3, <1>6, <1>7 DEF Br!Estado
<1>9. v = Br!Solicitar(Suelta(s), k)
  BY <1>5, <1>7 DEF Br!Solicitar
<1>10. PICK w : w = Br!Fijar(v, n)
  OBVIOUS
<1>11. /\ BaseBr(w) /\ Sigue(v, w) /\ w.cola = v.cola
       /\ w.rampa = Br!SinRampa /\ w.escrito = TRUE /\ w.desvio = v.desvio
       /\ w.atenuada = v.atenuada /\ w.elegido = v.elegido
       /\ (w.puesta # Br!Nada => w.puesta = n)
  BY <1>2, <1>8, <1>10, FijarBien
<1>12. Vuelta(s) = w
  BY <1>1, <1>9, <1>10 DEF Vuelta
<1>. QED BY <1>1, <1>2, <1>4, <1>8, <1>11, <1>12 DEF Sigue

\* And then evaluated.
LEMMA RestaurarBien ==
  ASSUME NEW s, BaseBr(s)
  PROVE  BaseBr(Br!Restaurar(s)) /\ Sigue(s, Br!Restaurar(s)) /\ Br!Restaurar(s).atenuada = Br!SinAtenuar
         /\ Br!Restaurar(s).cola = Br!Crudo(s.atenuada.previo)
<1>1. Br!Restaurar(s) = Br!Evaluar(Vuelta(s))
  BY DEF Br!Restaurar, Vuelta, Suelta
<1>2. BaseBr(Vuelta(s)) /\ Sigue(s, Vuelta(s)) /\ Vuelta(s).atenuada = Br!SinAtenuar
      /\ Vuelta(s).cola = Br!Crudo(s.atenuada.previo)
  BY VueltaBien
<1>3. PICK t : t = Vuelta(s)
  OBVIOUS
<1>4. BaseBr(Br!Evaluar(t)) /\ Mismo(t, Br!Evaluar(t)) /\ Sigue(t, Br!Evaluar(t))
  BY <1>2, <1>3, EvaluarBien, EvaluarSigue
<1>. QED BY <1>1, <1>2, <1>3, <1>4, SigueDos DEF Mismo

\* The pointer ends the dimming for lack of it.
LEMMA ActividadBien ==
  ASSUME NEW s, BaseBr(s)
  PROVE  BaseBr(Br!Actividad(s)) /\ Sigue(s, Br!Actividad(s)) /\ Br!Actividad(s).atenuada.motivo # "inactividad"
<1>1. CASE s.atenuada.motivo = "inactividad"
  BY <1>1, RestaurarBien DEF Br!Actividad, Br!SinAtenuar
<1>2. CASE s.atenuada.motivo # "inactividad"
  BY <1>2 DEF Br!Actividad, Sigue
<1>. QED BY <1>1, <1>2

Enciende(s) == [s EXCEPT !.encendido = TRUE]
\* The panel is lit.
LEMMA EnciendeBien ==
  ASSUME NEW s, BaseBr(s) PROVE BaseBr(Enciende(s)) /\ Mismo(s, Enciende(s)) /\ Enciende(s).rampa = s.rampa
                              /\ Enciende(s).puesta = s.puesta /\ Enciende(s).desvio = s.desvio
<1>1. PICK t : t = [s EXCEPT !.encendido = TRUE]
  OBVIOUS
<1>2. t \in Br!Estado /\ Mismo(s, t) /\ t.rampa = s.rampa /\ t.puesta = s.puesta /\ t.desvio = s.desvio
  BY <1>1 DEF BaseBr, Br!Estado, Mismo
<1>3. BaseBr(t)
  BY <1>2 DEF BaseBr, Rampas, Mismo
<1>. QED BY <1>1, <1>2, <1>3 DEF Enciende

\* And the light evaluated.
LEMMA DespertarBien ==
  ASSUME NEW s, BaseBr(s)
  PROVE  BaseBr(Br!Despertar(s)) /\ Sigue(s, Br!Despertar(s)) /\ Br!Despertar(s).atenuada = s.atenuada
<1>1. CASE s.encendido
  BY <1>1 DEF Br!Despertar, Sigue
<1>2. CASE ~s.encendido
  <2>1. PICK t : t = Enciende(s)
    OBVIOUS
  <2>2. BaseBr(t) /\ Mismo(s, t)
    BY <2>1, EnciendeBien
  <2>3. BaseBr(Br!Evaluar(t)) /\ Mismo(t, Br!Evaluar(t))
    BY <2>2, EvaluarBien
  <2>4. Br!Despertar(s) = Br!Evaluar(t)
    BY <1>2, <2>1 DEF Br!Despertar, Enciende
  <2>. QED BY <2>2, <2>3, <2>4 DEF Mismo, Sigue
<1>. QED BY <1>1, <1>2

\* An input wakes the screen and ends the dimming for lack of it.
LEMMA EntradaBien ==
  ASSUME NEW s, BaseBr(s), NEW x \in BOOLEAN
  PROVE  BaseBr(Br!Entrada(s, x)) /\ Sigue(s, Br!Entrada(s, x))
         /\ Br!Entrada(s, x).atenuada.motivo # "inactividad"
<1>1. BaseBr(Br!Actividad(s)) /\ Sigue(s, Br!Actividad(s)) /\ Br!Actividad(s).atenuada.motivo # "inactividad"
  BY ActividadBien
<1>2. CASE x = TRUE
  BY <1>1, <1>2 DEF Br!Entrada
<1>3. CASE x = FALSE
  <2>1. PICK t : t = Br!Actividad(s)
    OBVIOUS
  <2>2. BaseBr(Br!Despertar(t)) /\ Sigue(t, Br!Despertar(t)) /\ Br!Despertar(t).atenuada = t.atenuada
    BY <1>1, <2>1, DespertarBien
  <2>3. Br!Entrada(s, x) = Br!Despertar(t)
    BY <1>3, <2>1 DEF Br!Entrada
  <2>. QED BY <1>1, <2>1, <2>2, <2>3, SigueDos
<1>. QED BY <1>2, <1>3

\* The level to dim to.
LEMMA RebajaEntre ==
  ASSUME NEW n \in 0..Tope, NEW m
  PROVE  Br!Rebaja(n, m) \in 0..Tope
<1>1. PICK f : f = Br!Fraccion(m)
  OBVIOUS
<1>2. f \in Nat /\ f <= 10
  BY <1>1 DEF Br!Fraccion
<1>3. n \in Nat /\ n <= Tope /\ Tope \in Nat /\ Suelo \in Nat /\ Suelo <= Tope
  BY BrilloAssumption DEF Br!NivelesAssumption
<1>4. PICK a : a = n * f
  OBVIOUS
<1>5. a \in Nat /\ a <= Tope * 10
  <2>1. n * f \in Nat /\ n * f <= n * 10
    BY <1>2, <1>3
  <2>. QED BY <1>3, <1>4, <2>1
<1>6. PICK d : d = 10
  OBVIOUS
<1>7. Br!Redondeo(a, d) \in 0..Tope
  <2>1. d \in Nat \ {0} /\ a <= Tope * d
    BY <1>5, <1>6
  <2>. QED BY <1>3, <1>5, <2>1, RedondeoEntre
<1>8. PICK z, x, y : z = Br!Redondeo(a, d) /\ x = Suelo /\ y = Tope
  OBVIOUS
<1>9. Br!Recorta(z, x, y) \in x..y
  <2>1. z \in Int /\ x \in Int /\ y \in Int /\ x <= y
    BY <1>3, <1>7, <1>8
  <2>. QED BY <2>1, Recortado
<1>10. Br!Rebaja(n, m) = Br!Recorta(z, x, y)
  BY <1>1, <1>4, <1>6, <1>8 DEF Br!Rebaja
<1>. QED BY <1>3, <1>8, <1>9, <1>10

\* Dimming keeps what there was, and asks for nothing yet.
LEMMA AtenuarBien ==
  ASSUME NEW s, BaseBr(s), NEW m \in {"inactividad", "bateria"}
  PROVE  /\ BaseBr(Br!Atenuar(s, m)) /\ Sigue(s, Br!Atenuar(s, m))
         /\ \/ Br!Atenuar(s, m) = s
            \/ /\ s.atenuada = Br!SinAtenuar
               /\ Br!Atenuar(s, m).atenuada = [motivo |-> m, previo |-> Br!Leido(s.brillo)]
               /\ Br!Atenuar(s, m).cola = s.cola
               /\ Br!Atenuar(s, m).escrito = TRUE
               /\ Br!Atenuar(s, m).rampa = Br!SinRampa
               /\ Br!Atenuar(s, m).desvio = s.desvio
               /\ Br!Atenuar(s, m).elegido = s.elegido
<1>1. PICK l : l = Br!Leido(s.brillo)
  OBVIOUS
<1>2. l \in 0..Tope
  BY <1>1, LeidoEntre DEF BaseBr, Br!Estado
<1>3. PICK o : o = Br!Rebaja(l, m)
  OBVIOUS
<1>4. o \in 0..Tope
  BY <1>2, <1>3, RebajaEntre
<1>5. CASE s.atenuada # Br!SinAtenuar \/ ~s.encendido \/ o >= l
  <2>1. Br!Atenuar(s, m) = s
    <3>1. s.atenuada # Br!SinAtenuar \/ ~s.encendido \/ Br!Rebaja(Br!Leido(s.brillo), m) >= Br!Leido(s.brillo)
      BY <1>1, <1>3, <1>5
    <3>. QED BY <3>1 DEF Br!Atenuar
  <2>2. PICK t : t = Br!Atenuar(s, m)
    OBVIOUS
  <2>3. BaseBr(t) /\ Sigue(s, t) /\ t = s
    BY <2>1, <2>2 DEF Sigue
  <2>. QED BY <2>2, <2>3
<1>6. CASE ~(s.atenuada # Br!SinAtenuar \/ ~s.encendido \/ o >= l)
  <2>1. PICK a : a = [motivo |-> m, previo |-> l]
    OBVIOUS
  <2>2. PICK r : r = [paso |-> 1, de |-> l, a |-> o]
    OBVIOUS
  <2>3. a \in [motivo : {"no", "inactividad", "bateria"}, previo : 0..Tope] /\ a # Br!SinAtenuar
          /\ a.motivo # "no"
    BY <1>2, <2>1 DEF Br!SinAtenuar
  <2>4. r \in [paso : 0..Tramo, de : 0..Tope, a : 0..Tope]
    <3>1. 1 \in 0..Tramo
      BY BrilloAssumption DEF Br!NivelesAssumption
    <3>. QED BY <1>2, <1>4, <2>2, <3>1
  <2>5. PICK t : t = [s EXCEPT !.atenuada = a, !.bajada = r]
    OBVIOUS
  <2>6. t \in Br!Estado /\ t.atenuada = a /\ t.cola = s.cola /\ t.brillo = s.brillo /\ t.desvio = s.desvio
        /\ t.elegido = s.elegido
    BY <2>3, <2>4, <2>5 DEF BaseBr, Br!Estado
  <2>7. PICK u : u = Br!Fijar(t, o)
    OBVIOUS
  <2>8. /\ BaseBr(u) /\ Sigue(t, u) /\ u.cola = t.cola
        /\ u.rampa = Br!SinRampa /\ u.escrito = TRUE /\ u.desvio = t.desvio
        /\ u.atenuada = t.atenuada /\ u.elegido = t.elegido
    BY <1>4, <2>3, <2>6, <2>7, FijarBien
  <2>9. Br!Atenuar(s, m) = u
    BY <1>1, <1>3, <1>6, <2>1, <2>2, <2>5, <2>7 DEF Br!Atenuar
  <2>. QED BY <1>1, <1>6, <2>1, <2>6, <2>8, <2>9 DEF Sigue
<1>. QED BY <1>5, <1>6

\* What a notice of the battery leaves.
LEMMA BateriaBien ==
  ASSUME NEW s, BaseBr(s), NEW c
  PROVE  BaseBr(Br!Bateria(s, c)) /\ Sigue(s, Br!Bateria(s, c))
<1>1. CASE s.atenuada.motivo = "bateria"
  BY <1>1, RestaurarBien DEF Br!Bateria, Sigue
<1>2. CASE s.atenuada.motivo # "bateria" /\ c = "baja"
  BY <1>2, AtenuarBien DEF Br!Bateria
<1>3. CASE s.atenuada.motivo # "bateria" /\ c # "baja"
  BY <1>3 DEF Br!Bateria, Sigue
<1>. QED BY <1>1, <1>2, <1>3

\* Forgetting the dimming asks for nothing.
LEMMA OlvidarBien ==
  ASSUME NEW s, BaseBr(s)
  PROVE  /\ BaseBr(Br!Olvidar(s)) /\ Sigue(s, Br!Olvidar(s)) /\ Br!Olvidar(s).atenuada = Br!SinAtenuar
         /\ Br!Olvidar(s).cola = s.cola /\ Br!Olvidar(s).elegido = s.elegido /\ Br!Olvidar(s).brillo = s.brillo
<1>1. CASE s.atenuada = Br!SinAtenuar
  BY <1>1 DEF Br!Olvidar, Sigue
<1>2. CASE s.atenuada # Br!SinAtenuar
  <2>1. PICK t : t = Suelta(s)
    OBVIOUS
  <2>2. t \in Br!Estado /\ t.cola = s.cola /\ t.brillo = s.brillo
        /\ t.atenuada = Br!SinAtenuar /\ t.bajada = Br!SinBajada /\ t.elegido = s.elegido
        /\ t.rampa = s.rampa
    BY <2>1, SueltaBien DEF BaseBr
  <2>3. t.rampa = Br!SinRampa
    BY <1>2, <2>2 DEF BaseBr, Rampas
  <2>4. BaseBr(t)
    BY <2>2, <2>3 DEF BaseBr, Rampas
  <2>5. Br!Olvidar(s) = t
    BY <1>2, <2>1 DEF Br!Olvidar, Suelta
  <2>. QED BY <2>2, <2>4, <2>5 DEF Sigue
<1>. QED BY <1>1, <1>2

\* After the key nothing is dimmed, and what it asked for stands.
LEMMA TrasTeclaBien ==
  ASSUME NEW s, BaseBr(s), NEW n \in 0..Tope
  PROVE  /\ BaseBr(Br!TrasTecla(s, n)) /\ Sigue(s, Br!TrasTecla(s, n))
            /\ Br!TrasTecla(s, n).atenuada = Br!SinAtenuar
         /\ Br!TrasTecla(s, n).cola = s.cola /\ Br!TrasTecla(s, n).elegido = s.elegido
<1>1. PICK t : t = Br!Olvidar(s)
  OBVIOUS
<1>2. BaseBr(t) /\ t.atenuada = Br!SinAtenuar /\ t.cola = s.cola /\ t.elegido = s.elegido
        /\ t.brillo = s.brillo /\ t \in Br!Estado
  BY <1>1, OlvidarBien DEF BaseBr
<1>3. PICK d : d = (IF t.puesta = Br!Nada THEN t.desvio ELSE Br!Desviado(t, n))
  OBVIOUS
<1>4. d \in (-DesvioMax)..DesvioMax
  <2>1. CASE t.puesta = Br!Nada
    BY <1>2, <1>3, <2>1 DEF Br!Estado
  <2>2. CASE t.puesta # Br!Nada
    <3>1. t.puesta \in Int /\ t.desvio \in Int /\ DesvioMax \in Nat /\ n \in Int
      BY <1>2, <2>2, BrilloAssumption DEF Br!Estado, Br!NivelesAssumption
    <3>2. PICK z, x, y : z = t.desvio + n - t.puesta /\ x = -DesvioMax /\ y = DesvioMax
      OBVIOUS
    <3>3. Br!Recorta(z, x, y) \in x..y
      <4>1. z \in Int /\ x \in Int /\ y \in Int /\ x <= y
        BY <3>1, <3>2
      <4>. QED BY <4>1, Recortado
    <3>. QED BY <1>3, <2>2, <3>2, <3>3 DEF Br!Desviado
  <2>. QED BY <2>1, <2>2
<1>5. PICK q : q = (IF t.puesta = Br!Nada THEN Br!Nada ELSE n)
  OBVIOUS
<1>6. q \in (0..Tope) \cup {Br!Nada}
  BY <1>5
<1>7. PICK u : u = [t EXCEPT !.rampa = Br!SinRampa, !.desvio = d, !.puesta = q, !.aMano = n, !.escrito = TRUE]
  OBVIOUS
<1>8. u \in Br!Estado /\ u.rampa = Br!SinRampa /\ u.atenuada = Br!SinAtenuar /\ u.bajada = t.bajada
        /\ u.cola = t.cola
      /\ u.elegido = t.elegido /\ u.brillo = t.brillo /\ u.escrito = TRUE
  BY <1>2, <1>4, <1>6, <1>7, NadaRueda DEF Br!Estado
<1>9. BaseBr(u)
  BY <1>2, <1>8 DEF BaseBr, Rampas
<1>10. Br!TrasTecla(s, n) = u
  BY <1>1, <1>3, <1>5, <1>7 DEF Br!TrasTecla
<1>. QED BY <1>2, <1>8, <1>9, <1>10 DEF Sigue

\* Choosing the automatic brightness, before it is evaluated.
Elige0(s, auto) == [s EXCEPT !.elegido = auto,
                             !.puesta = IF auto /\ ~s.elegido THEN Br!Nada ELSE @,
                             !.desvio = IF auto /\ ~s.elegido THEN 0 ELSE @,
                             !.rampa = IF auto THEN @ ELSE Br!SinRampa]
\* What is believed of the level is forgotten when the sensor takes over.
LEMMA Elige0Bien ==
  ASSUME NEW s, BaseBr(s), NEW auto \in BOOLEAN
  PROVE  /\ BaseBr(Elige0(s, auto)) /\ Elige0(s, auto).cola = s.cola /\ Elige0(s, auto).brillo = s.brillo
         /\ Elige0(s, auto).atenuada = s.atenuada /\ Elige0(s, auto).escrito = s.escrito
            /\ Elige0(s, auto).elegido = auto
         /\ Elige0(s, auto).desvio \in {0, s.desvio}
         /\ (auto = TRUE /\ s.elegido = TRUE => Elige0(s, auto).puesta = s.puesta
            /\ Elige0(s, auto).rampa = s.rampa)
         /\ (auto = TRUE /\ s.elegido = FALSE => Elige0(s, auto).puesta = Br!Nada)
<1>1. PICK q : q = (IF auto /\ ~s.elegido THEN Br!Nada ELSE s.puesta)
  OBVIOUS
<1>2. PICK d : d = (IF auto /\ ~s.elegido THEN 0 ELSE s.desvio)
  OBVIOUS
<1>3. PICK r : r = (IF auto THEN s.rampa ELSE Br!SinRampa)
  OBVIOUS
<1>4. s \in Br!Estado /\ s.elegido \in BOOLEAN
  BY DEF BaseBr, Br!Estado
<1>5. q \in (0..Tope) \cup {Br!Nada}
  BY <1>1, <1>4 DEF Br!Estado
<1>6. d \in (-DesvioMax)..DesvioMax /\ d \in {0, s.desvio}
  BY <1>2, <1>4, BrilloAssumption DEF Br!Estado, Br!NivelesAssumption
<1>7. r \in [nivel : 0..Tope, objetivo : 0..Tope]
  BY <1>3, <1>4, NadaRueda DEF Br!Estado
<1>8. PICK t : t = [s EXCEPT !.elegido = auto, !.puesta = q, !.desvio = d, !.rampa = r]
  OBVIOUS
<1>9. t \in Br!Estado /\ t.elegido = auto /\ t.puesta = q /\ t.desvio = d /\ t.rampa = r /\ t.cola = s.cola
      /\ t.brillo = s.brillo /\ t.atenuada = s.atenuada /\ t.bajada = s.bajada /\ t.escrito = s.escrito
  BY <1>4, <1>5, <1>6, <1>7, <1>8 DEF Br!Estado
<1>10. BaseBr(t)
  <2>1. t.rampa # Br!SinRampa => auto = TRUE /\ s.elegido = TRUE /\ q = s.puesta /\ r = s.rampa
    <3>1. r # Br!SinRampa => auto = TRUE /\ r = s.rampa
      BY <1>3
    <3>2. r # Br!SinRampa => s.elegido = TRUE
      BY <3>1 DEF BaseBr, Rampas
    <3>. QED BY <1>1, <1>9, <3>1, <3>2
  <2>. QED BY <1>9, <2>1 DEF BaseBr, Rampas
<1>11. Elige0(s, auto) = t
  BY <1>1, <1>2, <1>3, <1>8 DEF Elige0
<1>. QED BY <1>1, <1>3, <1>6, <1>9, <1>10, <1>11

\* And then evaluated.
LEMMA ElegirBien ==
  ASSUME NEW s, BaseBr(s), NEW auto \in BOOLEAN
  PROVE  /\ BaseBr(Br!Elegir(s, auto)) /\ Sigue(s, Br!Elegir(s, auto)) /\ Br!Elegir(s, auto).cola = s.cola
         /\ Br!Elegir(s, auto).atenuada = s.atenuada /\ Br!Elegir(s, auto).elegido = auto
<1>1. PICK t : t = Elige0(s, auto)
  OBVIOUS
<1>2. BaseBr(t) /\ t.cola = s.cola /\ t.brillo = s.brillo /\ t.atenuada = s.atenuada /\ t.elegido = auto
  BY <1>1, Elige0Bien
<1>3. BaseBr(Br!Evaluar(t)) /\ Mismo(t, Br!Evaluar(t))
  BY <1>2, EvaluarBien
<1>4. Br!Elegir(s, auto) = Br!Evaluar(t)
  BY <1>1 DEF Br!Elegir, Elige0
<1>. QED BY <1>2, <1>3, <1>4 DEF Mismo, Sigue

\* A reading waits, or is evaluated.
ConLuz(s, x, y) == [s EXCEPT !.lux = x, !.espera = y]
\* A reading by itself changes nothing else.
LEMMA ConLuzBien ==
  ASSUME NEW s, BaseBr(s), NEW x \in Br!Luces \cup {Br!Nada}, NEW y \in BOOLEAN
  PROVE  BaseBr(ConLuz(s, x, y)) /\ Mismo(s, ConLuz(s, x, y)) /\ ConLuz(s, x, y).rampa = s.rampa
         /\ ConLuz(s, x, y).puesta = s.puesta /\ ConLuz(s, x, y).desvio = s.desvio
<1>1. PICK t : t = [s EXCEPT !.lux = x, !.espera = y]
  OBVIOUS
<1>2. t \in Br!Estado /\ Mismo(s, t) /\ t.rampa = s.rampa /\ t.puesta = s.puesta /\ t.desvio = s.desvio
  BY <1>1 DEF BaseBr, Br!Estado, Mismo
<1>3. BaseBr(t)
  BY <1>2 DEF BaseBr, Rampas, Mismo
<1>. QED BY <1>1, <1>2, <1>3 DEF ConLuz

\* One or the other.
LEMMA RecibirEs ==
  ASSUME NEW s, BaseBr(s), NEW x
  PROVE  Br!Recibir(s, x) = ConLuz(s, x, TRUE) \/ Br!Recibir(s, x) = Br!Evaluar(ConLuz(s, x, FALSE))
<1>1. PICK t : t = [s EXCEPT !.lux = x]
  OBVIOUS
<1>2. [t EXCEPT !.espera = TRUE] = ConLuz(s, x, TRUE) /\ [t EXCEPT !.espera = FALSE] = ConLuz(s, x, FALSE)
  BY <1>1 DEF ConLuz, BaseBr, Br!Estado
<1>3. Br!Recibir(s, x) = IF s.lux # Br!Nada /\ x < s.lux THEN [t EXCEPT !.espera = TRUE]
                      ELSE Br!Evaluar([t EXCEPT !.espera = FALSE])
  BY <1>1 DEF Br!Recibir
<1>. QED BY <1>2, <1>3

\* Neither requests anything.
LEMMA RecibirBien ==
  ASSUME NEW s, BaseBr(s), NEW x \in Br!Luces
  PROVE  BaseBr(Br!Recibir(s, x)) /\ Mismo(s, Br!Recibir(s, x)) /\ Sigue(s, Br!Recibir(s, x))
<1>1. CASE Br!Recibir(s, x) = ConLuz(s, x, TRUE)
  <2>1. BaseBr(ConLuz(s, x, TRUE)) /\ Mismo(s, ConLuz(s, x, TRUE))
    BY ConLuzBien
  <2>2. PICK t : t = ConLuz(s, x, TRUE)
    OBVIOUS
  <2>. QED BY <1>1, <2>1, <2>2 DEF Sigue, Mismo
<1>2. CASE Br!Recibir(s, x) = Br!Evaluar(ConLuz(s, x, FALSE))
  <2>1. PICK t : t = ConLuz(s, x, FALSE)
    OBVIOUS
  <2>2. BaseBr(t) /\ Mismo(s, t)
    BY <2>1, ConLuzBien
  <2>3. BaseBr(Br!Evaluar(t)) /\ Mismo(t, Br!Evaluar(t))
    BY <2>2, EvaluarBien
  <2>. QED BY <1>2, <2>1, <2>2, <2>3 DEF Mismo, Sigue
<1>. QED BY <1>1, <1>2, RecibirEs

-----------------------------------------------------------------------------
\* One step of each ramp.
Baja1(s) == LET t == Br!Solicitar(s, Br!CrudoDeBajada(s.bajada)) IN
            IF s.bajada.paso >= Tramo THEN [t EXCEPT !.bajada = Br!SinBajada]
            ELSE [t EXCEPT !.bajada.paso = @ + 1]
\* A step of the dimming requests a level in between.
LEMMA Baja1Bien ==
  ASSUME NEW s, BaseBr(s), s.bajada # Br!SinBajada
  PROVE  /\ BaseBr(Baja1(s)) /\ Sigue(s, Baja1(s)) /\ Baja1(s).cola # Br!Nada
         /\ Baja1(s).atenuada = s.atenuada /\ s.atenuada # Br!SinAtenuar /\ Baja1(s).elegido = s.elegido
         /\ Baja1(s).escrito = TRUE /\ Baja1(s).desvio = s.desvio
<1>1. s \in Br!Estado /\ s.bajada \in Bajadas /\ s.atenuada # Br!SinAtenuar /\ s.escrito = TRUE
        /\ s.rampa = Br!SinRampa
  BY DEF BaseBr, Rampas, Br!Estado, Bajadas
<1>2. PICK k : k = Br!CrudoDeBajada(s.bajada)
  OBVIOUS
<1>3. k \in Br!Crudos
  BY <1>1, <1>2, BajadaEntre
<1>4. k # Br!Nada
  BY <1>3, BrilloAssumption DEF Br!Nada, Br!Crudos, Br!NivelesAssumption
<1>5. PICK r : r = (IF s.bajada.paso >= Tramo THEN Br!SinBajada ELSE [s.bajada EXCEPT !.paso = @ + 1])
  OBVIOUS
<1>6. r \in [paso : 0..Tramo, de : 0..Tope, a : 0..Tope]
  BY <1>1, <1>5, NadaRueda, BrilloAssumption DEF Bajadas, Br!NivelesAssumption
<1>7. PICK t : t = [s EXCEPT !.cola = k]
  OBVIOUS
<1>8. t \in Br!Estado /\ t.cola = k /\ t.brillo = s.brillo /\ t.bajada = s.bajada /\ t.atenuada = s.atenuada
      /\ t.escrito = s.escrito /\ t.rampa = s.rampa /\ t.elegido = s.elegido /\ t.puesta = s.puesta
         /\ t.desvio = s.desvio
  BY <1>1, <1>3, <1>7 DEF Br!Estado
<1>9. PICK u : u = [t EXCEPT !.bajada = r]
  OBVIOUS
<1>10. u \in Br!Estado /\ u.cola = k /\ u.brillo = s.brillo /\ u.bajada = r /\ u.atenuada = s.atenuada
       /\ u.escrito = s.escrito /\ u.rampa = s.rampa /\ u.elegido = s.elegido /\ u.puesta = s.puesta
          /\ u.desvio = s.desvio
  BY <1>6, <1>8, <1>9 DEF Br!Estado
<1>11. BaseBr(u)
  BY <1>1, <1>10 DEF BaseBr, Rampas
<1>12. Baja1(s) = u
  <2>1. t = Br!Solicitar(s, Br!CrudoDeBajada(s.bajada))
    BY <1>2, <1>7 DEF Br!Solicitar
  <2>2. CASE s.bajada.paso >= Tramo
    BY <1>5, <1>9, <2>1, <2>2 DEF Baja1
  <2>3. CASE ~(s.bajada.paso >= Tramo)
    <3>1. r = [t.bajada EXCEPT !.paso = @ + 1]
      BY <1>5, <1>8, <2>3
    <3>2. [t EXCEPT !.bajada.paso = @ + 1] = [t EXCEPT !.bajada = [t.bajada EXCEPT !.paso = @ + 1]]
      BY <1>8 DEF Br!Estado
    <3>. QED BY <1>9, <2>1, <2>3, <3>1, <3>2 DEF Baja1
  <2>. QED BY <2>2, <2>3
<1>. QED BY <1>1, <1>4, <1>10, <1>11, <1>12 DEF Sigue

Rampa1(s) == LET nivel == s.rampa.nivel + Br!Paso(s.rampa.objetivo - s.rampa.nivel)
                 t == [Br!Solicitar(s, Br!Crudo(nivel)) EXCEPT !.escrito = TRUE]
             IN [t EXCEPT !.rampa = IF nivel = s.rampa.objetivo THEN Br!SinRampa
                                    ELSE [@ EXCEPT !.nivel = nivel]]
\* A step of the sensor's ramp requests the next, and the last of them the target.
LEMMA Rampa1Bien ==
  ASSUME NEW s, BaseBr(s), s.rampa # Br!SinRampa
  PROVE  /\ BaseBr(Rampa1(s)) /\ Sigue(s, Rampa1(s)) /\ Rampa1(s).cola # Br!Nada
         /\ Rampa1(s).atenuada = s.atenuada /\ s.atenuada = Br!SinAtenuar /\ Rampa1(s).elegido = s.elegido
            /\ s.elegido = TRUE
         /\ Rampa1(s).escrito = TRUE /\ Rampa1(s).desvio = s.desvio
         /\ (Rampa1(s).rampa = Br!SinRampa => Rampa1(s).puesta \in 0..Tope
            /\ Rampa1(s).cola = Br!Crudo(Rampa1(s).puesta))
<1>1. /\ s \in Br!Estado /\ s.rampa \in [nivel : 0..Tope, objetivo : 0..Tope] /\ s.elegido = TRUE
        /\ s.atenuada = Br!SinAtenuar
      /\ s.puesta = s.rampa.objetivo /\ s.rampa.nivel # s.rampa.objetivo /\ s.bajada = Br!SinBajada
  BY DEF BaseBr, Rampas, Br!Estado
<1>2. PICK x, y : x = s.rampa.nivel /\ y = s.rampa.objetivo
  OBVIOUS
<1>3. PICK n : n = x + Br!Paso(y - x)
  OBVIOUS
<1>4. n \in 0..Tope /\ y \in 0..Tope
  BY <1>1, <1>2, <1>3, PasoEntre
<1>5. PICK k : k = Br!Crudo(n)
  OBVIOUS
<1>6. k \in Br!Crudos
  BY <1>4, <1>5, CrudoEntre
<1>7. k # Br!Nada
  BY <1>6, BrilloAssumption DEF Br!Nada, Br!Crudos, Br!NivelesAssumption
<1>8. PICK r : r = (IF n = y THEN Br!SinRampa ELSE [s.rampa EXCEPT !.nivel = n])
  OBVIOUS
<1>9. r \in [nivel : 0..Tope, objetivo : 0..Tope]
  BY <1>1, <1>4, <1>8, NadaRueda
<1>10. r # Br!SinRampa => r.nivel = n /\ r.objetivo = y /\ n # y
  BY <1>1, <1>2, <1>8
<1>11. PICK t : t = [Br!Solicitar(s, k) EXCEPT !.escrito = TRUE]
  OBVIOUS
<1>12. t \in Br!Estado /\ t.cola = k /\ t.brillo = s.brillo /\ t.bajada = s.bajada /\ t.atenuada = s.atenuada
      /\ t.escrito = TRUE /\ t.rampa = s.rampa /\ t.elegido = s.elegido /\ t.puesta = s.puesta
         /\ t.desvio = s.desvio
  BY <1>1, <1>6, <1>11 DEF Br!Estado, Br!Solicitar
<1>13. PICK u : u = [t EXCEPT !.rampa = r]
  OBVIOUS
<1>14. u \in Br!Estado /\ u.cola = k /\ u.brillo = s.brillo /\ u.rampa = r /\ u.atenuada = s.atenuada
         /\ u.bajada = s.bajada
       /\ u.escrito = TRUE /\ u.elegido = s.elegido /\ u.puesta = s.puesta /\ u.desvio = s.desvio
  BY <1>9, <1>12, <1>13 DEF Br!Estado
<1>15. BaseBr(u)
  BY <1>1, <1>2, <1>10, <1>14 DEF BaseBr, Rampas
<1>16. Rampa1(s) = u
  BY <1>2, <1>3, <1>5, <1>8, <1>11, <1>12, <1>13 DEF Rampa1
<1>17. r = Br!SinRampa => n = y
  <2>. SUFFICES ASSUME n # y PROVE r # Br!SinRampa
    OBVIOUS
  <2>1. r.nivel = n /\ r.objetivo = y
    BY <1>1, <1>2, <1>8
  <2>. QED BY <2>1 DEF Br!SinRampa
<1>. QED BY <1>1, <1>2, <1>4, <1>5, <1>7, <1>14, <1>15, <1>16, <1>17 DEF Sigue

-----------------------------------------------------------------------------
\* The last request is the one that will be on the panel.
Mando ==
  /\ pedido \in Br!Crudos
  /\ bBr.cola # Br!Nada => pedido = bBr.cola
  /\ enCursoBr = {} \/ \E k \in Br!Crudos : enCursoBr = {k}
  /\ bBr.cola = Br!Nada => (enCursoBr = {} => bBr.brillo = pedido) /\ (enCursoBr # {} => enCursoBr = {pedido})
RestoBr == sucesos \in 0..MaxSucesos /\ querido \in 0..Tope /\ manos \in BOOLEAN /\ fijo \in BOOLEAN
         /\ restaurado \in (0..Tope) \cup {Br!Nada}
IMando == BaseBr(bBr) /\ Mando /\ RestoBr

\* What every step but the writer's is.
Pasa == BaseBr(bBr') /\ Sigue(bBr, bBr') /\ Br!Pide /\ enCursoBr' = enCursoBr

\* Whatever is requested becomes the last request.
LEMMA PasaMando == ASSUME IMando, Pasa PROVE Mando'
<1>1. bBr' \in Br!Estado /\ bBr'.cola \in Br!Crudos \cup {Br!Nada} /\ bBr'.brillo = bBr.brillo
  BY DEF Pasa, BaseBr, Br!Estado, Sigue
<1>2. CASE bBr'.cola # Br!Nada
  <2>1. pedido' = bBr'.cola
    BY <1>2 DEF Pasa, Br!Pide
  <2>2. pedido' \in Br!Crudos
    BY <1>1, <1>2, <2>1
  <2>. QED BY <1>2, <2>1, <2>2 DEF IMando, Mando, Pasa
<1>3. CASE bBr'.cola = Br!Nada
  <2>1. bBr.cola = Br!Nada
    BY <1>3 DEF Pasa, Sigue
  <2>2. pedido' = pedido
    BY <1>3 DEF Pasa, Br!Pide
  <2>. QED BY <1>1, <1>3, <2>1, <2>2 DEF IMando, Mando, Pasa
<1>. QED BY <1>2, <1>3

\* A request of the user's level.
LEMMA NuevoEntre ==
  ASSUME NEW s, BaseBr(s), NEW paso \in Int
  PROVE  LET n == Br!Recorta(Br!Partida(s) + paso, Suelo, Tope) IN n \in Suelo..Tope /\ n \in 0..Tope
<1>1. Br!Partida(s) \in Int
  BY LeidoEntre DEF Br!Partida, BaseBr, Br!Estado
<1>2. PICK z, x, y : z = Br!Partida(s) + paso /\ x = Suelo /\ y = Tope
  OBVIOUS
<1>3. Suelo \in Nat /\ Tope \in Nat /\ Suelo <= Tope
  BY BrilloAssumption DEF Br!NivelesAssumption
<1>4. Br!Recorta(z, x, y) \in x..y
  <2>1. z \in Int /\ x \in Int /\ y \in Int /\ x <= y
    BY <1>1, <1>2, <1>3
  <2>. QED BY <2>1, Recortado
<1>. QED BY <1>2, <1>3, <1>4

\* The key's level is requested, and nothing is dimmed after it.
LEMMA BrilloPasa ==
  ASSUME NEW s, BaseBr(s), Sigue(bBr, s), NEW paso \in Int, Br!Brillo(paso, s), enCursoBr' = enCursoBr
  PROVE  /\ Pasa /\ bBr'.atenuada = Br!SinAtenuar /\ restaurado' = Br!Nada /\ manos' = TRUE
         /\ querido' \in 0..Tope /\ fijo' = Br!SoloUsuario /\ bBr'.cola = Br!Crudo(querido')
            /\ bBr'.cola # Br!Nada
<1>1. PICK n : n = Br!Recorta(Br!Partida(s) + paso, Suelo, Tope)
  OBVIOUS
<1>2. n \in 0..Tope
  BY <1>1, NuevoEntre
<1>3. bBr' = Br!TrasTecla(Br!Solicitar(s, Br!Crudo(n)), n) /\ Br!Elegido(n)
  BY <1>1 DEF Br!Brillo
<1>4. PICK k : k = Br!Crudo(n)
  OBVIOUS
<1>5. k \in Br!Crudos
  BY <1>2, <1>4, CrudoEntre
<1>6. k # Br!Nada
  BY <1>5, BrilloAssumption DEF Br!Nada, Br!Crudos, Br!NivelesAssumption
<1>7. PICK t : t = Br!Solicitar(s, k)
  OBVIOUS
<1>8. BaseBr(t) /\ Sigue(s, t)
  BY <1>5, <1>7, SolicitarBien
<1>9. t.cola = k
  BY <1>7 DEF Br!Solicitar, BaseBr, Br!Estado
<1>10. BaseBr(Br!TrasTecla(t, n)) /\ Sigue(t, Br!TrasTecla(t, n))
         /\ Br!TrasTecla(t, n).atenuada = Br!SinAtenuar /\ Br!TrasTecla(t, n).cola = t.cola
  BY <1>2, <1>8, TrasTeclaBien
<1>11. bBr' = Br!TrasTecla(t, n)
  BY <1>3, <1>4, <1>7
<1>12. Sigue(bBr, bBr')
  BY <1>8, <1>10, <1>11, SigueDos
<1>. QED BY <1>2, <1>3, <1>4, <1>6, <1>9, <1>10, <1>11, <1>12 DEF Br!Elegido, Pasa

\* What the writer does.
LEMMA EscritorMando ==
  ASSUME IMando, Br!TomaLote \/ Br!Escribe
  PROVE  IMando' /\ pedido' = pedido /\ UNCHANGED Br!historia /\ (bBr.escrito = FALSE
         /\ bBr.cola = Br!Nada /\ enCursoBr = {} => FALSE)
<1>1. CASE Br!TomaLote
  <2>1. PICK k : k = bBr.cola
    OBVIOUS
  <2>2. k \in Br!Crudos /\ enCursoBr' = {k} /\ pedido = k /\ k # Br!Nada /\ pedido' = pedido
    BY <1>1, <2>1 DEF Br!TomaLote, Br!SinTomar, IMando, BaseBr, Br!Estado, Mando
  <2>3. bBr' = [bBr EXCEPT !.cola = Br!Nada]
    BY <1>1 DEF Br!TomaLote
  <2>4. bBr' \in Br!Estado /\ bBr'.cola = Br!Nada /\ bBr'.bajada = bBr.bajada
          /\ bBr'.atenuada = bBr.atenuada /\ bBr'.escrito = bBr.escrito
        /\ bBr'.rampa = bBr.rampa /\ bBr'.elegido = bBr.elegido /\ bBr'.puesta = bBr.puesta
    BY <2>3 DEF IMando, BaseBr, Br!Estado
  <2>5. BaseBr(bBr')
    BY <2>4 DEF IMando, BaseBr, Rampas
  <2>6. Mando'
    BY <2>2, <2>4 DEF Mando
  <2>7. RestoBr' /\ UNCHANGED Br!historia
    BY <1>1 DEF Br!TomaLote, IMando, RestoBr, Br!historia
  <2>. QED BY <1>1, <2>2, <2>5, <2>6, <2>7 DEF IMando, Br!TomaLote
<1>2. CASE Br!Escribe
  <2>1. PICK k \in enCursoBr : enCursoBr' = enCursoBr \ {k} /\ bBr' = [bBr EXCEPT !.brillo = k]
    BY <1>2 DEF Br!Escribe
  <2>2. k \in Br!Crudos /\ enCursoBr = {k} /\ enCursoBr' = {} /\ pedido' = pedido
    BY <1>2, <2>1 DEF Br!Escribe, IMando, Mando
  <2>4. bBr' \in Br!Estado /\ bBr'.cola = bBr.cola /\ bBr'.brillo = k /\ bBr'.bajada = bBr.bajada
          /\ bBr'.atenuada = bBr.atenuada
        /\ bBr'.escrito = bBr.escrito /\ bBr'.rampa = bBr.rampa /\ bBr'.elegido = bBr.elegido
           /\ bBr'.puesta = bBr.puesta
    BY <2>1, <2>2 DEF IMando, BaseBr, Br!Estado
  <2>5. BaseBr(bBr')
    BY <2>4 DEF IMando, BaseBr, Rampas
  <2>6. Mando'
    BY <2>2, <2>4 DEF IMando, Mando
  <2>7. RestoBr' /\ UNCHANGED Br!historia
    BY <1>2 DEF Br!Escribe, IMando, RestoBr, Br!historia
  <2>. QED BY <2>2, <2>5, <2>6, <2>7 DEF IMando
<1>. QED BY <1>1, <1>2

Otros == Br!Temporizadores \/ Br!Usuario \/ Br!Entorno
\* Every step but the writer's requests one level or none.
LEMMA OtrosPasan == ASSUME IMando, Otros PROVE Pasa /\ RestoBr'
<1>b. BaseBr(bBr) /\ bBr \in Br!Estado /\ bBr.atenuada.previo \in 0..Tope
  BY DEF IMando, BaseBr, Br!Estado
<1>e. Br!Crudos # {} /\ Suelo..Tope \subseteq 0..Tope
  BY BrilloAssumption DEF Br!Crudos, Br!NivelesAssumption
<1>s. Br!Suceso => sucesos' \in 0..MaxSucesos /\ enCursoBr' = enCursoBr
  BY BrilloAssumption DEF Br!Suceso, IMando, RestoBr, Br!NivelesAssumption
<1>1. CASE Br!BajaUnPaso
  <2>1. bBr' = Baja1(bBr) /\ bBr.bajada # Br!SinBajada
    BY <1>1 DEF Br!BajaUnPaso, Baja1
  <2>2. RestoBr' /\ Br!Pide /\ enCursoBr' = enCursoBr
    BY <1>1 DEF Br!BajaUnPaso, Br!Interno, IMando, RestoBr, Br!historia
  <2>. QED BY <1>b, <2>1, <2>2, Baja1Bien DEF Pasa
<1>2. CASE Br!RampaUnPaso
  <2>1. bBr' = Rampa1(bBr) /\ bBr.rampa # Br!SinRampa
    BY <1>2 DEF Br!RampaUnPaso, Rampa1
  <2>2. RestoBr' /\ Br!Pide /\ enCursoBr' = enCursoBr
    BY <1>2 DEF Br!RampaUnPaso, Br!Interno, IMando, RestoBr, Br!historia
  <2>. QED BY <1>b, <2>1, <2>2, Rampa1Bien DEF Pasa
<1>3. CASE Br!VenceEspera
  <2>1. PICK t : t = ConLuz(bBr, bBr.lux, FALSE)
    OBVIOUS
  <2>2. bBr' = Br!Evaluar(t)
    BY <1>3, <1>b, <2>1 DEF Br!VenceEspera, ConLuz, Br!Estado
  <2>3. BaseBr(t) /\ Mismo(bBr, t)
    BY <1>b, <2>1, ConLuzBien DEF Br!Estado
  <2>4. BaseBr(bBr') /\ Sigue(t, bBr')
    BY <2>2, <2>3, EvaluarSigue
  <2>5. Sigue(bBr, bBr')
    BY <2>3, <2>4 DEF Sigue, Mismo
  <2>6. RestoBr' /\ Br!Pide /\ enCursoBr' = enCursoBr
    BY <1>3 DEF Br!VenceEspera, Br!Interno, IMando, RestoBr, Br!historia
  <2>. QED BY <2>4, <2>5, <2>6 DEF Pasa
<1>4. CASE Br!MargenPasa
  <2>1. bBr' = [bBr EXCEPT !.escrito = FALSE] /\ bBr.bajada = Br!SinBajada
    BY <1>4 DEF Br!MargenPasa
  <2>2. bBr' \in Br!Estado /\ bBr'.cola = bBr.cola /\ bBr'.brillo = bBr.brillo /\ bBr'.bajada = bBr.bajada
          /\ bBr'.atenuada = bBr.atenuada
        /\ bBr'.rampa = bBr.rampa /\ bBr'.elegido = bBr.elegido /\ bBr'.puesta = bBr.puesta
    BY <1>b, <2>1 DEF Br!Estado
  <2>3. BaseBr(bBr') /\ Sigue(bBr, bBr')
    BY <1>b, <2>1, <2>2 DEF BaseBr, Rampas, Sigue
  <2>4. RestoBr' /\ Br!Pide /\ enCursoBr' = enCursoBr
    BY <1>4 DEF Br!MargenPasa, Br!Interno, IMando, RestoBr, Br!historia
  <2>. QED BY <2>3, <2>4 DEF Pasa
<1>5. CASE Br!Mueve
  <2>1. PICK x \in BOOLEAN : bBr' = Br!Entrada(bBr, x)
    BY <1>5 DEF Br!Mueve
  <2>2. BaseBr(bBr') /\ Sigue(bBr, bBr')
    BY <1>b, <2>1, EntradaBien
  <2>3. Br!Pide /\ restaurado' = (IF bBr.atenuada.motivo = "inactividad" THEN bBr.atenuada.previo ELSE Br!Nada)
        /\ fijo' = (fijo /\ Br!SoloUsuario) /\ UNCHANGED <<querido, manos>> /\ Br!Suceso
    BY <1>5 DEF Br!Mueve, Br!TrasRestaurar
  <2>4. RestoBr'
    BY <1>b, <1>s, <2>3 DEF IMando, RestoBr
  <2>. QED BY <1>s, <2>2, <2>3, <2>4 DEF Pasa
<1>6. CASE Br!LuzDeTeclado
  <2>1. PICK x \in BOOLEAN : bBr' = [Br!Entrada(bBr, x) EXCEPT !.escrito = TRUE]
    BY <1>6 DEF Br!LuzDeTeclado
  <2>2. PICK t : t = Br!Entrada(bBr, x)
    OBVIOUS
  <2>3. BaseBr(t) /\ Sigue(bBr, t)
    BY <1>b, <2>2, EntradaBien
  <2>4. bBr' \in Br!Estado /\ bBr'.cola = t.cola /\ bBr'.brillo = t.brillo /\ bBr'.bajada = t.bajada
          /\ bBr'.atenuada = t.atenuada
        /\ bBr'.rampa = t.rampa /\ bBr'.elegido = t.elegido /\ bBr'.puesta = t.puesta /\ bBr'.escrito = TRUE
    BY <2>1, <2>2, <2>3 DEF BaseBr, Br!Estado
  <2>5. BaseBr(bBr') /\ Sigue(t, bBr')
    BY <2>3, <2>4 DEF BaseBr, Rampas, Sigue
  <2>6. Br!Pide /\ restaurado' = Br!Nada
        /\ fijo' = (fijo /\ Br!SoloUsuario) /\ UNCHANGED <<querido, manos>> /\ Br!Suceso
    BY <1>6 DEF Br!LuzDeTeclado, Br!OtraCosa, Br!TrasRestaurar
  <2>7. RestoBr'
    BY <1>s, <2>6 DEF IMando, RestoBr
  <2>. QED BY <1>s, <2>3, <2>5, <2>6, <2>7, SigueDos DEF Pasa
<1>7. ASSUME NEW paso \in Teclas, Br!PulsaTecla(paso) \/ Br!MantieneTecla(paso)
      PROVE Pasa /\ RestoBr'
  <2>1. paso \in Int /\ Br!Suceso
    BY <1>7, BrilloAssumption DEF Br!EntradasAssumption, Br!PulsaTecla, Br!MantieneTecla
  <2>2. PICK s : BaseBr(s) /\ Sigue(bBr, s) /\ Br!Brillo(paso, s)
    <3>1. CASE Br!PulsaTecla(paso)
      <4>1. PICK x \in BOOLEAN : Br!Brillo(paso, Br!Entrada(bBr, x))
        BY <3>1 DEF Br!PulsaTecla
      <4>. QED BY <1>b, <4>1, EntradaBien
    <3>2. CASE Br!MantieneTecla(paso)
      BY <1>b, <3>2 DEF Br!MantieneTecla, Sigue
    <3>. QED BY <1>7, <3>1, <3>2
  <2>3. /\ Pasa /\ restaurado' = Br!Nada /\ manos' = TRUE
        /\ querido' \in 0..Tope /\ fijo' = Br!SoloUsuario
    BY <1>s, <2>1, <2>2, BrilloPasa
  <2>4. Br!SoloUsuario \in BOOLEAN
    BY DEF Br!SoloUsuario
  <2>. QED BY <1>s, <2>1, <2>3, <2>4 DEF RestoBr
<1>8. ASSUME NEW nivel \in Br!Niveles, Br!Desliza(nivel) PROVE Pasa /\ RestoBr'
  <2>1. PICK x \in BOOLEAN : bBr' = Br!Solicitar(Br!Entrada(bBr, x), Br!Crudo(nivel))
    BY <1>8 DEF Br!Desliza
  <2>2. nivel \in 0..Tope
    BY <1>e DEF Br!Niveles
  <2>3. PICK t, k : t = Br!Entrada(bBr, x) /\ k = Br!Crudo(nivel)
    OBVIOUS
  <2>4. BaseBr(t) /\ Sigue(bBr, t) /\ k \in Br!Crudos
    BY <1>b, <2>2, <2>3, EntradaBien, CrudoEntre
  <2>5. BaseBr(bBr') /\ Sigue(t, bBr')
    BY <2>1, <2>3, <2>4, SolicitarBien
  <2>6. Br!Pide /\ restaurado' = Br!Nada /\ querido' = nivel /\ manos' = TRUE /\ fijo' = Br!SoloUsuario
          /\ Br!Suceso
    BY <1>8 DEF Br!Desliza, Br!Elegido
  <2>7. Br!SoloUsuario \in BOOLEAN
    BY DEF Br!SoloUsuario
  <2>8. RestoBr'
    BY <1>s, <2>2, <2>6, <2>7 DEF RestoBr
  <2>. QED BY <1>s, <2>4, <2>5, <2>6, <2>8, SigueDos DEF Pasa
<1>9. ASSUME NEW auto \in Automaticos, Br!Elige(auto) PROVE Pasa /\ RestoBr'
  <2>1. auto \in BOOLEAN /\ bBr' = Br!Elegir(bBr, auto)
    BY <1>9, BrilloAssumption DEF Br!EntradasAssumption, Br!Elige
  <2>2. BaseBr(bBr') /\ Sigue(bBr, bBr')
    BY <1>b, <2>1, ElegirBien
  <2>6. Br!Pide /\ restaurado' = Br!Nada
        /\ fijo' = (fijo /\ Br!SoloUsuario) /\ UNCHANGED <<querido, manos>> /\ Br!Suceso
    BY <1>9 DEF Br!Elige, Br!OtraCosa, Br!TrasRestaurar
  <2>7. RestoBr'
    BY <1>s, <2>6 DEF IMando, RestoBr
  <2>. QED BY <1>s, <2>2, <2>6, <2>7 DEF Pasa
<1>10. ASSUME NEW lux \in Br!Luces, Br!Lux(lux) PROVE Pasa /\ RestoBr'
  <2>1. bBr' = Br!Recibir(bBr, lux)
    BY <1>10 DEF Br!Lux
  <2>2. BaseBr(bBr') /\ Sigue(bBr, bBr')
    BY <1>b, <2>1, RecibirBien
  <2>6. Br!Pide /\ restaurado' = Br!Nada
        /\ fijo' = (fijo /\ Br!SoloUsuario) /\ UNCHANGED <<querido, manos>> /\ Br!Suceso
    BY <1>10 DEF Br!Lux, Br!OtraCosa, Br!TrasRestaurar
  <2>7. RestoBr'
    BY <1>s, <2>6 DEF IMando, RestoBr
  <2>. QED BY <1>s, <2>2, <2>6, <2>7 DEF Pasa
<1>11. ASSUME NEW carga \in Cargas, Br!AvisaHardware(carga) PROVE Pasa /\ RestoBr'
  <2>1. bBr' = Br!Bateria(bBr, carga)
    BY <1>11 DEF Br!AvisaHardware
  <2>2. BaseBr(bBr') /\ Sigue(bBr, bBr')
    BY <1>b, <2>1, BateriaBien
  <2>6. Br!Pide
        /\ restaurado' = (IF bBr' = bBr THEN restaurado
                          ELSE IF bBr.atenuada # Br!SinAtenuar THEN bBr.atenuada.previo ELSE Br!Nada)
        /\ fijo' = (fijo /\ Br!SoloUsuario) /\ UNCHANGED <<querido, manos>> /\ Br!Suceso
    BY <1>11 DEF Br!AvisaHardware, Br!TrasRestaurar
  <2>7. RestoBr'
    BY <1>b, <1>s, <2>6 DEF IMando, RestoBr
  <2>. QED BY <1>s, <2>2, <2>6, <2>7 DEF Pasa
<1>12. CASE Br!AvisaBloqueo
  <2>1. bBr' = Br!Atenuar(bBr, "inactividad")
    BY <1>12 DEF Br!AvisaBloqueo
  <2>2. BaseBr(bBr') /\ Sigue(bBr, bBr')
    BY <1>b, <2>1, AtenuarBien
  <2>6. Br!Pide /\ restaurado' = Br!Nada
        /\ fijo' = (fijo /\ Br!SoloUsuario) /\ UNCHANGED <<querido, manos>> /\ Br!Suceso
    BY <1>12 DEF Br!AvisaBloqueo, Br!OtraCosa, Br!TrasRestaurar
  <2>7. RestoBr'
    BY <1>s, <2>6 DEF IMando, RestoBr
  <2>. QED BY <1>s, <2>2, <2>6, <2>7 DEF Pasa
<1>13. CASE Br!ApagaPantalla
  <2>1. bBr' = [bBr EXCEPT !.encendido = FALSE] /\ Br!Pide /\ UNCHANGED Br!historia /\ Br!Suceso
    BY <1>13 DEF Br!ApagaPantalla
  <2>2. bBr' \in Br!Estado /\ bBr'.cola = bBr.cola /\ bBr'.brillo = bBr.brillo /\ bBr'.bajada = bBr.bajada
          /\ bBr'.atenuada = bBr.atenuada
        /\ bBr'.rampa = bBr.rampa /\ bBr'.elegido = bBr.elegido /\ bBr'.puesta = bBr.puesta
           /\ bBr'.escrito = bBr.escrito
    BY <1>b, <2>1 DEF Br!Estado
  <2>3. BaseBr(bBr') /\ Sigue(bBr, bBr')
    BY <1>b, <2>2 DEF BaseBr, Rampas, Sigue
  <2>4. RestoBr'
    BY <1>s, <2>1 DEF IMando, RestoBr, Br!historia
  <2>. QED BY <1>s, <2>1, <2>3, <2>4 DEF Pasa
<1>14. CASE Br!Temporizadores
  BY <1>14, <1>1, <1>2, <1>3, <1>4 DEF Br!Temporizadores
<1>15. CASE Br!Usuario
  BY <1>15, <1>5, <1>6, <1>7, <1>8, <1>9 DEF Br!Usuario
<1>16. CASE Br!Entorno
  BY <1>16, <1>10, <1>11, <1>12, <1>13 DEF Br!Entorno
<1>. QED BY <1>14, <1>15, <1>16 DEF Otros

\* The session begins with nothing asked for.
LEMMA InicioMando == Br!Init => IMando
<1>. SUFFICES ASSUME Br!Init PROVE IMando
  OBVIOUS
<1>1. PICK nivel \in Br!Niveles, auto \in Automaticos :
        /\ bBr = [cola |-> Br!Nada, brillo |-> Br!Crudo(nivel), atenuada |-> Br!SinAtenuar,
                bajada |-> Br!SinBajada, rampa |-> Br!SinRampa, elegido |-> auto,
                lux |-> Br!Nada, puesta |-> Br!Nada, desvio |-> 0, aMano |-> Br!Nada,
                escrito |-> FALSE, espera |-> FALSE, encendido |-> TRUE]
        /\ pedido = Br!Crudo(nivel) /\ querido = nivel /\ fijo = ~auto
  BY DEF Br!Init
<1>2. nivel \in 0..Tope /\ auto \in BOOLEAN /\ 0 \in (-DesvioMax)..DesvioMax /\ 0 \in 0..MaxSucesos
  BY BrilloAssumption DEF Br!Niveles, Br!NivelesAssumption, Br!EntradasAssumption
<1>3. Br!Crudo(nivel) \in Br!Crudos
  BY <1>2, CrudoEntre
<1>4. bBr \in Br!Estado
  BY <1>1, <1>2, <1>3, NadaRueda DEF Br!Estado
<1>5. BaseBr(bBr)
  BY <1>1, <1>4 DEF BaseBr, Rampas
<1>6. Mando
  BY <1>1, <1>3 DEF Br!Init, Mando
<1>7. RestoBr
  BY <1>1, <1>2 DEF Br!Init, RestoBr
<1>. QED BY <1>5, <1>6, <1>7 DEF IMando

\* Every step keeps who is in command.
LEMMA PasoMando == IMando /\ [Br!Next]_(Br!vars) => IMando'
<1>. SUFFICES ASSUME IMando, [Br!Next]_(Br!vars) PROVE IMando'
  OBVIOUS
<1>1. CASE Br!Escritor
  BY <1>1, EscritorMando DEF Br!Escritor
<1>2. CASE Otros
  BY <1>2, OtrosPasan, PasaMando DEF IMando, Pasa
<1>3. CASE UNCHANGED Br!vars
  BY <1>3 DEF Br!vars, IMando, BaseBr, Mando, RestoBr, Rampas
<1>. QED BY <1>1, <1>2, <1>3 DEF Br!Next, Otros

\* Which is what the property asks.
LEMMA MandoDa == IMando => Br!UnSoloMando
<1>. SUFFICES ASSUME IMando PROVE Br!UnSoloMando
  OBVIOUS
<1>1. Br!TypeOK
  BY DEF IMando, BaseBr, Mando, RestoBr, Br!TypeOK
<1>2. Br!UltimaManda
  BY DEF IMando, Mando, Br!UltimaManda, Br!EscritorLibre
<1>3. Br!RampaConMotivo
  BY DEF IMando, BaseBr, Rampas, Br!RampaConMotivo
<1>. QED BY <1>1, <1>2, <1>3 DEF Br!UnSoloMando

-----------------------------------------------------------------------------
\* The level is the user's, and nobody else has asked for anything.
Fiel(s, p, q) ==
  /\ s.elegido = FALSE /\ s.atenuada.motivo # "bateria" /\ s.rampa = Br!SinRampa
  /\ s.atenuada = Br!SinAtenuar => Br!Leido(p) = q
  /\ s.atenuada # Br!SinAtenuar => s.atenuada.previo = q
Pidio(s, p) == IF s.cola # Br!Nada THEN s.cola ELSE p
Sabe(s, p) == p \in Br!Crudos /\ (s.cola # Br!Nada => p = s.cola)
\* What a function of the compositor does on its own account respects the user.
Guarda(s, t, e, p, q) ==
  /\ Cercana => (Inocente(s, e, p) => Inocente(t, e, Pidio(t, p)))
  /\ Exacta => (Fiel(s, p, q) => Fiel(t, Pidio(t, p), q))

\* Two functions in a row.
LEMMA GuardaDos ==
  ASSUME NEW s, NEW t, NEW u, NEW e, NEW p, NEW q, Sigue(t, u), Guarda(s, t, e, p, q), Guarda(t, u, e,
          Pidio(t, p), q)
  PROVE  Guarda(s, u, e, p, q)
<1>1. Pidio(u, Pidio(t, p)) = Pidio(u, p)
  BY DEF Pidio, Sigue
<1>. QED BY <1>1 DEF Guarda

\* The last request is known.
LEMMA SabePidio == ASSUME NEW t \in Br!Estado, NEW p \in Br!Crudos PROVE Sabe(t, Pidio(t, p))
BY DEF Sabe, Pidio, Br!Estado

\* Evaluating respects the user.
LEMMA GuardaEvaluar ==
  ASSUME NEW s, BaseBr(s), NEW e, NEW p, NEW q, Sabe(s, p)
  PROVE  Guarda(s, Br!Evaluar(s), e, p, q)
<1>1. BaseBr(Br!Evaluar(s)) /\ Mismo(s, Br!Evaluar(s)) /\ (s.elegido = FALSE => Br!Evaluar(s) = s)
  BY EvaluarBien
<1>2. PICK t : t = Br!Evaluar(s)
  OBVIOUS
<1>3. Pidio(t, p) = p
  BY <1>1, <1>2 DEF Pidio, Sabe, Mismo
<1>4. Inocente(s, e, p) => Inocente(t, e, p)
  BY <1>2, EvaluarInocente DEF Sabe
<1>5. Fiel(s, p, q) => t = s
  BY <1>1, <1>2 DEF Fiel
<1>. QED BY <1>2, <1>3, <1>4, <1>5 DEF Guarda

\* And so does coming back to the level of before.
LEMMA GuardaVuelta ==
  ASSUME NEW s, BaseBr(s), NEW e, NEW p, NEW q, s.atenuada # Br!SinAtenuar
  PROVE  Guarda(s, Vuelta(s), e, p, q)
<1>1. PICK t, n : t = Vuelta(s) /\ n = s.atenuada.previo
  OBVIOUS
<1>2. /\ BaseBr(t) /\ n \in 0..Tope
      /\ t.cola = Br!Crudo(n) /\ t.cola # Br!Nada
      /\ t.atenuada = Br!SinAtenuar /\ t.elegido = s.elegido /\ t.escrito = TRUE
      /\ t.desvio = s.desvio /\ t.rampa = Br!SinRampa
      /\ (t.puesta # Br!Nada => t.puesta = n)
  BY <1>1, VueltaBien
<1>3. PICK k : k = Br!Crudo(n)
  OBVIOUS
<1>4. (Exacta => Br!Leido(k) = n) /\ (Cercana => Br!Abs(Br!Leido(k) - n) <= Tolerancia) /\ Pidio(t, p) = k
  BY <1>2, <1>3 DEF Exacta, Cercana, Pidio
<1>5. Cercana => (Inocente(s, e, p) => Inocente(t, e, k))
  BY <1>2, <1>4 DEF Inocente
<1>6. Exacta => (Fiel(s, p, q) => Fiel(t, k, q))
  <2>1. t.atenuada.motivo = "no"
    BY <1>2 DEF Br!SinAtenuar
  <2>. QED BY <1>1, <1>2, <1>4, <2>1 DEF Fiel
<1>. QED BY <1>1, <1>4, <1>5, <1>6 DEF Guarda

\* And the whole of it.
LEMMA GuardaRestaurar ==
  ASSUME NEW s, BaseBr(s), NEW e, NEW p \in Br!Crudos, NEW q, s.atenuada # Br!SinAtenuar
  PROVE  Guarda(s, Br!Restaurar(s), e, p, q)
<1>1. PICK t : t = Vuelta(s)
  OBVIOUS
<1>2. BaseBr(t) /\ t \in Br!Estado /\ Guarda(s, t, e, p, q)
  BY <1>1, VueltaBien, GuardaVuelta DEF BaseBr
<1>3. PICK r : r = Pidio(t, p)
  OBVIOUS
<1>4. Sabe(t, r)
  BY <1>2, <1>3, SabePidio
<1>5. Guarda(t, Br!Evaluar(t), e, r, q) /\ Sigue(t, Br!Evaluar(t))
  BY <1>2, <1>4, GuardaEvaluar, EvaluarSigue
<1>6. Br!Restaurar(s) = Br!Evaluar(t)
  BY <1>1 DEF Br!Restaurar, Vuelta, Suelta
<1>. QED BY <1>2, <1>3, <1>5, <1>6, GuardaDos

\* And doing nothing.
LEMMA GuardaMisma == ASSUME NEW s, NEW e, NEW p, NEW q, Sabe(s, p) PROVE Guarda(s, s, e, p, q)
<1>1. Pidio(s, p) = p
  BY DEF Pidio, Sabe
<1>. QED BY <1>1 DEF Guarda

\* The pointer only ends what dimmed on its own.
LEMMA GuardaActividad ==
  ASSUME NEW s, BaseBr(s), NEW e, NEW p \in Br!Crudos, NEW q, Sabe(s, p)
  PROVE  Guarda(s, Br!Actividad(s), e, p, q)
<1>1. CASE s.atenuada.motivo = "inactividad"
  <2>1. s.atenuada # Br!SinAtenuar
    BY <1>1 DEF Br!SinAtenuar
  <2>. QED BY <1>1, <2>1, GuardaRestaurar DEF Br!Actividad
<1>2. CASE s.atenuada.motivo # "inactividad"
  BY <1>2, GuardaMisma DEF Br!Actividad
<1>. QED BY <1>1, <1>2

\* Waking up evaluates the light.
LEMMA GuardaDespertar ==
  ASSUME NEW s, BaseBr(s), NEW e, NEW p \in Br!Crudos, NEW q, Sabe(s, p)
  PROVE  Guarda(s, Br!Despertar(s), e, p, q)
<1>1. CASE s.encendido
  BY <1>1, GuardaMisma DEF Br!Despertar
<1>2. CASE ~s.encendido
  <2>1. PICK t : t = Enciende(s)
    OBVIOUS
  <2>2. BaseBr(t) /\ Mismo(s, t) /\ t.rampa = s.rampa /\ t.puesta = s.puesta /\ t.desvio = s.desvio
    BY <2>1, EnciendeBien
  <2>3. Sabe(t, p) /\ Pidio(t, p) = p
    BY <2>2 DEF Mismo, Sabe, Pidio
  <2>4. Guarda(s, t, e, p, q)
    BY <2>2, <2>3 DEF Guarda, Inocente, Fiel, Mismo
  <2>5. Guarda(t, Br!Evaluar(t), e, p, q) /\ Sigue(t, Br!Evaluar(t))
    BY <2>2, <2>3, GuardaEvaluar, EvaluarSigue
  <2>6. Br!Despertar(s) = Br!Evaluar(t)
    BY <1>2, <2>1 DEF Br!Despertar, Enciende
  <2>. QED BY <2>3, <2>4, <2>5, <2>6, GuardaDos
<1>. QED BY <1>1, <1>2

\* An input does both.
LEMMA GuardaEntrada ==
  ASSUME NEW s, BaseBr(s), NEW e, NEW p \in Br!Crudos, NEW q, Sabe(s, p), NEW x \in BOOLEAN
  PROVE  Guarda(s, Br!Entrada(s, x), e, p, q)
<1>1. PICK t : t = Br!Actividad(s)
  OBVIOUS
<1>2. BaseBr(t) /\ t \in Br!Estado /\ Guarda(s, t, e, p, q)
  BY <1>1, ActividadBien, GuardaActividad DEF BaseBr
<1>3. CASE x = TRUE
  BY <1>1, <1>2, <1>3 DEF Br!Entrada
<1>4. CASE x = FALSE
  <2>1. PICK r : r = Pidio(t, p)
    OBVIOUS
  <2>2. Sabe(t, r) /\ r \in Br!Crudos
    BY <1>2, <2>1, SabePidio DEF Sabe
  <2>3. Guarda(t, Br!Despertar(t), e, r, q) /\ Sigue(t, Br!Despertar(t))
    BY <1>2, <2>2, GuardaDespertar, DespertarBien
  <2>4. Br!Entrada(s, x) = Br!Despertar(t)
    BY <1>1, <1>4 DEF Br!Entrada
  <2>. QED BY <1>2, <2>1, <2>3, <2>4, GuardaDos
<1>. QED BY <1>3, <1>4

\* The warning finds on the panel what was last asked for.
LEMMA GuardaAtenuar ==
  ASSUME NEW s, BaseBr(s), NEW e, NEW p, NEW q, Sabe(s, p), NEW m \in {"inactividad", "bateria"}
  PROVE  /\ Cercana => (Inocente(s, e, p) => Inocente(Br!Atenuar(s, m), e, Pidio(Br!Atenuar(s, m), p)))
         /\ m = "inactividad" /\ s.brillo = p => Guarda(s, Br!Atenuar(s, m), e, p, q)
<1>1. PICK t : t = Br!Atenuar(s, m)
  OBVIOUS
<1>2. CASE t = s
  BY <1>1, <1>2, GuardaMisma DEF Guarda
<1>3. CASE /\ s.atenuada = Br!SinAtenuar /\ t.atenuada = [motivo |-> m, previo |-> Br!Leido(s.brillo)]
           /\ t.cola = s.cola /\ t.escrito = TRUE /\ t.rampa = Br!SinRampa
           /\ t.desvio = s.desvio /\ t.elegido = s.elegido
  <2>1. t.atenuada # Br!SinAtenuar /\ t.atenuada.motivo = m /\ t.atenuada.previo = Br!Leido(s.brillo)
    BY <1>3 DEF Br!SinAtenuar
  <2>2. Pidio(t, p) = p
    BY <1>3 DEF Pidio, Sabe
  <2>3. Inocente(s, e, p) => Inocente(t, e, p)
    BY <1>3, <2>1 DEF Inocente
  <2>4. m = "inactividad" /\ s.brillo = p /\ Fiel(s, p, q) => Fiel(t, p, q)
    BY <1>3, <2>1 DEF Fiel
  <2>. QED BY <1>1, <2>2, <2>3, <2>4 DEF Guarda
<1>. QED BY <1>1, <1>2, <1>3, AtenuarBien

-----------------------------------------------------------------------------
\* What the user wished.
IBrillo == /\ IMando
           /\ Cercana /\ manos = FALSE => Inocente(bBr, enCursoBr, pedido)
           /\ Exacta /\ fijo = TRUE => Fiel(bBr, pedido, querido)

\* The session begins with the user's level.
LEMMA InicioBrillo == Br!Init => IBrillo
<1>. SUFFICES ASSUME Br!Init PROVE IBrillo
  OBVIOUS
<1>1. PICK nivel \in Br!Niveles, auto \in Automaticos :
        /\ bBr = [cola |-> Br!Nada, brillo |-> Br!Crudo(nivel), atenuada |-> Br!SinAtenuar,
                bajada |-> Br!SinBajada, rampa |-> Br!SinRampa, elegido |-> auto,
                lux |-> Br!Nada, puesta |-> Br!Nada, desvio |-> 0, aMano |-> Br!Nada,
                escrito |-> FALSE, espera |-> FALSE, encendido |-> TRUE]
        /\ pedido = Br!Crudo(nivel) /\ querido = nivel /\ fijo = ~auto
  BY DEF Br!Init
<1>2. nivel \in 0..Tope /\ auto \in BOOLEAN
  BY BrilloAssumption DEF Br!Niveles, Br!NivelesAssumption, Br!EntradasAssumption
<1>3. Exacta => Br!Leido(Br!Crudo(nivel)) = nivel
  BY <1>2 DEF Exacta
<1>4. IMando
  BY InicioMando
<1>5. Inocente(bBr, enCursoBr, pedido)
  BY <1>1 DEF Br!Init, Inocente
<1>6. Exacta /\ fijo = TRUE => Fiel(bBr, pedido, querido)
  BY <1>1, <1>2, <1>3 DEF Fiel, Br!SinAtenuar
<1>. QED BY <1>4, <1>5, <1>6 DEF IBrillo

\* Whatever is not the user's doing.
Ajeno == Guarda(bBr, bBr', enCursoBr, pedido, querido) /\ enCursoBr' = enCursoBr /\ Br!Pide
\* Nobody's step breaks what is known of the user's wish.
LEMMA AjenoGuarda ==
  ASSUME IBrillo, Ajeno, UNCHANGED <<querido, manos>>, fijo' = TRUE => fijo = TRUE
  PROVE  /\ Cercana /\ manos' = FALSE => Inocente(bBr', enCursoBr', pedido')
         /\ Exacta /\ fijo' = TRUE => Fiel(bBr', pedido', querido')
<1>1. pedido' = Pidio(bBr', pedido)
  BY DEF Ajeno, Br!Pide, Pidio
<1>. QED BY <1>1 DEF Ajeno, IBrillo, Guarda

\* A level of the user's.
LEMMA ElegidoGuarda ==
  ASSUME NEW n \in 0..Tope, BaseBr(bBr'), bBr'.atenuada.motivo # "inactividad", bBr'.cola = Br!Crudo(n),
          bBr'.cola # Br!Nada,
         Br!Pide, querido' = n, manos' = TRUE, fijo' = Br!SoloUsuario
  PROVE  /\ Cercana /\ manos' = FALSE => Inocente(bBr', enCursoBr', pedido')
         /\ Exacta /\ fijo' = TRUE => Fiel(bBr', pedido', querido')
<1>1. pedido' = bBr'.cola
  BY DEF Br!Pide
<1>2. PICK k : k = Br!Crudo(n)
  OBVIOUS
<1>3. Exacta => Br!Leido(k) = n
  BY <1>2 DEF Exacta
<1>4. ASSUME Exacta, fijo' = TRUE PROVE Fiel(bBr', pedido', querido')
  <2>1. bBr'.elegido = FALSE /\ bBr'.atenuada.motivo # "bateria"
    BY <1>4 DEF Br!SoloUsuario, BaseBr, Br!Estado
  <2>2. bBr'.atenuada = Br!SinAtenuar /\ bBr'.rampa = Br!SinRampa
    BY <2>1 DEF BaseBr, Br!Estado, Rampas
  <2>. QED BY <1>1, <1>2, <1>3, <1>4, <2>1, <2>2 DEF Fiel
<1>. QED BY <1>4

Respeta == /\ Cercana /\ manos' = FALSE => Inocente(bBr', enCursoBr', pedido')
           /\ Exacta /\ fijo' = TRUE => Fiel(bBr', pedido', querido')

\* Every step but the writer's respects what the user wished.
LEMMA OtrosRespetan == ASSUME Lenta = FALSE, IBrillo, Otros PROVE Respeta
<1>b. BaseBr(bBr) /\ bBr \in Br!Estado /\ pedido \in Br!Crudos /\ Sabe(bBr, pedido)
  BY DEF IBrillo, IMando, BaseBr, Mando, Sabe
<1>p. BaseBr(bBr') /\ Sigue(bBr, bBr') /\ Br!Pide /\ enCursoBr' = enCursoBr
  BY OtrosPasan DEF IBrillo, Pasa
<1>i. Cercana /\ manos = FALSE => Inocente(bBr, enCursoBr, pedido)
  BY DEF IBrillo
<1>f. Exacta /\ fijo = TRUE => Fiel(bBr, pedido, querido)
  BY DEF IBrillo
<1>c. fijo' = (fijo /\ Br!SoloUsuario) => (fijo' = TRUE => fijo = TRUE)
  BY DEF IBrillo, IMando, RestoBr
<1>q. pedido' = Pidio(bBr', pedido)
  BY <1>p DEF Br!Pide, Pidio
<1>e. Suelo..Tope \subseteq 0..Tope
  BY BrilloAssumption DEF Br!NivelesAssumption
<1>1. CASE Br!BajaUnPaso
  <2>1. bBr' = Baja1(bBr) /\ bBr.bajada # Br!SinBajada /\ UNCHANGED Br!historia
    BY <1>1 DEF Br!BajaUnPaso, Baja1, Br!Interno
  <2>2. PICK t : t = Baja1(bBr)
    OBVIOUS
  <2>3. t.cola # Br!Nada /\ t.atenuada = bBr.atenuada /\ bBr.atenuada # Br!SinAtenuar /\ t.elegido = bBr.elegido
        /\ t.escrito = TRUE /\ t.desvio = bBr.desvio /\ BaseBr(t)
    BY <1>b, <2>1, <2>2, Baja1Bien
  <2>4. Cercana /\ manos' = FALSE => Inocente(bBr', enCursoBr', pedido')
    BY <1>i, <2>1, <2>2, <2>3 DEF Inocente, Br!historia
  <2>5. Exacta /\ fijo' = TRUE => Fiel(bBr', pedido', querido')
    <3>1. t.elegido = FALSE => t.rampa = Br!SinRampa
      BY <2>3 DEF BaseBr, Rampas
    <3>. QED BY <1>f, <2>1, <2>2, <2>3, <3>1 DEF Fiel, Br!historia
  <2>. QED BY <2>4, <2>5 DEF Respeta
<1>2. CASE Br!RampaUnPaso
  <2>1. bBr' = Rampa1(bBr) /\ bBr.rampa # Br!SinRampa /\ UNCHANGED Br!historia
    BY <1>2 DEF Br!RampaUnPaso, Rampa1, Br!Interno
  <2>2. PICK t : t = Rampa1(bBr)
    OBVIOUS
  <2>3. t.cola # Br!Nada /\ bBr.elegido = TRUE /\ t.escrito = TRUE /\ t.desvio = bBr.desvio
        /\ (t.rampa = Br!SinRampa => t.puesta \in 0..Tope /\ t.cola = Br!Crudo(t.puesta))
    BY <1>b, <2>1, <2>2, Rampa1Bien
  <2>4. Cercana /\ t.rampa = Br!SinRampa => Br!Abs(Br!Leido(t.cola) - t.puesta) <= Tolerancia
    <3>. SUFFICES ASSUME Cercana, t.rampa = Br!SinRampa PROVE Br!Abs(Br!Leido(t.cola) - t.puesta) <= Tolerancia
      OBVIOUS
    <3>1. PICK n : n = t.puesta
      OBVIOUS
    <3>2. n \in 0..Tope /\ t.cola = Br!Crudo(n)
      BY <2>3, <3>1
    <3>. QED BY <3>1, <3>2 DEF Cercana
  <2>5. pedido' = t.cola
    BY <1>q, <2>1, <2>2, <2>3 DEF Pidio
  <2>6. Cercana /\ manos' = FALSE => Inocente(bBr', enCursoBr', pedido')
    BY <1>i, <2>1, <2>2, <2>3, <2>4, <2>5 DEF Inocente, Br!historia
  <2>7. Exacta /\ fijo' = TRUE => Fiel(bBr', pedido', querido')
    BY <1>f, <2>1, <2>3 DEF Fiel, Br!historia
  <2>. QED BY <2>6, <2>7 DEF Respeta
<1>3. CASE Br!VenceEspera
  <2>1. PICK t : t = ConLuz(bBr, bBr.lux, FALSE)
    OBVIOUS
  <2>2. bBr' = Br!Evaluar(t) /\ UNCHANGED Br!historia
    BY <1>3, <1>b, <2>1 DEF Br!VenceEspera, ConLuz, Br!Estado, Br!Interno
  <2>3. BaseBr(t) /\ Mismo(bBr, t) /\ t.rampa = bBr.rampa /\ t.puesta = bBr.puesta /\ t.desvio = bBr.desvio
    BY <1>b, <2>1, ConLuzBien DEF Br!Estado
  <2>4. Sabe(t, pedido) /\ Pidio(t, pedido) = pedido
    BY <1>b, <2>3 DEF Mismo, Sabe, Pidio
  <2>5. Guarda(bBr, t, enCursoBr, pedido, querido)
    BY <2>3, <2>4 DEF Guarda, Inocente, Fiel, Mismo
  <2>6. Guarda(t, Br!Evaluar(t), enCursoBr, pedido, querido) /\ Sigue(t, Br!Evaluar(t))
    BY <2>3, <2>4, GuardaEvaluar, EvaluarSigue
  <2>7. Ajeno
    BY <1>p, <2>2, <2>4, <2>5, <2>6, GuardaDos DEF Ajeno
  <2>. QED BY <2>2, <2>7, AjenoGuarda DEF Br!historia, Respeta
<1>4. CASE Br!MargenPasa
  <2>1. bBr' = [bBr EXCEPT !.escrito = FALSE] /\ Br!EscritorLibre /\ UNCHANGED Br!historia
          /\ bBr.rampa = Br!SinRampa
    BY <1>4 DEF Br!MargenPasa, Br!Interno
  <2>2. bBr'.cola = Br!Nada /\ bBr.cola = Br!Nada /\ enCursoBr = {} /\ bBr'.brillo = bBr.brillo
          /\ bBr'.atenuada = bBr.atenuada
        /\ bBr'.rampa = bBr.rampa /\ bBr'.elegido = bBr.elegido /\ bBr'.puesta = bBr.puesta
           /\ bBr'.desvio = bBr.desvio
    BY <1>b, <2>1 DEF Br!Estado, Br!EscritorLibre
  <2>3. bBr.brillo = pedido
    BY <2>2 DEF IBrillo, IMando, Mando
  <2>4. pedido' = pedido
    BY <1>q, <2>2 DEF Pidio
  <2>5. Cercana /\ manos' = FALSE => Inocente(bBr', enCursoBr', pedido')
    BY <1>i, <1>p, <2>1, <2>2, <2>3, <2>4 DEF Inocente, Br!historia
  <2>6. Exacta /\ fijo' = TRUE => Fiel(bBr', pedido', querido')
    BY <1>f, <2>1, <2>2, <2>4 DEF Fiel, Br!historia
  <2>. QED BY <2>5, <2>6 DEF Respeta
<1>5. CASE Br!Mueve
  <2>1. PICK x \in BOOLEAN : bBr' = Br!Entrada(bBr, x)
    BY <1>5 DEF Br!Mueve
  <2>2. fijo' = (fijo /\ Br!SoloUsuario) /\ UNCHANGED <<querido, manos>>
    BY <1>5 DEF Br!Mueve, Br!TrasRestaurar
  <2>3. Ajeno
    BY <1>b, <1>p, <2>1, GuardaEntrada DEF Ajeno
  <2>. QED BY <1>c, <2>2, <2>3, AjenoGuarda DEF Respeta
<1>6. CASE Br!LuzDeTeclado
  <2>1. PICK x \in BOOLEAN : bBr' = [Br!Entrada(bBr, x) EXCEPT !.escrito = TRUE]
    BY <1>6 DEF Br!LuzDeTeclado
  <2>2. PICK t : t = Br!Entrada(bBr, x)
    OBVIOUS
  <2>3. BaseBr(t) /\ t \in Br!Estado /\ Guarda(bBr, t, enCursoBr, pedido, querido)
    BY <1>b, <2>2, EntradaBien, GuardaEntrada DEF BaseBr
  <2>4. bBr'.cola = t.cola /\ bBr'.brillo = t.brillo /\ bBr'.atenuada = t.atenuada /\ bBr'.escrito = TRUE
        /\ bBr'.rampa = t.rampa /\ bBr'.elegido = t.elegido /\ bBr'.puesta = t.puesta /\ bBr'.desvio = t.desvio
    BY <2>1, <2>2, <2>3 DEF Br!Estado
  <2>5. Pidio(bBr', pedido) = Pidio(t, pedido)
    BY <2>4 DEF Pidio
  <2>6. Guarda(bBr, bBr', enCursoBr, pedido, querido)
    BY <2>3, <2>4, <2>5 DEF Guarda, Inocente, Fiel
  <2>7. fijo' = (fijo /\ Br!SoloUsuario) /\ UNCHANGED <<querido, manos>>
    BY <1>6 DEF Br!LuzDeTeclado, Br!OtraCosa, Br!TrasRestaurar
  <2>8. Ajeno
    BY <1>p, <2>6 DEF Ajeno
  <2>. QED BY <1>c, <2>7, <2>8, AjenoGuarda DEF Respeta
<1>7. ASSUME NEW paso \in Teclas, Br!PulsaTecla(paso) \/ Br!MantieneTecla(paso)
      PROVE Respeta
  <2>1. paso \in Int
    BY <1>7, BrilloAssumption DEF Br!EntradasAssumption
  <2>2. PICK s : BaseBr(s) /\ Sigue(bBr, s) /\ Br!Brillo(paso, s)
    <3>1. CASE Br!PulsaTecla(paso)
      <4>1. PICK x \in BOOLEAN : Br!Brillo(paso, Br!Entrada(bBr, x))
        BY <3>1 DEF Br!PulsaTecla
      <4>. QED BY <1>b, <4>1, EntradaBien
    <3>2. CASE Br!MantieneTecla(paso)
      BY <1>b, <3>2 DEF Br!MantieneTecla, Sigue
    <3>. QED BY <1>7, <3>1, <3>2
  <2>3. /\ Pasa /\ bBr'.atenuada = Br!SinAtenuar /\ manos' = TRUE
        /\ querido' \in 0..Tope /\ fijo' = Br!SoloUsuario /\ bBr'.cola = Br!Crudo(querido')
           /\ bBr'.cola # Br!Nada
    BY <1>p, <2>1, <2>2, BrilloPasa
  <2>4. PICK n : n = querido'
    OBVIOUS
  <2>5. n \in 0..Tope /\ bBr'.cola = Br!Crudo(n) /\ bBr'.atenuada.motivo # "inactividad"
    BY <2>3, <2>4 DEF Br!SinAtenuar
  <2>. QED BY <1>p, <2>3, <2>4, <2>5, ElegidoGuarda DEF Respeta
<1>8. ASSUME NEW nivel \in Br!Niveles, Br!Desliza(nivel) PROVE Respeta
  <2>1. PICK x \in BOOLEAN : bBr' = Br!Solicitar(Br!Entrada(bBr, x), Br!Crudo(nivel))
    BY <1>8 DEF Br!Desliza
  <2>2. nivel \in 0..Tope
    BY <1>e DEF Br!Niveles
  <2>3. PICK t, k : t = Br!Entrada(bBr, x) /\ k = Br!Crudo(nivel)
    OBVIOUS
  <2>4. BaseBr(t) /\ t \in Br!Estado /\ t.atenuada.motivo # "inactividad" /\ k \in Br!Crudos
    BY <1>b, <2>2, <2>3, EntradaBien, CrudoEntre DEF BaseBr
  <2>5. k # Br!Nada
    BY <2>4, BrilloAssumption DEF Br!Nada, Br!Crudos, Br!NivelesAssumption
  <2>6. bBr'.cola = k /\ bBr'.atenuada = t.atenuada
    BY <2>1, <2>3, <2>4 DEF Br!Solicitar, Br!Estado
  <2>7. Br!Pide /\ querido' = nivel /\ manos' = TRUE /\ fijo' = Br!SoloUsuario
    BY <1>8 DEF Br!Desliza, Br!Elegido
  <2>. QED BY <1>p, <2>2, <2>3, <2>4, <2>5, <2>6, <2>7, ElegidoGuarda DEF Respeta
<1>9. ASSUME NEW auto \in Automaticos, Br!Elige(auto) PROVE Respeta
  <2>1. auto \in BOOLEAN /\ bBr' = Br!Elegir(bBr, auto)
    BY <1>9, BrilloAssumption DEF Br!EntradasAssumption, Br!Elige
  <2>2. PICK t : t = Elige0(bBr, auto)
    OBVIOUS
  <2>3. /\ BaseBr(t) /\ t.cola = bBr.cola /\ t.brillo = bBr.brillo
        /\ t.atenuada = bBr.atenuada /\ t.escrito = bBr.escrito /\ t.elegido = auto
        /\ t.desvio \in {0, bBr.desvio}
        /\ (auto = TRUE /\ bBr.elegido = TRUE => t.puesta = bBr.puesta /\ t.rampa = bBr.rampa)
        /\ (auto = TRUE /\ bBr.elegido = FALSE => t.puesta = Br!Nada)
    BY <1>b, <2>1, <2>2, Elige0Bien
  <2>4. bBr' = Br!Evaluar(t)
    BY <2>1, <2>2 DEF Br!Elegir, Elige0
  <2>5. Sabe(t, pedido) /\ Pidio(t, pedido) = pedido /\ Sigue(t, Br!Evaluar(t))
    BY <1>b, <2>3, EvaluarSigue DEF Sabe, Pidio
  <2>6. Guarda(t, Br!Evaluar(t), enCursoBr, pedido, querido)
    BY <2>3, <2>5, GuardaEvaluar
  <2>7. fijo' = (fijo /\ Br!SoloUsuario) /\ UNCHANGED <<querido, manos>>
    BY <1>9 DEF Br!Elige, Br!OtraCosa, Br!TrasRestaurar
  <2>8. pedido' = Pidio(Br!Evaluar(t), pedido)
    BY <1>q, <2>4
  <2>9. Inocente(bBr, enCursoBr, pedido) => Inocente(t, enCursoBr, pedido)
    <3>1. bBr.elegido \in BOOLEAN
      BY <1>b DEF Br!Estado
    <3>. QED BY <2>1, <2>3, <3>1 DEF Inocente
  <2>10. Cercana /\ manos' = FALSE => Inocente(bBr', enCursoBr', pedido')
    BY <1>i, <1>p, <2>4, <2>6, <2>7, <2>8, <2>9 DEF Guarda
  <2>11. Exacta /\ fijo' = TRUE => Fiel(bBr', pedido', querido')
    <3>. SUFFICES ASSUME Exacta, fijo' = TRUE PROVE Fiel(bBr', pedido', querido')
      OBVIOUS
    <3>1. fijo = TRUE /\ ~bBr'.elegido
      BY <1>c, <2>7 DEF Br!SoloUsuario
    <3>2. auto = FALSE /\ bBr' = t
      <4>1. Mismo(t, Br!Evaluar(t)) /\ (t.elegido = FALSE => Br!Evaluar(t) = t)
        BY <2>3, EvaluarBien
      <4>2. bBr'.elegido = auto
        BY <2>3, <2>4, <4>1 DEF Mismo
      <4>. QED BY <2>1, <2>3, <2>4, <3>1, <4>1, <4>2
    <3>3. t.rampa = Br!SinRampa
      BY <2>3, <3>2 DEF BaseBr, Rampas
    <3>4. pedido' = pedido
      BY <1>q, <2>5, <3>2
    <3>. QED BY <1>f, <2>3, <2>7, <3>1, <3>2, <3>3, <3>4 DEF Fiel
  <2>. QED BY <2>10, <2>11 DEF Respeta
<1>10. ASSUME NEW lux \in Br!Luces, Br!Lux(lux) PROVE Respeta
  <2>1. bBr' = Br!Recibir(bBr, lux)
    BY <1>10 DEF Br!Lux
  <2>2. fijo' = (fijo /\ Br!SoloUsuario) /\ UNCHANGED <<querido, manos>>
    BY <1>10 DEF Br!Lux, Br!OtraCosa, Br!TrasRestaurar
  <2>3. ASSUME NEW y \in BOOLEAN
        PROVE  Guarda(bBr, ConLuz(bBr, lux, y), enCursoBr, pedido, querido) /\ BaseBr(ConLuz(bBr, lux, y))
               /\ Sabe(ConLuz(bBr, lux, y), pedido) /\ Pidio(ConLuz(bBr, lux, y), pedido) = pedido
    <3>1. PICK t : t = ConLuz(bBr, lux, y)
      OBVIOUS
    <3>2. BaseBr(t) /\ Mismo(bBr, t) /\ t.rampa = bBr.rampa /\ t.puesta = bBr.puesta /\ t.desvio = bBr.desvio
      BY <1>b, <3>1, ConLuzBien
    <3>3. Sabe(t, pedido) /\ Pidio(t, pedido) = pedido
      BY <1>b, <3>2 DEF Mismo, Sabe, Pidio
    <3>4. Guarda(bBr, t, enCursoBr, pedido, querido)
      BY <3>2, <3>3 DEF Guarda, Inocente, Fiel, Mismo
    <3>. QED BY <3>1, <3>2, <3>3, <3>4
  <2>4. CASE bBr' = ConLuz(bBr, lux, TRUE)
    <3>1. Ajeno
      BY <1>p, <2>3, <2>4 DEF Ajeno
    <3>. QED BY <1>c, <2>2, <3>1, AjenoGuarda DEF Respeta
  <2>5. CASE bBr' = Br!Evaluar(ConLuz(bBr, lux, FALSE))
    <3>1. PICK t : t = ConLuz(bBr, lux, FALSE)
      OBVIOUS
    <3>2. Guarda(bBr, t, enCursoBr, pedido, querido) /\ BaseBr(t) /\ Sabe(t, pedido)
            /\ Pidio(t, pedido) = pedido
      BY <2>3, <3>1
    <3>3. Guarda(t, Br!Evaluar(t), enCursoBr, pedido, querido) /\ Sigue(t, Br!Evaluar(t))
      BY <3>2, GuardaEvaluar, EvaluarSigue
    <3>4. Ajeno
      BY <1>p, <2>5, <3>1, <3>2, <3>3, GuardaDos DEF Ajeno
    <3>. QED BY <1>c, <2>2, <3>4, AjenoGuarda DEF Respeta
  <2>. QED BY <1>b, <2>1, <2>4, <2>5, RecibirEs
<1>11. ASSUME NEW carga \in Cargas, Br!AvisaHardware(carga) PROVE Respeta
  <2>1. bBr' = Br!Bateria(bBr, carga)
    BY <1>11 DEF Br!AvisaHardware
  <2>2. fijo' = (fijo /\ Br!SoloUsuario) /\ UNCHANGED <<querido, manos>>
    BY <1>11 DEF Br!AvisaHardware, Br!TrasRestaurar
  <2>3. CASE bBr' = bBr
    <3>1. Ajeno
      BY <1>b, <1>p, <2>3, GuardaMisma DEF Ajeno
    <3>. QED BY <1>c, <2>2, <3>1, AjenoGuarda DEF Respeta
  <2>4. CASE bBr' = Br!Restaurar(bBr) /\ bBr.atenuada.motivo = "bateria"
    <3>1. bBr.atenuada # Br!SinAtenuar
      BY <2>4 DEF Br!SinAtenuar
    <3>2. Ajeno
      BY <1>b, <1>p, <2>4, <3>1, GuardaRestaurar DEF Ajeno
    <3>. QED BY <1>c, <2>2, <3>2, AjenoGuarda DEF Respeta
  <2>5. CASE bBr' = Br!Atenuar(bBr, "bateria") /\ bBr' # bBr
    <3>1. PICK t : t = Br!Atenuar(bBr, "bateria")
      OBVIOUS
    <3>2. t.atenuada = [motivo |-> "bateria", previo |-> Br!Leido(bBr.brillo)]
      BY <1>b, <2>5, <3>1, AtenuarBien
    <3>3. ~(fijo' = TRUE)
      <4>1. bBr'.atenuada.motivo = "bateria"
        BY <2>5, <3>1, <3>2
      <4>2. ~Br!SoloUsuario
        BY <4>1 DEF Br!SoloUsuario
      <4>. QED BY <2>2, <4>2
    <3>4. Cercana => (Inocente(bBr, enCursoBr, pedido) => Inocente(bBr', enCursoBr, Pidio(bBr', pedido)))
      BY <1>b, <2>5, GuardaAtenuar
    <3>. QED BY <1>i, <1>p, <1>q, <2>2, <3>3, <3>4 DEF Respeta
  <2>. QED BY <2>1, <2>3, <2>4, <2>5 DEF Br!Bateria
<1>12. CASE Br!AvisaBloqueo
  <2>1. bBr' = Br!Atenuar(bBr, "inactividad") /\ Br!EscritorLibre
    BY <1>12 DEF Br!AvisaBloqueo
  <2>2. fijo' = (fijo /\ Br!SoloUsuario) /\ UNCHANGED <<querido, manos>>
    BY <1>12 DEF Br!AvisaBloqueo, Br!OtraCosa, Br!TrasRestaurar
  <2>3. bBr.brillo = pedido
    BY <2>1 DEF IBrillo, IMando, Mando, Br!EscritorLibre
  <2>4. Guarda(bBr, Br!Atenuar(bBr, "inactividad"), enCursoBr, pedido, querido)
    BY <1>b, <2>3, GuardaAtenuar
  <2>5. Ajeno
    BY <1>p, <2>1, <2>4 DEF Ajeno
  <2>. QED BY <1>c, <2>2, <2>5, AjenoGuarda DEF Respeta
<1>13. CASE Br!ApagaPantalla
  <2>1. bBr' = [bBr EXCEPT !.encendido = FALSE] /\ UNCHANGED Br!historia
    BY <1>13 DEF Br!ApagaPantalla
  <2>2. bBr'.cola = bBr.cola /\ bBr'.brillo = bBr.brillo /\ bBr'.atenuada = bBr.atenuada
        /\ bBr'.rampa = bBr.rampa /\ bBr'.elegido = bBr.elegido /\ bBr'.puesta = bBr.puesta
           /\ bBr'.escrito = bBr.escrito /\ bBr'.desvio = bBr.desvio
    BY <1>b, <2>1 DEF Br!Estado
  <2>3. Pidio(bBr', pedido) = pedido
    BY <1>b, <2>2 DEF Pidio, Sabe
  <2>4. Guarda(bBr, bBr', enCursoBr, pedido, querido)
    BY <2>2, <2>3 DEF Guarda, Inocente, Fiel
  <2>5. Ajeno
    BY <1>p, <2>4 DEF Ajeno
  <2>. QED BY <2>1, <2>5, AjenoGuarda DEF Br!historia, Respeta
<1>14. CASE Br!Temporizadores
  BY <1>14, <1>1, <1>2, <1>3, <1>4 DEF Br!Temporizadores
<1>15. CASE Br!Usuario
  BY <1>15, <1>5, <1>6, <1>7, <1>8, <1>9 DEF Br!Usuario
<1>16. CASE Br!Entorno
  BY <1>16, <1>10, <1>11, <1>12, <1>13 DEF Br!Entorno
<1>. QED BY <1>14, <1>15, <1>16 DEF Otros

\* And so does every step.
LEMMA PasoBrillo == ASSUME Lenta = FALSE PROVE IBrillo /\ [Br!Next]_(Br!vars) => IBrillo'
<1>. SUFFICES ASSUME IBrillo, [Br!Next]_(Br!vars) PROVE IBrillo'
  OBVIOUS
<1>0. IMando'
  BY PasoMando DEF IBrillo
<1>1. CASE Br!Escritor
  <2>1. pedido' = pedido /\ UNCHANGED Br!historia
    BY <1>1, EscritorMando DEF IBrillo, Br!Escritor
  <2>2. bBr' = [bBr EXCEPT !.cola = Br!Nada] \/ \E k : bBr' = [bBr EXCEPT !.brillo = k]
    BY <1>1 DEF Br!Escritor, Br!TomaLote, Br!Escribe
  <2>3. bBr'.atenuada = bBr.atenuada /\ bBr'.escrito = bBr.escrito
        /\ bBr'.rampa = bBr.rampa /\ bBr'.elegido = bBr.elegido /\ bBr'.puesta = bBr.puesta
           /\ bBr'.desvio = bBr.desvio
    BY <2>2 DEF IBrillo, IMando, BaseBr, Br!Estado
  <2>4. ~(bBr.cola = Br!Nada /\ enCursoBr = {})
    BY <1>1 DEF Br!Escritor, Br!TomaLote, Br!Escribe
  <2>5. Cercana /\ manos' = FALSE => Inocente(bBr', enCursoBr', pedido')
    BY <2>1, <2>3, <2>4 DEF IBrillo, Inocente, Br!historia
  <2>6. Exacta /\ fijo' = TRUE => Fiel(bBr', pedido', querido')
    BY <2>1, <2>3 DEF IBrillo, Fiel, Br!historia
  <2>. QED BY <1>0, <2>5, <2>6 DEF IBrillo
<1>2. CASE Otros
  BY <1>0, <1>2, OtrosRespetan DEF IBrillo, Respeta
<1>3. CASE UNCHANGED Br!vars
  BY <1>0, <1>3 DEF Br!vars, IBrillo
<1>. QED BY <1>1, <1>2, <1>3 DEF Br!Next, Otros

\* Nothing was learnt.
LEMMA DesvioDa == ASSUME Cercana PROVE IBrillo => Br!DesvioDelUsuario
BY DEF IBrillo, IMando, RestoBr, Inocente, Br!DesvioDelUsuario

\* And the level is the user's.
LEMMA NivelDa == ASSUME Exacta PROVE IBrillo => Br!NivelDevuelto
<1>. SUFFICES ASSUME IBrillo, fijo, Br!Quieto, bBr.atenuada = Br!SinAtenuar PROVE Br!Leido(bBr.brillo) = querido
  BY DEF Br!NivelDevuelto
<1>1. fijo = TRUE
  BY DEF IBrillo, IMando, RestoBr
<1>2. Br!Leido(pedido) = querido
  BY <1>1 DEF IBrillo, Fiel
<1>3. bBr.brillo = pedido
  BY DEF IBrillo, IMando, Mando, Br!Quieto, Br!EscritorLibre
<1>. QED BY <1>2, <1>3

\* The brightness is not touched by the other machines.
LEMMA BrilloAparte ==
  ASSUME [Next]_<<parte, deGreeter, deGreeterWifi, deBuds, deBudsReader, deBudsStatus,
        deActivities, deSystemService, deVolumeKeys, deWifiProfiles, deSettings, deNightLight,
        deAutoTheme, deBrightness>>,
         parte' = "brightness"
  PROVE  parte = "brightness" /\ (Br!Next \/ UNCHANGED Br!vars)
<1>1. UNCHANGED <<parte, deBrightness>> => parte' = parte /\ UNCHANGED Br!vars
  BY DEF deBrightness, Br!vars, Br!historia
<1>2. Next => parte' = parte /\ (parte = "brightness" => Br!Next)
  BY DEF Next, EnGreeter, EnGreeterWifi, EnBuds, EnBudsReader, EnBudsStatus, EnActivities,
      EnSystemService, EnVolumeKeys, EnWifiProfiles, EnSettings, EnNightLight, EnAutoTheme,
      EnBrightness, Br!Next
<1>. QED BY <1>1, <1>2

MandoConInv == parte = "brightness" => IMando
BrilloConInv == parte = "brightness" => IBrillo

\* However many ask for a level and however late busctl is, the last request is the one that stays
\* on the panel, and a ramp runs only for who started it (retroiluminacion.rs, atenuacion.rs,
\* brillo_auto.rs).
THEOREM MandoBien == Spec => [](parte = "brightness" => Br!UnSoloMando)
<1>1. Init => MandoConInv
  BY InicioMando DEF Init, MandoConInv
<1>2. MandoConInv /\ [Next]_<<parte, deGreeter, deGreeterWifi, deBuds, deBudsReader, deBudsStatus,
        deActivities, deSystemService, deVolumeKeys, deWifiProfiles, deSettings, deNightLight,
        deAutoTheme, deBrightness>>
        => MandoConInv'
  BY PasoMando, BrilloAparte DEF MandoConInv
<1>3. MandoConInv => (parte = "brightness" => Br!UnSoloMando)
  BY MandoDa DEF MandoConInv
<1>. QED BY <1>1, <1>2, <1>3, PTL DEF Spec

\* If what is requested is on the panel within the margin, and the device shows each level within
\* the tolerance of the code, the automatic brightness learns nothing that the user did not do.
THEOREM DesvioBien ==
  ASSUME Lenta = FALSE, Cercana
  PROVE  Spec => [](parte = "brightness" => Br!DesvioDelUsuario)
<1>1. Init => BrilloConInv
  BY InicioBrillo DEF Init, BrilloConInv
<1>2. BrilloConInv /\ [Next]_<<parte, deGreeter, deGreeterWifi, deBuds, deBudsReader, deBudsStatus,
        deActivities, deSystemService, deVolumeKeys, deWifiProfiles, deSettings, deNightLight,
        deAutoTheme, deBrightness>>
        => BrilloConInv'
  BY PasoBrillo, BrilloAparte DEF BrilloConInv
<1>3. BrilloConInv => (parte = "brightness" => Br!DesvioDelUsuario)
  BY DesvioDa DEF BrilloConInv
<1>. QED BY <1>1, <1>2, <1>3, PTL DEF Spec

\* And if the device shows each level as it is, the level the user chose comes back after each
\* dimming: with any levels, any curve and any keys, the panel ends where the last to ask wanted
\* it and the user's wish is neither invented nor forgotten.
THEOREM BrilloBien == ASSUME Lenta = FALSE, Exacta PROVE Spec => []BrilloEnOrden
<1>1. Init => BrilloConInv
  BY InicioBrillo DEF Init, BrilloConInv
<1>2. BrilloConInv /\ [Next]_<<parte, deGreeter, deGreeterWifi, deBuds, deBudsReader, deBudsStatus,
        deActivities, deSystemService, deVolumeKeys, deWifiProfiles, deSettings, deNightLight,
        deAutoTheme, deBrightness>>
        => BrilloConInv'
  BY PasoBrillo, BrilloAparte DEF BrilloConInv
<1>3. BrilloConInv => BrilloEnOrden
  <2>1. IBrillo => Br!UnSoloMando
    BY MandoDa DEF IBrillo
  <2>2. IBrillo => Br!DeseoDelUsuario
    BY DesvioDa, NivelDa, ExactaEsCercana DEF Br!DeseoDelUsuario
  <2>. QED BY <2>1, <2>2 DEF BrilloConInv, BrilloEnOrden
<1>. QED BY <1>1, <1>2, <1>3, PTL DEF Spec

-----------------------------------------------------------------------------
(***************************************************************************)
(* The activities: what the island says is so.                             *)
(***************************************************************************)
\* A set of numbers has a least one.
LEMMA MenorHay == ASSUME NEW T, T \subseteq Nat, T # {} PROVE \E n \in T : \A k \in T : n <= k
<1>1. IsWellFoundedOn(OpToRel(<, Nat), Nat)
  BY NatLessThanWellFounded
<1>2. PICK n \in T : \A k \in T : ~(<<k, n>> \in OpToRel(<, Nat))
  BY <1>1, WFMin
<1>3. \A k \in T : ~(k < n)
  BY <1>2 DEF OpToRel
<1>. QED BY <1>3

Textos == Pistas \cup {Ac!Sin}
Estados == [falta : Ac!Faltas, pausado : BOOLEAN, titulo : Textos, portada : Textos]
Publica == [que : {"publica"}, app : Ac!Apps, de : Nat \ {0}, estado : Estados]
Cierra == [que : {"cierra"}, app : Ac!Apps]
Caido == [que : {"caido"}, app : Ac!Apps, de : Nat \ {0}]
Llamadas == Publica \cup Cierra
Mensajes == Llamadas \cup Caido
Tarjetas == [app : Ac!Apps, vista : {"compacta", "abierta", "cola"}, falta : Ac!Faltas, pausado : BOOLEAN,
             titulo : Textos, arte : Textos, burbujas : SUBSET Ac!Apps]
Mandatos == [app : Ac!Apps, nombre : {"play-pause", "snooze", "resume", "pause"}]
Conservadas == [Ac!Apps -> {<<>>} \cup {<<e>> : e \in Estados}]

TiposAc ==
  /\ conexionAc \in [Ac!Apps -> Nat] /\ usadas \in [Ac!Apps -> Nat] /\ remitentes \in [Ac!Apps -> Nat]
  /\ real \in [Ac!Apps -> Estados] /\ sucia \subseteq Ac!Apps
  /\ servidor \in Seq(Llamadas) /\ canalAc \in Seq(Mensajes)
  /\ ordenes \in Seq(Mandatos)
  /\ actividades \in Conservadas
  /\ islaAc \in Tarjetas \cup {Ac!Nadie} /\ superficie = Ac!Pintada(islaAc)
  /\ configAc \in [habilitadas : BOOLEAN, siempre : BOOLEAN]

-----------------------------------------------------------------------------
\* What the island shows of what is kept.
Muestra(i, A, enf, cfg, pral) ==
  /\ i = Ac!Nadie <=> Ac!Vivas(A, enf, cfg) = {}
  /\ i # Ac!Nadie =>
       /\ i.app \in Ac!Vivas(A, enf, cfg)
       /\ i.burbujas = Ac!Vivas(A, enf, cfg) \ {i.app}
       /\ i.app = pral \/ \A b \in i.burbujas : b # pral /\ Ac!Antes(A, i.app, b)
  
\* Of each application, what is at the island is what is kept.
Copia(i, A) == i # Ac!Nadie => i.pausado = A[i.app][1].pausado

\* A card is of an application.
LEMMA EsTarjeta == ASSUME NEW i \in Tarjetas PROVE i # Ac!Nadie /\ i.app \in Ac!Apps /\ i.app # Ac!Sin
BY ActividadesAssumption DEF Tarjetas, Ac!Nadie

\* The first of some activities is one of them and goes before the others.
LEMMA PrimeraBien ==
  ASSUME NEW A, NEW S, S \subseteq Ac!Apps, S # {}
  PROVE  Ac!Primera(A, S) \in S /\ \A b \in S \ {Ac!Primera(A, S)} : Ac!Antes(A, Ac!Primera(A, S), b)
<1>1. \A a \in Ac!Apps : Ac!Prioridad(a, A[a][1]) \in {10, 20, 30, 40}
  BY ActividadesAssumption DEF Ac!Prioridad
<1>2. \A a \in Ac!Apps : Ac!Posicion(a) \in Nat /\ Serie[Ac!Posicion(a)] = a
  BY ActividadesAssumption DEF Ac!Posicion
<1>3. PICK m \in {40 - Ac!Prioridad(a, A[a][1]) : a \in S} : \A k \in {40 - Ac!Prioridad(a,
        A[a][1]) : a \in S} : m <= k
  <2>1. {40 - Ac!Prioridad(a, A[a][1]) : a \in S} \subseteq Nat
    BY <1>1
  <2>2. {40 - Ac!Prioridad(a, A[a][1]) : a \in S} # {}
    OBVIOUS
  <2>. QED BY <2>1, <2>2, MenorHay
<1>4. PICK P : P = {a \in S : 40 - Ac!Prioridad(a, A[a][1]) = m}
  OBVIOUS
<1>5. P \subseteq S /\ P # {}
  BY <1>3, <1>4
<1>6. PICK n \in {Ac!Posicion(a) : a \in P} : \A k \in {Ac!Posicion(a) : a \in P} : n <= k
  <2>1. {Ac!Posicion(a) : a \in P} \subseteq Nat /\ {Ac!Posicion(a) : a \in P} # {}
    BY <1>2, <1>5
  <2>. QED BY <2>1, MenorHay
<1>7. PICK a \in P : Ac!Posicion(a) = n
  BY <1>6
<1>8. a \in S /\ \A b \in S \ {a} : Ac!Antes(A, a, b)
  <2>. SUFFICES ASSUME NEW b \in S \ {a} PROVE Ac!Antes(A, a, b)
    BY <1>5, <1>7
  <2>1. a \in S /\ a \in Ac!Apps /\ b \in Ac!Apps /\ 40 - Ac!Prioridad(a, A[a][1]) = m
    BY <1>4, <1>5, <1>7
  <2>2. m <= 40 - Ac!Prioridad(b, A[b][1])
    BY <1>3
  <2>3. Ac!Prioridad(a, A[a][1]) >= Ac!Prioridad(b, A[b][1])
    BY <1>1, <2>1, <2>2
  <2>4. CASE Ac!Prioridad(a, A[a][1]) = Ac!Prioridad(b, A[b][1])
    <3>1. b \in P
      BY <1>4, <2>1, <2>4
    <3>2. n <= Ac!Posicion(b)
      BY <1>6, <3>1
    <3>3. Ac!Posicion(a) # Ac!Posicion(b)
      BY <1>2, <2>1
    <3>4. Ac!Posicion(a) < Ac!Posicion(b)
      BY <1>2, <1>7, <2>1, <3>2, <3>3
    <3>. QED BY <2>4, <3>4 DEF Ac!Antes
  <2>5. CASE Ac!Prioridad(a, A[a][1]) # Ac!Prioridad(b, A[b][1])
    <3>1. Ac!Prioridad(a, A[a][1]) > Ac!Prioridad(b, A[b][1])
      BY <1>1, <2>1, <2>3, <2>5
    <3>. QED BY <3>1 DEF Ac!Antes
  <2>. QED BY <2>4, <2>5
<1>. QED BY <1>8 DEF Ac!Primera

\* What is to be seen is kept.
LEMMA VivasBien ==
  ASSUME NEW A, NEW enf, NEW cfg
  PROVE  Ac!Vivas(A, enf, cfg) \subseteq Ac!Apps /\ \A a \in Ac!Vivas(A, enf, cfg) : A[a] # <<>>
BY DEF Ac!Vivas

\* What sincronizar_actividad leaves at the island is what there is to show.
LEMMA SincronizadaBien ==
  ASSUME NEW A \in Conservadas, NEW enf, NEW cfg, NEW pral, NEW v \in Tarjetas \cup {Ac!Nadie},
         NEW i, i = Ac!Sincronizada(A, enf, cfg, pral, v)
  PROVE  i \in Tarjetas \cup {Ac!Nadie} /\ Muestra(i, A, enf, cfg, pral) /\ Copia(i, A)
<1>1. PICK S : S = Ac!Vivas(A, enf, cfg)
  OBVIOUS
<1>2. S \subseteq Ac!Apps /\ \A a \in S : A[a] # <<>>
  BY <1>1, VivasBien
<1>3. CASE S = {}
  <2>1. i = Ac!Nadie
    BY <1>1, <1>3 DEF Ac!Sincronizada
  <2>. QED BY <1>1, <1>3, <2>1 DEF Muestra, Copia
<1>4. CASE S # {}
  <2>1. PICK a : a = Ac!Elegida(A, S, pral)
    OBVIOUS
  <2>2. a \in S /\ (a = pral \/ \A b \in S \ {a} : b # pral /\ Ac!Antes(A, a, b))
    BY <1>2, <1>4, <2>1, PrimeraBien DEF Ac!Elegida
  <2>3. PICK e : e = A[a][1]
    OBVIOUS
  <2>4. a \in Ac!Apps /\ e \in Estados
    <3>1. a \in Ac!Apps /\ A[a] # <<>>
      BY <1>2, <2>2
    <3>2. PICK x \in Estados : A[a] = <<x>>
      BY <3>1 DEF Conservadas
    <3>. QED BY <2>3, <3>1, <3>2
  <2>5. i = IF v.app = a THEN Ac!Tarjeta(a, e, v.vista, Ac!Arte(v, e), S) ELSE Ac!Tarjeta(a, e, "compacta",
          e.portada, S)
    BY <1>1, <1>4, <2>1, <2>3 DEF Ac!Sincronizada
  <2>6. PICK vi \in {"compacta", "abierta", "cola"}, ar \in Textos : i = Ac!Tarjeta(a, e, vi, ar, S)
    <3>1. CASE v.app = a
      <4>1. v \in Tarjetas
        BY <2>4, <3>1, ActividadesAssumption DEF Ac!Nadie
      <4>2. v.vista \in {"compacta", "abierta", "cola"} /\ v.arte \in Textos
        BY <4>1 DEF Tarjetas
      <4>3. Ac!Arte(v, e) \in Textos
        BY <2>4, <4>2 DEF Ac!Arte, Estados, Textos
      <4>. QED BY <2>5, <3>1, <4>2, <4>3
    <3>2. CASE v.app # a
      <4>1. e.portada \in Textos
        BY <2>4 DEF Estados
      <4>. QED BY <2>5, <3>2, <4>1
    <3>. QED BY <3>1, <3>2
  <2>7. i \in Tarjetas /\ i.app = a /\ i.burbujas = S \ {a} /\ i.pausado = e.pausado
    BY <1>2, <2>4, <2>6 DEF Ac!Tarjeta, Tarjetas, Estados
  <2>. QED BY <1>1, <1>4, <2>2, <2>3, <2>7, EsTarjeta DEF Muestra, Copia
<1>. QED BY <1>3, <1>4
-----------------------------------------------------------------------------
Callada(s, a) == \A i \in DOMAIN s : s[i].app # a
Ultima(s, i, a) == i \in DOMAIN s /\ s[i].app = a /\ \A j \in DOMAIN s : j > i => s[j].app # a

\* With one more at the end.
LEMMA AlFinal ==
  ASSUME NEW M, NEW s \in Seq(M), NEW m \in M
  PROVE  LET t == Append(s, m) IN
         /\ t \in Seq(M) /\ Len(t) = Len(s) + 1 /\ t[Len(s) + 1] = m /\ \A i \in 1..Len(s) : t[i] = s[i]
         /\ DOMAIN t = 1..(Len(s) + 1) /\ DOMAIN s = 1..Len(s) /\ Len(s) \in Nat
         /\ t # <<>>
OBVIOUS
\* Without the first.
LEMMA SinElPrimero ==
  ASSUME NEW M, NEW s \in Seq(M), s # <<>>
  PROVE  LET t == Tail(s) IN
         /\ t \in Seq(M) /\ Len(t) = Len(s) - 1 /\ \A i \in 1..Len(t) : t[i] = s[i + 1]
         /\ DOMAIN t = 1..(Len(s) - 1) /\ DOMAIN s = 1..Len(s) /\ Len(s) \in Nat \ {0} /\ s[1] \in M
            /\ Head(s) = s[1]
OBVIOUS

\* What an application says last, with one more said.
LEMMA UltimaAlFinal ==
  ASSUME NEW M, NEW s \in Seq(M), NEW m \in M, NEW a, NEW i, Ultima(Append(s, m), i, a)
  PROVE  (m.app = a => Append(s, m)[i] = m) /\ (m.app # a => Ultima(s, i, a) /\ Append(s, m)[i] = s[i])
<1>1. PICK t : t = Append(s, m)
  OBVIOUS
<1>2. /\ Len(t) = Len(s) + 1 /\ t[Len(s) + 1] = m /\ \A k \in 1..Len(s) : t[k] = s[k]
      /\ DOMAIN t = 1..(Len(s) + 1) /\ DOMAIN s = 1..Len(s) /\ Len(s) \in Nat
  BY <1>1, AlFinal
<1>3. i \in DOMAIN t /\ t[i].app = a /\ \A j \in DOMAIN t : j > i => t[j].app # a
  BY <1>1 DEF Ultima
<1>4. CASE m.app = a
  <2>1. ~(Len(s) + 1 > i)
    BY <1>2, <1>3, <1>4
  <2>2. i = Len(s) + 1
    BY <1>2, <1>3, <2>1
  <2>. QED BY <1>1, <1>2, <1>4, <2>2
<1>5. CASE m.app # a
  <2>1. i \in 1..Len(s)
    BY <1>2, <1>3, <1>5
  <2>2. \A j \in DOMAIN s : j > i => s[j].app # a
    BY <1>2, <1>3
  <2>. QED BY <1>1, <1>2, <1>3, <1>5, <2>1, <2>2 DEF Ultima
<1>. QED BY <1>4, <1>5

\* Who says nothing, with one more said.
LEMMA CalladaAlFinal ==
  ASSUME NEW M, NEW s \in Seq(M), NEW m \in M, NEW a
  PROVE  Callada(Append(s, m), a) <=> Callada(s, a) /\ m.app # a
<1>1. PICK t : t = Append(s, m)
  OBVIOUS
<1>2. /\ Len(t) = Len(s) + 1 /\ t[Len(s) + 1] = m /\ \A k \in 1..Len(s) : t[k] = s[k]
      /\ DOMAIN t = 1..(Len(s) + 1) /\ DOMAIN s = 1..Len(s) /\ Len(s) \in Nat
  BY <1>1, AlFinal
<1>3. (\A i \in DOMAIN t : t[i].app # a) <=> (\A i \in DOMAIN s : s[i].app # a) /\ m.app # a
  BY <1>2
<1>. QED BY <1>1, <1>3 DEF Callada

\* What an application says last, without the first that was said.
LEMMA UltimaSinElPrimero ==
  ASSUME NEW M, NEW s \in Seq(M), s # <<>>, NEW a, NEW i, Ultima(Tail(s), i, a)
  PROVE  Ultima(s, i + 1, a) /\ Tail(s)[i] = s[i + 1]
<1>1. PICK t : t = Tail(s)
  OBVIOUS
<1>2. /\ Len(t) = Len(s) - 1 /\ \A k \in 1..Len(t) : t[k] = s[k + 1]
      /\ DOMAIN t = 1..(Len(s) - 1) /\ DOMAIN s = 1..Len(s) /\ Len(s) \in Nat \ {0}
  BY <1>1, SinElPrimero
<1>3. i \in DOMAIN t /\ t[i].app = a /\ \A j \in DOMAIN t : j > i => t[j].app # a
  BY <1>1 DEF Ultima
<1>4. i + 1 \in DOMAIN s /\ t[i] = s[i + 1]
  BY <1>2, <1>3
<1>5. ASSUME NEW j \in DOMAIN s, j > i + 1 PROVE s[j].app # a
  <2>1. j - 1 \in DOMAIN t /\ j - 1 > i /\ t[j - 1] = s[j]
    BY <1>2, <1>3, <1>5
  <2>. QED BY <1>3, <2>1
<1>. QED BY <1>1, <1>3, <1>4, <1>5 DEF Ultima

\* Who says nothing without the first that was said.
LEMMA CalladaSinElPrimero ==
  ASSUME NEW M, NEW s \in Seq(M), s # <<>>, NEW a, Callada(Tail(s), a)
  PROVE  (s[1].app = a => Ultima(s, 1, a)) /\ (s[1].app # a => Callada(s, a))
<1>1. PICK t : t = Tail(s)
  OBVIOUS
<1>2. /\ Len(t) = Len(s) - 1 /\ \A k \in 1..Len(t) : t[k] = s[k + 1]
      /\ DOMAIN t = 1..(Len(s) - 1) /\ DOMAIN s = 1..Len(s) /\ Len(s) \in Nat \ {0}
  BY <1>1, SinElPrimero
<1>3. \A i \in DOMAIN t : t[i].app # a
  BY <1>1 DEF Callada
<1>4. ASSUME NEW j \in DOMAIN s, j > 1 PROVE s[j].app # a
  <2>1. j - 1 \in DOMAIN t /\ t[j - 1] = s[j]
    BY <1>2, <1>4
  <2>. QED BY <1>3, <2>1
<1>5. 1 \in DOMAIN s /\ \A j \in DOMAIN s : j = 1 \/ j > 1
  BY <1>2
<1>. QED BY <1>4, <1>5 DEF Ultima, Callada

-----------------------------------------------------------------------------
\* Word of the fall of a connection.
EsCaida(m, a, d) == m.que = "caido" /\ m.app = a /\ m.de = d

\* Whose activity is kept is on the bus, or its fall is on its way; and so is who published what
\* has not arrived yet.
Conservada == \A a \in Ac!Apps : actividades[a] # <<>> => remitentes[a] # 0
Vigilado == \A a \in Ac!Apps : remitentes[a] # 0 =>
              conexionAc[a] = remitentes[a] \/ \E j \in DOMAIN canalAc : EsCaida(canalAc[j], a, remitentes[a])
DeQuienEsta ==
  \A i \in DOMAIN servidor : servidor[i].que = "publica" =>
    conexionAc[servidor[i].app] = servidor[i].de
Seguida == \A i \in DOMAIN canalAc : canalAc[i].que = "publica" =>
             conexionAc[canalAc[i].app] = canalAc[i].de
             \/ \E j \in DOMAIN canalAc : j > i /\ EsCaida(canalAc[j], canalAc[i].app, canalAc[i].de)
\* Nobody that is on the bus has fallen.
UsadasAc == /\ \A a \in Ac!Apps : conexionAc[a] <= usadas[a] /\ remitentes[a] <= usadas[a]
            /\ \A i \in DOMAIN canalAc : canalAc[i].que = "publica" => canalAc[i].de <= usadas[canalAc[i].app]
SinCaer == /\ \A a \in Ac!Apps : conexionAc[a] # 0 /\ remitentes[a] = conexionAc[a] =>
                \A j \in DOMAIN canalAc : canalAc[j].app = a => canalAc[j].que # "caido"
           /\ \A i, j \in DOMAIN canalAc :
                (/\ canalAc[i].que = "publica" /\ conexionAc[canalAc[i].app] = canalAc[i].de /\ j > i
                 /\ canalAc[j].app = canalAc[i].app) => canalAc[j].que # "caido"
Conexiones == Conservada /\ Vigilado /\ DeQuienEsta /\ Seguida /\ UsadasAc /\ SinCaer

\* The last that was said of an application that has nothing to say is what it is at.
Dicho(a) ==
  /\ \A i \in DOMAIN servidor : Ultima(servidor, i, a) /\ servidor[i].que = "publica" =>
       servidor[i].estado.pausado = real[a].pausado
  /\ Callada(servidor, a) =>
       \A i \in DOMAIN canalAc : Ultima(canalAc, i, a) /\ canalAc[i].que = "publica" =>
         canalAc[i].estado.pausado = real[a].pausado
  /\ Callada(servidor, a) /\ Callada(canalAc, a) =>
       /\ actividades[a] # <<>> => actividades[a][1].pausado = real[a].pausado
       /\ islaAc.app = a => islaAc.pausado = real[a].pausado
Verdad == \A a \in Ac!Apps : conexionAc[a] # 0 /\ a \notin sucia /\ Callada(ordenes, a) => Dicho(a)

IslaBien == Muestra(islaAc, actividades, enfocada, configAc, principal)
ActInv == TiposAc /\ Conexiones /\ Verdad /\ IslaBien

\* At the start.
LEMMA ActInicial == Ac!Init => ActInv
<1>. SUFFICES ASSUME Ac!Init PROVE ActInv
  OBVIOUS
<1>1. TiposAc
  <2>1. Ac!Inicial \in Estados
    BY DEF Ac!Inicial, Estados, Ac!Faltas, Textos
  <2>2. actividades \in Conservadas
    BY DEF Ac!Init, Conservadas
  <2>3. superficie = Ac!Pintada(islaAc)
    BY DEF Ac!Init, Ac!Pintada
  <2>4. servidor \in Seq(Llamadas) /\ canalAc \in Seq(Mensajes) /\ ordenes \in Seq(Mandatos)
    BY DEF Ac!Init
  <2>5. conexionAc \in [Ac!Apps -> Nat] /\ usadas \in [Ac!Apps -> Nat] /\ remitentes \in [Ac!Apps -> Nat]
    BY DEF Ac!Init
  <2>6. real \in [Ac!Apps -> Estados] /\ sucia \subseteq Ac!Apps
    BY <2>1 DEF Ac!Init
  <2>7. islaAc \in Tarjetas \cup {Ac!Nadie} /\ configAc \in [habilitadas : BOOLEAN, siempre : BOOLEAN]
    BY DEF Ac!Init
  <2>. QED BY <2>2, <2>3, <2>4, <2>5, <2>6, <2>7 DEF TiposAc
<1>2. DOMAIN canalAc = {} /\ DOMAIN servidor = {}
  BY DEF Ac!Init
<1>3. Conexiones
  BY <1>2 DEF Ac!Init, Conexiones, Conservada, Vigilado, DeQuienEsta, Seguida, UsadasAc, SinCaer
<1>4. Verdad
  BY DEF Ac!Init, Verdad
<1>5. IslaBien
  BY DEF Ac!Init, IslaBien, Muestra, Ac!Vivas
<1>. QED BY <1>1, <1>3, <1>4, <1>5 DEF ActInv

\* The invariant is enough.
LEMMA ActBasta == ActInv => Ac!ActividadesEnOrden /\ Ac!EstadoReal
<1>. SUFFICES ASSUME ActInv PROVE Ac!ActividadesEnOrden /\ Ac!EstadoReal
  OBVIOUS
<1>1. ASSUME Ac!Quieto PROVE DOMAIN canalAc = {} /\ DOMAIN servidor = {} /\ DOMAIN ordenes = {} /\ sucia = {}
  BY <1>1 DEF Ac!Quieto
<1>2. Ac!SinHuerfanas
  BY <1>1 DEF Ac!SinHuerfanas, ActInv, Conexiones, Conservada, Vigilado
<1>3. Ac!IslaAlDia
  BY DEF Ac!IslaAlDia, ActInv, IslaBien, Muestra, TiposAc
<1>4. ASSUME Ac!Quieto, islaAc # Ac!Nadie PROVE islaAc.pausado = real[islaAc.app].pausado
  <2>1. islaAc.app \in Ac!Apps /\ actividades[islaAc.app] # <<>>
    BY <1>4, VivasBien DEF ActInv, IslaBien, Muestra
  <2>2. conexionAc[islaAc.app] # 0
    BY <1>2, <1>4, <2>1 DEF Ac!SinHuerfanas
  <2>3. islaAc.app \notin sucia /\ Callada(ordenes, islaAc.app) /\ Callada(servidor, islaAc.app)
          /\ Callada(canalAc, islaAc.app)
    BY <1>1, <1>4 DEF Callada
  <2>. QED BY <2>1, <2>2, <2>3 DEF ActInv, Verdad, Dicho
<1>. QED BY <1>2, <1>3, <1>4 DEF Ac!ActividadesEnOrden, Ac!EstadoReal

-----------------------------------------------------------------------------
\* What changes the island and nothing of what is on its way.
LEMMA RestoAc ==
  ASSUME ActInv, TiposAc', IslaBien', UNCHANGED <<conexionAc, usadas, real, sucia, servidor, canalAc,
          remitentes>>,
         actividades' = actividades \/ actividades' = [a \in Ac!Apps |-> <<>>],
         \A a \in Ac!Apps : Callada(ordenes', a) => Callada(ordenes, a),
         \A a \in Ac!Apps : Callada(ordenes', a) /\ islaAc'.app = a =>
           \/ islaAc.app = a /\ islaAc'.pausado = islaAc.pausado
           \/ actividades' = actividades /\ actividades[a] # <<>> /\ islaAc'.pausado = actividades[a][1].pausado
  PROVE  ActInv'
<1>1. Conexiones'
  <2>1. Conservada'
    BY DEF ActInv, Conexiones, Conservada
  <2>2. (Vigilado /\ DeQuienEsta /\ Seguida /\ UsadasAc /\ SinCaer)'
    BY DEF ActInv, Conexiones, Vigilado, DeQuienEsta, Seguida, UsadasAc, SinCaer, EsCaida
  <2>. QED BY <2>1, <2>2 DEF Conexiones
<1>2. Verdad'
  <2>. SUFFICES ASSUME NEW a \in Ac!Apps, conexionAc'[a] # 0, a \notin sucia', Callada(ordenes', a)
          PROVE Dicho(a)'
    BY DEF Verdad
  <2>1. Dicho(a)
    BY DEF ActInv, Verdad
  <2>2. (Callada(servidor, a) /\ Callada(canalAc, a) =>
          /\ actividades[a] # <<>> => actividades[a][1].pausado = real[a].pausado
          /\ islaAc.app = a => islaAc.pausado = real[a].pausado)'
    <3>1. CASE actividades' = actividades
      BY <2>1, <3>1 DEF Dicho
    <3>2. CASE actividades' = [x \in Ac!Apps |-> <<>>]
      <4>1. actividades'[a] = <<>>
        BY <3>2
      <4>. QED BY <2>1, <4>1 DEF Dicho
    <3>. QED BY <3>1, <3>2
  <2>. QED BY <2>1, <2>2 DEF Dicho
<1>. QED BY <1>1, <1>2 DEF ActInv

\* Another application in front keeps the invariant.
LEMMA PasoEnfocar == ASSUME ActInv, NEW app \in Ac!Apps \cup {Ac!Sin}, Ac!PonerAppEnfocada(app) PROVE ActInv'
<1>1. islaAc' = Ac!Sincronizada(actividades, app, configAc, principal, islaAc)
        /\ superficie' = Ac!Pintada(islaAc')
  BY DEF Ac!PonerAppEnfocada, Ac!Sincroniza, Ac!QuedaIsla
<1>2. islaAc' \in Tarjetas \cup {Ac!Nadie} /\ Muestra(islaAc', actividades, app, configAc, principal)
        /\ Copia(islaAc', actividades)
  BY <1>1, SincronizadaBien DEF ActInv, TiposAc
<1>3. UNCHANGED <<conexionAc, usadas, real, sucia, servidor, canalAc, ordenes, remitentes, actividades,
        principal, configAc>> /\ enfocada' = app
  BY DEF Ac!PonerAppEnfocada, Ac!DeFuera, Ac!externas
<1>4. TiposAc'
  BY <1>1, <1>2, <1>3 DEF ActInv, TiposAc
<1>5. IslaBien'
  BY <1>2, <1>3 DEF IslaBien
<1>6. \A a \in Ac!Apps : islaAc'.app = a => actividades[a] # <<>> /\ islaAc'.pausado = actividades[a][1].pausado
  BY <1>2, VivasBien, ActividadesAssumption DEF Muestra, Copia, Ac!Nadie
<1>. QED BY <1>3, <1>4, <1>5, <1>6, RestoAc

\* So does another configuration.
LEMMA PasoConfig == ASSUME ActInv, NEW cfg \in Configs, Ac!AplicarConfig(cfg) PROVE ActInv'
<1>1. UNCHANGED <<conexionAc, usadas, real, sucia, servidor, canalAc, ordenes, remitentes, principal,
        enfocada>> /\ configAc' = cfg
  BY DEF Ac!AplicarConfig, Ac!externas
<1>2. cfg \in [habilitadas : BOOLEAN, siempre : BOOLEAN]
  BY ActividadesAssumption
<1>3. CASE cfg.habilitadas
  <2>1. islaAc' = Ac!Sincronizada(actividades, enfocada, cfg, principal, islaAc)
          /\ superficie' = Ac!Pintada(islaAc') /\ actividades' = actividades
    BY <1>3 DEF Ac!AplicarConfig, Ac!Sincroniza, Ac!QuedaIsla
  <2>2. islaAc' \in Tarjetas \cup {Ac!Nadie} /\ Muestra(islaAc', actividades, enfocada, cfg, principal)
          /\ Copia(islaAc', actividades)
    BY <2>1, SincronizadaBien DEF ActInv, TiposAc
  <2>3. TiposAc'
    BY <1>1, <1>2, <2>1, <2>2 DEF ActInv, TiposAc
  <2>4. IslaBien'
    BY <1>1, <2>1, <2>2 DEF IslaBien
  <2>5. \A a \in Ac!Apps : islaAc'.app = a => actividades[a] # <<>>
          /\ islaAc'.pausado = actividades[a][1].pausado
    BY <2>2, VivasBien, ActividadesAssumption DEF Muestra, Copia, Ac!Nadie
  <2>. QED BY <1>1, <2>1, <2>3, <2>4, <2>5, RestoAc
<1>4. CASE ~cfg.habilitadas
  <2>1. islaAc' = Ac!Nadie /\ superficie' = Ac!Pintada(islaAc') /\ actividades' = [a \in Ac!Apps |-> <<>>]
    BY <1>4 DEF Ac!AplicarConfig, Ac!QuedaIsla
  <2>2. actividades' \in Conservadas
    BY <2>1 DEF Conservadas
  <2>3. TiposAc'
    BY <1>1, <1>2, <2>1, <2>2 DEF ActInv, TiposAc
  <2>4. IslaBien'
    BY <2>1 DEF IslaBien, Muestra, Ac!Vivas
  <2>5. \A a \in Ac!Apps : islaAc'.app # a
    BY <2>1, ActividadesAssumption DEF Ac!Nadie
  <2>. QED BY <1>1, <2>1, <2>3, <2>4, <2>5, RestoAc
<1>. QED BY <1>3, <1>4

\* So does a press on a bubble.
LEMMA PasoBurbuja == ASSUME ActInv, NEW app \in Ac!Apps, Ac!PulsarBurbuja(app) PROVE ActInv'
<1>1. islaAc' = Ac!Sincronizada(actividades, enfocada, configAc, app, islaAc)
        /\ superficie' = Ac!Pintada(islaAc')
  BY DEF Ac!PulsarBurbuja, Ac!Sincroniza, Ac!QuedaIsla
<1>2. islaAc' \in Tarjetas \cup {Ac!Nadie} /\ Muestra(islaAc', actividades, enfocada, configAc, app)
        /\ Copia(islaAc', actividades)
  BY <1>1, SincronizadaBien DEF ActInv, TiposAc
<1>3. UNCHANGED <<conexionAc, usadas, real, sucia, servidor, canalAc, ordenes, remitentes, actividades,
        enfocada, configAc>> /\ principal' = app
  BY DEF Ac!PulsarBurbuja, Ac!DeFuera, Ac!externas
<1>4. TiposAc'
  BY <1>1, <1>2, <1>3 DEF ActInv, TiposAc
<1>5. IslaBien'
  BY <1>2, <1>3 DEF IslaBien
<1>6. \A a \in Ac!Apps : islaAc'.app = a => actividades[a] # <<>> /\ islaAc'.pausado = actividades[a][1].pausado
  BY <1>2, VivasBien, ActividadesAssumption DEF Muestra, Copia, Ac!Nadie
<1>. QED BY <1>3, <1>4, <1>5, <1>6, RestoAc

\* A card seen otherwise.
LEMMA OtraVista ==
  ASSUME TiposAc, IslaBien, islaAc # Ac!Nadie, NEW v \in {"compacta", "abierta", "cola"}, NEW i,
          i = [islaAc EXCEPT !.vista = v]
  PROVE  i \in Tarjetas /\ i # Ac!Nadie /\ i.app = islaAc.app /\ i.pausado = islaAc.pausado
         /\ Muestra(i, actividades, enfocada, configAc, principal)
<1>1. islaAc \in Tarjetas
  BY DEF TiposAc
<1>2. i \in Tarjetas /\ i.app = islaAc.app /\ i.pausado = islaAc.pausado /\ i.burbujas = islaAc.burbujas
  BY <1>1 DEF Tarjetas
<1>3. i # Ac!Nadie
  BY <1>2, EsTarjeta
<1>4. Muestra(i, actividades, enfocada, configAc, principal)
  BY <1>2, <1>3 DEF IslaBien, Muestra
<1>. QED BY <1>2, <1>3, <1>4

\* So does a card that opens or folds.
LEMMA PasoVista == ASSUME ActInv, Ac!Alternar \/ Ac!PulsarCola PROVE ActInv'
<1>1. UNCHANGED <<conexionAc, usadas, real, sucia, servidor, canalAc, ordenes, remitentes, actividades,
        principal, enfocada, configAc>>
  BY DEF Ac!Alternar, Ac!PulsarCola, Ac!DeFuera, Ac!externas
<1>2. islaAc # Ac!Nadie /\ superficie' = Ac!Pintada(islaAc')
  BY DEF Ac!Alternar, Ac!PulsarCola, Ac!QuedaIsla
<1>3. PICK v \in {"compacta", "abierta", "cola"} : islaAc' = [islaAc EXCEPT !.vista = v]
  BY DEF Ac!Alternar, Ac!PulsarCola, Ac!QuedaIsla
<1>4. islaAc' \in Tarjetas /\ islaAc'.app = islaAc.app /\ islaAc'.pausado = islaAc.pausado
      /\ Muestra(islaAc', actividades, enfocada, configAc, principal)
  BY <1>2, <1>3, OtraVista DEF ActInv
<1>5. TiposAc'
  BY <1>1, <1>2, <1>4 DEF ActInv, TiposAc
<1>6. IslaBien'
  BY <1>1, <1>4 DEF IslaBien
<1>. QED BY <1>1, <1>4, <1>5, <1>6, RestoAc

\* So does an order of the card.
LEMMA PasoMandoAc == ASSUME ActInv, Ac!PulsarMando PROVE ActInv'
<1>1. UNCHANGED <<conexionAc, usadas, real, sucia, servidor, canalAc, remitentes, actividades, principal,
        enfocada, configAc>>
  BY DEF Ac!PulsarMando, Ac!externas
<1>2. islaAc # Ac!Nadie /\ islaAc \in Tarjetas /\ superficie' = Ac!Pintada(islaAc')
  BY DEF Ac!PulsarMando, Ac!QuedaIsla, ActInv, TiposAc
<1>3. PICK m : m = [app |-> islaAc.app, nombre |-> Ac!Orden1]
  OBVIOUS
<1>4. m \in Mandatos /\ m.app = islaAc.app /\ ordenes' = Append(ordenes, m)
  <2>1. islaAc.app \in Ac!Apps /\ islaAc.pausado \in BOOLEAN
    BY <1>2 DEF Tarjetas
  <2>2. Ac!Orden1 \in {"play-pause", "snooze", "resume", "pause"}
    BY <2>1, ActividadesAssumption DEF Ac!Orden1
  <2>3. ordenes' = Append(ordenes, m)
    BY <1>3 DEF Ac!PulsarMando
  <2>. QED BY <1>3, <2>1, <2>2, <2>3 DEF Mandatos
<1>5. islaAc' \in Tarjetas /\ islaAc'.app = islaAc.app /\ islaAc'.burbujas = islaAc.burbujas
  <2>1. islaAc' = islaAc \/ islaAc' = [islaAc EXCEPT !.pausado = ~@]
    BY DEF Ac!PulsarMando, Ac!QuedaIsla
  <2>. QED BY <1>2, <2>1 DEF Tarjetas
<1>6. ordenes \in Seq(Mandatos)
  BY DEF ActInv, TiposAc
<1>7. TiposAc'
  BY <1>1, <1>2, <1>4, <1>5, <1>6, AlFinal DEF ActInv, TiposAc
<1>8. IslaBien'
  BY <1>1, <1>2, <1>5, EsTarjeta DEF ActInv, IslaBien, Muestra
<1>9. \A a \in Ac!Apps : Callada(ordenes', a) => Callada(ordenes, a) /\ m.app # a
  BY <1>4, <1>6, CalladaAlFinal
<1>10. \A a \in Ac!Apps : Callada(ordenes', a) => islaAc'.app # a
  BY <1>4, <1>5, <1>9
<1>. QED BY <1>1, <1>7, <1>8, <1>9, <1>10, RestoAc

-----------------------------------------------------------------------------
DeLaIsla == <<actividades, islaAc, principal, enfocada, configAc, superficie>>

\* What does not touch the island.
LEMMA IslaIgual == ASSUME IslaBien, UNCHANGED DeLaIsla PROVE IslaBien'
BY DEF IslaBien, DeLaIsla, Muestra, Ac!Vivas, Ac!Antes

\* What is kept and what is seen of who has nothing on its way and is not on the bus.
LEMMA SinNada ==
  ASSUME ActInv, NEW a \in Ac!Apps, conexionAc[a] = 0
  PROVE  /\ \A i \in DOMAIN servidor : servidor[i].app = a => servidor[i].que # "publica"
         /\ \A i \in DOMAIN canalAc : Ultima(canalAc, i, a) => canalAc[i].que # "publica"
         /\ Callada(canalAc, a) => actividades[a] = <<>> /\ islaAc.app # a
<1>1. servidor \in Seq(Llamadas) /\ canalAc \in Seq(Mensajes)
  BY DEF ActInv, TiposAc
<1>2. ASSUME NEW i \in DOMAIN servidor, servidor[i].app = a, servidor[i].que = "publica" PROVE FALSE
  <2>1. servidor[i].de = 0
    BY <1>2 DEF ActInv, Conexiones, DeQuienEsta
  <2>2. servidor[i] \in Llamadas
    BY <1>1
  <2>. QED BY <1>2, <2>1, <2>2 DEF Llamadas, Publica, Cierra
<1>3. ASSUME NEW i \in DOMAIN canalAc, Ultima(canalAc, i, a), canalAc[i].que = "publica" PROVE FALSE
  <2>1. canalAc[i].app = a /\ \A j \in DOMAIN canalAc : j > i => canalAc[j].app # a
    BY <1>3 DEF Ultima
  <2>2. canalAc[i].de = 0
    BY <1>3, <2>1 DEF ActInv, Conexiones, Seguida, EsCaida
  <2>3. canalAc[i] \in Mensajes
    BY <1>1
  <2>. QED BY <1>3, <2>2, <2>3 DEF Mensajes, Llamadas, Publica, Cierra, Caido
<1>4. ASSUME Callada(canalAc, a) PROVE actividades[a] = <<>>
  BY <1>4 DEF ActInv, Conexiones, Conservada, Vigilado, EsCaida, Callada
<1>5. ASSUME actividades[a] = <<>> PROVE islaAc.app # a
  BY <1>5, VivasBien, ActividadesAssumption DEF ActInv, IslaBien, Muestra, Ac!Nadie
<1>. QED BY <1>2, <1>3, <1>4, <1>5

\* So does an application that comes to the bus.
LEMMA PasoConectar == ASSUME ActInv, NEW app \in Ac!Apps, Ac!Conectar(app) PROVE ActInv'
<1>1. UNCHANGED <<sucia, servidor, canalAc, ordenes, remitentes>> /\ UNCHANGED DeLaIsla
  BY DEF Ac!Conectar, DeLaIsla
<1>2. PICK n \in Nat : n = usadas[app] + 1
  BY DEF ActInv, TiposAc
<1>3. /\ conexionAc' = [conexionAc EXCEPT ![app] = n] /\ usadas' = [usadas EXCEPT ![app] = n]
      /\ real' = [real EXCEPT ![app] = Ac!Inicial] /\ conexionAc[app] = 0
  BY <1>2 DEF Ac!Conectar, ActInv, TiposAc
<1>4. Ac!Inicial \in Estados
  BY DEF Ac!Inicial, Estados, Ac!Faltas, Textos
<1>5. conexionAc \in [Ac!Apps -> Nat] /\ usadas \in [Ac!Apps -> Nat] /\ real \in [Ac!Apps -> Estados]
        /\ remitentes \in [Ac!Apps -> Nat]
  BY DEF ActInv, TiposAc
<1>6. TiposAc'
  BY <1>1, <1>3, <1>4, <1>5 DEF ActInv, TiposAc, DeLaIsla
<1>7. /\ conexionAc'[app] = n /\ usadas'[app] = n /\ usadas[app] < n
      /\ \A a \in Ac!Apps \ {app} : conexionAc'[a] = conexionAc[a] /\ usadas'[a] = usadas[a]
         /\ real'[a] = real[a]
  BY <1>2, <1>3, <1>5
<1>8. servidor \in Seq(Llamadas) /\ canalAc \in Seq(Mensajes)
  BY DEF ActInv, TiposAc
<1>9. /\ \A i \in DOMAIN servidor : servidor[i].app \in Ac!Apps
      /\ \A i \in DOMAIN canalAc : canalAc[i].app \in Ac!Apps
         /\ (canalAc[i].que = "publica" => canalAc[i].de \in Nat \ {0})
  <2>1. \A i \in DOMAIN servidor : servidor[i] \in Llamadas
    BY <1>8
  <2>2. \A i \in DOMAIN canalAc : canalAc[i] \in Mensajes
    BY <1>8
  <2>. QED BY <2>1, <2>2 DEF Llamadas, Mensajes, Publica, Cierra, Caido
<1>10. Conexiones'
  <2>1. Conservada'
    BY <1>1 DEF DeLaIsla, ActInv, Conexiones, Conservada
  <2>2. Vigilado'
    BY <1>1, <1>3, <1>7 DEF ActInv, Conexiones, Vigilado
  <2>3. DeQuienEsta'
    BY <1>1, <1>3, <1>7, <1>9, SinNada DEF ActInv, Conexiones, DeQuienEsta
  <2>4. Seguida'
    <3>. SUFFICES ASSUME NEW i \in DOMAIN canalAc, canalAc[i].que = "publica"
                  PROVE  conexionAc'[canalAc[i].app] = canalAc[i].de
                         \/ \E j \in DOMAIN canalAc : j > i
                         /\ EsCaida(canalAc[j], canalAc[i].app, canalAc[i].de)
      BY <1>1 DEF Seguida
    <3>1. conexionAc[canalAc[i].app] = canalAc[i].de
          \/ \E j \in DOMAIN canalAc : j > i /\ EsCaida(canalAc[j], canalAc[i].app, canalAc[i].de)
      BY DEF ActInv, Conexiones, Seguida
    <3>. QED BY <1>3, <1>7, <1>9, <3>1
  <2>5. UsadasAc'
    <3>1. \A a \in Ac!Apps : conexionAc'[a] <= usadas'[a] /\ remitentes[a] <= usadas'[a]
            /\ usadas[a] <= usadas'[a]
      BY <1>5, <1>7 DEF ActInv, Conexiones, UsadasAc
    <3>2. \A a \in Ac!Apps : usadas[a] \in Nat /\ usadas'[a] \in Nat
      BY <1>5, <1>6 DEF TiposAc
    <3>3. \A i \in DOMAIN canalAc : canalAc[i].que = "publica" => canalAc[i].de <= usadas'[canalAc[i].app]
      <4>. SUFFICES ASSUME NEW i \in DOMAIN canalAc, canalAc[i].que = "publica"
              PROVE canalAc[i].de <= usadas'[canalAc[i].app]
        OBVIOUS
      <4>1. canalAc[i].app \in Ac!Apps /\ canalAc[i].de \in Nat /\ canalAc[i].de <= usadas[canalAc[i].app]
        BY <1>9 DEF ActInv, Conexiones, UsadasAc
      <4>. QED BY <3>1, <3>2, <4>1
    <3>. QED BY <1>1, <3>1, <3>3 DEF UsadasAc
  <2>6. SinCaer'
    <3>1. ASSUME NEW a \in Ac!Apps, conexionAc'[a] # 0, remitentes[a] = conexionAc'[a] PROVE a # app
      <4>1. remitentes[a] <= usadas[a]
        BY DEF ActInv, Conexiones, UsadasAc
      <4>. QED BY <1>5, <1>7, <3>1, <4>1
    <3>2. ASSUME NEW i \in DOMAIN canalAc, canalAc[i].que = "publica",
            conexionAc'[canalAc[i].app] = canalAc[i].de
          PROVE  canalAc[i].app # app
      <4>1. canalAc[i].de <= usadas[canalAc[i].app]
        BY <3>2 DEF ActInv, Conexiones, UsadasAc
      <4>. QED BY <1>5, <1>7, <1>9, <3>2, <4>1
    <3>. QED BY <1>1, <1>7, <1>9, <3>1, <3>2 DEF ActInv, Conexiones, SinCaer
  <2>. QED BY <2>1, <2>2, <2>3, <2>4, <2>5, <2>6 DEF Conexiones
<1>11. Verdad'
  <2>. SUFFICES ASSUME NEW a \in Ac!Apps, conexionAc'[a] # 0, a \notin sucia, Callada(ordenes, a)
          PROVE Dicho(a)'
    BY <1>1 DEF Verdad
  <2>1. CASE a = app
    <3>1. \A i \in DOMAIN servidor : Ultima(servidor, i, a) => servidor[i].que # "publica"
      BY <1>3, <2>1, SinNada DEF Ultima
    <3>2. \A i \in DOMAIN canalAc : Ultima(canalAc, i, a) => canalAc[i].que # "publica"
      BY <1>3, <2>1, SinNada
    <3>3. Callada(canalAc, a) => actividades[a] = <<>> /\ islaAc.app # a
      BY <1>3, <2>1, SinNada
    <3>. QED BY <1>1, <3>1, <3>2, <3>3 DEF Dicho, DeLaIsla
  <2>2. CASE a # app
    <3>1. conexionAc[a] # 0 /\ real'[a] = real[a]
      BY <1>7, <2>2
    <3>2. Dicho(a)
      BY <3>1 DEF ActInv, Verdad
    <3>. QED BY <1>1, <3>1, <3>2 DEF Dicho, DeLaIsla
  <2>. QED BY <2>1, <2>2
<1>. QED BY <1>1, <1>6, <1>10, <1>11, IslaIgual DEF ActInv

\* What is on its way is of an application, and of a connection it has had.
LEMMA TiposMensaje ==
  ASSUME TiposAc
  PROVE  /\ \A i \in DOMAIN servidor : servidor[i].app \in Ac!Apps /\ servidor[i].que # "caido"
         /\ \A i \in DOMAIN servidor : servidor[i].que = "publica" => servidor[i].de \in Nat \ {0}
         /\ \A i \in DOMAIN canalAc : canalAc[i].app \in Ac!Apps
         /\ \A i \in DOMAIN canalAc : canalAc[i].que = "publica" => canalAc[i].de \in Nat \ {0}
            /\ canalAc[i].estado \in Estados
<1>1. \A i \in DOMAIN servidor : servidor[i] \in Llamadas
  BY DEF TiposAc
<1>2. \A i \in DOMAIN canalAc : canalAc[i] \in Mensajes
  BY DEF TiposAc
<1>. QED BY <1>1, <1>2 DEF Llamadas, Mensajes, Publica, Cierra, Caido

\* So does one that dies.
LEMMA PasoMorir == ASSUME Lento = FALSE, ActInv, NEW app \in Ac!Apps, Ac!Morir(app) PROVE ActInv'
<1>1. UNCHANGED <<usadas, real, servidor, ordenes, remitentes>> /\ UNCHANGED DeLaIsla
  BY DEF Ac!Morir, DeLaIsla
<1>2. conexionAc[app] # 0 /\ \A i \in DOMAIN servidor : servidor[i].app # app
  BY DEF Ac!Morir
<1>3. PICK m : m = [que |-> "caido", app |-> app, de |-> conexionAc[app]]
  OBVIOUS
<1>4. canalAc' = Append(canalAc, m) /\ conexionAc' = [conexionAc EXCEPT ![app] = 0] /\ sucia' = sucia \ {app}
  BY <1>3 DEF Ac!Morir
<1>5. conexionAc \in [Ac!Apps -> Nat] /\ canalAc \in Seq(Mensajes)
  BY DEF ActInv, TiposAc
<1>6. m \in Mensajes /\ EsCaida(m, app, conexionAc[app]) /\ m.que = "caido" /\ m.app = app
  BY <1>2, <1>3, <1>5 DEF Mensajes, Caido, EsCaida
<1>7. /\ canalAc' \in Seq(Mensajes) /\ DOMAIN canalAc' = 1..(Len(canalAc) + 1)
        /\ DOMAIN canalAc = 1..Len(canalAc) /\ Len(canalAc) \in Nat
      /\ canalAc'[Len(canalAc) + 1] = m /\ \A i \in DOMAIN canalAc : canalAc'[i] = canalAc[i]
  BY <1>4, <1>5, <1>6, AlFinal
<1>8. conexionAc'[app] = 0 /\ \A a \in Ac!Apps \ {app} : conexionAc'[a] = conexionAc[a]
  BY <1>4, <1>5
<1>9. TiposAc'
  BY <1>1, <1>4, <1>5, <1>7 DEF ActInv, TiposAc, DeLaIsla
<1>10. /\ \A i \in DOMAIN servidor : servidor[i].app \in Ac!Apps
       /\ \A i \in DOMAIN canalAc : canalAc[i].app \in Ac!Apps
       /\ \A i \in DOMAIN canalAc : canalAc[i].que = "publica" => canalAc[i].de \in Nat \ {0}
  BY TiposMensaje DEF ActInv
<1>11. \A i \in DOMAIN canalAc' : (i \in DOMAIN canalAc
         /\ canalAc'[i] = canalAc[i]) \/ (i = Len(canalAc) + 1 /\ canalAc'[i] = m)
  BY <1>7
<1>12. Conexiones'
  <2>1. Conservada'
    BY <1>1 DEF DeLaIsla, ActInv, Conexiones, Conservada
  <2>2. Vigilado'
    <3>. SUFFICES ASSUME NEW a \in Ac!Apps, remitentes[a] # 0
                  PROVE  conexionAc'[a] = remitentes[a] \/ \E j \in DOMAIN canalAc' : EsCaida(canalAc'[j], a,
                         remitentes[a])
      BY <1>1 DEF Vigilado
    <3>1. conexionAc[a] = remitentes[a] \/ \E j \in DOMAIN canalAc : EsCaida(canalAc[j], a, remitentes[a])
      BY DEF ActInv, Conexiones, Vigilado
    <3>2. Len(canalAc) + 1 \in DOMAIN canalAc' /\ \A j \in DOMAIN canalAc : j \in DOMAIN canalAc'
      BY <1>7
    <3>3. CASE \E j \in DOMAIN canalAc : EsCaida(canalAc[j], a, remitentes[a])
      BY <1>7, <3>2, <3>3
    <3>4. CASE conexionAc[a] = remitentes[a] /\ a = app
      BY <1>6, <1>7, <3>2, <3>4
    <3>5. CASE conexionAc[a] = remitentes[a] /\ a # app
      BY <1>8, <3>5
    <3>. QED BY <3>1, <3>3, <3>4, <3>5
  <2>3. DeQuienEsta'
    BY <1>1, <1>2, <1>8, <1>10 DEF ActInv, Conexiones, DeQuienEsta
  <2>4. Seguida'
    <3>. SUFFICES ASSUME NEW i \in DOMAIN canalAc', canalAc'[i].que = "publica"
                  PROVE  conexionAc'[canalAc'[i].app] = canalAc'[i].de
                         \/ \E j \in DOMAIN canalAc' : j > i
                         /\ EsCaida(canalAc'[j], canalAc'[i].app, canalAc'[i].de)
      BY DEF Seguida
    <3>1. i \in DOMAIN canalAc /\ canalAc'[i] = canalAc[i]
      BY <1>6, <1>11
    <3>2. conexionAc[canalAc[i].app] = canalAc[i].de
          \/ \E j \in DOMAIN canalAc : j > i /\ EsCaida(canalAc[j], canalAc[i].app, canalAc[i].de)
      BY <3>1 DEF ActInv, Conexiones, Seguida
    <3>3. Len(canalAc) + 1 \in DOMAIN canalAc' /\ Len(canalAc) + 1 > i
            /\ \A j \in DOMAIN canalAc : j \in DOMAIN canalAc'
      BY <1>7, <3>1
    <3>4. CASE \E j \in DOMAIN canalAc : j > i /\ EsCaida(canalAc[j], canalAc[i].app, canalAc[i].de)
      BY <1>7, <3>1, <3>3, <3>4
    <3>5. CASE conexionAc[canalAc[i].app] = canalAc[i].de /\ canalAc[i].app = app
      BY <1>6, <1>7, <3>1, <3>3, <3>5
    <3>6. CASE conexionAc[canalAc[i].app] = canalAc[i].de /\ canalAc[i].app # app
      BY <1>8, <1>10, <3>1, <3>6
    <3>. QED BY <3>2, <3>4, <3>5, <3>6
  <2>5. UsadasAc'
    <3>1. \A a \in Ac!Apps : conexionAc'[a] <= usadas[a]
      <4>1. \A a \in Ac!Apps : usadas[a] \in Nat /\ conexionAc[a] <= usadas[a]
        BY DEF ActInv, TiposAc, Conexiones, UsadasAc
      <4>. QED BY <1>8, <4>1
    <3>2. \A i \in DOMAIN canalAc' : canalAc'[i].que = "publica" => canalAc'[i].de <= usadas[canalAc'[i].app]
      BY <1>6, <1>11 DEF ActInv, Conexiones, UsadasAc
    <3>. QED BY <1>1, <3>1, <3>2 DEF ActInv, Conexiones, UsadasAc
  <2>6. SinCaer'
    <3>1. ASSUME NEW a \in Ac!Apps, conexionAc'[a] # 0, remitentes[a] = conexionAc'[a],
            NEW j \in DOMAIN canalAc', canalAc'[j].app = a
          PROVE  canalAc'[j].que # "caido"
      <4>1. a # app /\ conexionAc[a] = conexionAc'[a]
        BY <1>8, <3>1
      <4>2. j \in DOMAIN canalAc /\ canalAc'[j] = canalAc[j]
        BY <1>6, <1>11, <3>1, <4>1
      <4>. QED BY <3>1, <4>1, <4>2 DEF ActInv, Conexiones, SinCaer
    <3>2. ASSUME NEW i \in DOMAIN canalAc', NEW j \in DOMAIN canalAc', canalAc'[i].que = "publica",
                 conexionAc'[canalAc'[i].app] = canalAc'[i].de, j > i, canalAc'[j].app = canalAc'[i].app
          PROVE  canalAc'[j].que # "caido"
      <4>1. i \in DOMAIN canalAc /\ canalAc'[i] = canalAc[i]
        BY <1>6, <1>11, <3>2
      <4>2. canalAc[i].app # app /\ conexionAc[canalAc[i].app] = canalAc[i].de
        BY <1>8, <1>10, <3>2, <4>1
      <4>3. j \in DOMAIN canalAc /\ canalAc'[j] = canalAc[j]
        BY <1>6, <1>11, <3>2, <4>1, <4>2
      <4>. QED BY <3>2, <4>1, <4>2, <4>3 DEF ActInv, Conexiones, SinCaer
    <3>. QED BY <1>1, <3>1, <3>2 DEF SinCaer
  <2>. QED BY <2>1, <2>2, <2>3, <2>4, <2>5, <2>6 DEF Conexiones
<1>13. Verdad'
  <2>. SUFFICES ASSUME NEW a \in Ac!Apps, conexionAc'[a] # 0, a \notin sucia', Callada(ordenes, a)
          PROVE Dicho(a)'
    BY <1>1 DEF Verdad
  <2>1. a # app /\ conexionAc[a] # 0 /\ a \notin sucia
    BY <1>4, <1>8
  <2>2. Dicho(a)
    BY <2>1 DEF ActInv, Verdad
  <2>3. \A i \in DOMAIN canalAc' : Ultima(canalAc', i, a) => Ultima(canalAc, i, a) /\ canalAc'[i] = canalAc[i]
    BY <1>4, <1>5, <1>6, <2>1, UltimaAlFinal
  <2>4. Callada(canalAc', a) <=> Callada(canalAc, a)
    BY <1>4, <1>5, <1>6, <2>1, CalladaAlFinal
  <2>5. \A i \in DOMAIN canalAc' : Ultima(canalAc', i, a) => i \in DOMAIN canalAc
    BY <2>3 DEF Ultima
  <2>. QED BY <1>1, <2>2, <2>3, <2>4, <2>5 DEF Dicho, DeLaIsla
<1>. QED BY <1>1, <1>9, <1>12, <1>13, IslaIgual DEF ActInv

\* What changes an application that has something to publish, and nothing else.
LEMMA SoloElla ==
  ASSUME ActInv, TiposAc', UNCHANGED <<conexionAc, usadas, servidor, canalAc, remitentes>>, UNCHANGED DeLaIsla,
         \A a \in Ac!Apps : conexionAc[a] # 0 /\ a \notin sucia' /\ Callada(ordenes', a) =>
           a \notin sucia /\ Callada(ordenes, a) /\ real'[a] = real[a]
  PROVE  ActInv'
<1>1. Conexiones'
  BY DEF DeLaIsla, ActInv, Conexiones, Conservada, Vigilado, DeQuienEsta, Seguida, UsadasAc, SinCaer
<1>2. Verdad'
  <2>. SUFFICES ASSUME NEW a \in Ac!Apps, conexionAc[a] # 0, a \notin sucia', Callada(ordenes', a)
          PROVE Dicho(a)'
    BY DEF Verdad
  <2>1. real'[a] = real[a] /\ Dicho(a)
    BY DEF ActInv, Verdad
  <2>. QED BY <2>1 DEF Dicho, DeLaIsla
<1>. QED BY <1>1, <1>2, IslaIgual DEF ActInv

\* So does one that has something to publish.
LEMMA PasoCambiar == ASSUME ActInv, NEW app \in Ac!Apps, Ac!Cambiar(app) PROVE ActInv'
<1>1. UNCHANGED <<conexionAc, usadas, servidor, canalAc, ordenes, remitentes>> /\ UNCHANGED DeLaIsla
        /\ sucia' = sucia \cup {app}
  BY DEF Ac!Cambiar, DeLaIsla
<1>2. real \in [Ac!Apps -> Estados]
  BY DEF ActInv, TiposAc
<1>3. PICK e \in Estados : real' = [real EXCEPT ![app] = e]
  <2>1. real[app] \in Estados
    BY <1>2
  <2>2. CASE \E f \in Ac!Faltas : real' = [real EXCEPT ![app].falta = f]
    <3>1. PICK f \in Ac!Faltas : real' = [real EXCEPT ![app].falta = f]
      BY <2>2
    <3>2. [real[app] EXCEPT !.falta = f] \in Estados
      BY <2>1 DEF Estados
    <3>. QED BY <3>1, <3>2
  <2>3. CASE \E p \in Pistas : real' = [real EXCEPT ![app].titulo = p,
          ![app].portada = IF p \in ConPortada THEN p ELSE Ac!Sin]
    <3>1. PICK p \in Pistas : real' = [real EXCEPT ![app].titulo = p,
            ![app].portada = IF p \in ConPortada THEN p ELSE Ac!Sin]
      BY <2>3
    <3>2. PICK q \in Textos : q = IF p \in ConPortada THEN p ELSE Ac!Sin
      BY DEF Textos
    <3>3. PICK e : e = [real[app] EXCEPT !.titulo = p, !.portada = q]
      OBVIOUS
    <3>4. e \in Estados
      BY <2>1, <3>3 DEF Estados, Textos
    <3>5. real' = [real EXCEPT ![app] = e]
      BY <1>2, <3>1, <3>2, <3>3
    <3>. QED BY <3>4, <3>5
  <2>. QED BY <2>2, <2>3 DEF Ac!Cambiar
<1>4. real' \in [Ac!Apps -> Estados] /\ \A a \in Ac!Apps \ {app} : real'[a] = real[a]
  BY <1>2, <1>3
<1>5. TiposAc'
  BY <1>1, <1>4 DEF ActInv, TiposAc, DeLaIsla
<1>. QED BY <1>1, <1>4, <1>5, SoloElla

\* So does one that gets what its card was asked.
LEMMA PasoObedecer == ASSUME ActInv, Ac!Obedecer PROVE ActInv'
<1>1. UNCHANGED <<conexionAc, usadas, servidor, canalAc, remitentes>> /\ UNCHANGED DeLaIsla
  BY DEF Ac!Obedecer, DeLaIsla
<1>2. ordenes \in Seq(Mandatos) /\ ordenes # <<>> /\ ordenes' = Tail(ordenes) /\ real \in [Ac!Apps -> Estados]
  BY DEF Ac!Obedecer, ActInv, TiposAc
<1>3. PICK o : o = ordenes[1]
  OBVIOUS
<1>4. o \in Mandatos /\ o = Head(ordenes) /\ ordenes' \in Seq(Mandatos) /\ o.app \in Ac!Apps
  <2>1. o \in Mandatos /\ o = Head(ordenes) /\ ordenes' \in Seq(Mandatos)
    BY <1>2, <1>3, SinElPrimero
  <2>. QED BY <2>1 DEF Mandatos
<1>5. \A a \in Ac!Apps : Callada(ordenes', a) /\ o.app # a => Callada(ordenes, a)
  BY <1>2, <1>3, CalladaSinElPrimero
<1>6. CASE conexionAc[o.app] = 0
  <2>1. UNCHANGED <<real, sucia>>
    BY <1>4, <1>6 DEF Ac!Obedecer
  <2>2. TiposAc'
    BY <1>1, <1>4, <2>1 DEF ActInv, TiposAc, DeLaIsla
  <2>. QED BY <1>1, <1>5, <1>6, <2>1, <2>2, SoloElla
<1>7. CASE conexionAc[o.app] # 0
  <2>1. PICK p : p = CASE o.nombre = "play-pause" -> ~real[o.app].pausado
                       [] o.nombre = "pause" -> TRUE
                       [] o.nombre = "resume" -> FALSE
                       [] OTHER -> real[o.app].pausado
    OBVIOUS
  <2>2. real[o.app] \in Estados
    BY <1>2, <1>4
  <2>3. p \in BOOLEAN
    BY <2>1, <2>2 DEF Estados
  <2>4. PICK e : e = [real[o.app] EXCEPT !.pausado = p]
    OBVIOUS
  <2>5. e \in Estados
    BY <2>2, <2>3, <2>4 DEF Estados
  <2>6. sucia' = sucia \cup {o.app} /\ real' = [real EXCEPT ![o.app] = e]
    BY <1>2, <1>4, <1>7, <2>1, <2>4 DEF Ac!Obedecer
  <2>7. real' \in [Ac!Apps -> Estados] /\ \A a \in Ac!Apps \ {o.app} : real'[a] = real[a]
    BY <1>2, <2>5, <2>6
  <2>8. TiposAc'
    BY <1>1, <1>4, <2>6, <2>7 DEF ActInv, TiposAc, DeLaIsla
  <2>. QED BY <1>1, <1>5, <2>6, <2>7, <2>8, SoloElla
<1>. QED BY <1>6, <1>7

\* A call that comes into the queue of the bus, with the application as it is.
LEMMA Entra ==
  ASSUME ActInv, UNCHANGED <<conexionAc, usadas, real, canalAc, ordenes, remitentes>>, UNCHANGED DeLaIsla,
         NEW m \in Llamadas, servidor' = Append(servidor, m), sucia' = sucia \ {m.app}, conexionAc[m.app] # 0,
         m.que = "publica" => m.de = conexionAc[m.app] /\ m.estado.pausado = real[m.app].pausado
  PROVE  ActInv'
<1>1. servidor \in Seq(Llamadas) /\ m.app \in Ac!Apps
  BY DEF ActInv, TiposAc, Llamadas, Publica, Cierra
<1>2. /\ servidor' \in Seq(Llamadas) /\ DOMAIN servidor' = 1..(Len(servidor) + 1)
        /\ DOMAIN servidor = 1..Len(servidor)
      /\ Len(servidor) \in Nat /\ servidor'[Len(servidor) + 1] = m
         /\ \A i \in DOMAIN servidor : servidor'[i] = servidor[i]
  BY <1>1, AlFinal
<1>3. \A i \in DOMAIN servidor' : (i \in DOMAIN servidor /\ servidor'[i] = servidor[i]) \/ servidor'[i] = m
  BY <1>2
<1>4. TiposAc'
  BY <1>2 DEF ActInv, TiposAc, DeLaIsla
<1>5. Conexiones'
  <2>1. DeQuienEsta'
    BY <1>3 DEF ActInv, Conexiones, DeQuienEsta
  <2>2. (Conservada /\ Vigilado /\ Seguida /\ UsadasAc /\ SinCaer)'
    BY DEF DeLaIsla, ActInv, Conexiones, Conservada, Vigilado, Seguida, UsadasAc, SinCaer
  <2>. QED BY <2>1, <2>2 DEF Conexiones
<1>6. Verdad'
  <2>. SUFFICES ASSUME NEW a \in Ac!Apps, conexionAc[a] # 0, a \notin sucia', Callada(ordenes, a)
          PROVE Dicho(a)'
    BY DEF Verdad
  <2>1. CASE a = m.app
    <3>1. \A i \in DOMAIN servidor' : Ultima(servidor', i, a) => servidor'[i] = m
      BY <1>1, <2>1, UltimaAlFinal
    <3>2. ~Callada(servidor', a)
      BY <1>1, <2>1, CalladaAlFinal
    <3>. QED BY <2>1, <3>1, <3>2 DEF Dicho
  <2>2. CASE a # m.app
    <3>1. Dicho(a)
      BY <2>2 DEF ActInv, Verdad
    <3>2. \A i \in DOMAIN servidor' : Ultima(servidor', i, a) => Ultima(servidor, i, a)
            /\ servidor'[i] = servidor[i]
      BY <1>1, <2>2, UltimaAlFinal
    <3>3. Callada(servidor', a) <=> Callada(servidor, a)
      BY <1>1, <2>2, CalladaAlFinal
    <3>4. \A i \in DOMAIN servidor' : Ultima(servidor', i, a) => i \in DOMAIN servidor
      BY <3>2 DEF Ultima
    <3>. QED BY <3>1, <3>2, <3>3, <3>4 DEF Dicho, DeLaIsla
  <2>. QED BY <2>1, <2>2
<1>. QED BY <1>4, <1>5, <1>6, IslaIgual DEF ActInv

\* So does a publication.
LEMMA PasoPublicar == ASSUME ActInv, NEW app \in Ac!Apps, Ac!Publicar(app) PROVE ActInv'
<1>1. PICK e : e = IF app \in sucia THEN real[app] ELSE [real[app] EXCEPT !.portada = Ac!Sin]
  OBVIOUS
<1>2. e \in Estados /\ e.pausado = real[app].pausado
  <2>1. real[app] \in Estados
    BY DEF ActInv, TiposAc
  <2>. QED BY <1>1, <2>1 DEF Estados, Textos
<1>3. PICK m : m = [que |-> "publica", app |-> app, de |-> conexionAc[app], estado |-> e]
  OBVIOUS
<1>4. conexionAc[app] # 0 /\ conexionAc[app] \in Nat
  BY DEF Ac!Publicar, ActInv, TiposAc
<1>5. m \in Llamadas /\ m.app = app /\ m.de = conexionAc[app] /\ m.estado = e
  BY <1>2, <1>3, <1>4 DEF Llamadas, Publica
<1>6. servidor' = Append(servidor, m) /\ sucia' = sucia \ {app}
  BY <1>1, <1>3 DEF Ac!Publicar
<1>7. UNCHANGED <<conexionAc, usadas, real, canalAc, ordenes, remitentes>> /\ UNCHANGED DeLaIsla
  BY DEF Ac!Publicar, DeLaIsla
<1>. QED BY <1>2, <1>4, <1>5, <1>6, <1>7, Entra

\* So does one that takes its activity back.
LEMMA PasoRetirar == ASSUME ActInv, NEW app \in Ac!Apps, Ac!Retirar(app) PROVE ActInv'
<1>1. PICK m : m = [que |-> "cierra", app |-> app]
  OBVIOUS
<1>2. m \in Llamadas /\ m.app = app /\ m.que = "cierra"
  BY <1>1 DEF Llamadas, Cierra
<1>3. servidor' = Append(servidor, m) /\ sucia' = sucia \ {app} /\ conexionAc[app] # 0
  BY <1>1 DEF Ac!Retirar
<1>4. UNCHANGED <<conexionAc, usadas, real, canalAc, ordenes, remitentes>> /\ UNCHANGED DeLaIsla
  BY DEF Ac!Retirar, DeLaIsla
<1>. QED BY <1>2, <1>3, <1>4, Entra

\* So does the thread of the bus.
LEMMA PasoServir == ASSUME ActInv, Ac!Servir PROVE ActInv'
<1>1. UNCHANGED <<conexionAc, usadas, real, sucia, ordenes, remitentes>> /\ UNCHANGED DeLaIsla
  BY DEF Ac!Servir, DeLaIsla, Ac!externas
<1>2. servidor \in Seq(Llamadas) /\ servidor # <<>> /\ canalAc \in Seq(Mensajes)
  BY DEF Ac!Servir, ActInv, TiposAc
<1>3. PICK m : m = servidor[1]
  OBVIOUS
<1>4. /\ m \in Llamadas /\ m = Head(servidor) /\ 1 \in DOMAIN servidor
      /\ Tail(servidor) \in Seq(Llamadas)
      /\ \A i \in DOMAIN Tail(servidor) : i + 1 \in DOMAIN servidor /\ Tail(servidor)[i] = servidor[i + 1]
  BY <1>2, <1>3, SinElPrimero
<1>5. canalAc' = Append(canalAc, m) /\ servidor' = Tail(servidor) /\ m \in Mensajes
  BY <1>4 DEF Ac!Servir, Mensajes
<1>6. /\ canalAc' \in Seq(Mensajes) /\ DOMAIN canalAc' = 1..(Len(canalAc) + 1)
        /\ DOMAIN canalAc = 1..Len(canalAc) /\ Len(canalAc) \in Nat
      /\ canalAc'[Len(canalAc) + 1] = m /\ \A i \in DOMAIN canalAc : canalAc'[i] = canalAc[i]
  BY <1>2, <1>5, AlFinal
<1>7. \A i \in DOMAIN canalAc' : (i \in DOMAIN canalAc
        /\ canalAc'[i] = canalAc[i]) \/ (i = Len(canalAc) + 1 /\ canalAc'[i] = m)
  BY <1>6
<1>8. /\ m.app \in Ac!Apps /\ m.que # "caido"
      /\ m.que = "publica" => m.de \in Nat \ {0} /\ m.de = conexionAc[m.app]
  BY <1>3, <1>4, TiposMensaje DEF ActInv, Conexiones, DeQuienEsta
<1>9. TiposAc'
  BY <1>1, <1>4, <1>5, <1>6 DEF ActInv, TiposAc, DeLaIsla
<1>10. Conexiones'
  <2>1. Conservada'
    BY <1>1 DEF DeLaIsla, ActInv, Conexiones, Conservada
  <2>2. Vigilado'
    <3>1. \A j \in DOMAIN canalAc : j \in DOMAIN canalAc' /\ canalAc'[j] = canalAc[j]
      BY <1>6
    <3>. QED BY <1>1, <3>1 DEF ActInv, Conexiones, Vigilado
  <2>3. DeQuienEsta'
    BY <1>1, <1>4, <1>5 DEF ActInv, Conexiones, DeQuienEsta
  <2>4. Seguida'
    <3>. SUFFICES ASSUME NEW i \in DOMAIN canalAc', canalAc'[i].que = "publica"
                  PROVE  conexionAc[canalAc'[i].app] = canalAc'[i].de
                         \/ \E j \in DOMAIN canalAc' : j > i
                         /\ EsCaida(canalAc'[j], canalAc'[i].app, canalAc'[i].de)
      BY <1>1 DEF Seguida
    <3>1. CASE canalAc'[i] = m
      BY <1>8, <3>1
    <3>2. CASE i \in DOMAIN canalAc /\ canalAc'[i] = canalAc[i]
      <4>1. \A j \in DOMAIN canalAc : j \in DOMAIN canalAc' /\ canalAc'[j] = canalAc[j]
        BY <1>6
      <4>. QED BY <3>2, <4>1 DEF ActInv, Conexiones, Seguida
    <3>. QED BY <1>7, <3>1, <3>2
  <2>5. UsadasAc'
    BY <1>1, <1>7, <1>8 DEF ActInv, Conexiones, UsadasAc
  <2>6. SinCaer'
    <3>1. \A j \in DOMAIN canalAc' : canalAc'[j].que = "caido" => j \in DOMAIN canalAc
            /\ canalAc'[j] = canalAc[j]
      BY <1>7, <1>8
    <3>2. \A i, j \in DOMAIN canalAc' : j > i /\ j \in DOMAIN canalAc => i \in DOMAIN canalAc
            /\ canalAc'[i] = canalAc[i]
      BY <1>6
    <3>. QED BY <1>1, <3>1, <3>2 DEF ActInv, Conexiones, SinCaer
  <2>. QED BY <2>1, <2>2, <2>3, <2>4, <2>5, <2>6 DEF Conexiones
<1>11. Verdad'
  <2>. SUFFICES ASSUME NEW a \in Ac!Apps, conexionAc[a] # 0, a \notin sucia, Callada(ordenes, a) PROVE Dicho(a)'
    BY <1>1 DEF Verdad
  <2>1. Dicho(a)
    BY DEF ActInv, Verdad
  <2>2. \A i \in DOMAIN servidor' : Ultima(servidor', i, a) =>
          i + 1 \in DOMAIN servidor /\ Ultima(servidor, i + 1, a) /\ servidor'[i] = servidor[i + 1]
    <3>. SUFFICES ASSUME NEW i \in DOMAIN servidor', Ultima(servidor', i, a)
                  PROVE  Ultima(servidor, i + 1, a) /\ servidor'[i] = servidor[i + 1]
      BY DEF Ultima
    <3>. QED BY <1>2, <1>5, UltimaSinElPrimero
  <2>3. Callada(servidor', a) => IF m.app = a THEN Ultima(servidor, 1, a) ELSE Callada(servidor, a)
    BY <1>2, <1>3, <1>5, CalladaSinElPrimero
  <2>4. \A i \in DOMAIN canalAc' : Ultima(canalAc', i, a) =>
          IF m.app = a THEN canalAc'[i] = m ELSE i \in DOMAIN canalAc /\ Ultima(canalAc, i, a)
          /\ canalAc'[i] = canalAc[i]
    <3>1. \A i \in DOMAIN canalAc' : Ultima(canalAc', i, a) =>
            IF m.app = a THEN canalAc'[i] = m ELSE Ultima(canalAc, i, a) /\ canalAc'[i] = canalAc[i]
      BY <1>2, <1>5, UltimaAlFinal
    <3>. QED BY <3>1 DEF Ultima
  <2>5. Callada(canalAc', a) <=> Callada(canalAc, a) /\ m.app # a
    BY <1>2, <1>5, CalladaAlFinal
  <2>6. \A i \in DOMAIN servidor' : Ultima(servidor', i, a) /\ servidor'[i].que = "publica" =>
          servidor'[i].estado.pausado = real[a].pausado
    BY <2>1, <2>2 DEF Dicho
  <2>7. Callada(servidor', a) =>
          \A i \in DOMAIN canalAc' : Ultima(canalAc', i, a) /\ canalAc'[i].que = "publica" =>
            canalAc'[i].estado.pausado = real[a].pausado
    <3>1. CASE m.app = a
      BY <1>3, <1>4, <2>1, <2>3, <2>4, <3>1 DEF Dicho
    <3>2. CASE m.app # a
      BY <2>1, <2>3, <2>4, <3>2 DEF Dicho
    <3>. QED BY <3>1, <3>2
  <2>8. Callada(servidor', a) /\ Callada(canalAc', a) => Callada(servidor, a) /\ Callada(canalAc, a)
    BY <2>3, <2>5
  <2>. QED BY <1>1, <2>1, <2>6, <2>7, <2>8 DEF Dicho, DeLaIsla
<1>. QED BY <1>1, <1>9, <1>10, <1>11, IslaIgual DEF ActInv

-----------------------------------------------------------------------------
\* Who is left as the sender of an application when its message m arrives.
Remite(m, a, r) ==
  \/ a # m.app /\ r = remitentes[a]
  \/ a = m.app /\ m.que = "publica" /\ r = m.de
  \/ a = m.app /\ m.que # "publica" /\ r = 0
  \/ a = m.app /\ m.que = "caido" /\ m.de # remitentes[a] /\ r = remitentes[a]

DeLosDemas == <<conexionAc, usadas, real, sucia, servidor, ordenes, principal, enfocada, configAc>>

\* Who is on the bus, when a message arrives.
LEMMA LlegaConexiones ==
  ASSUME ActInv, UNCHANGED DeLosDemas, canalAc # <<>>, canalAc' = Tail(canalAc), Conservada',
         \A a \in Ac!Apps : Remite(canalAc[1], a, remitentes'[a])
  PROVE  Conexiones'
<1>1. UNCHANGED <<conexionAc, usadas, servidor>>
  BY DEF DeLosDemas
<1>2. canalAc \in Seq(Mensajes)
  BY DEF ActInv, TiposAc
<1>3. /\ DOMAIN canalAc' = 1..(Len(canalAc) - 1) /\ DOMAIN canalAc = 1..Len(canalAc)
        /\ Len(canalAc) \in Nat \ {0}
      /\ \A i \in DOMAIN canalAc' : i + 1 \in DOMAIN canalAc /\ canalAc'[i] = canalAc[i + 1] /\ i \in Nat
  BY <1>2, SinElPrimero
<1>4. PICK m : m = canalAc[1]
  OBVIOUS
<1>5. 1 \in DOMAIN canalAc /\ \A i \in DOMAIN canalAc : i = 1 \/ (i - 1 \in DOMAIN canalAc'
        /\ canalAc'[i - 1] = canalAc[i] /\ i > 1 /\ i \in Nat)
  BY <1>3
<1>6. /\ m.app \in Ac!Apps /\ \A i \in DOMAIN canalAc : canalAc[i].app \in Ac!Apps
      /\ m.que = "publica" => m.de \in Nat \ {0}
  BY <1>4, <1>5, TiposMensaje DEF ActInv
<1>7. Vigilado'
  <2>. SUFFICES ASSUME NEW a \in Ac!Apps, remitentes'[a] # 0
                PROVE  conexionAc[a] = remitentes'[a] \/ \E j \in DOMAIN canalAc' : EsCaida(canalAc'[j], a,
                       remitentes'[a])
    BY <1>1 DEF Vigilado
  <2>1. CASE a = m.app /\ m.que = "publica" /\ remitentes'[a] = m.de
    <3>1. conexionAc[a] = m.de \/ \E j \in DOMAIN canalAc : j > 1 /\ EsCaida(canalAc[j], a, m.de)
      BY <1>4, <1>5, <2>1 DEF ActInv, Conexiones, Seguida
    <3>2. CASE \E j \in DOMAIN canalAc : j > 1 /\ EsCaida(canalAc[j], a, m.de)
      BY <1>5, <2>1, <3>2
    <3>. QED BY <2>1, <3>1, <3>2
  <2>2. CASE remitentes'[a] = remitentes[a] /\ ~EsCaida(m, a, remitentes[a])
    <3>1. conexionAc[a] = remitentes[a] \/ \E j \in DOMAIN canalAc : EsCaida(canalAc[j], a, remitentes[a])
      BY <2>2 DEF ActInv, Conexiones, Vigilado
    <3>2. \A j \in DOMAIN canalAc : EsCaida(canalAc[j], a, remitentes[a]) => j # 1
      BY <1>4, <2>2
    <3>. QED BY <1>5, <2>2, <3>1, <3>2
  <2>. QED BY <1>4, <2>1, <2>2 DEF Remite, EsCaida
<1>8. DeQuienEsta'
  BY <1>1 DEF ActInv, Conexiones, DeQuienEsta
<1>9. Seguida'
  <2>. SUFFICES ASSUME NEW i \in DOMAIN canalAc', canalAc'[i].que = "publica"
                PROVE  conexionAc[canalAc'[i].app] = canalAc'[i].de
                       \/ \E j \in DOMAIN canalAc' : j > i
                       /\ EsCaida(canalAc'[j], canalAc'[i].app, canalAc'[i].de)
    BY <1>1 DEF Seguida
  <2>1. PICK k : k = i + 1
    OBVIOUS
  <2>2. k \in DOMAIN canalAc /\ canalAc'[i] = canalAc[k]
    BY <1>3, <2>1
  <2>3. conexionAc[canalAc[k].app] = canalAc[k].de \/ \E j \in DOMAIN canalAc : j > k
          /\ EsCaida(canalAc[j], canalAc[k].app, canalAc[k].de)
    BY <2>2 DEF ActInv, Conexiones, Seguida
  <2>4. \A j \in DOMAIN canalAc : j > k => j - 1 > i /\ j # 1
    BY <1>3, <2>1
  <2>. QED BY <1>5, <2>2, <2>3, <2>4
<1>10. UsadasAc'
  <2>1. \A a \in Ac!Apps : remitentes'[a] <= usadas[a]
    <3>. SUFFICES ASSUME NEW a \in Ac!Apps PROVE remitentes'[a] <= usadas[a]
      OBVIOUS
    <3>1. remitentes[a] <= usadas[a] /\ 0 <= usadas[a]
      BY DEF ActInv, TiposAc, Conexiones, UsadasAc
    <3>2. CASE a = m.app /\ m.que = "publica" /\ remitentes'[a] = m.de
      BY <1>4, <1>5, <3>2 DEF ActInv, Conexiones, UsadasAc
    <3>. QED BY <1>4, <3>1, <3>2 DEF Remite
  <2>2. \A i \in DOMAIN canalAc' : canalAc'[i].que = "publica" => canalAc'[i].de <= usadas[canalAc'[i].app]
    BY <1>3 DEF ActInv, Conexiones, UsadasAc
  <2>. QED BY <1>1, <2>1, <2>2 DEF ActInv, Conexiones, UsadasAc
<1>11. SinCaer'
  <2>1. ASSUME NEW a \in Ac!Apps, conexionAc[a] # 0, remitentes'[a] = conexionAc[a],
          NEW j \in DOMAIN canalAc', canalAc'[j].app = a
        PROVE  canalAc'[j].que # "caido"
    <3>1. PICK k : k = j + 1
      OBVIOUS
    <3>2. k \in DOMAIN canalAc /\ canalAc'[j] = canalAc[k] /\ k > 1
      BY <1>3, <3>1
    <3>3. CASE a = m.app /\ m.que = "publica" /\ remitentes'[a] = m.de
      BY <1>4, <1>5, <2>1, <3>2, <3>3 DEF ActInv, Conexiones, SinCaer
    <3>4. CASE remitentes'[a] = remitentes[a]
      BY <2>1, <3>2, <3>4 DEF ActInv, Conexiones, SinCaer
    <3>. QED BY <1>4, <2>1, <3>3, <3>4 DEF Remite
  <2>2. ASSUME NEW i \in DOMAIN canalAc', NEW j \in DOMAIN canalAc', canalAc'[i].que = "publica",
               conexionAc[canalAc'[i].app] = canalAc'[i].de, j > i, canalAc'[j].app = canalAc'[i].app
        PROVE  canalAc'[j].que # "caido"
    <3>1. PICK k : k = i + 1
      OBVIOUS
    <3>2. PICK l : l = j + 1
      OBVIOUS
    <3>3. k \in DOMAIN canalAc /\ l \in DOMAIN canalAc /\ canalAc'[i] = canalAc[k]
            /\ canalAc'[j] = canalAc[l] /\ l > k
      BY <1>3, <2>2, <3>1, <3>2
    <3>. QED BY <2>2, <3>3 DEF ActInv, Conexiones, SinCaer
  <2>. QED BY <1>1, <2>1, <2>2 DEF SinCaer
<1>. QED BY <1>7, <1>8, <1>9, <1>10, <1>11 DEF Conexiones

\* What was said last, when a message arrives.
LEMMA LlegaVerdad ==
  ASSUME ActInv, UNCHANGED DeLosDemas, canalAc # <<>>, canalAc' = Tail(canalAc),
         \A a \in Ac!Apps : islaAc'.app = a => actividades'[a] # <<>>,
         Copia(islaAc', actividades') \/ (islaAc' = islaAc /\ actividades' = actividades),
         \A a \in Ac!Apps : a # canalAc[1].app => actividades'[a] = <<>> \/ actividades'[a] = actividades[a],
         \/ actividades'[canalAc[1].app] = <<>>
         \/ /\ canalAc[1].que = "publica" /\ Copia(islaAc', actividades')
            /\ actividades'[canalAc[1].app][1].pausado = canalAc[1].estado.pausado
         \/ /\ canalAc[1].que = "caido" /\ canalAc[1].de # remitentes[canalAc[1].app]
            /\ actividades' = actividades /\ islaAc' = islaAc
  PROVE  Verdad'
<1>. SUFFICES ASSUME NEW a \in Ac!Apps, conexionAc[a] # 0, a \notin sucia, Callada(ordenes, a) PROVE Dicho(a)'
  BY DEF Verdad, DeLosDemas
<1>1. Dicho(a)
  BY DEF ActInv, Verdad
<1>2. canalAc \in Seq(Mensajes)
  BY DEF ActInv, TiposAc
<1>3. PICK m : m = canalAc[1]
  OBVIOUS
<1>4. \A i \in DOMAIN canalAc' : Ultima(canalAc', i, a) =>
        i + 1 \in DOMAIN canalAc /\ Ultima(canalAc, i + 1, a) /\ canalAc'[i] = canalAc[i + 1]
  <2>. SUFFICES ASSUME NEW i \in DOMAIN canalAc', Ultima(canalAc', i, a)
                PROVE  Ultima(canalAc, i + 1, a) /\ canalAc'[i] = canalAc[i + 1]
    BY DEF Ultima
  <2>. QED BY <1>2, UltimaSinElPrimero
<1>5. Callada(canalAc', a) => IF m.app = a THEN Ultima(canalAc, 1, a) ELSE Callada(canalAc, a)
  BY <1>2, <1>3, CalladaSinElPrimero
<1>6. UNCHANGED <<real, servidor>>
  BY DEF DeLosDemas
<1>7. ASSUME Callada(servidor, a), Callada(canalAc', a)
      PROVE  /\ actividades'[a] # <<>> => actividades'[a][1].pausado = real[a].pausado
             /\ islaAc'.app = a => islaAc'.pausado = real[a].pausado
  <2>1. Copia(islaAc', actividades') => (islaAc'.app = a => islaAc'.pausado = actividades'[a][1].pausado
          /\ actividades'[a] # <<>>)
    BY ActividadesAssumption DEF Copia, Ac!Nadie
  <2>2. CASE m.app # a
    <3>1. /\ actividades[a] # <<>> => actividades[a][1].pausado = real[a].pausado
          /\ islaAc.app = a => islaAc.pausado = real[a].pausado
      BY <1>1, <1>5, <1>7, <2>2 DEF Dicho
    <3>2. actividades'[a] = <<>> \/ actividades'[a] = actividades[a]
      BY <1>3, <2>2
    <3>. QED BY <2>1, <3>1, <3>2
  <2>3. CASE m.app = a
    <3>1. Ultima(canalAc, 1, a) /\ 1 \in DOMAIN canalAc
      BY <1>5, <1>7, <2>3 DEF Ultima
    <3>2. CASE actividades'[a] = <<>>
      BY <3>2
    <3>3. CASE m.que = "publica" /\ Copia(islaAc', actividades')
            /\ actividades'[a][1].pausado = m.estado.pausado
      <4>1. m.estado.pausado = real[a].pausado
        BY <1>1, <1>3, <1>7, <3>1, <3>3 DEF Dicho
      <4>. QED BY <2>1, <3>3, <4>1
    <3>4. CASE m.que = "caido" /\ m.de # remitentes[a] /\ actividades' = actividades /\ islaAc' = islaAc
      <4>1. actividades[a] = <<>>
        <5>. SUFFICES ASSUME actividades[a] # <<>> PROVE FALSE
          OBVIOUS
        <5>1. remitentes[a] # 0
          BY DEF ActInv, Conexiones, Conservada
        <5>2. \A j \in DOMAIN canalAc : j > 1 => canalAc[j].app # a
          BY <3>1 DEF Ultima
        <5>3. \A j \in DOMAIN canalAc : j = 1 \/ j > 1
          BY <1>2
        <5>4. \A j \in DOMAIN canalAc : ~EsCaida(canalAc[j], a, remitentes[a])
          BY <1>3, <3>4, <5>2, <5>3 DEF EsCaida
        <5>5. conexionAc[a] = remitentes[a]
          BY <5>1, <5>4 DEF ActInv, Conexiones, Vigilado
        <5>. QED BY <1>3, <2>3, <3>1, <3>4, <5>5 DEF ActInv, Conexiones, SinCaer
      <4>. QED BY <3>4, <4>1
    <3>. QED BY <1>3, <2>3, <3>2, <3>3, <3>4
  <2>. QED BY <2>2, <2>3
<1>8. \A i \in DOMAIN servidor' : Ultima(servidor', i, a) /\ servidor'[i].que = "publica" =>
        servidor'[i].estado.pausado = real'[a].pausado
  BY <1>1, <1>6 DEF Dicho
<1>9. Callada(servidor', a) =>
        \A i \in DOMAIN canalAc' : Ultima(canalAc', i, a) /\ canalAc'[i].que = "publica" =>
          canalAc'[i].estado.pausado = real'[a].pausado
  BY <1>1, <1>4, <1>6 DEF Dicho
<1>. QED BY <1>6, <1>7, <1>8, <1>9 DEF Dicho

\* The rest of what is kept when the message arrives, whatever it is.
LEMMA LlegaTipos ==
  ASSUME ActInv, UNCHANGED DeLosDemas, canalAc # <<>>, canalAc' = Tail(canalAc), actividades' \in Conservadas,
         remitentes' \in [Ac!Apps -> Nat], islaAc' \in Tarjetas \cup {Ac!Nadie},
         superficie' = Ac!Pintada(islaAc')
  PROVE  TiposAc'
<1>1. canalAc' \in Seq(Mensajes)
  BY SinElPrimero DEF ActInv, TiposAc
<1>. QED BY <1>1 DEF ActInv, TiposAc, DeLosDemas

\* The publication of an application.
LEMMA LlegaPublica ==
  ASSUME ActInv, UNCHANGED DeLosDemas, canalAc # <<>>, canalAc' = Tail(canalAc), canalAc[1].que = "publica",
          Ac!Actividad(canalAc[1])
  PROVE  ActInv'
<1>1. PICK m : m = canalAc[1]
  OBVIOUS
<1>2. canalAc \in Seq(Mensajes) /\ 1 \in DOMAIN canalAc /\ actividades \in Conservadas
        /\ remitentes \in [Ac!Apps -> Nat]
  BY DEF ActInv, TiposAc
<1>3. m.app \in Ac!Apps /\ m.de \in Nat \ {0} /\ m.estado \in Estados
  BY <1>1, <1>2, TiposMensaje DEF ActInv
<1>4. remitentes' = [remitentes EXCEPT ![m.app] = m.de]
  BY <1>1 DEF Ac!Actividad
<1>5. remitentes' \in [Ac!Apps -> Nat] /\ remitentes'[m.app] = m.de
        /\ \A a \in Ac!Apps \ {m.app} : remitentes'[a] = remitentes[a]
  BY <1>2, <1>3, <1>4
<1>6. \A a \in Ac!Apps : Remite(m, a, remitentes'[a])
  BY <1>1, <1>5 DEF Remite
<1>7. UNCHANGED <<principal, enfocada, configAc>>
  BY DEF DeLosDemas
<1>8. CASE ~configAc.habilitadas
  <2>1. actividades' = [a \in Ac!Apps |-> <<>>] /\ islaAc' = Ac!Nadie /\ superficie' = Ac!Pintada(islaAc')
    BY <1>8 DEF Ac!Actividad, Ac!QuedaIsla
  <2>2. actividades' \in Conservadas /\ \A a \in Ac!Apps : actividades'[a] = <<>>
    BY <2>1 DEF Conservadas
  <2>3. TiposAc'
    BY <1>5, <2>1, <2>2, LlegaTipos
  <2>4. Conservada'
    BY <2>2 DEF Conservada
  <2>5. Conexiones'
    BY <1>1, <1>6, <2>4, LlegaConexiones
  <2>6. \A a \in Ac!Apps : islaAc'.app # a
    BY <2>1, ActividadesAssumption DEF Ac!Nadie
  <2>7. Verdad'
    BY <1>1, <1>3, <2>1, <2>2, <2>6, LlegaVerdad DEF Copia
  <2>8. IslaBien'
    BY <2>1 DEF IslaBien, Muestra, Ac!Vivas
  <2>. QED BY <2>3, <2>5, <2>7, <2>8 DEF ActInv
<1>9. CASE configAc.habilitadas
  <2>1. PICK e : e = Ac!Heredado(m.app, m.estado)
    OBVIOUS
  <2>2. PICK v : v = Ac!Invalidada(m.app, m.estado)
    OBVIOUS
  <2>3. e \in Estados /\ e.pausado = m.estado.pausado
    <3>1. CASE actividades[m.app] # <<>> /\ m.estado.portada = Ac!Sin
      <4>1. PICK x \in Estados : actividades[m.app] = <<x>>
        BY <1>2, <1>3, <3>1 DEF Conservadas
      <4>2. PICK p : p = actividades[m.app][1].portada
        OBVIOUS
      <4>3. p \in Textos
        BY <4>1, <4>2 DEF Estados
      <4>4. e = [m.estado EXCEPT !.portada = p]
        BY <2>1, <3>1, <4>2 DEF Ac!Heredado
      <4>. QED BY <1>3, <4>3, <4>4 DEF Estados
    <3>2. CASE ~(actividades[m.app] # <<>> /\ m.estado.portada = Ac!Sin)
      BY <1>3, <2>1, <3>2 DEF Ac!Heredado
    <3>. QED BY <3>1, <3>2
  <2>4. v \in Tarjetas \cup {Ac!Nadie}
    <3>1. CASE islaAc.app = m.app
      <4>1. islaAc \in Tarjetas
        BY <1>3, <3>1, ActividadesAssumption DEF ActInv, TiposAc, Ac!Nadie
      <4>2. Ac!Sin \in Textos
        BY DEF Textos
      <4>3. v = islaAc \/ v = [islaAc EXCEPT !.arte = Ac!Sin]
        BY <2>2 DEF Ac!Invalidada
      <4>. QED BY <4>1, <4>2, <4>3 DEF Tarjetas
    <3>2. CASE islaAc.app # m.app
      BY <2>2, <3>2 DEF Ac!Invalidada, ActInv, TiposAc
    <3>. QED BY <3>1, <3>2
  <2>5. /\ actividades' = [actividades EXCEPT ![m.app] = <<e>>]
        /\ islaAc' = Ac!Sincronizada(actividades', enfocada, configAc, principal, v)
           /\ superficie' = Ac!Pintada(islaAc')
    BY <1>1, <1>9, <2>1, <2>2 DEF Ac!Actividad, Ac!QuedaIsla
  <2>6. /\ actividades' \in Conservadas /\ actividades'[m.app] = <<e>>
        /\ \A a \in Ac!Apps \ {m.app} : actividades'[a] = actividades[a]
    BY <1>2, <1>3, <2>3, <2>5 DEF Conservadas
  <2>7. islaAc' \in Tarjetas \cup {Ac!Nadie} /\ Muestra(islaAc', actividades', enfocada, configAc,
          principal) /\ Copia(islaAc', actividades')
    BY <2>4, <2>5, <2>6, SincronizadaBien
  <2>8. TiposAc'
    BY <1>5, <2>5, <2>6, <2>7, LlegaTipos
  <2>9. Conservada'
    BY <1>3, <1>5, <2>6 DEF ActInv, Conexiones, Conservada
  <2>10. Conexiones'
    BY <1>1, <1>6, <2>9, LlegaConexiones
  <2>11. \A a \in Ac!Apps : islaAc'.app = a => actividades'[a] # <<>>
    BY <2>7, VivasBien, ActividadesAssumption DEF Muestra, Ac!Nadie
  <2>12. actividades'[m.app][1].pausado = m.estado.pausado
    BY <2>3, <2>6
  <2>13. Verdad'
    BY <1>1, <2>6, <2>7, <2>11, <2>12, LlegaVerdad
  <2>14. IslaBien'
    BY <1>7, <2>7 DEF IslaBien
  <2>. QED BY <2>8, <2>10, <2>13, <2>14 DEF ActInv
<1>. QED BY <1>8, <1>9

\* An activity that is closed, by its application or by its fall.
LEMMA LlegaCierre ==
  ASSUME ActInv, UNCHANGED DeLosDemas, canalAc # <<>>, canalAc' = Tail(canalAc), canalAc[1].que # "publica",
          Ac!Cerrada(canalAc[1].app)
  PROVE  ActInv'
<1>1. PICK app : app = canalAc[1].app
  OBVIOUS
<1>2. canalAc \in Seq(Mensajes) /\ 1 \in DOMAIN canalAc /\ actividades \in Conservadas
        /\ remitentes \in [Ac!Apps -> Nat]
  BY DEF ActInv, TiposAc
<1>3. app \in Ac!Apps
  BY <1>1, <1>2, TiposMensaje DEF ActInv
<1>4. remitentes' = [remitentes EXCEPT ![app] = 0]
  BY <1>1 DEF Ac!Cerrada
<1>5. remitentes' \in [Ac!Apps -> Nat] /\ remitentes'[app] = 0
        /\ \A a \in Ac!Apps \ {app} : remitentes'[a] = remitentes[a]
  BY <1>2, <1>3, <1>4
<1>6. \A a \in Ac!Apps : Remite(canalAc[1], a, remitentes'[a])
  BY <1>1, <1>5 DEF Remite
<1>7. UNCHANGED <<principal, enfocada, configAc>>
  BY DEF DeLosDemas
<1>8. \A a \in Ac!Apps : islaAc.app = a => actividades[a] # <<>>
  BY VivasBien, ActividadesAssumption DEF ActInv, IslaBien, Muestra, Ac!Nadie
<1>9. /\ actividades' \in Conservadas /\ actividades'[app] = <<>>
        /\ \A a \in Ac!Apps \ {app} : actividades'[a] = actividades[a]
      /\ islaAc' \in Tarjetas \cup {Ac!Nadie} /\ superficie' = Ac!Pintada(islaAc') /\ IslaBien'
      /\ Copia(islaAc', actividades') \/ (islaAc' = islaAc /\ actividades' = actividades)
      /\ \A a \in Ac!Apps : islaAc'.app = a => actividades'[a] # <<>>
  <2>1. CASE actividades[app] = <<>>
    <3>1. UNCHANGED <<actividades, islaAc, superficie>>
      BY <1>1, <2>1 DEF Ac!Cerrada
    <3>2. IslaBien'
      BY <1>7, <3>1, IslaIgual DEF ActInv, DeLaIsla
    <3>. QED BY <1>2, <1>8, <2>1, <3>1, <3>2 DEF ActInv, TiposAc
  <2>2. CASE actividades[app] # <<>>
    <3>1. /\ actividades' = [actividades EXCEPT ![app] = <<>>] /\ superficie' = Ac!Pintada(islaAc')
          /\ islaAc' = Ac!Sincronizada(actividades', enfocada, configAc, principal, islaAc)
      BY <1>1, <2>2 DEF Ac!Cerrada, Ac!Sincroniza, Ac!QuedaIsla
    <3>2. actividades' \in Conservadas /\ actividades'[app] = <<>>
            /\ \A a \in Ac!Apps \ {app} : actividades'[a] = actividades[a]
      BY <1>2, <1>3, <3>1 DEF Conservadas
    <3>3. islaAc' \in Tarjetas \cup {Ac!Nadie} /\ Muestra(islaAc', actividades', enfocada, configAc,
            principal) /\ Copia(islaAc', actividades')
      BY <3>1, <3>2, SincronizadaBien DEF ActInv, TiposAc
    <3>4. \A a \in Ac!Apps : islaAc'.app = a => actividades'[a] # <<>>
      BY <3>3, VivasBien, ActividadesAssumption DEF Muestra, Ac!Nadie
    <3>5. IslaBien'
      BY <1>7, <3>3 DEF IslaBien
    <3>. QED BY <3>1, <3>2, <3>3, <3>4, <3>5
  <2>. QED BY <2>1, <2>2
<1>10. TiposAc'
  BY <1>5, <1>9, LlegaTipos
<1>11. Conservada'
  BY <1>5, <1>9 DEF ActInv, Conexiones, Conservada
<1>12. Conexiones'
  BY <1>6, <1>11, LlegaConexiones
<1>13. Verdad'
  BY <1>1, <1>9, LlegaVerdad
<1>. QED BY <1>9, <1>10, <1>12, <1>13 DEF ActInv

\* A fall that closes nothing.
LEMMA LlegaVieja ==
  ASSUME ActInv, UNCHANGED DeLosDemas, canalAc # <<>>, canalAc' = Tail(canalAc), canalAc[1].que = "caido",
         canalAc[1].de # remitentes[canalAc[1].app], UNCHANGED <<remitentes, actividades, islaAc, superficie>>
  PROVE  ActInv'
<1>1. \A a \in Ac!Apps : Remite(canalAc[1], a, remitentes'[a])
  BY DEF Remite
<1>2. \A a \in Ac!Apps : islaAc.app = a => actividades[a] # <<>>
  BY VivasBien, ActividadesAssumption DEF ActInv, IslaBien, Muestra, Ac!Nadie
<1>3. TiposAc'
  BY LlegaTipos DEF ActInv, TiposAc
<1>4. Conservada'
  BY DEF ActInv, Conexiones, Conservada
<1>5. Conexiones'
  BY <1>1, <1>4, LlegaConexiones
<1>6. Verdad'
  BY <1>2, LlegaVerdad
<1>7. IslaBien'
  BY IslaIgual DEF ActInv, DeLaIsla, DeLosDemas
<1>. QED BY <1>3, <1>5, <1>6, <1>7 DEF ActInv

\* So does whatever arrives at the compositor.
LEMMA PasoRecibir == ASSUME ActInv, Ac!Recibir PROVE ActInv'
<1>1. canalAc \in Seq(Mensajes) /\ canalAc # <<>> /\ canalAc' = Tail(canalAc) /\ Head(canalAc) = canalAc[1]
  BY DEF Ac!Recibir, ActInv, TiposAc
<1>2. UNCHANGED DeLosDemas
  BY DEF Ac!Recibir, Ac!externas, DeLosDemas
<1>3. canalAc[1] \in Mensajes
  BY <1>1
<1>4. canalAc[1].que \in {"publica", "cierra", "caido"}
  BY <1>3 DEF Mensajes, Llamadas, Publica, Cierra, Caido
<1>5. CASE canalAc[1].que = "publica"
  <2>1. Ac!Actividad(canalAc[1])
    BY <1>1, <1>5 DEF Ac!Recibir
  <2>. QED BY <1>1, <1>2, <1>5, <2>1, LlegaPublica
<1>6. CASE canalAc[1].que = "cierra"
  <2>1. Ac!Cerrada(canalAc[1].app)
    BY <1>1, <1>6 DEF Ac!Recibir
  <2>. QED BY <1>1, <1>2, <1>6, <2>1, LlegaCierre
<1>7. CASE canalAc[1].que = "caido"
  <2>1. Ac!Caida(canalAc[1].app, canalAc[1].de)
    BY <1>1, <1>7 DEF Ac!Recibir
  <2>2. CASE remitentes[canalAc[1].app] = canalAc[1].de
    <3>1. Ac!Cerrada(canalAc[1].app)
      BY <2>1, <2>2 DEF Ac!Caida
    <3>. QED BY <1>1, <1>2, <1>7, <3>1, LlegaCierre
  <2>3. CASE remitentes[canalAc[1].app] # canalAc[1].de
    <3>1. UNCHANGED <<remitentes, actividades, islaAc, superficie>>
      BY <2>1, <2>3 DEF Ac!Caida
    <3>. QED BY <1>1, <1>2, <1>7, <2>3, <3>1, LlegaVieja
  <2>. QED BY <2>2, <2>3
<1>. QED BY <1>4, <1>5, <1>6, <1>7

\* Every step of the activities keeps the invariant.
LEMMA PasoAct == ASSUME Lento = FALSE, ActInv, [Ac!Next]_(Ac!vars) PROVE ActInv'
<1>1. CASE UNCHANGED Ac!vars
  <2>1. UNCHANGED <<conexionAc, usadas, real, sucia, servidor, canalAc, ordenes, remitentes>>
          /\ UNCHANGED DeLaIsla
    BY <1>1 DEF Ac!vars, DeLaIsla
  <2>2. TiposAc'
    BY <2>1 DEF ActInv, TiposAc, DeLaIsla
  <2>. QED BY <2>1, <2>2, SoloElla
<1>2. CASE Ac!Next
  <2>1. CASE \E app \in Delante \cup {Ac!Sin} : Ac!PonerAppEnfocada(app)
    BY <2>1, PasoEnfocar, ActividadesAssumption
  <2>. QED
    BY <1>2, <2>1, PasoConectar, PasoMorir, PasoCambiar, PasoPublicar, PasoRetirar, PasoServir, PasoObedecer,
       PasoRecibir, PasoConfig, PasoBurbuja, PasoVista, PasoMandoAc DEF Ac!Next
<1>. QED BY <1>1, <1>2

\* The activities are not touched by the other machines.
LEMMA ActividadesAparte ==
  ASSUME [Next]_<<parte, deGreeter, deGreeterWifi, deBuds, deBudsReader, deBudsStatus,
        deActivities, deSystemService, deVolumeKeys, deWifiProfiles, deSettings, deNightLight,
        deAutoTheme, deBrightness>>,
         parte' = "activities"
  PROVE  parte = "activities" /\ (Ac!Next \/ UNCHANGED Ac!vars)
<1>1. UNCHANGED <<parte, deActivities>> => parte' = parte /\ UNCHANGED Ac!vars
  BY DEF deActivities, Ac!vars
<1>2. Next => parte' = parte /\ (parte = "activities" => Ac!Next)
  BY DEF Next, EnGreeter, EnGreeterWifi, EnBuds, EnBudsReader, EnBudsStatus, EnActivities,
      EnSystemService, EnVolumeKeys, EnWifiProfiles, EnSettings, EnNightLight, EnAutoTheme,
      EnBrightness, Ac!Next
<1>. QED BY <1>1, <1>2

ActividadesConInv == parte = "activities" => ActInv

\* Whatever applications publish, die, come back and are ordered about, if the fall of a sender
\* does not overtake its last call: with nothing on its way no activity is left of who is gone,
\* the island shows what there is to show of what is kept, in its order, and what its card says
\* of an application is what the application is at (lib.rs, actividad.rs, ajustes.rs).
THEOREM ActividadesBien == ASSUME Lento = FALSE PROVE Spec => []ActividadesEnOrden
<1>1. Init => ActividadesConInv
  BY ActInicial DEF Init, ActividadesConInv
<1>2. ActividadesConInv /\ [Next]_<<parte, deGreeter, deGreeterWifi, deBuds, deBudsReader, deBudsStatus,
        deActivities, deSystemService, deVolumeKeys, deWifiProfiles, deSettings, deNightLight,
        deAutoTheme, deBrightness>>
        => ActividadesConInv'
  BY PasoAct, ActividadesAparte DEF ActividadesConInv
<1>3. ActividadesConInv => ActividadesEnOrden
  BY ActBasta DEF ActividadesConInv, ActividadesEnOrden
<1>. QED BY <1>1, <1>2, <1>3, PTL DEF Spec
==============================================================================
