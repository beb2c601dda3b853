---------------------------- MODULE Activities ----------------------------
(***************************************************************************)
(* The island of live activities: what the applications publish over the   *)
(* bus (bookos-comp's ajustes.rs), what the shell keeps of it (lib.rs), the *)
(* card it shows (actividad.rs) and the surface it is painted on           *)
(* (shell.rs).  The kind of an activity comes with its application.  The   *)
(* applications are external: each is a connection to the bus, with its    *)
(* own state, that it publishes when it changes and now and then.  Titles  *)
(* and covers are those of the track, or Sin; the queue of the player is   *)
(* never empty, and its thumbnails, the volume and the metrics are left    *)
(* out, as is the animation.                                               *)
(***************************************************************************)
EXTENDS Naturals, Sequences, FiniteSets

CONSTANTS
  Clase,          \* the kind of each application that may publish
  Orden,          \* their identifiers in alphabetical order
  Pistas,         \* the tracks of the player
  ConPortada,     \* those that have a cover
  Delante,        \* those whose window may come to the front
  Configs,        \* the configurations that may be applied
  MaxConexiones,  \* bound, of each: the connections it may have
  MaxBus,         \* bound: calls and orders on their way; a fall always gets in
  Lento           \* whether the fall of a sender may overtake its last call

Sin == "sin"
Nadie == [app |-> Sin]
Apps == DOMAIN Clase
Faltas == {"largo", "corto", "vencido"}   \* over a minute, less, and past

VARIABLES
  conexion,   \* per application: the number of its connection, 0 with none
  usadas,     \* per application: the connections it has had
  real,       \* what the application is at
  sucia,      \* applications with a change to publish
  servidor,   \* calls the thread of the bus is serving, in order
  canal,      \* avisos for the compositor, in order
  ordenes,    \* ActivityAction signals on their way
  remitentes, \* state.remitentes_actividad
  actividades, \* what is kept of each application: <<>> or <<estado>>
  isla,       \* self.actividad: Nadie, or the card with its view
  principal, enfocada, config,
  superficie  \* what the surface of the island was painted for
externas == <<conexion, usadas, real, sucia>>
vars == <<conexion, usadas, real, sucia, servidor, canal, ordenes, remitentes,
          actividades, isla, principal, enfocada, config, superficie>>

Inicial == [falta |-> "largo", pausado |-> FALSE, titulo |-> Sin, portada |-> Sin]

(***************************************************************************)
(* sincronizar_actividad.                                                  *)
(***************************************************************************)
Prioridad(app, e) ==
  CASE Clase[app] = "recorder" -> 40
    [] Clase[app] = "timer" -> IF e.falta = "vencido" THEN 30 ELSE 20
    [] Clase[app] = "player" -> 10

Posicion(app) == CHOOSE i \in DOMAIN Orden : Orden[i] = app

Antes(A, a, b) == LET x == Prioridad(a, A[a][1]) y == Prioridad(b, A[b][1])
                  IN x > y \/ (x = y /\ Posicion(a) < Posicion(b))

\* Alive and to be seen: not of the application in front, and a timer only
\* in its last minute, unless it is to be always there.
Vivas(A, enf, cfg) ==
  {a \in Apps : /\ A[a] # <<>>
                /\ a # enf
                /\ Clase[a] # "timer" \/ cfg.siempre \/ A[a][1].falta # "largo"}

Primera(A, S) == CHOOSE a \in S : \A b \in S \ {a} : Antes(A, a, b)

Elegida(A, S, pral) == IF pral \in S THEN pral ELSE Primera(A, S)

\* actualizar: a cover is prepared again only when there was none, and goes
\* when the track changes.
Arte(viejo, e) ==
  LET llega == IF viejo.arte = Sin THEN e.portada ELSE Sin
  IN IF llega # Sin THEN llega
     ELSE IF viejo.titulo # e.titulo THEN Sin ELSE viejo.arte

Tarjeta(app, e, vista, arte, S) ==
  [app |-> app, vista |-> vista, falta |-> e.falta, pausado |-> e.pausado,
   titulo |-> e.titulo, arte |-> arte, burbujas |-> S \ {app}]

Sincronizada(A, enf, cfg, pral, vieja) ==
  LET S == Vivas(A, enf, cfg)
  IN IF S = {} THEN Nadie
     ELSE LET a == Elegida(A, S, pral)
              e == A[a][1]
          IN IF vieja.app = a THEN Tarjeta(a, e, vieja.vista, Arte(vieja, e), S)
                              ELSE Tarjeta(a, e, "compacta", e.portada, S)

\* pintar_actividad: the surface is made again for the size of the card.
Pintada(i) == IF i = Nadie THEN Nadie
              ELSE [app |-> i.app, vista |-> i.vista, burbujas |-> Cardinality(i.burbujas)]

QuedaIsla(i) == isla' = i /\ superficie' = Pintada(i)

Sincroniza(A, enf, cfg, pral) == QuedaIsla(Sincronizada(A, enf, cfg, pral, isla))

(***************************************************************************)
(* The applications and the bus.                                           *)
(***************************************************************************)
Llamada(m) == m.que # "caido"
Cabe == Len(servidor) + Len(SelectSeq(canal, Llamada)) + Len(ordenes) < MaxBus

Conectar(app) ==
  /\ conexion[app] = 0 /\ usadas[app] < MaxConexiones[app]
  /\ conexion' = [conexion EXCEPT ![app] = usadas[app] + 1]
  /\ usadas' = [usadas EXCEPT ![app] = @ + 1]
  /\ real' = [real EXCEPT ![app] = Inicial]
  /\ UNCHANGED <<sucia, servidor, canal, ordenes, remitentes, actividades, isla, principal,
                 enfocada, config, superficie>>

\* The process dies, whatever it has in the channel: its connection goes with it.
\* vigilar_remitentes sends the notice from a thread of its own.
Morir(app) ==
  /\ conexion[app] # 0
  /\ Lento \/ \A i \in DOMAIN servidor : servidor[i].app # app
  /\ canal' = Append(canal, [que |-> "caido", app |-> app, de |-> conexion[app]])
  /\ conexion' = [conexion EXCEPT ![app] = 0]
  /\ sucia' = sucia \ {app}
  /\ UNCHANGED <<usadas, real, servidor, ordenes, remitentes, actividades, isla, principal,
                 enfocada, config, superficie>>

\* The player sends a cover when the track changes; a track without one, none.
Cambiar(app) ==
  /\ conexion[app] # 0 /\ app \notin sucia
  /\ \/ /\ Clase[app] = "timer"
        /\ \E f \in Faltas : real' = [real EXCEPT ![app].falta = f]
     \/ /\ Clase[app] = "player"
        /\ \E p \in Pistas \ {real[app].titulo} :
             real' = [real EXCEPT ![app].titulo = p, ![app].portada = IF p \in ConPortada THEN p ELSE Sin]
  /\ sucia' = sucia \cup {app}
  /\ UNCHANGED <<conexion, usadas, servidor, canal, ordenes, remitentes, actividades, isla,
                 principal, enfocada, config, superficie>>

\* publish_activity is called: with the change, or as a beat, without cover.
Publicar(app) ==
  /\ conexion[app] # 0 /\ Cabe
  /\ servidor' = Append(servidor, [que |-> "publica", app |-> app, de |-> conexion[app],
                   estado |-> IF app \in sucia THEN real[app]
                              ELSE [real[app] EXCEPT !.portada = Sin]])
  /\ sucia' = sucia \ {app}
  /\ UNCHANGED <<conexion, usadas, real, canal, ordenes, remitentes, actividades, isla,
                 principal, enfocada, config, superficie>>

Retirar(app) ==
  /\ conexion[app] # 0 /\ Cabe
  /\ servidor' = Append(servidor, [que |-> "cierra", app |-> app])
  /\ sucia' = sucia \ {app}
  /\ UNCHANGED <<conexion, usadas, real, canal, ordenes, remitentes, actividades, isla,
                 principal, enfocada, config, superficie>>

\* The thread of the bus has decoded a call and passes it on.
Servir ==
  /\ servidor # <<>>
  /\ canal' = Append(canal, Head(servidor))
  /\ servidor' = Tail(servidor)
  /\ UNCHANGED <<externas, ordenes, remitentes, actividades, isla, principal, enfocada,
                 config, superficie>>

\* The application gets what its card was asked.
Obedecer ==
  /\ ordenes # <<>>
  /\ LET o == Head(ordenes)
     IN IF conexion[o.app] = 0 THEN UNCHANGED <<real, sucia>>
        ELSE /\ real' = [real EXCEPT ![o.app].pausado =
                           CASE o.nombre = "play-pause" -> ~@
                             [] o.nombre = "pause" -> TRUE
                             [] o.nombre = "resume" -> FALSE
                             [] OTHER -> @]
             /\ sucia' = sucia \cup {o.app}
  /\ ordenes' = Tail(ordenes)
  /\ UNCHANGED <<conexion, usadas, servidor, canal, remitentes, actividades, isla, principal,
                 enfocada, config, superficie>>

(***************************************************************************)
(* recibir: the avisos of the bus in the compositor.                       *)
(***************************************************************************)
\* publicar_actividad: what does not come with a beat stays as it was.
Heredado(app, e) ==
  IF actividades[app] # <<>> /\ e.portada = Sin
  THEN [e EXCEPT !.portada = actividades[app][1].portada] ELSE e

Invalidada(app, e) ==
  IF isla.app = app /\ e.portada # Sin THEN [isla EXCEPT !.arte = Sin] ELSE isla

Actividad(c) ==
  /\ remitentes' = [remitentes EXCEPT ![c.app] = c.de]
  /\ IF ~config.habilitadas
     THEN actividades' = [a \in Apps |-> <<>>] /\ QuedaIsla(Nadie)
     ELSE /\ actividades' = [actividades EXCEPT ![c.app] = <<Heredado(c.app, c.estado)>>]
          /\ QuedaIsla(Sincronizada(actividades', enfocada, config, principal,
                                    Invalidada(c.app, c.estado)))

\* cerrar_actividad.
Cerrada(app) ==
  /\ remitentes' = [remitentes EXCEPT ![app] = 0]
  /\ IF actividades[app] = <<>> THEN UNCHANGED <<actividades, isla, superficie>>
     ELSE /\ actividades' = [actividades EXCEPT ![app] = <<>>]
          /\ Sincroniza(actividades', enfocada, config, principal)

\* A slip for Caida: the fall forgets the sender and leaves its activity.
CaidaSinCerrar(app, de) ==
  /\ remitentes' = IF remitentes[app] = de THEN [remitentes EXCEPT ![app] = 0] ELSE remitentes
  /\ UNCHANGED <<actividades, isla, superficie>>

\* RemitenteCaido: only what the one that fell had published last.
Caida(app, de) == IF remitentes[app] = de THEN Cerrada(app)
                  ELSE UNCHANGED <<remitentes, actividades, isla, superficie>>

Recibir ==
  /\ canal # <<>>
  /\ LET c == Head(canal)
     IN CASE c.que = "publica" -> Actividad(c)
          [] c.que = "cierra" -> Cerrada(c.app)
          [] c.que = "caido" -> Caida(c.app, c.de)
  /\ canal' = Tail(canal)
  /\ UNCHANGED <<externas, servidor, ordenes, principal, enfocada, config>>

(***************************************************************************)
(* The user.                                                               *)
(***************************************************************************)
DeFuera == <<externas, servidor, canal, ordenes, remitentes, actividades>>

PonerAppEnfocada(app) ==
  /\ app # enfocada
  /\ enfocada' = app
  /\ Sincroniza(actividades, app, config, principal)
  /\ UNCHANGED <<DeFuera, principal, config>>

AplicarConfig(cfg) ==
  /\ cfg # config
  /\ config' = cfg
  /\ IF cfg.habilitadas
     THEN Sincroniza(actividades, enfocada, cfg, principal) /\ UNCHANGED actividades
     ELSE actividades' = [a \in Apps |-> <<>>] /\ QuedaIsla(Nadie)
  /\ UNCHANGED <<externas, servidor, canal, ordenes, remitentes, principal, enfocada>>

\* A bubble passes its activity to the pill.
PulsarBurbuja(app) ==
  /\ isla # Nadie
  /\ isla.vista = "compacta" /\ app \in isla.burbujas
  /\ principal' = app
  /\ Sincroniza(actividades, enfocada, config, app)
  /\ UNCHANGED <<DeFuera, enfocada, config>>

\* alternar_actividad, recoger_actividad_fuera, a press on the pill and one
\* on the head of the card: they open it or fold it.
Alternar ==
  /\ isla # Nadie
  /\ QuedaIsla([isla EXCEPT !.vista = IF @ = "compacta" THEN "abierta" ELSE "compacta"])
  /\ UNCHANGED <<DeFuera, principal, enfocada, config>>

\* The button of the queue, in the player.
PulsarCola ==
  /\ isla # Nadie
  /\ isla.vista # "compacta" /\ Clase[isla.app] = "player"
  /\ QuedaIsla([isla EXCEPT !.vista = IF @ = "cola" THEN "abierta" ELSE "cola"])
  /\ UNCHANGED <<DeFuera, principal, enfocada, config>>

\* The button in the middle: in the player, what it shows changes already.
Orden1 == CASE Clase[isla.app] = "player" -> "play-pause"
            [] Clase[isla.app] = "timer" /\ isla.falta = "vencido" -> "snooze"
            [] OTHER -> IF isla.pausado THEN "resume" ELSE "pause"

PulsarMando ==
  /\ isla # Nadie
  /\ isla.vista # "compacta" /\ Cabe
  /\ ordenes' = Append(ordenes, [app |-> isla.app, nombre |-> Orden1])
  /\ QuedaIsla(IF Clase[isla.app] = "player" THEN [isla EXCEPT !.pausado = ~@] ELSE isla)
  /\ UNCHANGED <<externas, servidor, canal, remitentes, actividades, principal, enfocada, config>>

Init ==
  /\ conexion = [a \in Apps |-> 0] /\ usadas = [a \in Apps |-> 0]
  /\ real = [a \in Apps |-> Inicial] /\ sucia = {}
  /\ servidor = <<>> /\ canal = <<>> /\ ordenes = <<>>
  /\ remitentes = [a \in Apps |-> 0] /\ actividades = [a \in Apps |-> <<>>]
  /\ isla = Nadie /\ superficie = Nadie
  /\ principal = Sin /\ enfocada = Sin
  /\ config = [habilitadas |-> TRUE, siempre |-> FALSE]

Next ==
  \/ \E app \in Apps : Conectar(app)
  \/ \E app \in Apps : Morir(app)
  \/ \E app \in Apps : Cambiar(app)
  \/ \E app \in Apps : Publicar(app)
  \/ \E app \in Apps : Retirar(app)
  \/ Servir
  \/ Obedecer
  \/ Recibir
  \/ \E app \in Delante \cup {Sin} : PonerAppEnfocada(app)
  \/ \E cfg \in Configs : AplicarConfig(cfg)
  \/ \E app \in Apps : PulsarBurbuja(app)
  \/ Alternar
  \/ PulsarCola
  \/ PulsarMando

Spec == Init /\ [][Next]_vars

(***************************************************************************)
(* Properties.                                                             *)
(***************************************************************************)
Quieto == servidor = <<>> /\ canal = <<>> /\ ordenes = <<>> /\ sucia = {}

\* With nothing on its way, every activity kept is of a connection that is
\* still on the bus.
SinHuerfanas ==
  Quieto => \A a \in Apps : actividades[a] # <<>> => conexion[a] # 0 /\ remitentes[a] = conexion[a]

\* The island shows what there is to show, whatever changed it, and the
\* surface is the one of what it shows.
IslaAlDia ==
  /\ superficie = Pintada(isla)
  /\ isla = Nadie <=> Vivas(actividades, enfocada, config) = {}
  /\ isla # Nadie =>
       /\ isla.app \in Vivas(actividades, enfocada, config)
       /\ isla.burbujas = Vivas(actividades, enfocada, config) \ {isla.app}
       /\ isla.app = principal \/ \A b \in isla.burbujas :
            b # principal /\ Antes(actividades, isla.app, b)

ActividadesEnOrden == SinHuerfanas /\ IslaAlDia

\* With nothing on its way, the card shows the application as it is.
EstadoReal == Quieto /\ isla # Nadie /\ config.habilitadas => isla.pausado = real[isla.app].pausado

\* The cover on the island is of the track it names.
CaratulaDeSuPista == isla # Nadie => isla.arte \in {Sin, isla.titulo}
=============================================================================
