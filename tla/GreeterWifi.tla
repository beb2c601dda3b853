---------------------------- MODULE GreeterWifi ----------------------------
(***************************************************************************)
(* The network card of the login screen: bookos-greeter's main.rs, the     *)
(* nmcli calls of sistema.rs and what the card offers (vista.rs).  Every   *)
(* request is a task of its own: it changes NetworkManager, reads it, and  *)
(* comes back later with what it read (WifiEstado).  Nothing orders the    *)
(* tasks, and no key of the card waits for them but the rows of the list.  *)
(* NetworkManager is external.  A key is modelled by the network it was    *)
(* typed for; signal strengths and texts are left out.                     *)
(***************************************************************************)
EXTENDS Naturals, FiniteSets

CONSTANTS
  Redes,       \* the networks in the air
  Abiertas,    \* those with no security
  MaxTareas,   \* bound: tasks under way
  MaxFallos    \* bound: calls of nmcli that fail

Ninguna == "ninguna"
Paneles == {"ninguno", "red", "otro"}

VARIABLES
  panel,      \* panel_abierto
  estado,     \* wifi_estado: encendida, actual, guardadas
  cargando,   \* wifi_cargando
  conectarA,  \* wifi_conectar_a: the network whose key is asked
  clave,      \* wifi_clave
  tareas,     \* the tasks under way: number, what they do, what they read
  nm,         \* NetworkManager: radio, activa, guardadas
  fallos
vars == <<panel, estado, cargando, conectarA, clave, tareas, nm, fallos>>

formulario == <<conectarA, clave>>

(***************************************************************************)
(* What nmcli tells: nothing but the switch while the radio is off; a      *)
(* network in use counts as saved.                                         *)
(***************************************************************************)
LeerWifi(n) ==
  [encendida |-> n.radio,
   actual |-> IF n.radio THEN n.activa ELSE Ninguna,
   guardadas |-> IF n.radio THEN n.guardadas ELSE {}]

Hacer(n, que, red) ==
  CASE que = "leer" -> n
    [] que = "encender" -> [n EXCEPT !.radio = TRUE]
    [] que = "apagar" -> [n EXCEPT !.radio = FALSE, !.activa = Ninguna]
    [] que = "conectar" -> IF n.radio THEN [n EXCEPT !.activa = red, !.guardadas = @ \cup {red}] ELSE n
    [] que = "desconectar" -> [n EXCEPT !.activa = Ninguna]

\* alternar_wifi and conectar_wifi give the error back with a fresh reading,
\* and the switch where it was before the request.
Fallida(n, que) ==
  CASE que = "encender" -> [LeerWifi(n) EXCEPT !.encendida = FALSE]
    [] que = "apagar" -> [LeerWifi(n) EXCEPT !.encendida = TRUE]
    [] OTHER -> LeerWifi(n)

Lanzar(que, red) ==
  /\ Cardinality(tareas) < MaxTareas
  /\ \E i \in 1 .. MaxTareas :
       /\ \A t \in tareas : t.num # i
       /\ \A j \in 1 .. i - 1 : \E t \in tareas : t.num = j
       /\ tareas' = tareas \cup {[num |-> i, que |-> que, red |-> red, leido |-> {}]}
  /\ cargando' = TRUE
  /\ UNCHANGED <<nm, fallos>>

(***************************************************************************)
(* The card.                                                               *)
(***************************************************************************)
AbrirRed ==
  /\ panel # "red"
  /\ panel' = "red"
  /\ Lanzar("leer", Ninguna)
  /\ UNCHANGED <<estado, formulario>>

\* Another card takes its place: the form stays as it was.
AbrirOtro ==
  /\ panel # "otro"
  /\ panel' = "otro"
  /\ UNCHANGED <<estado, cargando, formulario, tareas, nm, fallos>>

Cerrar ==
  /\ panel # "ninguno"
  /\ panel' = "ninguno"
  /\ conectarA' = Ninguna /\ clave' = Ninguna
  /\ UNCHANGED <<estado, cargando, tareas, nm, fallos>>

\* Energia: the menu of the power button closes without the rest.
Energia ==
  /\ panel = "otro"
  /\ panel' = "ninguno"
  /\ UNCHANGED <<estado, cargando, formulario, tareas, nm, fallos>>

WifiAlternar ==
  /\ panel = "red"
  /\ estado' = [estado EXCEPT !.encendida = ~@]
  /\ conectarA' = Ninguna /\ clave' = Ninguna
  /\ Lanzar(IF estado.encendida THEN "apagar" ELSE "encender", Ninguna)
  /\ UNCHANGED panel

WifiRefrescar ==
  /\ panel = "red" /\ estado.encendida
  /\ Lanzar("leer", Ninguna)
  /\ UNCHANGED <<panel, estado, formulario>>

EnLista == panel = "red" /\ ~cargando /\ estado.encendida /\ conectarA = Ninguna
EnFormulario == panel = "red" /\ ~cargando /\ estado.encendida /\ conectarA # Ninguna

WifiElegir(red) ==
  /\ EnLista /\ red # estado.actual
  /\ IF red \notin Abiertas \cup estado.guardadas
     THEN conectarA' = red /\ clave' = Ninguna /\ UNCHANGED <<cargando, tareas, nm, fallos>>
     ELSE clave' = Ninguna /\ Lanzar("conectar", red) /\ UNCHANGED conectarA
  /\ UNCHANGED <<panel, estado>>

WifiClave ==
  /\ EnFormulario
  /\ clave' = conectarA
  /\ UNCHANGED <<panel, estado, cargando, conectarA, tareas, nm, fallos>>

WifiCancelarClave ==
  /\ EnFormulario
  /\ conectarA' = Ninguna /\ clave' = Ninguna
  /\ UNCHANGED <<panel, estado, cargando, tareas, nm, fallos>>

\* Enter in the field sends it even when it is empty.
WifiConectar ==
  /\ EnFormulario
  /\ conectarA' = Ninguna /\ clave' = Ninguna
  /\ Lanzar("conectar", conectarA)
  /\ UNCHANGED <<panel, estado>>

WifiDesconectar ==
  /\ EnLista /\ estado.actual # Ninguna
  /\ Lanzar("desconectar", Ninguna)
  /\ UNCHANGED <<panel, estado, formulario>>

(***************************************************************************)
(* The tasks.                                                              *)
(***************************************************************************)
Ejecutar(t) ==
  /\ t.leido = {}
  /\ \/ /\ nm' = Hacer(nm, t.que, t.red)
        /\ tareas' = (tareas \ {t}) \cup {[t EXCEPT !.leido = {LeerWifi(nm')}]}
        /\ UNCHANGED fallos
     \/ /\ t.que # "leer" /\ fallos < MaxFallos
        /\ fallos' = fallos + 1
        /\ tareas' = (tareas \ {t}) \cup {[t EXCEPT !.leido = {Fallida(nm, t.que)}]}
        /\ UNCHANGED nm
  /\ UNCHANGED <<panel, estado, cargando, formulario>>

WifiEstado(t) ==
  /\ t.leido # {}
  /\ estado' = CHOOSE e \in t.leido : TRUE
  /\ cargando' = FALSE
  /\ tareas' = tareas \ {t}
  /\ UNCHANGED <<panel, formulario, nm, fallos>>

Init ==
  /\ panel = "ninguno"
  /\ estado = [encendida |-> TRUE, actual |-> Ninguna, guardadas |-> {}]
  /\ cargando = FALSE
  /\ conectarA = Ninguna /\ clave = Ninguna
  /\ tareas = {} /\ fallos = 0
  /\ nm \in [radio : {TRUE}, activa : {Ninguna}, guardadas : SUBSET Redes]

Next ==
  \/ AbrirRed
  \/ AbrirOtro
  \/ Cerrar
  \/ Energia
  \/ WifiAlternar
  \/ WifiRefrescar
  \/ \E r \in Redes : WifiElegir(r)
  \/ WifiClave
  \/ WifiCancelarClave
  \/ WifiConectar
  \/ WifiDesconectar
  \/ \E t \in tareas : Ejecutar(t)
  \/ \E t \in tareas : WifiEstado(t)

Spec == Init /\ [][Next]_vars

(***************************************************************************)
(* Properties.                                                             *)
(***************************************************************************)
TypeOK ==
  /\ panel \in Paneles
  /\ estado \in [encendida : BOOLEAN, actual : Redes \cup {Ninguna}, guardadas : SUBSET Redes]
  /\ cargando \in BOOLEAN
  /\ conectarA \in Redes \cup {Ninguna} /\ clave \in Redes \cup {Ninguna}
  /\ nm.activa \in Redes \cup {Ninguna} /\ nm.guardadas \subseteq Redes
  /\ Cardinality(tareas) <= MaxTareas

\* The card never says it is searching with nothing under way: a call that
\* fails, or an answer that comes to a closed card, ends the search too.
BuscaAlgo == cargando => tareas # {}

\* A key belongs to the network whose form is on the screen.
ClaveDeSuRed == clave # Ninguna => clave = conectarA

RedEnOrden == BuscaAlgo /\ ClaveDeSuRed

\* Once nothing is under way, and if no call failed, the card shows what
\* NetworkManager has: true of one task at a time, and of no more.
VistaVeraz ==
  tareas = {} /\ fallos = 0 /\ panel = "red" => estado = LeerWifi(nm)

\* wifi_cargando: a task is under way exactly while the card says so.
BuscaMientras == tareas # {} => cargando
=============================================================================
