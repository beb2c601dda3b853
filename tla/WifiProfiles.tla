---------------------------- MODULE WifiProfiles ----------------------------
(***************************************************************************)
(* The network side of bookos-system (network.rs): what it reads of        *)
(* NetworkManager, and its operations on the saved networks, each of them  *)
(* several calls of D-Bus.  NetworkManager is external: it activates and   *)
(* refuses connections while an operation waits.                           *)
(* One operation of the network at a time: perform holds its lock.         *)
(***************************************************************************)
EXTENDS Naturals, Sequences, FiniteSets

CONSTANTS
  Redes,       \* names of networks
  Claves,      \* passwords
  Buena,       \* function: the password each network accepts
  MaxPerfiles, \* bound: profiles saved at a time
  MaxOps       \* bound: operations asked for

SinClave == "-"
Ninguna == "ninguna"

VARIABLES
  alcance,  \* networks in range
  perfiles, \* profiles of NetworkManager, in its order: network, password, auto
  activa,   \* the active connection: profile and state
  op,       \* the operation in hand: its step and what it has read
  guarda,   \* the passwords of each network when the operation began
  ops
vars == <<alcance, perfiles, activa, op, guarda, ops>>

Perfil(r, c) == [red |-> r, clave |-> c, auto |-> TRUE]
NadaActivo == [red |-> Ninguna, fase |-> "nada"]
SinOp == [que |-> "-", red |-> Ninguna, clave |-> SinClave, paso |-> "-", leido |-> <<>>, quedan |-> {}, auto |-> FALSE]
Libre == op.que = "-"

De(r) == {i \in DOMAIN perfiles : perfiles[i].red = r}
Primero(r) == CHOOSE i \in De(r) : \A j \in De(r) : i <= j
ClavesDe(r) == {perfiles[i].clave : i \in De(r)}

\* The state that is shown: a network in range, saved, and whether by itself.
Guardada(r) == De(r) # {}
Autoconecta(r) == \E i \in De(r) : perfiles[i].auto

(***************************************************************************)
(* The operations.                                                         *)
(***************************************************************************)
Empieza(q, r, c) ==
  /\ Libre /\ ops < MaxOps
  /\ ops' = ops + 1
  /\ op' = [SinOp EXCEPT !.que = q, !.red = r, !.clave = c, !.paso = "empieza"]
  /\ guarda' = [x \in Redes |-> ClavesDe(x)]
  /\ UNCHANGED <<alcance, perfiles, activa>>

Acaba == op' = SinOp

\* WifiConnect: out of range it is refused.
Conectar ==
  /\ op.que = "conecta" /\ op.paso = "empieza"
  /\ IF op.red \notin alcance THEN Acaba
     ELSE op' = [op EXCEPT !.paso = IF De(op.red) = {} THEN "nueva"
                                    ELSE IF op.clave = SinClave THEN "activa" ELSE "lee"]
  /\ UNCHANGED <<alcance, perfiles, activa, guarda, ops>>

\* With a profile and a password, the password goes to the first profile.
LeerPerfil ==
  /\ op.que = "conecta" /\ op.paso = "lee"
  /\ IF De(op.red) = {} THEN Acaba
     ELSE op' = [op EXCEPT !.paso = "escribe", !.leido = <<perfiles[Primero(op.red)]>>]
  /\ UNCHANGED <<alcance, perfiles, activa, guarda, ops>>

Escribir ==
  /\ op.que = "conecta" /\ op.paso = "escribe"
  /\ IF De(op.red) = {} THEN Acaba /\ UNCHANGED perfiles
     ELSE /\ perfiles' = [perfiles EXCEPT ![Primero(op.red)] = [op.leido[1] EXCEPT !.clave = op.clave]]
          /\ op' = [op EXCEPT !.paso = "activa"]
  /\ UNCHANGED <<alcance, activa, guarda, ops>>

Activar ==
  /\ op.que = "conecta" /\ op.paso = "activa"
  /\ IF De(op.red) = {} THEN Acaba /\ UNCHANGED activa
     ELSE /\ activa' = [red |-> op.red, fase |-> "conectando"]
          /\ op' = [op EXCEPT !.paso = "espera"]
  /\ UNCHANGED <<alcance, perfiles, guarda, ops>>

\* AddAndActivateConnection: the profile is saved before it is known to work.
Anadir ==
  /\ op.que = "conecta" /\ op.paso = "nueva" /\ Len(perfiles) < MaxPerfiles
  /\ perfiles' = Append(perfiles, Perfil(op.red, op.clave))
  /\ activa' = [red |-> op.red, fase |-> "conectando"]
  /\ op' = [op EXCEPT !.paso = "espera"]
  /\ UNCHANGED <<alcance, guarda, ops>>

\* The state of the connection is looked at: connected, failed, or 60 s.
Esperar ==
  /\ op.que = "conecta" /\ op.paso = "espera"
  /\ activa.red # op.red \/ activa.fase # "conectando"
  /\ op' = [op EXCEPT !.paso = IF activa = [red |-> op.red, fase |-> "conectada"] THEN "bien" ELSE "mal"]
  /\ UNCHANGED <<alcance, perfiles, activa, guarda, ops>>

Vencer ==
  /\ op.que = "conecta" /\ op.paso = "espera"
  /\ activa' = IF activa.red = op.red THEN NadaActivo ELSE activa
  /\ op' = [op EXCEPT !.paso = "mal"]
  /\ UNCHANGED <<alcance, perfiles, guarda, ops>>

Contestar ==
  /\ op.paso \in {"bien", "mal"}
  /\ Acaba
  /\ UNCHANGED <<alcance, perfiles, activa, guarda, ops>>

\* WifiForget: every profile of the network, one by one, of those listed.
Listar ==
  /\ op.que \in {"olvida", "auto"} /\ op.paso = "empieza"
  /\ op' = [op EXCEPT !.paso = IF De(op.red) = {} THEN (IF op.que = "olvida" THEN "bien" ELSE "mal") ELSE "uno",
                      !.quedan = De(op.red), !.leido = perfiles, !.auto = ~Autoconecta(op.red)]
  /\ UNCHANGED <<alcance, perfiles, activa, guarda, ops>>

\* A place of the list as it was read, in the list as it is.
Sigue(i) == i \in DOMAIN perfiles /\ perfiles[i].red = op.red
Sin(i) == [j \in 1..(Len(perfiles) - 1) |-> perfiles[IF j < i THEN j ELSE j + 1]]

\* SLIP: only the first profile of the network is forgotten.
BorrarElPrimero ==
  /\ op.que = "olvida" /\ op.paso = "uno"
  /\ LET i == CHOOSE i \in op.quedan : \A j \in op.quedan : i <= j
     IN IF Sigue(i)
        THEN perfiles' = Sin(i) /\ op' = [op EXCEPT !.paso = "bien"] /\ UNCHANGED activa
        ELSE op' = [op EXCEPT !.paso = "mal"] /\ UNCHANGED <<perfiles, activa>>
  /\ UNCHANGED <<alcance, guarda, ops>>

BorrarUno ==
  /\ op.que = "olvida" /\ op.paso = "uno"
  /\ LET i == CHOOSE i \in op.quedan : \A j \in op.quedan : i >= j
     IN IF Sigue(i)
        THEN /\ perfiles' = Sin(i)
             /\ activa' = IF activa.red = op.red /\ De(op.red) = {i} THEN NadaActivo ELSE activa
             /\ op' = [op EXCEPT !.quedan = @ \ {i}, !.paso = IF op.quedan = {i} THEN "bien" ELSE "uno"]
        ELSE op' = [op EXCEPT !.paso = "mal"] /\ UNCHANGED <<perfiles, activa>>
  /\ UNCHANGED <<alcance, guarda, ops>>

\* WifiAutoconnect: what was read goes back, with the one field changed.
Actualizar ==
  /\ op.que = "auto" /\ op.paso = "uno"
  /\ LET i == CHOOSE i \in op.quedan : \A j \in op.quedan : i <= j
     IN IF Sigue(i)
        THEN /\ perfiles' = [perfiles EXCEPT ![i] = [op.leido[i] EXCEPT !.auto = op.auto, !.clave = perfiles[i].clave]]
             /\ op' = [op EXCEPT !.quedan = @ \ {i}, !.paso = IF op.quedan = {i} THEN "bien" ELSE "uno"]
        ELSE op' = [op EXCEPT !.paso = "mal"] /\ UNCHANGED perfiles
  /\ UNCHANGED <<alcance, activa, guarda, ops>>

\* NetworkDisconnect.
Desconectar ==
  /\ op.que = "corta" /\ op.paso = "empieza"
  /\ activa' = NadaActivo
  /\ op' = [op EXCEPT !.paso = "bien"]
  /\ UNCHANGED <<alcance, perfiles, guarda, ops>>

(***************************************************************************)
(* NetworkManager and the air.                                             *)
(***************************************************************************)
Resolver ==
  /\ activa.fase = "conectando"
  /\ activa' = IF activa.red \in alcance /\ \E i \in De(activa.red) : perfiles[i].clave = Buena[activa.red]
               THEN [activa EXCEPT !.fase = "conectada"] ELSE [activa EXCEPT !.fase = "fallida"]
  /\ UNCHANGED <<alcance, perfiles, op, guarda, ops>>

Aire(r) ==
  /\ alcance' = IF r \in alcance THEN alcance \ {r} ELSE alcance \cup {r}
  /\ activa' = IF activa.red = r /\ r \in alcance THEN NadaActivo ELSE activa
  /\ UNCHANGED <<perfiles, op, guarda, ops>>

Init ==
  /\ alcance \in SUBSET Redes
  /\ \E r \in Redes : perfiles \in {<<>>, <<Perfil(r, Buena[r])>>, <<Perfil(r, Buena[r]), Perfil(r, SinClave)>>}
  /\ activa = NadaActivo /\ op = SinOp /\ ops = 0
  /\ guarda = [r \in Redes |-> {}]

Next ==
  \/ \E r \in Redes, c \in Claves \cup {SinClave} : Empieza("conecta", r, c)
  \/ \E q \in {"olvida", "auto", "corta"}, r \in Redes : Empieza(q, r, SinClave)
  \/ Conectar
  \/ LeerPerfil
  \/ Escribir
  \/ Activar
  \/ Anadir
  \/ Esperar
  \/ Vencer
  \/ Contestar
  \/ Listar
  \/ BorrarUno
  \/ Actualizar
  \/ Desconectar
  \/ Resolver
  \/ \E r \in Redes : Aire(r)

Spec == Init /\ [][Next]_vars

(***************************************************************************)
(* Properties.                                                             *)
(***************************************************************************)
\* A network said to be forgotten is not saved any more.
OlvidadaDelTodo == op.que = "olvida" /\ op.paso = "bien" => ~Guardada(op.red)

\* An operation on a network leaves the passwords of the others alone.
SoloLaSuya == op.que # "-" => \A r \in Redes \ {op.red} : ClavesDe(r) = guarda[r]

\* Asked to change whether it connects by itself, it does.
AutoCambiada == op.que = "auto" /\ op.paso = "bien" => Autoconecta(op.red) = op.auto

\* A connection that failed leaves the password that was saved.
ClaveQueFuncionaba ==
  op.que = "conecta" /\ op.paso = "mal" /\ Buena[op.red] \in guarda[op.red] => Buena[op.red] \in ClavesDe(op.red)

RedesEnOrden == OlvidadaDelTodo /\ SoloLaSuya /\ AutoCambiada
=============================================================================
