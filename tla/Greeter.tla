------------------------------ MODULE Greeter ------------------------------
(***************************************************************************)
(* The login screen and its conversation with greetd: bookos-greeter       *)
(* (main.rs and ipc.rs).  The screen sends requests to the thread that     *)
(* owns the socket, one at a time; each answer comes back as a message     *)
(* (Recibido) that carries the operation it answers, and nothing takes a   *)
(* request back once it is sent.  greetd and PAM are external: a           *)
(* conversation is a script of what PAM says, "ok" and "no" being the two  *)
(* ends.  A text is modelled by the account it was typed for.  The message *)
(* of an error, the lens of the list and the layout of the keyboard are    *)
(* left out; the card of the corner is only open or closed here (its Wi-Fi *)
(* is GreeterWifi).                                                        *)
(***************************************************************************)
EXTENDS Naturals, Sequences, SequencesExt

CONSTANTS
  Personas,        \* the accounts of the list, in order
  Otras,           \* the names that may be typed by hand
  Conversaciones,  \* the scripts of PAM
  FondosRotos,     \* whether a wallpaper may fail to load
  CancelaAvisos,   \* whether somebody cancels under a notice of PAM
  MaxCola,         \* bound: requests without an answer
  MaxFallos        \* bound: exchanges that break

Nadie == "nadie"
Cuentas == Range(Personas) \cup Otras
Filas == 1 .. Len(Personas) + 1         \* the last one is "another account"
Ocupaciones == {"autenticar", "iniciar", "cancelar"}
SinConversacion == [de |-> Nadie, quedan |-> <<>>]

VARIABLES
  estado,      \* Estado: "usuario", "pregunta", "aviso", an operation, or "fuera"
  usuario,     \* the account of the attempt
  manual,      \* the name is typed and not chosen
  senalada,    \* the row pointed at
  respuesta,   \* what is typed under the question
  respondido,  \* PAM has had an answer in this conversation
  panel,       \* a card of the corner is open
  cola,        \* the requests the thread has not taken yet
  llegadas,    \* the answers the screen has not seen yet
  conv,        \* greetd's conversation
  sesion,      \* the account greetd starts when the greeter leaves
  fallos,
  fondo        \* de (whose look), pedido, cargando and visto: the wallpaper
vars == <<estado, usuario, manual, senalada, respuesta, respondido, panel, cola, llegadas, conv, sesion, fallos, fondo>>

pantalla == <<estado, usuario, manual, senalada, respuesta, respondido, panel>>
greetd == <<conv, sesion, fallos>>

Pendientes == Len(cola) + Len(llegadas)
Cabe == Pendientes < MaxCola
EnLista == estado = "usuario" /\ ~manual

(***************************************************************************)
(* What the screen sends.                                                  *)
(***************************************************************************)
Peticion(op, que, de) == [op |-> op, que |-> que, de |-> de]
Envia(q, peticion) == cola' = Append(q, peticion) /\ estado' = peticion.op

Autenticar(quien) == respondido' = FALSE /\ Envia(cola, Peticion("autenticar", "crear", quien))

\* pedir_fondo: nothing when it is what was asked for last.
ConFondo(f) == IF f.pedido = f.de THEN f ELSE [f EXCEPT !.pedido = f.de, !.cargando = @ \cup {f.de}]

Vestido(f, i) == ConFondo([f EXCEPT !.de = i])

ElegirFila(i) ==
  IF i > Len(Personas)
  THEN /\ manual' = TRUE
       /\ usuario' = Nadie
       /\ UNCHANGED <<estado, senalada, respondido, cola, fondo>>
  ELSE /\ usuario' = Personas[i]
       /\ senalada' = i
       /\ fondo' = Vestido(fondo, i)
       /\ Autenticar(Personas[i])
       /\ UNCHANGED manual

(***************************************************************************)
(* The hands of whoever logs in.                                           *)
(***************************************************************************)
Elegir(i) ==
  /\ EnLista /\ Cabe
  /\ ElegirFila(i)
  /\ UNCHANGED <<respuesta, panel, llegadas, greetd>>

\* The arrows move by one and stop at the ends; the pointer goes to any row.
Mover(i) ==
  /\ EnLista
  /\ senalada' = i
  /\ UNCHANGED <<estado, usuario, manual, respuesta, respondido, panel, cola, llegadas, greetd, fondo>>

EscribirUsuario(quien) ==
  /\ estado = "usuario" /\ manual
  /\ usuario' = quien
  /\ UNCHANGED <<estado, manual, senalada, respuesta, respondido, panel, cola, llegadas, greetd, fondo>>

EscribirRespuesta ==
  /\ estado = "pregunta"
  /\ respuesta' = usuario
  /\ UNCHANGED <<estado, usuario, manual, senalada, respondido, panel, cola, llegadas, greetd, fondo>>

Continuar ==
  /\ Cabe
  /\ \/ EnLista /\ ElegirFila(senalada) /\ UNCHANGED respuesta
     \/ /\ estado = "usuario" /\ manual /\ usuario # Nadie
        /\ Autenticar(usuario)
        /\ UNCHANGED <<usuario, manual, senalada, respuesta, fondo>>
     \/ /\ estado = "pregunta"
        /\ respondido' = TRUE
        /\ respuesta' = Nadie
        /\ Envia(cola, Peticion("autenticar", "contestar", respuesta))
        /\ UNCHANGED <<usuario, manual, senalada, fondo>>
  /\ UNCHANGED <<panel, llegadas, greetd>>

\* Esc, or a click on who one is.
Cancelar ==
  \/ /\ panel
     /\ panel' = FALSE
     /\ UNCHANGED <<estado, usuario, manual, senalada, respuesta, respondido, cola, llegadas, greetd, fondo>>
  \/ /\ ~panel /\ Cabe
     /\ estado = "pregunta" \/ (estado = "aviso" /\ CancelaAvisos)
     /\ respuesta' = Nadie
     /\ Envia(cola, Peticion("cancelar", "cancelar", Nadie))
     /\ UNCHANGED <<usuario, manual, senalada, respondido, panel, llegadas, greetd, fondo>>
  \/ /\ ~panel /\ estado = "usuario" /\ manual
     /\ manual' = FALSE
     /\ UNCHANGED <<estado, usuario, senalada, respuesta, respondido, panel, cola, llegadas, greetd, fondo>>

AbrirPanel ==
  /\ panel' = ~panel
  /\ UNCHANGED <<estado, usuario, manual, senalada, respuesta, respondido, cola, llegadas, greetd, fondo>>

\* The first size of the window asks for the first wallpaper.
Pantalla ==
  /\ fondo' = ConFondo(fondo)
  /\ UNCHANGED <<pantalla, cola, llegadas, greetd>>

\* A wallpaper that is not the last one asked for is dropped.
FondoCargado(i, bien) ==
  /\ i \in fondo.cargando
  /\ bien \/ FondosRotos
  /\ fondo' = [fondo EXCEPT !.cargando = @ \ {i},
                            !.visto = IF bien /\ fondo.pedido = i THEN i ELSE @]
  /\ UNCHANGED <<pantalla, cola, llegadas, greetd>>

(***************************************************************************)
(* The thread and greetd.  CreateSession cancels first.                    *)
(***************************************************************************)
Dice(quedan) ==
  CASE quedan = <<>> -> "rechazo"
    [] Head(quedan) = "secreta" -> "pregunta"
    [] Head(quedan) = "aviso" -> "aviso"
    [] Head(quedan) = "ok" -> "confirmado"
    [] Head(quedan) = "no" -> "rechazo"

Contestada(c) == IF c.quedan = <<>> \/ Head(c.quedan) = "ok" THEN c ELSE [c EXCEPT !.quedan = Tail(@)]
Cerrada(c) == IF Dice(c.quedan) = "rechazo" THEN SinConversacion ELSE c

Lista(c) == c.quedan # <<>> /\ Head(c.quedan) = "ok"

\* Every [conversation, session, answer] that greetd may give to p.
Resultados(p) ==
  CASE p.que = "crear" ->
         {[c |-> Cerrada([de |-> p.de, quedan |-> g]), s |-> sesion, r |-> Dice(g)] : g \in Conversaciones}
    [] p.que = "contestar" ->
         {[c |-> Cerrada(Contestada(conv)), s |-> sesion,
           r |-> IF Lista(conv) THEN "rechazo" ELSE Dice(Contestada(conv).quedan)]}
    [] p.que = "iniciar" ->
         {[c |-> conv, s |-> sesion, r |-> "rechazo"]}
           \cup (IF Lista(conv) THEN {[c |-> SinConversacion, s |-> conv.de, r |-> "confirmado"]} ELSE {})
    [] p.que = "cancelar" -> {[c |-> SinConversacion, s |-> sesion, r |-> "confirmado"]}

Atender ==
  /\ cola # <<>>
  /\ \E x \in Resultados(Head(cola)) :
       /\ conv' = x.c
       /\ sesion' = x.s
       /\ llegadas' = Append(llegadas, [op |-> Head(cola).op, res |-> x.r])
  /\ cola' = Tail(cola)
  /\ UNCHANGED <<pantalla, fallos, fondo>>

\* No connection, or no answer in the 120 seconds of the socket: what greetd
\* did of it is not known, and the socket is dropped.
Perder ==
  /\ cola # <<>> /\ fallos < MaxFallos
  /\ fallos' = fallos + 1
  /\ \/ UNCHANGED <<conv, sesion>>
     \/ \E x \in Resultados(Head(cola)) : conv' = x.c /\ sesion' = x.s
  /\ llegadas' = Append(llegadas, [op |-> Head(cola).op, res |-> "error"])
  /\ cola' = Tail(cola)
  /\ UNCHANGED <<pantalla, fondo>>

\* A notice of PAM takes an empty answer, and the conversation goes on.
AvisadaSinContestar == estado' = "aviso" /\ UNCHANGED cola     \* a slip: PAM is left waiting
Avisada == /\ cola' = Append(cola, Peticion("autenticar", "contestar", Nadie))
           /\ estado' = "aviso"

Volver == estado' = "usuario" /\ UNCHANGED <<cola, respondido>>

\* Recibido.  A refusal after an answer is a wrong password, and asks again
\* at once for the account on the screen; one before it gives up.
Recibir ==
  /\ llegadas # <<>>
  /\ llegadas' = Tail(llegadas)
  /\ respuesta' = Nadie
  /\ LET op == Head(llegadas).op
         res == Head(llegadas).res
     IN \/ res = "confirmado" /\ op = "autenticar"
           /\ Envia(cola, Peticion("iniciar", "iniciar", Nadie)) /\ UNCHANGED respondido
        \/ res = "confirmado" /\ op = "iniciar" /\ estado' = "fuera" /\ UNCHANGED <<cola, respondido>>
        \/ res = "confirmado" /\ op = "cancelar" /\ Volver
        \/ res = "pregunta" /\ estado' = "pregunta" /\ UNCHANGED <<cola, respondido>>
        \/ res = "aviso" /\ Avisada /\ UNCHANGED respondido
        \/ res = "rechazo" /\ respondido /\ Autenticar(usuario)
        \/ (res = "error" \/ (res = "rechazo" /\ ~respondido)) /\ Volver
  /\ UNCHANGED <<usuario, manual, senalada, panel, greetd, fondo>>

Inicial == [de |-> 1, pedido |-> 0, cargando |-> {}, visto |-> 0]

\* With a single account its conversation begins at once.
Init ==
  /\ manual = (Personas = <<>>) /\ senalada = 1
  /\ respuesta = Nadie /\ respondido = FALSE /\ panel = FALSE
  /\ llegadas = <<>> /\ conv = SinConversacion /\ sesion = Nadie /\ fallos = 0
  /\ fondo = Inicial
  /\ IF Len(Personas) = 1
     THEN /\ usuario = Personas[1] /\ estado = "autenticar"
          /\ cola = <<Peticion("autenticar", "crear", Personas[1])>>
     ELSE usuario = Nadie /\ estado = "usuario" /\ cola = <<>>

Next ==
  estado # "fuera" /\
  \/ \E i \in Filas : Elegir(i) \/ Mover(i)
  \/ \E c \in Cuentas : EscribirUsuario(c)
  \/ EscribirRespuesta
  \/ Continuar
  \/ Cancelar
  \/ AbrirPanel
  \/ Pantalla
  \/ \E i \in fondo.cargando, bien \in BOOLEAN : FondoCargado(i, bien)
  \/ Atender
  \/ Perder
  \/ Recibir

Spec == Init /\ [][Next]_vars

(***************************************************************************)
(* Properties.                                                             *)
(***************************************************************************)
Esperas == {"aviso"} \cup Ocupaciones

TypeOK ==
  /\ estado \in {"usuario", "pregunta", "fuera"} \cup Esperas
  /\ usuario \in Cuentas \cup {Nadie} /\ respuesta \in Cuentas \cup {Nadie}
  /\ manual \in BOOLEAN /\ respondido \in BOOLEAN /\ panel \in BOOLEAN
  /\ senalada \in Filas
  /\ Pendientes <= MaxCola
  /\ conv.de \in Cuentas \cup {Nadie} /\ sesion \in Cuentas \cup {Nadie}
  /\ fondo.cargando \subseteq Filas

\* While the screen takes no key, whatever it waits for is still to come:
\* no broken exchange and no late answer leaves it waiting for nothing.
NadieColgado == estado \in Esperas => Pendientes > 0

\* The session that greetd is about to be asked for is the one of the
\* account on the screen, and nobody has cancelled it.
SesionDeQuienEligio ==
  cola # <<>> /\ Head(cola).que = "iniciar" /\ Lista(conv) =>
    conv.de = usuario /\ estado = "iniciar"

\* A password typed for one account never reaches the conversation of another.
RespuestaASuCuenta ==
  cola # <<>> /\ Head(cola).que = "contestar" /\ Head(cola).de # Nadie /\ conv # SinConversacion =>
    Head(cola).de = conv.de

\* The wallpaper that stays is the one of the account that dresses the screen.
FondoDeQuienViste == fondo.cargando = {} /\ fondo.pedido # 0 => fondo.visto = fondo.de

AccesoEnOrden ==
  NadieColgado /\ SesionDeQuienEligio /\ RespuestaASuCuenta /\ FondoDeQuienViste

\* "cancela_pam_antes_de_permitir_cambiar_de_usuario" (tests.rs): the list
\* comes back with nothing of the cancelled conversation still to arrive.
CanceladaSinRestos == estado = "usuario" => Pendientes = 0
=============================================================================
