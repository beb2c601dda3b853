--------------------------------- MODULE Keys ---------------------------------
(***************************************************************************)
(* A key of the keyboard on its way to a window (bookos-comp, teclas.rs    *)
(* and input.rs): the translator of teclas.conf, xkb, the filter of the    *)
(* compositor -- the capture layer, the switcher, the shortcuts, the lock, *)
(* the open card -- and the client with the focus.                         *)
(*                                                                         *)
(* Every key goes down and comes up, and something may happen in between   *)
(* that decides differently about the second half: the map is read again,  *)
(* the screen locks, a layer opens, the chord of the Copilot key completes.*)
(* Whoever has the focus saw exactly reenviadas pressed: set_focus hands   *)
(* them to the one that enters, and the one that leaves forgets its own.   *)
(***************************************************************************)
EXTENDS Naturals, FiniteSets, Sequences

CONSTANTS Teclas,     \* the keys of this keyboard
          Mapas,      \* what teclas.conf may say: sets of [de, a, que]
          MaxAbajo,   \* keys held at once
          Repite      \* the F23 may come again before Meta and Shift are up

VARIABLES abajo,       \* what the fingers hold
          teclas,      \* the map in force
          capturaTecla,\* the app of the keys waits for one
          traductor,   \* fisicas, pulsadas and tragar
          mesa         \* xkb, the keys forwarded, and what filters them

vars == <<abajo, teclas, capturaTecla, traductor, mesa>>

Modificadores == {"meta", "shift", "alt"}

-----------------------------------------------------------------------------
(* The translator.                                                         *)

SwapRemove(s, i) == [j \in 1 .. Len(s) - 1 |-> IF j = i THEN s[Len(s)] ELSE s[j]]
Primera(s, P(_)) == CHOOSE i \in DOMAIN s : P(s[i]) /\ \A j \in 1 .. i - 1 : ~P(s[j])

EsCopilot(fisicas, k) == k = "f23" /\ {"meta", "shift"} \subseteq fisicas

Evento(k, pulsada) == [que |-> "tecla", k |-> k, pulsada |-> pulsada]
Funcion(a) == [que |-> "accion", k |-> a, pulsada |-> TRUE]

(* A press: what it becomes, and what its release will have to be.         *)
TraducirPulsada(t, k) ==
  LET fisicas == t.fisicas \cup {k}
      copilot == EsCopilot(fisicas, k)
      suyo == {r \in teclas : r.de = IF copilot THEN "copilot" ELSE k} IN
  IF suyo = {}
  THEN [t |-> [t EXCEPT !.fisicas = fisicas], ev |-> <<Evento(k, TRUE)>>]
  ELSE LET r == CHOOSE r \in suyo : TRUE
           destino == IF r.que = "tecla" THEN r.a ELSE "nada" IN
       [t |-> [fisicas |-> fisicas,
               pulsadas |-> Append(t.pulsadas, <<k, destino>>),
               tragar |-> IF copilot THEN t.tragar \o <<"meta", "shift">> ELSE t.tragar],
        ev |-> (IF copilot THEN <<Evento("meta", FALSE), Evento("shift", FALSE)>> ELSE <<>>)
               \o CASE r.que = "tecla" -> <<Evento(r.a, TRUE)>>
                    [] r.que = "accion" -> <<Funcion(r.a)>>
                    [] r.que = "nada" -> <<>>]

(* A release: first the ones nobody must see, then what was pressed for it *)
(* when it went down, whatever the map says now.                           *)
TraducirSuelta(t, k) ==
  LET fuera == [t EXCEPT !.fisicas = @ \ {k}] IN
  IF \E i \in DOMAIN t.tragar : t.tragar[i] = k
  THEN [t |-> [fuera EXCEPT !.tragar = SwapRemove(@, Primera(@, LAMBDA x : x = k))], ev |-> <<>>]
  ELSE IF \E i \in DOMAIN t.pulsadas : t.pulsadas[i][1] = k
  THEN LET i == Primera(t.pulsadas, LAMBDA x : x[1] = k)
           destino == t.pulsadas[i][2] IN
       [t |-> [fuera EXCEPT !.pulsadas = SwapRemove(@, i)],
        ev |-> IF destino = "nada" THEN <<>> ELSE <<Evento(destino, FALSE)>>]
  ELSE [t |-> fuera, ev |-> <<Evento(k, FALSE)>>]

SueltaPorElMapa(t, k) ==                                               \* a slip
  LET suyo == {r \in teclas : r.de = k /\ r.que = "tecla"} IN
  IF \E i \in DOMAIN t.tragar : t.tragar[i] = k THEN TraducirSuelta(t, k)
  ELSE [t |-> [TraducirSuelta(t, k).t EXCEPT !.tragar = t.tragar],
        ev |-> <<Evento(IF suyo = {} THEN k ELSE (CHOOSE r \in suyo : TRUE).a, FALSE)>>]
Suelta(t, k) == TraducirSuelta(t, k)

-----------------------------------------------------------------------------
(* What the compositor does with a key that is a shortcut.                 *)

SinConmutador(m) == [m EXCEPT !.modo = "no", !.pegado = FALSE]

(* bloquear: what was open is closed first.                                *)
Cerrada(m) == [SinConmutador(m) EXCEPT !.tarjeta = "no", !.capa = FALSE]
Bloqueado(m) == IF m.bloqueada THEN m ELSE [Cerrada(m) EXCEPT !.bloqueada = TRUE]

(* Another list in place of the one that is open; the same one moves on.   *)
Conmutado(m, modo) == [m EXCEPT !.modo = modo]

(* alternar_launchpad closes whatever card is open; the search and the     *)
(* power dialog take its place.                                            *)
Alternada(m, cual) ==
  [m EXCEPT !.tarjeta = CASE m.tarjeta = cual -> "no"
                          [] cual = "launchpad" /\ m.tarjeta # "no" -> "no"
                          [] OTHER -> cual]

Ejecutar(m, accion) ==
  CASE accion = "captura" -> [m EXCEPT !.capa = ~@]
    [] accion = "bloquear" -> Bloqueado(m)
    [] accion \in {"launchpad", "buscador", "apagar"} -> Alternada(m, accion)
    [] accion \in {"aplicaciones", "ventanas"} -> Conmutado(m, accion)
    [] OTHER -> m

RemapeadaSinMirar(m, accion) == Ejecutar([m EXCEPT !.sola = FALSE], accion)   \* a slip
(* The function of a remapped key; under the lock, nothing.                *)
Remapeada(m, accion) ==
  IF m.bloqueada THEN m ELSE Ejecutar([m EXCEPT !.sola = FALSE], accion)

(* resolver, for the keys of here: what it makes of a press.               *)
Resolver(xkb, k) ==
  LET meta == "meta" \in xkb
      alt == "alt" \in xkb IN
  CASE k = "esc" /\ meta -> "apagar"
    [] k = "tab" /\ alt /\ ~meta -> "aplicaciones"
    [] k = "tab" /\ meta /\ ~alt -> "ventanas"
    [] k = "letra" /\ meta -> "bloquear"                     \* Meta+L
    [] k = "impr" -> "captura"
    [] OTHER -> "ninguna"

-----------------------------------------------------------------------------
(* The filter of kbd.input: xkb has the key already.                       *)

(* A card keeps the keys it understands, and the launchpad and the search  *)
(* write the letters.                                                      *)
Entiende(m, k) ==
  CASE m.tarjeta \in {"launchpad", "buscador"} -> k \in {"esc", "letra", "tab"}
    [] m.tarjeta = "apagar" -> k = "esc"
    [] OTHER -> FALSE

Reenviada(m, k) == [m EXCEPT !.reenviadas = @ \cup {k}]

FiltrarPulsada(m, k) ==
  LET solo == k = "meta" /\ {"alt", "shift"} \cap m.xkb = {}
      n == IF m.capa THEN m ELSE [m EXCEPT !.sola = solo]
      accion == Resolver(m.xkb, k) IN
  CASE m.capa -> [n EXCEPT !.capa = k # "esc"]
    [] ~m.capa /\ m.modo # "no" /\ k = "esc" -> SinConmutador(n)
    [] OTHER ->
       IF accion # "ninguna"
       THEN IF m.bloqueada \/ (m.tarjeta = "buscador" /\ accion # "buscador")
            THEN n ELSE Ejecutar(n, accion)
       ELSE IF m.modo # "no" \/ m.bloqueada THEN n
       ELSE IF Entiende(m, k) THEN [n EXCEPT !.tarjeta = IF k = "esc" THEN "no" ELSE @]
       ELSE IF m.tarjeta = "buscador" /\ k \notin Modificadores \cup {"f23"} THEN n
       ELSE Reenviada(n, k)

(* The list is decided when its key is up, and Meta alone opens the        *)
(* launchpad: both after the release went out to the client.               *)
Resuelve(m) ==
  /\ m.modo # "no" /\ ~m.pegado
  /\ (IF m.modo = "aplicaciones" THEN "alt" ELSE "meta") \notin m.xkb

FiltrarSuelta(m, k) ==
  IF m.capa \/ m.bloqueada THEN m
  ELSE LET abre == k = "meta" /\ m.sola
           n == [m EXCEPT !.reenviadas = @ \ {k}, !.sola = @ /\ k # "meta"]
           fin == IF Resuelve(m) THEN SinConmutador(n) ELSE n IN
       IF abre THEN Alternada(fin, "launchpad") ELSE fin

Tecla(m, k, pulsada) ==
  IF pulsada THEN FiltrarPulsada([m EXCEPT !.xkb = @ \cup {k}], k)
  ELSE FiltrarSuelta([m EXCEPT !.xkb = @ \ {k}], k)

Uno(m, ev) == IF ev.que = "accion" THEN Remapeada(m, ev.k) ELSE Tecla(m, ev.k, ev.pulsada)
Todos(m, evs) ==
  LET f[i \in 0 .. Len(evs)] == IF i = 0 THEN m ELSE Uno(f[i - 1], evs[i]) IN f[Len(evs)]

-----------------------------------------------------------------------------
(* InputEvent::Keyboard.                                                   *)

(* The app of the keys keeps the press, and its release must not come out. *)
Capturar(k) ==
  /\ capturaTecla /\ k \notin Modificadores /\ ~mesa.bloqueada
  /\ capturaTecla' = FALSE
  /\ traductor' = [traductor EXCEPT !.tragar = Append(@, k)]
  /\ UNCHANGED mesa

Pulsar(k) ==
  /\ k \notin abajo /\ Cardinality(abajo) < MaxAbajo
  /\ k = "f23" /\ ~Repite => \A i \in DOMAIN traductor.tragar : traductor.tragar[i] \notin {"meta", "shift"}
  /\ abajo' = abajo \cup {k}
  /\ \/ Capturar(k)
     \/ /\ ~(capturaTecla /\ k \notin Modificadores /\ ~mesa.bloqueada)
        /\ LET x == TraducirPulsada(traductor, k) IN
             traductor' = x.t /\ mesa' = Todos(mesa, x.ev)
        /\ UNCHANGED capturaTecla
  /\ UNCHANGED teclas

Soltar(k) ==
  /\ k \in abajo
  /\ abajo' = abajo \ {k}
  /\ LET x == Suelta(traductor, k) IN traductor' = x.t /\ mesa' = Todos(mesa, x.ev)
  /\ UNCHANGED <<teclas, capturaTecla>>

-----------------------------------------------------------------------------
(* What happens between a press and its release.                           *)

(* Aviso::CapturarTecla, from the app.                                     *)
CapturarTecla(armar) ==
  /\ capturaTecla' = armar
  /\ UNCHANGED <<abajo, teclas, traductor, mesa>>

(* The app saved another map: Reload("keys").                              *)
Recargar(mapa) ==
  /\ teclas' = mapa
  /\ UNCHANGED <<abajo, capturaTecla, traductor, mesa>>

De(m) == mesa' = m /\ UNCHANGED <<abajo, teclas, capturaTecla, traductor>>

(* The lid, the idle timer, the card of the power button.                  *)
Bloquear == ~mesa.bloqueada /\ De(Bloqueado(mesa))
Desbloquear == mesa.bloqueada /\ De([mesa EXCEPT !.bloqueada = FALSE])

(* Three fingers up: the list of the windows stays until one is chosen.    *)
Exponer == ~mesa.bloqueada /\ mesa.modo = "no" /\ De([mesa EXCEPT !.modo = "ventanas", !.pegado = TRUE])

(* A click: Meta was a modifier; it decides the list or leaves it, and     *)
(* beside a card closes it.                                                *)
Clic ==
  LET m == [mesa EXCEPT !.sola = FALSE] IN
  De(IF m.bloqueada \/ m.capa THEN m
     ELSE IF m.modo # "no" THEN SinConmutador(m)
     ELSE [m EXCEPT !.tarjeta = "no"])

(* A window is closed: its cell may be one of the list.                    *)
VentanaCerrada == mesa.modo # "no" /\ De(SinConmutador(mesa))

Init ==
  /\ abajo = {} /\ capturaTecla = FALSE
  /\ teclas \in Mapas
  /\ traductor = [fisicas |-> {}, pulsadas |-> <<>>, tragar |-> <<>>]
  /\ mesa = [xkb |-> {}, reenviadas |-> {}, bloqueada |-> FALSE, capa |-> FALSE,
             modo |-> "no", pegado |-> FALSE, sola |-> FALSE, tarjeta |-> "no"]

Next ==
  \/ \E k \in Teclas : Pulsar(k) \/ Soltar(k)
  \/ \E b \in BOOLEAN : CapturarTecla(b)
  \/ \E mapa \in Mapas : Recargar(mapa)
  \/ Bloquear \/ Desbloquear \/ Exponer \/ Clic \/ VentanaCerrada

Spec == Init /\ [][Next]_vars

-----------------------------------------------------------------------------
(* "Lo que hay que recordar entre eventos para que ninguna tecla se quede  *)
(* trabada" (teclas.rs): with the fingers off the keyboard the translator  *)
(* owes no release and xkb holds nothing, whatever was remapped, captured  *)
(* or read again with keys down.                                           *)
NingunaTrabada ==
  abajo = {} => /\ traductor = [fisicas |-> {}, pulsadas |-> <<>>, tragar |-> <<>>]
                /\ mesa.xkb = {}

(* "Ninguna tecla llega a los clientes, se entienda o no: es la propiedad  *)
(* que define un bloqueo" (input.rs); nor does one open, over the lock, the*)
(* list, the layer or a card, remapped or not.                             *)
PasoCiego ==
  mesa'.bloqueada =>
    /\ mesa'.reenviadas \subseteq mesa.reenviadas
    /\ mesa'.modo = "no" /\ ~mesa'.capa /\ mesa'.tarjeta = "no"
CiegoBajoCandado == [][PasoCiego]_vars

(* "interceptar tambien la suelta le dejaria la tecla trabada al cliente"  *)
(* (input.rs): with no key down, no client believes one is.                *)
ClienteSinTrabar == abajo = {} /\ ~mesa.bloqueada => mesa.reenviadas = {}

(* "eliges mientras mantienes la tecla y confirmas al soltarla", "y no una *)
(* lista que se queda abierta" (input.rs): the list of Alt+Tab, with Alt.  *)
ListaDeAltConAlt == mesa.modo = "aplicaciones" => "alt" \in mesa.xkb

-----------------------------------------------------------------------------
(* What the keymaps are.                                                   *)

(* A line of teclas.conf: what a key becomes is one of three things, and no*)
(* key is called like the absence of one.                                  *)
MapasEscritos ==
  \A mapa \in Mapas : \A r \in mapa :
    r.que \in {"tecla", "accion", "nada"} /\ (r.que = "tecla" => r.a # "nada")

(* Nobody gives the Copilot key something to do and Meta or Shift too: the *)
(* chord lets go of those two itself, and not of what they were made into. *)
ConCopilot == \E mapa \in Mapas : \E r \in mapa : r.de = "copilot"
AcordeIntacto == ConCopilot => \A mapa \in Mapas : \A r \in mapa : r.de \notin {"meta", "shift"}
=============================================================================
