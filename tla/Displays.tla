------------------------------ MODULE Displays ------------------------------
(***************************************************************************)
(* The displays of the session: the request, its validation, the file, and *)
(* what puts it on the hardware and takes it back (bookos-comp,            *)
(* pantallas.rs, ajustes.rs redetectar, backend/udev.rs crear_salidas and  *)
(* aplicar_en_kms).                                                        *)
(*                                                                         *)
(* The connectors change when they want; the compositor hears of it later. *)
(* KMS may refuse an output when the ones before it are already lit.       *)
(*                                                                         *)
(* A monitor is known by its EDID and has one mode: what the properties    *)
(* tell apart is where each one is, which is lit and which is the primary. *)
(***************************************************************************)
EXTENDS Integers, SequencesExt

CONSTANTS Pantallas,     \* the monitors there may be
          Orden,         \* the connectors, in the order of the kernel
          Ancho, Alto,   \* logical size of each monitor
          Disposiciones, \* bound: what Settings asks for
          MaxFallos      \* bound: how many times KMS says no

VARIABLES conectadas, aviso,     \* the connectors; the kernel has said so
          marcha,                \* "si", "no", "caida" (a panic)
          kms, principalId,      \* Udev::salidas by id, principal_id
          mapa,                  \* the outputs of the Space
          censo, ultima,         \* pantallas::Estado
          disco,                 \* pantallas.conf
          fallos,                \* how many times KMS said no
          aplicado,              \* the last thing done to the outputs was a whole apply
          roto                   \* and neither it nor the way back could be done

vars == <<conectadas, aviso, marcha, kms, principalId, mapa, censo, ultima, disco, fallos, aplicado, roto>>

NINGUNA == "ninguna"
VACIO == [p \in {} |-> <<0, 0>>]
Apagada == [activa |-> FALSE, x |-> 0, y |-> 0, principal |-> FALSE]
En(x, y, pr) == [activa |-> TRUE, x |-> x, y |-> y, principal |-> pr]
(* the monitors of a set, in the order of their connectors *)
EnOrden(S) == SelectSeq(Orden, LAMBDA p : p \in S)
Activas(r) == {p \in DOMAIN r : r[p].activa}
Primera(S) == EnOrden(S)[1]
Principales(r) == {p \in Activas(r) : r[p].principal}
Pone(r, p, ficha) == [r EXCEPT ![p] = ficha]

-----------------------------------------------------------------------------
(* Validation: pure, and the whole of it.                                  *)

Solapan(r, a, b) ==
  /\ r[a].x < r[b].x + Ancho[b] /\ r[b].x < r[a].x + Ancho[a]
  /\ r[a].y < r[b].y + Alto[b] /\ r[b].y < r[a].y + Alto[a]
Clonadas(r, a, b) ==
  r[a].x = r[b].x /\ r[a].y = r[b].y /\ Ancho[a] = Ancho[b] /\ Alto[a] = Alto[b]

(* salidas_conectadas: they are the same or share more than a corner.      *)
Conectadas(r, a, b) ==
  \/ Clonadas(r, a, b)
  \/ /\ r[a].x + Ancho[a] = r[b].x \/ r[b].x + Ancho[b] = r[a].x
     /\ r[a].y < r[b].y + Alto[b] /\ r[b].y < r[a].y + Alto[a]
  \/ /\ r[a].y + Alto[a] = r[b].y \/ r[b].y + Alto[b] = r[a].y
     /\ r[a].x < r[b].x + Ancho[b] /\ r[b].x < r[a].x + Ancho[a]

(* What can be reached from the first one, as many steps as there are.     *)
Alcanzables(r) ==
  LET paso(S) == S \cup {b \in Activas(r) : \E a \in S : Conectadas(r, a, b)}
      tras[n \in 0..Len(Orden)] == IF n = 0 THEN {Primera(Activas(r))} ELSE paso(tras[n - 1])
  IN tras[Len(Orden)]

ValidarSinIslas(hay, r) ==                                             \* a slip
  /\ DOMAIN r # {} /\ DOMAIN r \subseteq hay /\ Activas(r) # {}
  /\ \A p, q \in DOMAIN r : r[p].principal /\ r[q].principal => p = q
  /\ \A p \in DOMAIN r : r[p].principal => r[p].activa
  /\ \A a, b \in Activas(r) : a # b /\ Solapan(r, a, b) => Clonadas(r, a, b)

Validar(hay, r) ==
  /\ DOMAIN r # {} /\ DOMAIN r \subseteq hay /\ Activas(r) # {}
  /\ \A p, q \in DOMAIN r : r[p].principal /\ r[q].principal => p = q
  /\ \A p \in DOMAIN r : r[p].principal => r[p].activa
  /\ \A a, b \in Activas(r) : a # b /\ Solapan(r, a, b) => Clonadas(r, a, b)
  /\ Alcanzables(r) = Activas(r)

ConPrincipal(r) ==
  IF Principales(r) # {} \/ Activas(r) = {} THEN r
  ELSE [r EXCEPT ![Primera(Activas(r))].principal = TRUE]

(* normalizar: with no primary it is the first one that is lit, and the    *)
(* primary is the origin of the desktop.                                   *)
Normalizar(r0) ==
  LET r == ConPrincipal(r0) IN
  IF Activas(r) = {} THEN r
  ELSE LET o == r[Primera(Principales(r))] IN
       [p \in DOMAIN r |-> IF ~r[p].activa THEN r[p]
                          ELSE [r[p] EXCEPT !.x = @ - o.x, !.y = @ - o.y]]

-----------------------------------------------------------------------------
(* The hardware.                                                           *)

SitiosDe(r) == [p \in Activas(r) |-> <<r[p].x, r[p].y>>]

(* aplicar_en_kms, what it may come to: the outputs, and how it went.  The *)
(* preflight asks for the connectors before letting go of anything; then   *)
(* all are let go of and lit again one by one.  With nothing to light, the *)
(* index of the primary is out of the list.                                *)
AplicarEnKms(k, r) ==
  IF ~(Activas(r) \subseteq conectadas) THEN {[kms |-> k, fin |-> "error", fallo |-> 0]}
  ELSE IF Activas(r) = {} THEN {[kms |-> VACIO, fin |-> "panico", fallo |-> 0]}
  ELSE {[kms |-> SitiosDe(r), fin |-> "bien", fallo |-> 0],
        [kms |-> k, fin |-> "error", fallo |-> 1]}
       \cup {[kms |-> Restrict(SitiosDe(r), ToSet(SubSeq(EnOrden(Activas(r)), 1, n))),
              fin |-> "error", fallo |-> 1] : n \in 0..(Cardinality(Activas(r)) - 1)}

(* censar: what is plugged in, and how what is lit is.                     *)
Censar(k, pr) ==
  [p \in conectadas |-> IF p \in DOMAIN k THEN En(k[p][1], k[p][2], p = pr) ELSE Apagada]

-----------------------------------------------------------------------------
(* aplicar: on the hardware, on disk and for the desktop, or all back.     *)

(* Where it was, from the configuration before; what is not lit any more   *)
(* stays where it is.                                                      *)
Volver(k, anterior) ==
  IF DOMAIN anterior = {} THEN {[kms |-> k, fin |-> "error", fallo |-> 0]}
  ELSE AplicarEnKms(k, anterior)

LaPrincipal(r, k) == IF Principales(r) # {} THEN Primera(Principales(r)) ELSE Primera(DOMAIN k)

SinUltima(anterior) == VACIO                                           \* a slip
(* What there is to go back to the next time, after one that failed.       *)
TrasFallo(anterior) == anterior

(* hay is the census of now; anterior, the configuration to go back to.    *)
Aplicar(r0, hay, anterior) ==
  LET r == Normalizar(r0) IN
  \/ /\ ~Validar(DOMAIN hay, r0)
     /\ censo' = hay /\ ultima' = anterior
     /\ UNCHANGED <<marcha, kms, principalId, mapa, disco, fallos, aplicado, roto>>
  \/ /\ Validar(DOMAIN hay, r0)
     /\ \E uno \in AplicarEnKms(kms, r) :
          \/ /\ uno.fin = "bien"
             /\ kms' = uno.kms /\ mapa' = uno.kms
             /\ principalId' = LaPrincipal(r, uno.kms)
             /\ censo' = Censar(uno.kms, LaPrincipal(r, uno.kms))
             /\ ultima' = r
             /\ \/ disco' = r /\ fallos' = fallos
                \/ disco' = disco /\ fallos' = fallos + 1
             /\ aplicado' = TRUE /\ roto' = FALSE
             /\ UNCHANGED marcha
          \/ /\ uno.fin = "error"
             /\ \E dos \in Volver(uno.kms, anterior) :
                  /\ kms' = dos.kms
                  /\ principalId' = IF dos.fin = "bien" THEN LaPrincipal(anterior, dos.kms) ELSE principalId
                  /\ roto' = (dos.fin # "bien")
                  /\ marcha' = IF dos.fin = "panico" THEN "caida" ELSE marcha
                  /\ fallos' = fallos + uno.fallo + dos.fallo
             /\ ultima' = TrasFallo(anterior) /\ censo' = hay /\ aplicado' = FALSE
             /\ UNCHANGED <<mapa, disco>>
     /\ fallos' <= MaxFallos

-----------------------------------------------------------------------------
(* Who asks.                                                               *)

(* ApplyOutputConfig: any configuration Settings may send.                 *)
AplicarSettings ==
  /\ marcha = "si"
  /\ \E r \in Disposiciones : Aplicar(r, censo, ultima)
  /\ UNCHANGED <<conectadas, aviso>>

(* aplicar_modo_rapido, the modes of Fn+F4, with the census as it is.      *)
Todas(c) == [p \in DOMAIN c |-> [c[p] EXCEPT !.activa = FALSE, !.principal = FALSE]]
EnPrimera(c) ==
  IF \E p \in DOMAIN c : c[p].principal
  THEN Primera({p \in DOMAIN c : c[p].principal}) ELSE Primera(DOMAIN c)
Perfiles(c) ==
  LET pr == EnPrimera(c)
      ex == Primera(DOMAIN c \ {pr}) IN
  {Pone(Todas(c), pr, En(c[pr].x, c[pr].y, TRUE)),
   Pone(Todas(c), ex, En(0, 0, TRUE)),
   Pone(Pone(Todas(c), pr, En(0, 0, TRUE)), ex, En(Ancho[pr], 0, FALSE))}
  \cup (IF Ancho[pr] # Ancho[ex] \/ Alto[pr] # Alto[ex] THEN {}
        ELSE {Pone(Pone(Todas(c), pr, En(0, 0, TRUE)), ex, En(0, 0, FALSE))})

AplicarModoRapido ==
  /\ marcha = "si" /\ Cardinality(DOMAIN censo) > 1
  /\ \E r \in Perfiles(censo) : Aplicar(r, censo, ultima)
  /\ UNCHANGED <<conectadas, aviso>>

-----------------------------------------------------------------------------
(* redetectar: the kernel says that the connectors changed.                *)

(* What is not lit: as it is in the file, or to the right of the rest.     *)
Recupera(acc, p) ==
  IF acc.r[p].activa THEN acc
  ELSE IF p \in DOMAIN disco
       THEN IF disco[p].activa THEN [acc EXCEPT !.r = Pone(@, p, disco[p])] ELSE acc
       ELSE [r |-> Pone(acc.r, p, En(acc.derecha, 0, FALSE)), derecha |-> acc.derecha + Ancho[p]]

Reconciliada(c) ==
  LET encendidas == {c[p].x + Ancho[p] : p \in Activas(c)}
      todas == FoldLeft(Recupera, [r |-> c, derecha |-> IF encendidas = {} THEN 0 ELSE Max(encendidas)],
                        EnOrden(DOMAIN c)).r
  IN IF Activas(todas) # {} THEN todas ELSE Pone(todas, Primera(DOMAIN c), En(0, 0, TRUE))

(* When the profiles do not fit together: a row, with the primary first.   *)
EnFila(r) ==
  LET pr == IF Principales(r) # {} THEN Primera(Principales(r)) ELSE Primera(Activas(r))
      orden == <<pr>> \o EnOrden(Activas(r) \ {pr})
      hueco(acc, p) == [r |-> Pone(acc.r, p, En(acc.x, 0, p = pr)), x |-> acc.x + Ancho[p]]
  IN FoldLeft(hueco, [r |-> r, x |-> 0], orden).r

ALaCarrera(c, r) == Normalizar(r)                                      \* a slip
SinRecuperar(c, r) == Normalizar(c)                                    \* a slip
Encajada(c, r) ==
  IF Validar(DOMAIN c, Normalizar(r)) THEN Normalizar(r) ELSE Normalizar(EnFila(Normalizar(r)))

(* With nothing plugged in, the row is built around an index that is not   *)
(* there.                                                                  *)
Redetectar ==
  LET c == Censar(kms, principalId) IN
  /\ marcha = "si" /\ aviso
  /\ aviso' = FALSE
  /\ \/ /\ c = censo
        /\ UNCHANGED <<marcha, kms, principalId, mapa, censo, ultima, disco, fallos, aplicado, roto>>
     \/ /\ c # censo /\ conectadas = {}
        /\ marcha' = "caida" /\ censo' = c
        /\ UNCHANGED <<kms, principalId, mapa, ultima, disco, fallos, aplicado, roto>>
     \/ /\ c # censo /\ conectadas # {}
        /\ Aplicar(Encajada(c, Reconciliada(c)), c, c)
  /\ UNCHANGED conectadas

Enchufar(p) ==
  /\ p \notin conectadas
  /\ conectadas' = conectadas \cup {p} /\ aviso' = (marcha = "si")
  /\ UNCHANGED <<marcha, kms, principalId, mapa, censo, ultima, disco, fallos, aplicado, roto>>

Desenchufar(p) ==
  /\ p \in conectadas
  /\ conectadas' = conectadas \ {p} /\ aviso' = (marcha = "si")
  /\ UNCHANGED <<marcha, kms, principalId, mapa, censo, ultima, disco, fallos, aplicado, roto>>

-----------------------------------------------------------------------------
(* Starting.                                                               *)

(* crear_salidas: each one that is plugged in and not off in the file, in  *)
(* its place or to the right of the one before; one that fails is left out.*)
CrearSalidas(mal) ==
  LET pone(acc, p) ==
        LET s == IF p \in DOMAIN disco THEN <<disco[p].x, disco[p].y>> ELSE <<acc.x, 0>>
        IN [k |-> (p :> s) @@ acc.k, x |-> s[1] + Ancho[p]]
      pide == {p \in conectadas : p \in DOMAIN disco => disco[p].activa}
  IN FoldLeft(pone, [k |-> VACIO, x |-> 0], EnOrden(pide \ mal)).k

PrincipalDe(k) ==
  LET dicha == {p \in DOMAIN k : p \in DOMAIN disco /\ disco[p].principal}
      origen == {p \in DOMAIN k : k[p] = <<0, 0>>}
  IN Primera(IF dicha # {} THEN dicha ELSE IF origen # {} THEN origen ELSE DOMAIN k)

Arrancar ==
  /\ marcha # "si"
  /\ \E mal \in SUBSET conectadas :
       LET k == CrearSalidas(mal) IN
       /\ fallos' = fallos + Cardinality(mal) /\ fallos' <= MaxFallos
       /\ \/ /\ DOMAIN k = {}
             /\ marcha' = "nohay"
             /\ UNCHANGED <<kms, principalId, mapa, censo, ultima>>
          \/ /\ DOMAIN k # {}
             /\ marcha' = "si" /\ kms' = k /\ mapa' = k
             /\ principalId' = PrincipalDe(k)
             /\ censo' = Censar(k, PrincipalDe(k)) /\ ultima' = Censar(k, PrincipalDe(k))
  /\ aplicado' = FALSE /\ roto' = FALSE /\ aviso' = FALSE
  /\ UNCHANGED <<conectadas, disco>>

Apagar ==
  /\ marcha # "no"
  /\ marcha' = "no" /\ kms' = VACIO /\ mapa' = VACIO /\ principalId' = NINGUNA
  /\ censo' = VACIO /\ ultima' = VACIO
  /\ aplicado' = FALSE /\ roto' = FALSE /\ aviso' = FALSE
  /\ UNCHANGED <<conectadas, disco, fallos>>

Init ==
  /\ conectadas \in SUBSET Pantallas /\ aviso = FALSE /\ marcha = "no"
  /\ kms = VACIO /\ mapa = VACIO /\ principalId = NINGUNA
  /\ censo = VACIO /\ ultima = VACIO /\ disco = VACIO
  /\ fallos = 0 /\ aplicado = FALSE /\ roto = FALSE

Next ==
  \/ AplicarSettings \/ AplicarModoRapido \/ Redetectar \/ Arrancar \/ Apagar
  \/ \E p \in Pantallas : Enchufar(p) \/ Desenchufar(p)

Spec == Init /\ [][Next]_vars

-----------------------------------------------------------------------------
(* After an apply that went through, whoever asked for it: the primary is  *)
(* lit and is the origin, no two outputs overlap half-way, and the pointer *)
(* can walk from any of them to any other.  What the shell draws is local  *)
(* to (0,0) (pantallas.rs, normalizar, salidas_conectadas).                *)
EscritorioEntero ==
  aplicado =>
    LET r == [p \in DOMAIN kms |-> En(kms[p][1], kms[p][2], FALSE)] IN
    /\ principalId \in DOMAIN kms /\ kms[principalId] = <<0, 0>>
    /\ \A a, b \in DOMAIN kms : a # b /\ Solapan(r, a, b) => Clonadas(r, a, b)
    /\ Alcanzables(r) = DOMAIN kms

(* What there is to go back to is what is on the screens: after an apply   *)
(* that failed and was taken back too (pantallas.rs, Estado::ultima).      *)
VueltaFiel ==
  marcha = "si" /\ ~roto => SitiosDe(ultima) = kms

(* Once the change of connectors has been attended to, with a monitor      *)
(* plugged in there is one to look at.                                     *)
HayImagen ==
  marcha = "si" /\ ~aviso /\ ~roto /\ conectadas # {} => DOMAIN kms \cap conectadas # {}

(* udev.rs, aplicar_en_kms: "cambiar el cable en caliente sin reiniciar    *)
(* BookOS": a change of connectors does not take the compositor down.      *)
SigueEnPie == marcha # "caida"

(* pantallas.rs, "Restauracion segura": what is saved never leaves a       *)
(* session that cannot be started with a monitor plugged in.               *)
ArrancaSiHay == marcha = "nohay" /\ fallos = 0 => conectadas = {}

(* pantallas.rs, normalizar: "El origen del escritorio siempre es la       *)
(* principal", the first frame of a session included.                      *)
OrigenAlArrancar == marcha = "si" /\ ~roto => kms[principalId] = <<0, 0>>

(* ajustes.rs, redetectar: "Un EDID conocido recupera su perfil": plugging *)
(* something in or out does not make the file forget another monitor.      *)
PerfilRecordado == [][Redetectar => DOMAIN disco \subseteq DOMAIN disco']_vars

=============================================================================
