------------------------------- MODULE Frames -------------------------------
(***************************************************************************)
(* The frames of the real session (bookos-comp, backend/udev.rs) and what  *)
(* hangs from them: the copies of zwlr_screencopy (captura.rs), the        *)
(* picture of the Print key and of the portal (backend/mod.rs, portal.rs), *)
(* DPMS and the change of TTY.                                             *)
(*                                                                         *)
(* The loop sleeps in epoll.  An event wakes it and, when the round ends,  *)
(* it draws if there is a reason to.  Afterwards only the vblank of a frame*)
(* that was queued, or another event, will wake it again: an output that   *)
(* is dirty with nobody left to come back to it stays as it is.            *)
(***************************************************************************)
EXTENDS Naturals, FiniteSets

CONSTANTS Salidas,     \* the outputs
          Principal,   \* the one at (0,0)
          Fotos,       \* frames of zwlr_screencopy
          Portales,    \* calls of the portal to Screenshot
          Vacias,      \* a step of an animation may change no pixel at all
          Nadie

VARIABLES activa, dpms,          \* Udev::activa, dpms_encendido
          redibujar,             \* needs_redraw
          enVuelo, pendiente,    \* of each SalidaKms
          sucia,                 \* the scene is not what the output last queued
          apagada,               \* DrmCompositor::clear took its framebuffer
          fallida,               \* the driver refused the last thing asked of it
          anima,                 \* hay_animacion
          despierto,             \* the loop is in a round
          foto,                  \* what each screencopy frame is waiting for
          pedida, portal,        \* captura_pedida, captura_portal
          llamada                \* what each call of the portal got

cuadro == <<enVuelo, pendiente, sucia, apagada, fallida>>
capturas == <<foto, pedida, portal, llamada>>
vars == <<activa, dpms, redibujar, cuadro, anima, despierto, capturas>>

Ninguna == [de |-> Nadie, guardar |-> FALSE, hay |-> FALSE]
Suelta == [fase |-> "no", en |-> Principal]
Todas == [o \in Salidas |-> TRUE]
Ningunas == [o \in Salidas |-> FALSE]
Y(f, S) == [o \in Salidas |-> f[o] \/ o \in S]
Menos(f, S) == [o \in Salidas |-> f[o] /\ o \notin S]
HayPendiente(p, v) == \E o \in Salidas : p[o] /\ ~v[o]
-----------------------------------------------------------------------------
(* Drawing.                                                                *)

(* How the picture of the Print key or of the portal ends: the errors      *)
(* before the PNG come back without a word.                                *)
Finales == IF pedida = Ninguna THEN {"nada"} ELSE {"callada", "bien", "mal"}
Avisa(fin) == fin \in {"bien", "mal"} /\ (~pedida.guardar \/ portal = Nadie)
Contesta(fin) == fin \in {"bien", "mal"} /\ pedida.guardar /\ portal # Nadie

ServirCapturaPropia(fin) ==
  /\ pedida' = Ninguna
  /\ portal' = IF Contesta(fin) THEN Nadie ELSE portal
  /\ llamada' = IF ~Contesta(fin) THEN llamada
                ELSE [llamada EXCEPT ![portal] = IF fin = "mal" THEN "ninguna"
                                                 ELSE IF pedida.de = portal THEN "suya" ELSE "ajena"]

(* servir_capturas: the ones of the outputs that drew, with their failures.*)
ServirCapturas(dibujadas) ==
  LET suyas == {f \in Fotos : foto[f].fase = "espera" /\ foto[f].en \in dibujadas} IN
  \E mal \in SUBSET suyas :
    foto' = [f \in Fotos |-> IF f \notin suyas THEN foto[f]
                             ELSE [foto[f] EXCEPT !.fase = IF f \in mal THEN "fallida" ELSE "servida"]]

MarcadasLibres(e) == [o \in Salidas |-> e.pendiente[o] \/ (e.marca /\ ~e.enVuelo[o])]   \* a slip
(* Every output is marked, the ones with a frame in the air too.           *)
Marcadas(e) == [o \in Salidas |-> e.pendiente[o] \/ e.marca]

(* dibujar_todas, from what the handler leaves in e.  An output where      *)
(* nothing changed comes back before serving anything, and needs_redraw is *)
(* cleared last: what serving the picture asked for goes with it.          *)
DibujarTodas(e) ==
  LET marcadas == Marcadas(e)
      toca == {o \in Salidas : marcadas[o] /\ ~e.enVuelo[o]}
      llenas == {o \in toca : e.sucia[o]} IN
  \E error \in SUBSET llenas :
    LET dibujadas == llenas \ error IN
    \E rechazadas \in SUBSET dibujadas, fin \in IF Principal \in dibujadas THEN Finales ELSE {"nada"} :
      LET encoladas == dibujadas \ rechazadas IN
      /\ enVuelo' = Y(e.enVuelo, encoladas)
      /\ pendiente' = Menos(marcadas, toca \ rechazadas)
      /\ sucia' = Y(Menos(e.sucia, encoladas), IF Avisa(fin) THEN {Principal} ELSE {})
      /\ apagada' = Menos(apagada, encoladas)
      /\ fallida' = Y(Menos(fallida, encoladas), error \cup rechazadas)
      /\ anima' = (e.anima \/ Avisa(fin))
      /\ ServirCapturas(dibujadas)
      /\ IF fin = "nada" THEN UNCHANGED <<pedida, portal, llamada>>
         ELSE ServirCapturaPropia(fin)

Estado(v) == [marca |-> redibujar \/ anima, anima |-> anima, pendiente |-> pendiente,
              sucia |-> sucia, enVuelo |-> v]
Motivo(v) == redibujar \/ anima \/ HayPendiente(pendiente, v)

(* What a vblank and the end of a round do: with no reason, in another TTY *)
(* or with the panel off, nothing is drawn and the mark is kept.           *)
Dibujar(v) ==
  IF activa /\ dpms /\ Motivo(v)
  THEN DibujarTodas(Estado(v))
  ELSE enVuelo' = v /\ UNCHANGED <<pendiente, sucia, apagada, fallida, anima, capturas>>
Queda(v) == redibujar /\ ~(activa /\ dpms)

-----------------------------------------------------------------------------
(* The loop.                                                               *)

(* DrmEvent::VBlank: the frame is closed and, if there is a reason, drawn. *)
(* A refresh has gone by, so what was moving has moved.                    *)
Vblank(o) ==
  LET v == [enVuelo EXCEPT ![o] = FALSE] IN
  /\ enVuelo[o]
  /\ anima /\ ~Vacias => \E x \in Salidas : sucia[x]
  /\ despierto' = TRUE
  /\ Dibujar(v)
  /\ redibujar' = Queda(v)
  /\ UNCHANGED <<activa, dpms>>

SinPostDispatch(moviendo) == FALSE                                     \* a slip
(* post_dispatch: what is moving asks for another frame before sleeping.   *)
PostDispatch(moviendo) == moviendo

(* The end of a round: draw, post_dispatch, and to sleep in epoll.         *)
Vuelta ==
  /\ despierto
  /\ despierto' = FALSE
  /\ Dibujar(enVuelo)
  /\ redibujar' = (Queda(enVuelo) \/ PostDispatch(anima'))
  /\ UNCHANGED <<activa, dpms>>

(* Time goes by while the loop sleeps: what is moving moves, and may end.  *)
Pasa ==
  /\ anima /\ ~despierto
  /\ \E D \in SUBSET Salidas : (Vacias \/ D # {}) /\ sucia' = Y(sucia, D)
  /\ anima' \in BOOLEAN
  /\ UNCHANGED <<activa, dpms, redibujar, enVuelo, pendiente, apagada, fallida, despierto, capturas>>

(* An event that changes the scene: a commit, a key, a timer.  It may start*)
(* something moving.                                                       *)
Evento ==
  /\ despierto' = TRUE /\ redibujar' = TRUE
  /\ \E D \in SUBSET Salidas : sucia' = Y(sucia, D) /\ anima' \in {anima, anima \/ D # {}}
  /\ UNCHANGED <<activa, dpms, enVuelo, pendiente, apagada, fallida, capturas>>

-----------------------------------------------------------------------------
(* DPMS and the TTY.                                                       *)

EncendidasSinBuferes(s) == s                                           \* a slip
(* reset_buffers: the next frame of the output is drawn whole.             *)
Encendidas(s) == Todas

(* despertar_dpms, cambiar_dpms(true).                                     *)
EncenderDpms ==
  /\ ~dpms
  /\ dpms' = TRUE /\ despierto' = TRUE /\ redibujar' = TRUE
  /\ enVuelo' = Ningunas /\ pendiente' = Todas /\ sucia' = Encendidas(sucia)
  /\ UNCHANGED <<activa, apagada, fallida, anima, capturas>>

(* cambiar_dpms(false): an output that fails leaves the ones before it     *)
(* dark, the flag on and nothing to come back to them.  In another TTY the *)
(* first one fails.                                                        *)
ApagarDpms ==
  /\ dpms
  /\ despierto' = TRUE
  /\ \E hechas \in SUBSET Salidas :
       /\ ~activa => hechas = {}
       /\ dpms' = (hechas # Salidas)
       /\ apagada' = Y(apagada, hechas)
       /\ enVuelo' = Menos(enVuelo, hechas) /\ pendiente' = Menos(pendiente, hechas)
       /\ fallida' = IF hechas = Salidas THEN fallida ELSE Y(fallida, hechas)
  /\ UNCHANGED <<activa, redibujar, sucia, anima, capturas>>

PauseSession ==
  /\ activa
  /\ activa' = FALSE /\ despierto' = TRUE
  /\ enVuelo' = Ningunas
  /\ UNCHANGED <<dpms, redibujar, pendiente, sucia, apagada, fallida, anima, capturas>>

(* It locks, which moves, before the first frame.                          *)
ActivateSession ==
  /\ ~activa
  /\ activa' = TRUE /\ dpms' = TRUE /\ despierto' = TRUE /\ redibujar' = FALSE
  /\ DibujarTodas([marca |-> TRUE, anima |-> TRUE, pendiente |-> pendiente,
                   sucia |-> Encendidas(sucia), enVuelo |-> enVuelo])

-----------------------------------------------------------------------------
(* The copies of zwlr_screencopy.                                          *)

marco == <<activa, dpms, enVuelo, pendiente, sucia, apagada, fallida, anima>>

(* capture_output, of an output that is there.                             *)
CaptureOutput(f, o) ==
  /\ foto[f].fase = "no"
  /\ foto' = [foto EXCEPT ![f] = [fase |-> "anunciada", en |-> o]]
  /\ despierto' = TRUE
  /\ UNCHANGED <<marco, redibujar, pedida, portal, llamada>>

(* copy, once, with a buffer of what was announced: it is noted down and a *)
(* frame is asked for.                                                     *)
Copy(f) ==
  /\ foto[f].fase = "anunciada"
  /\ foto' = [foto EXCEPT ![f].fase = "espera"]
  /\ despierto' = TRUE /\ redibujar' = TRUE
  /\ UNCHANGED <<marco, pedida, portal, llamada>>

(* destroy, or the client is gone.                                         *)
Destroyed(f) ==
  /\ foto[f].fase # "no"
  /\ foto' = [foto EXCEPT ![f] = Suelta]
  /\ despierto' = TRUE
  /\ UNCHANGED <<marco, redibujar, pedida, portal, llamada>>

-----------------------------------------------------------------------------
(* The Print key and the portal.                                           *)

(* Accion::Capturar: the layer closes before the picture.                  *)
Capturar ==
  /\ \E guardar \in BOOLEAN : pedida' = [de |-> Nadie, guardar |-> guardar, hay |-> TRUE]
  /\ despierto' = TRUE /\ redibujar' = TRUE
  /\ sucia' = Y(sucia, {Principal})
  /\ UNCHANGED <<activa, dpms, enVuelo, pendiente, apagada, fallida, anima, foto, portal, llamada>>

(* Screenshot and capturar: one caller at a time, and the one before is    *)
(* let go of, which answers it.                                            *)
Screenshot(p) ==
  /\ llamada[p] = "no"
  /\ llamada' = [q \in Portales |-> IF q = p THEN "espera"
                                     ELSE IF q = portal THEN "ninguna" ELSE llamada[q]]
  /\ portal' = p
  /\ pedida' = [de |-> p, guardar |-> TRUE, hay |-> TRUE]
  /\ despierto' = TRUE /\ redibujar' = TRUE
  /\ UNCHANGED <<marco, foto>>

-----------------------------------------------------------------------------
Init ==
  /\ activa = TRUE /\ dpms = TRUE /\ redibujar = TRUE /\ despierto = TRUE /\ anima = FALSE
  /\ enVuelo = Ningunas /\ pendiente = Todas /\ sucia = Todas
  /\ apagada = Ningunas /\ fallida = Ningunas
  /\ foto = [f \in Fotos |-> Suelta] /\ pedida = Ninguna /\ portal = Nadie
  /\ llamada = [p \in Portales |-> "no"]

Next ==
  \/ Vuelta \/ Pasa \/ Evento
  \/ EncenderDpms \/ ApagarDpms \/ PauseSession \/ ActivateSession \/ Capturar
  \/ \E o \in Salidas : Vblank(o)
  \/ \E f \in Fotos : Copy(f) \/ Destroyed(f) \/ \E o \in Salidas : CaptureOutput(f, o)
  \/ \E p \in Portales : Screenshot(p)

Spec == Init /\ [][Next]_vars

-----------------------------------------------------------------------------
(* Whatever the screens do not show yet, while they are ours and lit, has  *)
(* somebody to come back to it: the loop is in a round, or it sleeps with a*)
(* frame in the air whose vblank will find a reason to draw that output.   *)
(* hay_pendiente exists for this (udev.rs, "Sin mirar esto, ese damage se  *)
(* perdia").  An output the driver refused something to is left aside.     *)
NadaSinEnsenar ==
  activa /\ dpms /\ ~despierto /\ fallida = Ningunas =>
    \A o \in Salidas : sucia[o] \/ apagada[o] =>
      /\ redibujar \/ anima \/ pendiente[o]
      /\ \E x \in Salidas : enVuelo[x]

(* captura.rs, copy: a frame is asked for because on a quiet desktop       *)
(* "la captura se quedaria esperando": the loop does not go to sleep for   *)
(* good with a copy that was asked for and neither done nor refused.       *)
CopiaServida ==
  (activa /\ dpms /\ ~despierto /\ fallida = Ningunas /\ enVuelo = Ningunas) =>
    \A f \in Fotos : foto[f].fase # "espera"

(* portal.rs, Emisario: "todos los caminos o contestan o sueltan": somebody*)
(* waits for a picture only while a picture is being taken.                *)
EsperaConCaptura == portal # Nadie => pedida # Ninguna
=============================================================================
