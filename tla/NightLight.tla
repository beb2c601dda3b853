----------------------------- MODULE NightLight -----------------------------
(***************************************************************************)
(* The night light (luz_nocturna.rs): the gamma curve of the screens goes  *)
(* to the temperature that the mode and the clock ask for, in a fade of a  *)
(* few steps, and one timer waits for the next edge of the timetable.      *)
(* Turned on or off by hand with the timetable on, it is forced until the  *)
(* next edge.  The timers count the time the machine is awake.             *)
(***************************************************************************)
EXTENDS DayHours

CONSTANTS
  Configs,   \* what Settings may write: records [modo, temperatura, desde, hasta]
  NEUTRA,    \* the temperature that tints nothing
  PASOS,     \* steps of a fade
  Curvas     \* what the master of another terminal leaves in the curve

VARIABLES
  reloj,      \* the minute of the day
  config,     \* the configuration the compositor holds
  forzada,    \* what was forced by hand: "si", "no" or "-"
  aplicada,   \* the temperature in the curve, as far as the compositor knows
  fundido,    \* the fades that are running
  tick,       \* minutes awake to the alarm of the timetable
  marca,      \* what the tiles show
  curva,      \* the temperature in the hardware
  activa,     \* whether the terminal is this session's
  disco,      \* the configuration in panel.conf
  aviso,      \* whether the loop was told to read it again
  dormida,    \* whether the machine is asleep
  saltado     \* whether the clock jumped, asleep, since the alarm was set
vars == <<reloj, config, forzada, aplicada, fundido, tick, marca, curva, activa, disco, aviso, dormida, saltado>>

Toca(c, ahora) == c.modo = "encendida" \/ (c.modo = "programada" /\ EnTramo(c.desde, c.hasta, ahora))
Encendida(c, f, ahora) == IF f = "-" THEN Toca(c, ahora) ELSE f = "si"
Temperatura(c, encendida) == IF encendida THEN c.temperatura ELSE NEUTRA

\* In another terminal the curve is not ours.
Poner(kelvin) == aplicada' = kelvin /\ curva' = (IF activa THEN kelvin ELSE curva)

IrSinCortar(c, f) ==
  LET encendida == Encendida(c, f, reloj)
      objetivo == Temperatura(c, encendida)
  IN  /\ marca' = encendida
      /\ IF aplicada = objetivo THEN UNCHANGED <<aplicada, curva, fundido>>
         ELSE \/ fundido' = {} /\ Poner(objetivo)
              \/ fundido' = fundido \cup {[desde |-> aplicada, objetivo |-> objetivo, paso |-> 0]}
                 /\ UNCHANGED <<aplicada, curva>>

\* Any fade under way stops; the new one starts from what there is.  With reduced
\* effects there is none.
IrAlObjetivo(c, f) ==
  LET encendida == Encendida(c, f, reloj)
      objetivo == Temperatura(c, encendida)
  IN  /\ marca' = encendida
      /\ IF aplicada = objetivo THEN fundido' = {} /\ UNCHANGED <<aplicada, curva>>
         ELSE \/ fundido' = {} /\ Poner(objetivo)
              \/ fundido' = {[desde |-> aplicada, objetivo |-> objetivo, paso |-> 0]}
                 /\ UNCHANGED <<aplicada, curva>>
Programar(c) ==
  /\ saltado' = FALSE
  /\ IF c.modo = "programada" THEN tick' \in Alarmas(c.desde, c.hasta, reloj) ELSE tick' = SinAlarma

\* The start of the session, and what Settings wrote: the hand loses.
Recargar(c) == config' = c /\ forzada' = "-" /\ IrAlObjetivo(c, "-") /\ Programar(c)

Init ==
  /\ reloj \in Minutos /\ config \in Configs /\ disco = config
  /\ forzada = "-" /\ fundido = {} /\ activa = TRUE /\ aviso = FALSE /\ dormida = FALSE
  /\ saltado = FALSE
  /\ marca = Toca(config, reloj) /\ aplicada = Temperatura(config, marca) /\ curva = aplicada
  /\ tick \in IF config.modo = "programada" THEN Alarmas(config.desde, config.hasta, reloj) ELSE {SinAlarma}

Alternar(encender) ==
  /\ activa /\ ~dormida
  /\ IF config.modo = "programada"
     THEN /\ forzada' = (IF encender THEN "si" ELSE "no")
          /\ UNCHANGED <<config, disco>>
     ELSE /\ config' = [config EXCEPT !.modo = IF encender THEN "encendida" ELSE "apagada"]
          /\ disco' = [disco EXCEPT !.modo = config'.modo] /\ UNCHANGED forzada
  /\ IrAlObjetivo(config', forzada')
  /\ UNCHANGED <<reloj, tick, activa, aviso, dormida, saltado>>

\* The thread of D-Bus writes the file and tells the loop, which reloads if it changed.
ApplyConfig(c) == ~aviso /\ ~dormida /\ disco' = c /\ aviso' = TRUE
                  /\ UNCHANGED <<reloj, config, forzada, aplicada, fundido, tick, marca, curva, activa, dormida, saltado>>
Relee ==
  /\ ~dormida /\ aviso /\ aviso' = FALSE /\ UNCHANGED <<reloj, activa, disco, dormida>>
  /\ IF disco = config THEN UNCHANGED <<config, forzada, aplicada, fundido, tick, marca, curva, saltado>>
     ELSE Recargar(disco)

Avanza(f) ==
  /\ ~dormida
  /\ Poner(f.desde + (((f.objetivo - f.desde) * (f.paso + 1)) \div PASOS))
  /\ fundido' = (fundido \ {f}) \cup (IF f.paso + 1 >= PASOS THEN {} ELSE {[f EXCEPT !.paso = @ + 1]})
  /\ UNCHANGED <<reloj, config, forzada, tick, marca, activa, disco, aviso, dormida, saltado>>

\* The edge: the timetable rules again.
Vence ==
  /\ ~dormida /\ tick = 0 /\ forzada' = "-" /\ IrAlObjetivo(config, "-") /\ Programar(config)
  /\ UNCHANGED <<reloj, config, activa, disco, aviso, dormida>>

\* A fade is far shorter than a minute, and an alarm is attended within it.
Pasa == ~dormida /\ tick # 0 /\ fundido = {} /\ reloj' = Despues(reloj, 1) /\ tick' = Corre(tick)
        /\ UNCHANGED <<config, forzada, aplicada, fundido, marca, curva, activa, disco, aviso, dormida, saltado>>
\* Asleep only the clock of the wall goes on; PrepareForSleep(false) turns the
\* screens on, and that is all the light hears of it.
Dormir(ahora) == ~dormida /\ dormida' = TRUE /\ reloj' = ahora /\ saltado' = (saltado \/ ahora # reloj)
                 /\ UNCHANGED <<config, forzada, aplicada, fundido, tick, marca, curva, activa, disco, aviso>>
Reanudar == dormida /\ dormida' = FALSE
            /\ UNCHANGED <<reloj, config, forzada, aplicada, fundido, tick, marca, curva, activa, disco, aviso, saltado>>

PauseSession == activa /\ ~dormida /\ activa' = FALSE
                /\ UNCHANGED <<reloj, config, forzada, aplicada, fundido, tick, marca, curva, disco, aviso, dormida, saltado>>
OtroMaestro(k) == ~activa /\ ~dormida /\ curva' = k
                  /\ UNCHANGED <<reloj, config, forzada, aplicada, fundido, tick, marca, activa, disco, aviso, dormida, saltado>>
\* reponer: nothing to put back when nothing tints.
Reponer(encima) == curva' = IF aplicada = NEUTRA THEN encima ELSE aplicada
ActivateSession == ~activa /\ ~dormida /\ activa' = TRUE /\ Reponer(curva)
                   /\ UNCHANGED <<reloj, config, forzada, aplicada, fundido, tick, marca, disco, aviso, dormida, saltado>>
\* A screen that has just been turned on is born with the identity.
PantallaNueva == activa /\ ~dormida /\ Reponer(NEUTRA)
                 /\ UNCHANGED <<reloj, config, forzada, aplicada, fundido, tick, marca, activa, disco, aviso, dormida, saltado>>

Next ==
  \/ Relee
  \/ Vence
  \/ Pasa
  \/ PauseSession
  \/ ActivateSession
  \/ PantallaNueva
  \/ \E encender \in BOOLEAN : Alternar(encender)
  \/ \E c \in Configs : ApplyConfig(c)
  \/ \E f \in fundido : Avanza(f)
  \/ \E k \in Curvas : OtroMaestro(k)
  \/ \E ahora \in Minutos : Dormir(ahora)
  \/ Reanudar
Spec == Init /\ [][Next]_vars

TypeOK ==
  /\ reloj \in Minutos /\ forzada \in {"si", "no", "-"} /\ tick \in 0..SinAlarma
  /\ marca \in BOOLEAN /\ activa \in BOOLEAN /\ aviso \in BOOLEAN
  /\ {dormida, saltado} \subseteq BOOLEAN

\* Once nothing is moving, the tiles and the curve say what the mode, the clock and the
\* hand ask for, and what was forced will not outlive the next edge (luz_nocturna.rs).
\* After a sleep, from the next alarm or change on.
Quieta == tick # 0 /\ fundido = {} /\ ~dormida
Pedida == \/ marca = Encendida(config, forzada, reloj)
          \/ config.modo = "programada" /\ Rezaga(tick, config.desde, config.hasta, reloj)
LuzAlDia ==
  /\ Quieta => (saltado \/ Pedida) /\ aplicada = Temperatura(config, marca)
  /\ Quieta /\ activa /\ aplicada # NEUTRA => curva = aplicada
  /\ tick # 0 /\ ~saltado => IF config.modo = "programada" THEN Puntual(tick, config.desde, config.hasta, reloj)
                             ELSE tick = SinAlarma
  /\ forzada # "-" => config.modo = "programada"
  /\ ~aviso => disco = config

\* Asleep, no edge goes by unseen ("después de dormir", luz_nocturna.rs:22-27).
LuzTrasDormir == Quieta => Pedida

\* What was in the curve is there again after another terminal (luz_nocturna.rs:167).
CurvaPuesta == Quieta /\ activa => curva = aplicada
=============================================================================
