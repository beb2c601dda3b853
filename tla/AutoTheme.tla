------------------------------ MODULE AutoTheme -----------------------------
(***************************************************************************)
(* The theme that follows the clock (apariencia.rs, the card of Appearance *)
(* in keybinds.rs, the photograph of the old theme in backend/mod.rs) and  *)
(* what the applications are told through the portal (portal.rs).          *)
(***************************************************************************)
EXTENDS DayHours

CONSTANTS
  Horarios,   \* the pairs <<light from, dark from>> that Settings may write
  Depende,    \* whether the wallpaper is another one with each theme
  LeeEnFoto   \* whether an application may ask while the photograph is taken

VARIABLES
  reloj,     \* the minute of the day
  modo,      \* what is chosen: claro, oscuro, automatico
  horas,     \* the pair of edges in use
  tema,      \* the theme of the process
  tick,      \* minutes awake to the alarm of the next change
  viva,      \* whether the shell is alive
  anterior,  \* the theme to photograph before painting the new one, or "-"
  foto,      \* the theme to come back to while the photograph is taken, or "-"
  apps,      \* the theme the applications know of
  imagen,    \* the theme the wallpaper in sight is for
  recargar,  \* whether the wallpaper is to be read again
  disco,     \* what panel.conf says: <<modo, horas>>
  aviso,     \* whether the loop was told to read it
  dormida,   \* whether the machine is asleep
  saltado    \* whether the clock jumped, asleep, since the alarm was set
vars == <<reloj, modo, horas, tema, tick, viva, anterior, foto, apps, imagen, recargar, disco, aviso, dormida, saltado>>

Modos == {"claro", "oscuro", "automatico"}
Resolver(m, h, ahora) ==
  IF m = "automatico" THEN IF EnTramo(h[1], h[2], ahora) THEN "claro" ELSE "oscuro" ELSE m

ProgramarCambio(m, h) ==
  /\ saltado' = FALSE
  /\ IF m = "automatico" THEN tick' \in Alarmas(h[1], h[2], reloj) ELSE tick' = SinAlarma
\* A panic of the shell has it marked dead: from then on nothing is applied.  A change
\* is photographed unless the effects are reduced, and of several the first one stays.
AplicarApariencia(t) ==
  IF ~viva THEN UNCHANGED <<tema, anterior>>
  ELSE /\ tema' = t
       /\ IF tema # t /\ anterior = "-" THEN anterior' \in {tema, "-"} ELSE UNCHANGED anterior

Init ==
  /\ reloj \in Minutos /\ modo \in Modos /\ horas \in Horarios /\ disco = <<modo, horas>>
  /\ tema = Resolver(modo, horas, reloj) /\ apps = tema /\ imagen = tema
  /\ tick \in IF modo = "automatico" THEN Alarmas(horas[1], horas[2], reloj) ELSE {SinAlarma}
  /\ viva = TRUE /\ anterior = "-" /\ foto = "-" /\ recargar = FALSE /\ aviso = FALSE /\ dormida = FALSE
  /\ saltado = FALSE

\* The loop is free: awake and not in the middle of a frame.
Libre == ~dormida /\ foto = "-"

\* Choosing in the card.  It is kept after it is applied, and only if it was.
Elegir(m) ==
  LET t == Resolver(m, horas, reloj)
  IN  /\ Libre /\ modo' = m /\ AplicarApariencia(t)
      /\ recargar' = (recargar \/ (viva /\ tema # t /\ Depende))
      /\ disco' = (IF viva THEN <<m, disco[2]>> ELSE disco)
      /\ ProgramarCambio(m, horas) /\ apps' = tema'
      /\ UNCHANGED <<reloj, horas, viva, foto, imagen, aviso, dormida>>

VenceSinFondo ==
  LET t == Resolver(modo, horas, reloj)
  IN  /\ Libre /\ tick = 0
      /\ IF tema = t \/ ~viva THEN UNCHANGED <<tema, anterior, apps>>
         ELSE AplicarApariencia(t) /\ apps' = tema'
      /\ ProgramarCambio(modo, horas)
      /\ UNCHANGED <<reloj, modo, horas, viva, foto, imagen, disco, aviso, dormida, recargar>>

\* The alarm, and the next one.
Vence ==
  LET t == Resolver(modo, horas, reloj)
  IN  /\ Libre /\ tick = 0
      /\ IF tema = t \/ ~viva THEN UNCHANGED <<tema, anterior, apps, recargar>>
         ELSE AplicarApariencia(t) /\ recargar' = (recargar \/ Depende) /\ apps' = tema'
      /\ ProgramarCambio(modo, horas)
      /\ UNCHANGED <<reloj, modo, horas, viva, foto, imagen, disco, aviso, dormida>>
\* Settings: the thread of D-Bus writes the file, the loop reads it again.
ApplyConfig(m, h) == ~dormida /\ ~aviso /\ disco' = <<m, h>> /\ aviso' = TRUE
  /\ UNCHANGED <<reloj, modo, horas, tema, tick, viva, anterior, foto, apps, imagen, recargar, dormida, saltado>>
Relee ==
  /\ Libre /\ aviso /\ aviso' = FALSE
  /\ modo' = disco[1] /\ horas' = disco[2] /\ AplicarApariencia(Resolver(disco[1], disco[2], reloj))
  /\ apps' = tema' /\ ProgramarCambio(disco[1], disco[2]) /\ recargar' = TRUE
  /\ UNCHANGED <<reloj, viva, foto, imagen, disco, dormida>>

\* A frame: the wallpaper first, and then, to photograph the screen as it was, the
\* old theme is put back for an instant.
Escena ==
  /\ Libre /\ (recargar \/ anterior # "-")
  /\ imagen' = (IF recargar THEN tema ELSE imagen) /\ recargar' = FALSE
  /\ IF anterior = "-" THEN UNCHANGED <<tema, foto>>
     ELSE foto' = tema /\ tema' = (IF viva THEN anterior ELSE tema)
  /\ anterior' = "-"
  /\ UNCHANGED <<reloj, modo, horas, tick, viva, apps, disco, aviso, dormida, saltado>>
Fotografiada ==
  /\ foto # "-" /\ foto' = "-" /\ tema' = (IF viva THEN foto ELSE tema)
  /\ UNCHANGED <<reloj, modo, horas, tick, viva, anterior, apps, imagen, recargar, disco, aviso, dormida, saltado>>

\* An application that starts asks the thread of the portal, which reads the theme
\* of the process.
Read == /\ ~dormida /\ (foto # "-" => LeeEnFoto) /\ apps' = tema
        /\ UNCHANGED <<reloj, modo, horas, tema, tick, viva, anterior, foto, imagen, recargar, disco, aviso, dormida, saltado>>
Muere == /\ ~dormida /\ viva /\ viva' = FALSE
         /\ UNCHANGED <<reloj, modo, horas, tema, tick, anterior, foto, apps, imagen, recargar, disco, aviso, dormida, saltado>>

\* An alarm is attended within its minute; asleep, only the clock of the wall goes on,
\* and PrepareForSleep(false) does not look at the theme.
Pasa == /\ Libre /\ tick # 0 /\ reloj' = Despues(reloj, 1) /\ tick' = Corre(tick)
        /\ UNCHANGED <<modo, horas, tema, viva, anterior, foto, apps, imagen, recargar, disco, aviso, dormida, saltado>>
Dormir(ahora) == /\ Libre /\ dormida' = TRUE /\ reloj' = ahora /\ saltado' = (saltado \/ ahora # reloj)
  /\ UNCHANGED <<modo, horas, tema, tick, viva, anterior, foto, apps, imagen, recargar, disco, aviso>>
Reanudar == /\ dormida /\ dormida' = FALSE
  /\ UNCHANGED <<reloj, modo, horas, tema, tick, viva, anterior, foto, apps, imagen, recargar, disco, aviso, saltado>>

Next ==
  \/ Vence
  \/ Relee
  \/ Escena
  \/ Fotografiada
  \/ Read
  \/ Muere
  \/ Pasa
  \/ Reanudar
  \/ \E m \in Modos : Elegir(m)
  \/ \E m \in Modos, h \in Horarios : ApplyConfig(m, h)
  \/ \E ahora \in Minutos : Dormir(ahora)
Spec == Init /\ [][Next]_vars

TypeOK ==
  /\ reloj \in Minutos /\ modo \in Modos /\ horas \in Horarios /\ tema \in {"claro", "oscuro"}
  /\ tick \in 0..SinAlarma /\ {anterior, foto} \subseteq {"claro", "oscuro", "-"}
  /\ {viva, recargar, aviso, dormida, saltado} \subseteq BOOLEAN

\* Between frames, and with no alarm due, the theme is the one of the mode and the clock,
\* the wallpaper is of that theme, and the alarm will not miss the next edge (apariencia.rs).
\* After a sleep, from the next alarm or choice on.
TemaAlDia ==
  /\ Libre /\ viva /\ tick # 0 /\ ~saltado =>
       \/ tema = Resolver(modo, horas, reloj)
       \/ modo = "automatico" /\ Rezaga(tick, horas[1], horas[2], reloj)
  /\ Libre /\ viva /\ Depende /\ ~recargar => imagen = tema
  /\ Libre /\ tick # 0 /\ ~saltado => IF modo = "automatico" THEN Puntual(tick, horas[1], horas[2], reloj)
                          ELSE tick = SinAlarma
  /\ viva /\ ~aviso => disco = <<modo, horas>>

\* What the applications were told last is the theme there is (keybinds.rs:931).
AppsAlDia == Libre /\ viva => apps = tema
=============================================================================
