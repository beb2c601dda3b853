------------------------------ MODULE Settings ------------------------------
(***************************************************************************)
(* panel.conf and what the session does with it (config.rs, ajustes.rs and *)
(* the choices of keybinds.rs that are kept).  The file is the user's: its *)
(* lines are rewritten in place by two threads of the compositor, the one  *)
(* of D-Bus for Settings and the loop for what is chosen on the desktop.   *)
(* A value is one of its class: a number is low, at a limit, in the middle *)
(* or high; the lists, words and paths are the few that differ.            *)
(***************************************************************************)
EXTENDS Naturals, Sequences, SequencesExt

CONSTANTS
  Ficheros,    \* what panel.conf may hold when the session starts
  Peticiones,  \* what Settings asks ApplyConfig for
  Solapan,     \* whether the two threads run at once
  MaxCambios   \* bound: writes and starts of the session

VARIABLES
  disco,    \* the lines of panel.conf
  elegido,  \* the last value each key was given, by anybody or by a write that failed
  vivo,     \* the value each key has in the compositor
  forzada,  \* the night light switched by hand with its timetable on
  canal,    \* sections to read again, on their way to the loop
  hilo,     \* what each thread is writing
  perdido,  \* a write has failed since the session began
  cambios
vars == <<disco, elegido, vivo, forzada, canal, hilo, perdido, cambios>>

Tipo == [centro |-> "lista", dock |-> "lista", dock_tamano |-> "acotado",
         bloqueo_reloj_y |-> "decimal", bloqueo_inactividad |-> "entero", dock_esquiva |-> "booleano",
         sonido_volumen |-> "booleano", luz_nocturna |-> "palabra", fondo |-> "ruta", fondo_claro |-> "ruta"]
Claves == DOMAIN Tipo
Orden == <<"bloqueo_inactividad", "bloqueo_reloj_y", "centro", "dock", "dock_esquiva", "dock_tamano",
           "fondo", "fondo_claro", "luz_nocturna", "sonido_volumen">>

Defecto == [centro |-> "reloj", dock |-> "todas", dock_tamano |-> "medio",
            bloqueo_reloj_y |-> "medio", bloqueo_inactividad |-> "medio", dock_esquiva |-> "no",
            sonido_volumen |-> "si", luz_nocturna |-> "no", fondo |-> "", fondo_claro |-> ""]

(***************************************************************************)
(* Config::desde_texto, key by key: what a text gives, and what was there  *)
(* when it says nothing.                                                   *)
(***************************************************************************)
EnRango == {"minimo", "medio", "maximo"}
LeerAcotado(t, antes) == CASE t = "bajo" -> "minimo" [] t = "alto" -> "maximo"
                           [] t \in EnRango -> t [] OTHER -> antes
LeerDecimal(t, antes) == IF t \in EnRango THEN t ELSE antes
LeerEntero(t, antes) == IF t \in EnRango THEN t ELSE antes
LeerBooleano(t, antes) == IF t \in {"si", "no"} THEN t ELSE antes
LeerPalabra(t, antes) == IF t \in {"si", "no", "programada"} THEN t ELSE antes
LeerClave(clave, t, antes) ==
  CASE Tipo[clave] = "acotado"  -> LeerAcotado(t, antes)
    [] Tipo[clave] = "decimal"  -> LeerDecimal(t, antes)
    [] Tipo[clave] = "entero"   -> LeerEntero(t, antes)
    [] Tipo[clave] = "booleano" -> LeerBooleano(t, antes)
    [] Tipo[clave] = "palabra"  -> LeerPalabra(t, antes)
    [] OTHER                    -> t
\* A comment and an unknown key change nothing; of a repeated key, the last stays.
DesdeTexto(lineas) ==
  LET Una(config, l) == IF l.clave \in Claves
                        THEN [config EXCEPT ![l.clave] = LeerClave(l.clave, l.valor, @)] ELSE config
  IN  FoldLeft(Una, Defecto, lineas)

(***************************************************************************)
(* GetConfig and the validation of ApplyConfig.  bloqueo_reloj_y is kept   *)
(* in an f32: widened again, each of its two limits falls out of range.    *)
(***************************************************************************)
Ensanchado(t) == CASE t = "minimo" -> "bajo" [] t = "maximo" -> "alto" [] OTHER -> t
ConfigJson(config) == [config EXCEPT !.bloqueo_reloj_y = Ensanchado(@)]

ValidarNumero(t) == t \in EnRango
ValidarPalabra(t) == t \in {"no", "si", "programada"}
ValidarBooleano(t) == t \in {"si", "no"}
ValidarClave(clave, t) ==
  CASE Tipo[clave] \in {"acotado", "decimal", "entero"} -> ValidarNumero(t)
    [] Tipo[clave] = "palabra" -> ValidarPalabra(t)
    [] Tipo[clave] = "booleano" -> ValidarBooleano(t)
    [] OTHER -> TRUE
Valida(peticion) == \A clave \in DOMAIN peticion : ValidarClave(clave, peticion[clave])

(***************************************************************************)
(* escribir_claves: the file is read, truncated and written, each line in  *)
(* its place, what is empty without its line and what is new at the end.   *)
(***************************************************************************)
Llevan(lineas) == {lineas[i].clave : i \in DOMAIN lineas}
EnSuSitio(poner, salida, l) ==
  IF l.clave \notin DOMAIN poner THEN Append(salida, l)
  ELSE IF poner[l.clave] = "" \/ l.clave \in Llevan(salida) THEN salida
  ELSE Append(salida, [l EXCEPT !.valor = poner[l.clave]])
AlFinal(poner, salida, clave) ==
  IF clave \in DOMAIN poner /\ poner[clave] # "" /\ clave \notin Llevan(salida)
  THEN Append(salida, [clave |-> clave, valor |-> poner[clave]]) ELSE salida
Reescrito(anterior, poner) ==
  LET En(salida, l) == EnSuSitio(poner, salida, l)
      Al(salida, clave) == AlFinal(poner, salida, clave)
  IN  FoldLeft(Al, FoldLeft(En, <<>>, anterior), Orden)

Nadie == [paso |-> "nada", base |-> <<>>, poner |-> [clave \in {} |-> ""]]
Hilos == {"bus", "bucle"}
AMedias(h) == hilo[h].paso \in {"leido", "truncado"}
Quietos == \A h \in Hilos : hilo[h].paso = "nada"
Turno(h) == Solapan \/ \A otro \in Hilos \ {h} : ~AMedias(otro)

Encarga(h, poner) == hilo' = [hilo EXCEPT ![h] = [paso |-> "pide", base |-> <<>>, poner |-> poner]]

LeerFichero(h) ==
  /\ hilo[h].paso = "pide" /\ Turno(h)
  /\ hilo' = [hilo EXCEPT ![h].paso = "leido", ![h].base = disco]
  /\ UNCHANGED <<disco, elegido, vivo, forzada, canal, cambios, perdido>>

Truncar(h) ==
  /\ hilo[h].paso = "leido"
  /\ disco' = <<>>
  /\ hilo' = [hilo EXCEPT ![h].paso = "truncado"]
  /\ UNCHANGED <<elegido, vivo, forzada, canal, cambios, perdido>>

\* Written, the thread of D-Bus asks the loop to read everything again.
Volcar(h) ==
  /\ hilo[h].paso = "truncado"
  /\ LET poner == hilo[h].poner IN
     /\ disco' = Reescrito(hilo[h].base, poner)
     /\ elegido' = [clave \in Claves |-> IF clave \in DOMAIN poner THEN poner[clave] ELSE elegido[clave]]
  /\ canal' = IF h = "bus" THEN Append(canal, "all") ELSE canal
  /\ hilo' = [hilo EXCEPT ![h] = Nadie]
  /\ UNCHANGED <<vivo, forzada, cambios, perdido>>

\* The disk is full, and the file already truncated: nothing of it is left.
NoCabe(h) ==
  /\ hilo[h].paso = "truncado"
  /\ hilo' = [hilo EXCEPT ![h] = Nadie]
  /\ perdido' = TRUE /\ elegido' = DesdeTexto(disco)
  /\ UNCHANGED <<disco, vivo, forzada, canal, cambios>>

(***************************************************************************)
(* Settings: what it asks is checked whole before a line is written.  A    *)
(* section alone is read again without writing.                            *)
(***************************************************************************)
ApplyConfig(peticion) ==
  /\ cambios < MaxCambios /\ hilo["bus"].paso = "nada"
  /\ Valida(peticion)
  /\ Encarga("bus", peticion)
  /\ cambios' = cambios + 1
  /\ UNCHANGED <<disco, elegido, vivo, forzada, canal, perdido>>

ReloadConfig(seccion) ==
  /\ hilo["bus"].paso = "nada" /\ canal = <<>>
  /\ canal' = <<seccion>>
  /\ UNCHANGED <<disco, elegido, vivo, forzada, hilo, cambios, perdido>>

\* The keys each section reads again: the rest wait for the next session.
SeccionDe == [dock_tamano |-> "desktop", dock_esquiva |-> "desktop", luz_nocturna |-> "brightness",
              fondo |-> "wallpaper", fondo_claro |-> "wallpaper",
              bloqueo_reloj_y |-> "lockscreen", bloqueo_inactividad |-> "lockscreen", sonido_volumen |-> "all"]
EnVivo == DOMAIN SeccionDe
\* Slip: known names that nothing attends to, as it was.
ReleeSinEscritorio(clave) == clave \in EnVivo /\ Head(canal) \in {SeccionDe[clave], "all"} \ {"desktop"}
                             /\ SeccionDe[clave] # "desktop"
Relee(clave) == clave \in EnVivo /\ Head(canal) \in {SeccionDe[clave], "all"}

Recargar ==
  /\ canal # <<>> /\ hilo["bucle"].paso = "nada" /\ Turno("bucle")
  /\ LET config == DesdeTexto(disco) IN
     /\ vivo' = [clave \in Claves |-> IF Relee(clave) THEN config[clave] ELSE vivo[clave]]
     /\ forzada' = IF Relee("luz_nocturna") /\ config.luz_nocturna # vivo.luz_nocturna THEN "nada" ELSE forzada
  /\ canal' = Tail(canal)
  /\ UNCHANGED <<disco, elegido, hilo, cambios, perdido>>

(***************************************************************************)
(* What the user chooses on the desktop is shown first and then written.   *)
(***************************************************************************)
Elige(poner) ==
  /\ cambios < MaxCambios /\ hilo["bucle"].paso = "nada"
  /\ vivo' = [clave \in Claves |-> IF clave \in DOMAIN poner THEN poner[clave] ELSE vivo[clave]]
  /\ Encarga("bucle", poner)
  /\ cambios' = cambios + 1
  /\ UNCHANGED <<disco, elegido, canal, perdido>>

AlternarBarra ==
  /\ Elige([dock_esquiva |-> IF vivo.dock_esquiva = "si" THEN "no" ELSE "si"])
  /\ UNCHANGED forzada

ElegirFondo == Elige([fondo |-> "", fondo_claro |-> "elegido"]) /\ UNCHANGED forzada

Anclar ==
  /\ Elige([dock |-> IF vivo.dock = "una menos" THEN "todas" ELSE "una menos"])
  /\ UNCHANGED forzada

AlternarLuz(encender) ==
  \/ /\ vivo.luz_nocturna # "programada"
     /\ Elige([luz_nocturna |-> encender])
     /\ UNCHANGED forzada
  \/ /\ vivo.luz_nocturna = "programada" /\ hilo["bucle"].paso = "nada"
     /\ forzada' = encender
     /\ UNCHANGED <<disco, elegido, vivo, canal, hilo, cambios, perdido>>

\* The edge of the timetable: it rules again.
Borde ==
  /\ forzada # "nada" /\ hilo["bucle"].paso = "nada"
  /\ forzada' = "nada"
  /\ UNCHANGED <<disco, elegido, vivo, canal, hilo, cambios, perdido>>

Empezar(lineas) ==
  /\ vivo = DesdeTexto(lineas)
  /\ forzada = "nada"
  /\ canal = <<>>

\* Out and in again, with nobody writing.
OtraSesion ==
  /\ cambios < MaxCambios /\ Quietos
  /\ vivo' = DesdeTexto(disco)
  /\ forzada' = "nada" /\ canal' = <<>> /\ perdido' = FALSE
  /\ cambios' = cambios + 1
  /\ UNCHANGED <<disco, elegido, hilo>>

Init ==
  /\ disco \in Ficheros
  /\ Empezar(disco)
  /\ elegido = vivo
  /\ hilo = [h \in Hilos |-> Nadie] /\ perdido = FALSE /\ cambios = 0

Next ==
  \/ \E h \in Hilos : LeerFichero(h) \/ Truncar(h) \/ Volcar(h) \/ NoCabe(h)
  \/ \E peticion \in Peticiones : ApplyConfig(peticion)
  \/ \E seccion \in {"desktop", "brightness", "wallpaper", "lockscreen"} : ReloadConfig(seccion)
  \/ Recargar \/ AlternarBarra \/ ElegirFondo \/ Anclar \/ Borde \/ OtraSesion
  \/ \E encender \in {"si", "no"} : AlternarLuz(encender)
Spec == Init /\ [][Next]_vars

(***************************************************************************)
(* Properties.                                                             *)
(***************************************************************************)
\* With nobody writing, the file read again gives every key the last value it
\* was given, and to those nobody touched the one they had ("deja lo demas
\* como esta", over escribir_claves).  A write that failed empties it for all.
LoDemasSigue == Quietos => DesdeTexto(disco) = elegido

\* What the compositor lives by is what it would read, when nobody writes and
\* nothing is waiting to be read again, but for a write that failed.
LoVivoGuardado == Quietos /\ canal = <<>> /\ ~perdido => \A clave \in EnVivo : vivo[clave] = DesdeTexto(disco)[clave]

\* A light switched by hand has a timetable to go back to.
ForzadaConHorario == forzada # "nada" => vivo.luz_nocturna = "programada"

\* The object of GetConfig can be given back to ApplyConfig as it came
\* (ajustes.rs, the contract of GetConfig), and changes nothing.
VueltaEntera ==
  LET config == DesdeTexto(disco)
      objeto == ConfigJson(config)
  IN  Quietos => Valida(objeto) /\ DesdeTexto(Reescrito(disco, objeto)) = config

\* The list the user pins to is the one that is kept.  Not so after an
\* ApplyConfig of the dock: no section reads it again.
DockAlDia == Quietos /\ canal = <<>> => vivo.dock = DesdeTexto(disco).dock

AjustesFieles == LoDemasSigue /\ LoVivoGuardado /\ ForzadaConHorario /\ VueltaEntera
=============================================================================
