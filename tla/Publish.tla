------------------------------ MODULE Publish -------------------------------
(***************************************************************************)
(* publicar.rs: what the access screen may read of a session is copied     *)
(* where its user can read it.  Every publication is a thread of its own   *)
(* that goes over the files in turn, each written beside and renamed; two  *)
(* threads share the name of what they write beside.                       *)
(***************************************************************************)
EXTENDS Naturals, Sequences

CONSTANTS
  Ficheros,    \* the files, in order: the settings, then the wallpaper
  Rutas,       \* the wallpapers there are to choose
  Valen,       \* those that are published: no video, not too large
  Tam,         \* the length of each
  Ajustes,     \* the contents the settings may have
  MaxHilos,    \* bound: publications
  Solapan,     \* whether a publication may start with another under way
  Tarjeta      \* whether the wallpaper may be chosen from its card

VARIABLES
  ajustes, ruta,   \* the settings on the disk, and the wallpaper chosen
  sinPublicar,     \* whether something changed since the last publication
  hilos,           \* the publications: what each is doing
  temporal,        \* of each file, the one that is written beside, or 0
  puesto,          \* of each file, the one that is in place, or 0
  dentro           \* what each of those files holds: "medio" while it is written
vars == <<ajustes, ruta, sinPublicar, hilos, temporal, puesto, dentro>>

Hilo(r) == [fase |-> "elige", i |-> 1, ruta |-> r, dato |-> "nada", nodo |-> 0]
Acabado(h) == h.i > Len(Ficheros)
Fichero(h) == Ficheros[h.i]
Siguiente(h) == [h EXCEPT !.fase = "elige", !.i = h.i + 1]
Parado(h) == [h EXCEPT !.fase = "elige", !.i = Len(Ficheros) + 1]

Init ==
  /\ ajustes \in Ajustes /\ ruta \in Rutas /\ sinPublicar = TRUE /\ hilos = <<>>
  /\ temporal = [f \in {Ficheros[i] : i \in DOMAIN Ficheros} |-> 0]
  /\ puesto = [f \in {Ficheros[i] : i \in DOMAIN Ficheros} |-> 0]
  /\ dentro = <<>>

\* publicar: at the start, and on every reload of the settings.
Publicar ==
  /\ Len(hilos) < MaxHilos
  /\ Solapan \/ \A h \in DOMAIN hilos : Acabado(hilos[h])
  /\ \E a \in Ajustes, r \in Rutas : ajustes' = a /\ ruta' = r /\ hilos' = Append(hilos, Hilo(r))
  /\ sinPublicar' = FALSE
  /\ UNCHANGED <<temporal, puesto, dentro>>
\* The cards of the wallpaper and of the theme keep their choice, and publish nothing.
Elegir ==
  /\ Tarjeta
  /\ \E r \in Rutas \ {ruta} : ruta' = r
  /\ sinPublicar' = TRUE
  /\ UNCHANGED <<ajustes, hilos, temporal, puesto, dentro>>

(***************************************************************************)
(* A thread.  Of the settings it takes what is on the disk by then; the    *)
(* wallpaper it was given, if it may be published, is not copied again     *)
(* when what is in place has its length (a copy is always younger).        *)
(***************************************************************************)
EnDisco(f) == IF puesto[f] = 0 THEN "nada" ELSE dentro[puesto[f]]
AlDia(r) == EnDisco("fondo") \in Valen /\ Tam[EnDisco("fondo")] = Tam[r]
\* Slip: what is in place is written over.
EmpiezaEnSuSitio(n, dato) ==
  LET h == hilos[n]
      nodo == IF puesto[Fichero(h)] = 0 THEN Len(dentro) + 1 ELSE puesto[Fichero(h)]
  IN /\ hilos' = [hilos EXCEPT ![n] = [h EXCEPT !.fase = "escribe", !.dato = dato, !.nodo = nodo]]
     /\ temporal' = [temporal EXCEPT ![Fichero(h)] = nodo]
     /\ dentro' = IF nodo > Len(dentro) THEN Append(dentro, "medio") ELSE [dentro EXCEPT ![nodo] = "medio"]
     /\ UNCHANGED puesto
Empieza(n, dato) ==
  LET h == hilos[n]
      nodo == IF temporal[Fichero(h)] = 0 THEN Len(dentro) + 1 ELSE temporal[Fichero(h)]
  IN /\ hilos' = [hilos EXCEPT ![n] = [h EXCEPT !.fase = "escribe", !.dato = dato, !.nodo = nodo]]
     /\ temporal' = [temporal EXCEPT ![Fichero(h)] = nodo]
     /\ dentro' = IF nodo > Len(dentro) THEN Append(dentro, "medio") ELSE [dentro EXCEPT ![nodo] = "medio"]
     /\ UNCHANGED puesto
Retira(n) ==
  /\ puesto' = [puesto EXCEPT !["fondo"] = 0]
  /\ hilos' = [hilos EXCEPT ![n] = Siguiente(hilos[n])]
  /\ UNCHANGED <<temporal, dentro>>
YaEsta(n) ==
  /\ hilos' = [hilos EXCEPT ![n] = Siguiente(hilos[n])]
  /\ UNCHANGED <<temporal, puesto, dentro>>
Copiar(n) ==
  LET h == hilos[n] IN
  /\ ~Acabado(h) /\ h.fase = "elige"
  /\ IF Fichero(h) = "panel" THEN Empieza(n, ajustes)
     ELSE IF h.ruta \notin Valen THEN Retira(n)
     ELSE IF AlDia(h.ruta) THEN YaEsta(n) ELSE Empieza(n, h.ruta)
  /\ UNCHANGED <<ajustes, ruta, sinPublicar>>
Escribir(n) ==
  /\ hilos[n].fase = "escribe"
  /\ dentro' = [dentro EXCEPT ![hilos[n].nodo] = hilos[n].dato]
  /\ hilos' = [hilos EXCEPT ![n].fase = "renombra"]
  /\ UNCHANGED <<ajustes, ruta, sinPublicar, temporal, puesto>>
\* What was beside may be gone, renamed by another: that is an error, and the thread
\* leaves what it had yet to publish.
Renombrar(n) ==
  LET h == hilos[n] IN
  /\ h.fase = "renombra"
  /\ IF temporal[Fichero(h)] = 0
     THEN hilos' = [hilos EXCEPT ![n] = Parado(h)] /\ UNCHANGED <<temporal, puesto>>
     ELSE /\ hilos' = [hilos EXCEPT ![n] = Siguiente(h)]
          /\ puesto' = [puesto EXCEPT ![Fichero(h)] = temporal[Fichero(h)]]
          /\ temporal' = [temporal EXCEPT ![Fichero(h)] = 0]
  /\ UNCHANGED <<ajustes, ruta, sinPublicar, dentro>>
Next ==
  \/ Publicar \/ Elegir
  \/ \E n \in DOMAIN hilos : Copiar(n) \/ Escribir(n) \/ Renombrar(n)
Spec == Init /\ [][Next]_vars

(***************************************************************************)
(* Properties.                                                             *)
(***************************************************************************)
Nombres == {Ficheros[i] : i \in DOMAIN Ficheros}
\* Every variable has its type.
TypeOK ==
  /\ ajustes \in Ajustes /\ ruta \in Rutas /\ sinPublicar \in BOOLEAN /\ Len(hilos) <= MaxHilos
  /\ \A n \in DOMAIN hilos : hilos[n].i \in 1..(Len(Ficheros) + 1) /\ hilos[n].nodo \in 0..Len(dentro)
  /\ temporal \in [Nombres -> 0..Len(dentro)] /\ puesto \in [Nombres -> 0..Len(dentro)]

\* The access screen never reads half a file (publicar.rs:160).
NuncaMedio == \A f \in Nombres : EnDisco(f) # "medio"
\* Once the publications are over, what is published is what there was to publish
\* (publicar.rs:1, 135-137).
Publicado ==
  (sinPublicar \/ \E n \in DOMAIN hilos : ~Acabado(hilos[n]))
    \/ (EnDisco("panel") = ajustes /\ EnDisco("fondo") = IF ruta \in Valen THEN ruta ELSE "nada")
PublicacionEntera == NuncaMedio /\ Publicado
\* What the access screen shows is what the session has, publications aside.
SiempreAlDia ==
  (hilos # <<>> /\ \A n \in DOMAIN hilos : Acabado(hilos[n]))
    => EnDisco("fondo") = IF ruta \in Valen THEN ruta ELSE "nada"
=============================================================================
