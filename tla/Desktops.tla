------------------------------- MODULE Desktops -------------------------------
(***************************************************************************)
(* Which window is where: mapped in the Space, put away on another virtual *)
(* desktop of its output, set aside by "show desktop", shrinking into the  *)
(* dock or minimized.  Desktops are per output; their number is global.    *)
(* Two animations map windows that do not stay: the slide of a desktop     *)
(* change (one per output) and the sweep of "show desktop" (one at most).  *)
(* A place is the output that holds the window's centre and whether it is  *)
(* where the user left the window or a point of an animation.              *)
(***************************************************************************)
EXTENDS Integers, SequencesExt

CONSTANTS
    Ventanas, Salidas, Ninguna,
    Principal,     \* the output at (0, 0)
    Lado,          \* Lado[o][1]: the output to the right of o, Lado[o][-1] to its left
    App,           \* App[w]: the program of a window
    Maximo,        \* MAXIMO_ESCRITORIOS
    AlInicio,      \* desktops of panel.conf
    Desenchufes,   \* bound: outputs that may be unplugged
    Solapes,       \* whether a gesture may come while an animation is running
    Huerfanas      \* whether an output may go while it holds windows put away under
                   \* the number of the desktop in view where they are adopted, and
                   \* come back to a desktop that was deleted meanwhile

ASSUME DesktopsAssumption ==
    /\ Ninguna \notin Ventanas \cup Salidas /\ Principal \in Salidas
    /\ Lado \in [Salidas -> [{-1, 1} -> Salidas \cup {Ninguna}]]
    /\ Maximo \in Nat \ {0} /\ AlInicio \in 1..Maximo
    /\ Desenchufes \in Nat /\ {Solapes, Huerfanas} \subseteq BOOLEAN

VARIABLES
    m,             \* the compositor's window lists, below
    vida,          \* "nueva", "mapeada" (no size yet), "colocada" or "muerta"
    cambios        \* outputs unplugged so far

vars == <<m, vida, cambios>>

Lugar == [salida : Salidas \cup {Ninguna}, sitio : BOOLEAN]
Apartada == [v : Ventanas, p : Lugar]
Fuera == [salida |-> Ninguna, sitio |-> FALSE]
EnSitio(o) == [salida |-> o, sitio |-> TRUE]
DeViaje(o) == [salida |-> o, sitio |-> FALSE]

Quieto == [dir |-> 0, mitad |-> FALSE, salientes |-> <<>>, entrantes |-> <<>>]
SinDespeje == [ida |-> FALSE, ventanas |-> <<>>]

Vivas == {w \in Ventanas : vida[w] \in {"mapeada", "colocada"}}
Mapeadas(x) == ToSet(x.espacio)
Son(lista) == {lista[i].v : i \in DOMAIN lista}
Sin(lista, S) == SelectSeq(lista, LAMBDA a : a.v \notin S)

-------------------------------------------------------------------------------
(* The Space, as the vendored Smithay keeps it: the stack, bottom to top.  *)

Mapear(x, w, p) ==
    [x EXCEPT !.espacio = Append(SelectSeq(@, LAMBDA v : v # w), w), !.lugar[w] = p]
Desmapear(x, w) ==
    [x EXCEPT !.espacio = SelectSeq(@, LAMBDA v : v # w), !.lugar[w] = Fuera]
\* A list in one go, in its order: it holds no window twice.
MapearTodas(x, lista) ==
    [x EXCEPT !.espacio = SelectSeq(@, LAMBDA v : v \notin Son(lista))
                          \o [i \in DOMAIN lista |-> lista[i].v],
              !.lugar = [v \in Ventanas |-> IF v \in Son(lista)
                            THEN (CHOOSE a \in ToSet(lista) : a.v = v).p ELSE @[v]]]
DesmapearTodas(x, lista) ==
    [x EXCEPT !.espacio = SelectSeq(@, LAMBDA v : v \notin Son(lista)),
              !.lugar = [v \in Ventanas |-> IF v \in Son(lista) THEN Fuera ELSE @[v]]]

Enfocar(x, w) ==
    [IF w \in Mapeadas(x) THEN Mapear(x, w, x.lugar[w]) ELSE x EXCEPT !.foco = w]

SalidaDe(x, w) ==
    IF w \in Mapeadas(x) /\ x.lugar[w].salida \in x.salidas
    THEN x.lugar[w].salida ELSE Ninguna
VentanasDe(x, o) ==
    LET suyas == SelectSeq(x.espacio, LAMBDA w : SalidaDe(x, w) = o)
    IN  [i \in DOMAIN suyas |-> [v |-> suyas[i], p |-> x.lugar[suyas[i]]]]

\* Focus to the topmost of the windows that pass, or to nobody.
EnfocarUltima(x, Pasa(_)) ==
    LET suyas == SelectSeq(x.espacio, Pasa)
    IN  IF suyas = <<>> THEN [x EXCEPT !.foco = Ninguna] ELSE Enfocar(x, Last(suyas))

ActivoEn(x, o) == IF x.activo[o] <= x.cuantos THEN x.activo[o] ELSE x.cuantos
Cada(listas, Op(_)) == <<>> \o [i \in DOMAIN listas |-> Op(listas[i])]
Purgadas(f, S) == [o \in Salidas |-> Cada(f[o], LAMBDA l : Sin(l, S))]

-------------------------------------------------------------------------------
(* The animations.                                                         *)

\* What a slide lays over: the first half with the windows that leave still
\* at home, the second with the ones that enter already there.
Tira(o, d) ==
    LET dentro == DeViaje(o)
        fuera(dir) == DeViaje(Lado[o][dir])
        pon(lista, p) == [i \in DOMAIN lista |-> [lista[i] EXCEPT !.p = p]]
    IN  pon(d.salientes, IF d.mitad THEN fuera(-d.dir) ELSE dentro)
        \o pon(d.entrantes, IF d.mitad THEN dentro ELSE fuera(d.dir))

TerminarDeslizamientoSinQuitar(x, o) ==      \* a slip: what leaves is not unmapped
    LET d == x.deslizando[o]
    IN  IF d.dir = 0 THEN x
        ELSE EnfocarUltima(MapearTodas([x EXCEPT !.deslizando[o] = Quieto], d.entrantes),
                           LAMBDA w : x.lugar[w].salida = o)
TerminarDeslizamiento(x, o) ==
    LET d == x.deslizando[o]
        y == MapearTodas(DesmapearTodas([x EXCEPT !.deslizando[o] = Quieto],
                                        d.salientes), d.entrantes)
    IN  IF d.dir = 0 THEN x
        ELSE EnfocarUltima(y, LAMBDA w : SalidaDe(y, w) = o)

\* mapear_en_su_orden: those that are not mapped first, the rest as stacked.
EnSuOrden(x, lista) ==
    SelectSeq(lista, LAMBDA a : a.v \notin Mapeadas(x))
    \o LET suyas == SelectSeq(x.espacio, LAMBDA w : w \in Son(lista))
       IN  [i \in DOMAIN suyas |->
               lista[CHOOSE j \in DOMAIN lista : lista[j].v = suyas[i]]]

TerminarDespeje(x) ==
    LET d == x.despeje
        y == [x EXCEPT !.despeje = SinDespeje]
    IN  IF d.ida THEN DesmapearTodas(y, d.ventanas)
        ELSE MapearTodas(y, EnSuOrden(x, d.ventanas))

\* The outputs in the order of a hash map, any: it shows when two slide.
Ordenes ==
    LET dos == \E o, p \in Salidas : o # p /\ m.deslizando[o].dir # 0 /\ m.deslizando[p].dir # 0
    IN  IF dos THEN SetToSeqs(Salidas) ELSE {SetToSeq(Salidas)}
TerminarTodosSinDespeje(x, orden) ==        \* a slip: the sweep goes on
    FoldLeft(LAMBDA y, o : TerminarDeslizamiento(y, o), x, orden)
TerminarTodos(x, orden) ==
    TerminarDespeje(FoldLeft(LAMBDA y, o : TerminarDeslizamiento(y, o), x, orden))

\* purgar: the dead leave every list; a slide under way keeps them.
Purgar(x, S) ==
    [x EXCEPT !.guardadas = Purgadas(x.guardadas, S),
              !.escondidas = Purgadas(x.escondidas, S),
              !.minimizadas = Sin(@, S),
              !.minimizando = Sin(@, S),
              !.despeje.ventanas = Sin(@, S)]

\* space.refresh() at the end of the turn: a dead window leaves the Space.
Refrescar(x, S) ==
    [x EXCEPT !.espacio = SelectSeq(@, LAMBDA w : w \notin S),
              !.lugar = [w \in Ventanas |-> IF w \in S THEN Fuera ELSE x.lugar[w]]]
Muertas == {w \in Ventanas : vida[w] = "muerta"}
Queda(x) == m' = Refrescar(x, Muertas) /\ UNCHANGED <<vida, cambios>>

-------------------------------------------------------------------------------
(* The operations, on the state they are given.                            *)

CambiarA(x, o, n) ==
    LET antes == ActivoEn(x, o)
        y == TerminarDeslizamiento(Purgar(TerminarDespeje(x), Muertas), o)
        salientes == VentanasDe(y, o)
        entrantes == y.guardadas[o][n]
        dir == IF n > antes THEN 1 ELSE -1
        z == [y EXCEPT !.guardadas[o] = [@ EXCEPT ![n] = <<>>, ![antes] = salientes],
                       !.activo[o] = n,
                       !.deslizando[o] = [dir |-> dir, mitad |-> FALSE,
                           salientes |-> salientes, entrantes |-> entrantes]]
    IN  IF n > x.cuantos \/ n = antes THEN x
        ELSE MapearTodas(z, [i \in DOMAIN entrantes |->
                 [entrantes[i] EXCEPT !.p = DeViaje(Lado[o][dir])]])

Crear(x, orden) ==
    LET y == TerminarTodos(x, orden)
        masUno(listas) == [o \in Salidas |-> Append(listas[o], <<>>)]
    IN  IF y.cuantos >= Maximo THEN y
        ELSE [y EXCEPT !.guardadas = masUno(y.guardadas), !.escondidas = masUno(y.escondidas),
                       !.cuantos = @ + 1]

\* soltar_escondidas: back to their desktop, mapped if it is the one in view.
SoltarEscondidas(x) ==
    LET y == TerminarDespeje(x)
        enVista(o, i) == o \in y.salidas /\ i = ActivoEn(y, o)
        z == [y EXCEPT
                !.guardadas = [o \in Salidas |-> Cada([i \in 1..y.cuantos |->
                    y.guardadas[o][i] \o IF enVista(o, i) THEN <<>> ELSE y.escondidas[o][i]],
                    LAMBDA l : l)],
                !.escondidas = [o \in Salidas |-> Cada(y.escondidas[o], LAMBDA l : <<>>)]]
    IN  FoldLeft(LAMBDA w, o : MapearTodas(w, y.escondidas[o][ActivoEn(y, o)]),
                 z, SetToSeq(y.salidas))

VecinoSiempre(i, act, nuevo) == IF i = act THEN nuevo ELSE i      \* an off-by-one
\* The desktop that takes the windows of desktop i.
Vecino(i, act, nuevo) == IF i = act THEN nuevo ELSE IF i = 1 THEN 1 ELSE i - 1

EliminarEn(x, o, i) ==
    LET act == ActivoEn(x, o)
        nuevo == CASE i = act -> IF i < x.cuantos THEN i ELSE i - 1
                   [] i < act -> act - 1
                   [] OTHER   -> act
        destino == Vecino(i, act, nuevo)
        borradas == IF i = act THEN VentanasDe(x, o) ELSE x.guardadas[o][i]
        listas == RemoveAt(x.guardadas[o], i)
        y == [IF i = act THEN DesmapearTodas(x, borradas) ELSE x EXCEPT !.activo[o] = nuevo]
    IN  IF destino = nuevo
        THEN MapearTodas([y EXCEPT !.guardadas[o] = [listas EXCEPT ![destino] = <<>>]],
                         listas[destino] \o borradas)
        ELSE [y EXCEPT !.guardadas[o] = [listas EXCEPT ![destino] = @ \o borradas]]

\* An output that is not there has no lists (AdoptarHuerfanas), only its index.
Eliminar(x, i, aqui, orden) ==
    LET y == Purgar(SoltarEscondidas(TerminarTodos(x, orden)), Muertas)
        z == FoldLeft(LAMBDA w, o : EliminarEn(w, o, i), y, SetToSeq(y.salidas))
        corta == [z EXCEPT
            !.guardadas = [o \in Salidas |-> IF o \in y.salidas THEN z.guardadas[o]
                                           ELSE RemoveAt(z.guardadas[o], i)],
            !.escondidas = [o \in Salidas |-> RemoveAt(z.escondidas[o], i)],
            !.cuantos = @ - 1]
        enAqui(w) == SalidaDe(corta, w) = aqui
    IN  IF y.cuantos <= 1 \/ i > y.cuantos THEN y
        ELSE IF \E w \in Mapeadas(corta) : enAqui(w) THEN EnfocarUltima(corta, enAqui)
        ELSE corta

\* ajustar: create or delete at the end until there are n.
Ajustar(x, n, aqui, orden) ==
    LET pasos == IF n > x.cuantos THEN n - x.cuantos ELSE x.cuantos - n
    IN  FoldLeft(LAMBDA y, k : IF n > x.cuantos THEN Crear(y, orden)
                               ELSE Eliminar(y, y.cuantos, aqui, orden),
                 x, [k \in 1..pasos |-> k])

MoverVentana(x, w, n, orden) ==
    LET y == TerminarTodos(x, orden)
        o == SalidaDe(y, w)
        z == [Desmapear(y, w) EXCEPT
                !.guardadas[o][n] = Append(@, [v |-> w, p |-> y.lugar[w]])]
    IN  IF w \in Son(x.minimizando) \/ n > x.cuantos THEN x
        ELSE IF o = Ninguna THEN y
        ELSE IF n = ActivoEn(y, o) THEN y
        ELSE IF y.foco = w THEN EnfocarUltima(z, LAMBDA v : SalidaDe(z, v) = o)
        ELSE z

\* trasladar: a thumbnail dropped on another desktop of the overview.
Trasladar(x, w, o, i, n, orden) ==
    LET a == CHOOSE a \in ToSet(x.guardadas[o][i]) : a.v = w
        y == [x EXCEPT !.guardadas[o][i] = Sin(@, {w})]
    IN  IF i = ActivoEn(x, o) THEN MoverVentana(x, w, n, orden)
        ELSE IF w \notin Son(x.guardadas[o][i]) THEN x
        ELSE IF n = ActivoEn(x, o) THEN Enfocar(Mapear(y, w, a.p), w)
        ELSE [y EXCEPT !.guardadas[o][n] = Append(@, a)]

Despejar(x) ==
    LET y == TerminarDespeje(x)
        suyas(o) == IF o \in y.salidas THEN VentanasDe(y, o) ELSE <<>>
        viaje == FlattenSeq([i \in 1..Cardinality(y.salidas) |-> suyas(SetToSeq(y.salidas)[i])])
    IN  IF viaje = <<>> THEN y
        ELSE [y EXCEPT
                !.escondidas = [o \in Salidas |->
                    [y.escondidas[o] EXCEPT ![ActivoEn(y, o)] = @ \o suyas(o)]],
                !.despeje = [ida |-> TRUE, ventanas |-> viaje],
                !.foco = Ninguna]

Recuperar(x) ==
    LET y == TerminarDespeje(x)
        suyas(o) == y.escondidas[o][ActivoEn(y, o)]
        viaje == FlattenSeq([i \in 1..Cardinality(y.salidas) |-> suyas(SetToSeq(y.salidas)[i])])
        z == MapearTodas(
                [y EXCEPT !.escondidas = [o \in Salidas |->
                    IF o \in y.salidas THEN [y.escondidas[o] EXCEPT ![ActivoEn(y, o)] = <<>>]
                                       ELSE y.escondidas[o]]],
                [i \in DOMAIN viaje |-> [viaje[i] EXCEPT !.p = DeViaje(Ninguna)]])
    IN  IF viaje = <<>> THEN y
        ELSE [Enfocar(z, Last(z.espacio)) EXCEPT !.despeje = [ida |-> FALSE, ventanas |-> viaje]]

EscondidasActivas(x) == UNION {Son(x.escondidas[o][ActivoEn(x, o)]) : o \in Salidas}

EnDock(x, w) == w \in Son(x.minimizando) \cup Son(x.minimizadas)
Minimizar(x, w) ==
    LET y == [x EXCEPT !.minimizando = Append(@, [v |-> w, p |-> x.lugar[w]])]
    IN  IF EnDock(x, w) \/ w \notin Mapeadas(x) THEN x
        ELSE EnfocarUltima(y, LAMBDA v : v # w)

De(lista, a) == {i \in DOMAIN lista : App[lista[i].v] = a}
RestaurarMinimizada(x, a) ==
    LET i == CHOOSE i \in De(x.minimizadas, a) : \A j \in De(x.minimizadas, a) : j <= i
        una == x.minimizadas[i]
    IN  Enfocar(Mapear([x EXCEPT !.minimizadas = RemoveAt(@, i)], una.v, una.p), una.v)

MoverAMonitor(x, w, o, orden) ==
    LET y == TerminarTodos(x, orden)
    IN  IF w \in Son(x.minimizando) THEN x
        ELSE IF w \notin Mapeadas(y) \/ SalidaDe(y, w) \in {o, Ninguna} THEN y
        ELSE Enfocar(Mapear(y, w, EnSitio(o)), w)

\* A slip: the windows keep the coordinates of the output that has gone.
AdoptarSinReencuadrar(x) ==
    LET d == IF Principal \in x.salidas THEN Principal ELSE CHOOSE o \in x.salidas : TRUE
        suyas(i) == FlattenSeq([k \in 1..Cardinality(Salidas \ x.salidas) |->
                        x.guardadas[SetToSeq(Salidas \ x.salidas)[k]][i]])
    IN  [x EXCEPT !.guardadas = [o \in Salidas |-> Cada([i \in 1..x.cuantos |->
            IF o = d THEN x.guardadas[o][i] \o suyas(i)
            ELSE IF o \in x.salidas THEN x.guardadas[o][i] ELSE <<>>], LAMBDA l : l)]]
\* adoptar_huerfanas: what an output that has gone had put away.
AdoptarHuerfanas(x) ==
    LET destino == IF Principal \in x.salidas THEN Principal ELSE CHOOSE o \in x.salidas : TRUE
        huerfanas(i) ==
            FlattenSeq([k \in 1..Cardinality(Salidas \ x.salidas) |->
                LET o == SetToSeq(Salidas \ x.salidas)[k]
                IN  x.guardadas[o][i] \o x.escondidas[o][i]])
        reencuadradas(i) ==
            [k \in DOMAIN huerfanas(i) |-> [huerfanas(i)[k] EXCEPT !.p = EnSitio(destino)]]
        vacias == [i \in 1..x.cuantos |-> <<>>]
    IN  [x EXCEPT
            !.guardadas = [o \in Salidas |->
                CASE o \notin x.salidas -> vacias
                  [] o = destino -> [i \in 1..x.cuantos |-> x.guardadas[o][i] \o reencuadradas(i)]
                  [] OTHER -> x.guardadas[o]],
            !.escondidas = [o \in Salidas |->
                IF o \in x.salidas THEN x.escondidas[o] ELSE vacias]]

-------------------------------------------------------------------------------
Init ==
    /\ m = [espacio |-> <<>>, lugar |-> [w \in Ventanas |-> Fuera], salidas |-> Salidas,
            foco |-> Ninguna, cuantos |-> AlInicio, activo |-> [o \in Salidas |-> 1],
            guardadas |-> [o \in Salidas |-> [i \in 1..AlInicio |-> <<>>]],
            escondidas |-> [o \in Salidas |-> [i \in 1..AlInicio |-> <<>>]],
            deslizando |-> [o \in Salidas |-> Quieto], despeje |-> SinDespeje,
            minimizando |-> <<>>, minimizadas |-> <<>>]
    /\ vida = [w \in Ventanas |-> "nueva"]
    /\ cambios = 0

\* What this instance lets come while an animation is running.
Deslizando(o) == m.deslizando[o].dir # 0
SinDeslizar(S) == Solapes \/ \A o \in S : ~Deslizando(o)
SinBarrer == Solapes \/ m.despeje = SinDespeje
SinIrse == Solapes \/ ~m.despeje.ida
SinEncoger == Solapes \/ m.minimizando = <<>>
Colocadas == Solapes \/ \A w \in Ventanas : vida[w] # "mapeada"

\* new_toplevel, and the first commit with a size.
Abrir(w) == \E o \in m.salidas :
    /\ vida[w] = "nueva"
    /\ vida' = [vida EXCEPT ![w] = "mapeada"]
    /\ m' = Mapear(m, w, EnSitio(o))
    /\ UNCHANGED cambios

Colocar(w) == \E o \in m.salidas :
    /\ vida[w] = "mapeada" /\ w \in Mapeadas(m)
    /\ vida' = [vida EXCEPT ![w] = "colocada"]
    /\ m' = Enfocar(Mapear(m, w, EnSitio(o)), w)
    /\ UNCHANGED cambios

\* toplevel_destroyed, and the refresh at the end of the turn.
Cerrar(w) ==
    /\ w \in Vivas /\ SinIrse /\ SinEncoger
    /\ vida' = [vida EXCEPT ![w] = "muerta"]
    /\ LET muertas == Muertas \cup {w}
       IN  m' = Refrescar(EnfocarUltima(Purgar(m, muertas), LAMBDA v : v \notin muertas), muertas)
    /\ UNCHANGED cambios

Enfoca(w) ==      \* a click, Alt+Tab
    /\ SalidaDe(m, w) # Ninguna /\ SinIrse /\ SinEncoger
    /\ Queda(Enfocar(m, w))

CambiarAqui == \E o \in m.salidas, n \in 1..m.cuantos :
    /\ SinDeslizar(m.salidas \ {o}) /\ SinEncoger
    /\ n # ActivoEn(m, o)
    /\ Queda(CambiarA(m, o, n))

CreaUno == \E orden \in Ordenes : Queda(Crear(m, orden))
EliminaUno == \E i \in 1..m.cuantos, aqui \in m.salidas, orden \in Ordenes :
    SinEncoger /\ Queda(Eliminar(m, i, aqui, orden))
Ajusta == \E n \in 1..Maximo, aqui \in m.salidas, orden \in Ordenes :
    SinEncoger /\ Queda(Ajustar(m, n, aqui, orden))

MueveVentana(w) == \E n \in 1..m.cuantos, orden \in Ordenes :
    w \in Mapeadas(m) /\ SinEncoger /\ Queda(MoverVentana(m, w, n, orden))

Traslada(w) == \E o \in m.salidas, i, n \in 1..m.cuantos, orden \in Ordenes :
    /\ SinDeslizar({o}) /\ SinEncoger /\ i # n
    /\ w \in Son(m.guardadas[o][i]) \/ (i = ActivoEn(m, o) /\ w \in Mapeadas(m))
    /\ Queda(Trasladar(m, w, o, i, n, orden))

\* A click on a thumbnail of the overview.
ClicEnVista(w) == \E o \in m.salidas, i \in 1..m.cuantos :
    /\ SinDeslizar(m.salidas \ {o}) /\ SinEncoger
    /\ w \in Son(m.guardadas[o][i])
    /\ LET x == CambiarA(m, o, i)
       IN  Queda(IF w \in Mapeadas(x) THEN Enfocar(x, w) ELSE x)

Despejado == EscondidasActivas(m) # {}
GestoDespejar ==
    /\ SinDeslizar(m.salidas) /\ SinEncoger /\ Colocadas
    /\ Queda(Despejar(m))
GestoRecuperar == SinEncoger /\ Queda(Recuperar(m))
AlternarDespejado == IF Despejado THEN GestoRecuperar ELSE GestoDespejar

BotonMinimizar(w) ==
    /\ SinDeslizar(m.salidas) /\ SinBarrer /\ SinEncoger
    /\ w \in Mapeadas(m) /\ vida[w] = "colocada"
    /\ Queda(Minimizar(m, w))

\* Accion::Activar: the icon of a program in the dock.
Restaura(a) ==
    /\ De(m.minimizadas, a) # {}
    /\ Queda(RestaurarMinimizada(m, a))
RecuperaApp(a) == \E w \in EscondidasActivas(m) :
    /\ De(m.minimizadas, a) = {} /\ App[w] = a /\ SinEncoger
    /\ \A o \in Salidas : LET l == m.escondidas[o][ActivoEn(m, o)]
                          IN  w \in Son(l) => \A j \in De(l, a) : \E k \in j..Len(l) : l[k].v = w
    /\ Queda(Enfocar(Recuperar(m), w))
AlternaApp(a) ==
    LET suyas == SelectSeq(m.espacio, LAMBDA w : App[w] = a)
        w == Last(suyas)
    IN  /\ De(m.minimizadas, a) = {} /\ De(m.minimizando, a) = {} /\ suyas # <<>>
        /\ {v \in EscondidasActivas(m) : App[v] = a} = {}
        /\ SinDeslizar(m.salidas) /\ SinBarrer /\ SinEncoger /\ Colocadas
        /\ Queda(IF m.foco = w THEN Minimizar(m, w) ELSE Enfocar(m, w))

MueveAMonitor(w) == \E o \in m.salidas, orden \in Ordenes :
    w \in Mapeadas(m) /\ SinEncoger /\ Queda(MoverAMonitor(m, w, o, orden))

Heredera(S) == IF Principal \in S THEN Principal ELSE CHOOSE o \in S : TRUE
Desenchufar(o) ==
    LET quedan == m.salidas \ {o}
    IN  /\ o \in m.salidas /\ quedan # {} /\ cambios < Desenchufes
        /\ SinDeslizar(Salidas) /\ SinBarrer /\ SinEncoger
        /\ Huerfanas \/ LET i == ActivoEn(m, Heredera(quedan))
                        IN  m.guardadas[o][i] = <<>> /\ m.escondidas[o][i] = <<>>
        /\ m' = Refrescar(AdoptarHuerfanas([m EXCEPT !.salidas = quedan]), Muertas)
        /\ cambios' = cambios + 1 /\ UNCHANGED vida
Enchufar(o) ==
    /\ o \notin m.salidas /\ (Huerfanas \/ m.activo[o] <= m.cuantos)
    /\ Queda(AdoptarHuerfanas([m EXCEPT !.salidas = @ \cup {o}]))

\* One frame: escritorios::animar, then animar_minimizados.
AnimarDespeje(x, acaba) ==
    LET de(w) == LET i == CHOOSE i \in DOMAIN x.despeje.ventanas : x.despeje.ventanas[i].v = w
                 IN  x.despeje.ventanas[i].p.salida
        lista == EnSuOrden(x, x.despeje.ventanas)
    IN  IF x.despeje = SinDespeje THEN x
        ELSE IF acaba THEN TerminarDespeje(x)
        ELSE MapearTodas(x, [i \in DOMAIN lista |-> [lista[i] EXCEPT !.p = DeViaje(de(lista[i].v))]])

AnimarDeslizamiento(x, o, acaban, pasan) ==
    LET y == [x EXCEPT !.deslizando[o].mitad = @ \/ o \in pasan]
    IN  IF x.deslizando[o].dir = 0 THEN x
        ELSE IF o \in acaban THEN TerminarDeslizamiento(x, o)
        ELSE MapearTodas(y, Tira(o, y.deslizando[o]))

AnimarMinimizados(x, llegan) ==
    LET fin == SelectSeq(x.minimizando, LAMBDA a : a.v \in llegan)
    IN  [DesmapearTodas(x, fin) EXCEPT !.minimizando = Sin(@, llegan), !.minimizadas = @ \o fin]

Fotograma ==
    LET enMarcha == {o \in Salidas : Deslizando(o)}
    IN  \E acaban \in SUBSET enMarcha, llegan \in SUBSET Son(m.minimizando),
           acaba \in BOOLEAN, orden \in Ordenes :
        \E pasan \in SUBSET (enMarcha \ acaban) :
            Queda(AnimarMinimizados(
                FoldLeft(LAMBDA x, o : AnimarDeslizamiento(x, o, acaban, pasan),
                         AnimarDespeje(m, acaba), orden), llegan))

Next ==
    \/ \E w \in Ventanas :
        \/ Abrir(w) \/ Colocar(w) \/ Cerrar(w) \/ Enfoca(w)
        \/ MueveVentana(w) \/ Traslada(w) \/ ClicEnVista(w)
        \/ BotonMinimizar(w) \/ MueveAMonitor(w)
    \/ CambiarAqui \/ CreaUno \/ EliminaUno \/ Ajusta
    \/ GestoDespejar \/ GestoRecuperar \/ AlternarDespejado
    \/ \E a \in {App[w] : w \in Ventanas} : Restaura(a) \/ RecuperaApp(a) \/ AlternaApp(a)
    \/ \E o \in Salidas : Desenchufar(o) \/ Enchufar(o)
    \/ Fotograma

Spec == Init /\ [][Next]_vars

-------------------------------------------------------------------------------
(* Properties.                                                             *)

TypeOK ==
    /\ Mapeadas(m) \subseteq Ventanas /\ IsInjective(m.espacio)
    /\ m.lugar \in [Ventanas -> Lugar] /\ m.salidas \in SUBSET Salidas \ {{}}
    /\ m.foco \in Ventanas \cup {Ninguna}
    /\ m.cuantos \in 1..Maximo /\ m.activo \in [Salidas -> 1..Maximo]
    /\ \A f \in {m.guardadas, m.escondidas} : \A o \in Salidas :
           Len(f[o]) = m.cuantos /\ \A i \in 1..m.cuantos : f[o][i] \in Seq(Apartada)
    /\ vida \in [Ventanas -> {"nueva", "mapeada", "colocada", "muerta"}]
    /\ cambios \in 0..Desenchufes

\* The lists in which a window may be put away.
Listas == (Salidas \X (1..m.cuantos) \X {"guardada", "escondida"}) \cup {<<"dock">>}
EnLista(l) ==
    IF l = <<"dock">> THEN m.minimizando \o m.minimizadas
    ELSE IF l[3] = "guardada" THEN m.guardadas[l[1]][l[2]] ELSE m.escondidas[l[1]][l[2]]
SeVan == UNION {Son(m.deslizando[o].salientes) : o \in Salidas}
         \cup (IF m.despeje.ida THEN Son(m.despeje.ventanas) ELSE {})
         \cup Son(m.minimizando)

\* Every open window is in exactly one place it can be brought back from:
\* mapped to stay, or once in one list.
UnSoloSitio ==
    \A w \in Vivas :
        LET veces == {<<l, i>> \in Listas \X (1..Cardinality(Ventanas)) :
                          i \in DOMAIN EnLista(l) /\ EnLista(l)[i].v = w}
        IN  IF w \in Mapeadas(m) \ SeVan THEN veces = {} ELSE Cardinality(veces) = 1

\* The list of the desktop in view is empty: its windows are in the Space.
ActivaVacia ==
    \A o \in m.salidas : \A a \in ToSet(m.guardadas[o][ActivoEn(m, o)]) : a.v \notin Vivas

\* The type of the state, and both of these.
Repartidas == TypeOK /\ UnSoloSitio /\ ActivaVacia

\* A window comes back where it was left: what is put away is a place of its
\* own output, and what is mapped to stay is in place once nothing moves.
Viajan == UNION {Son(m.deslizando[o].entrantes) : o \in Salidas} \cup Son(m.despeje.ventanas)
SitioDeVuelta ==
    /\ \A o \in m.salidas, i \in 1..m.cuantos : \A f \in {"guardada", "escondida"} :
           \A a \in ToSet(EnLista(<<o, i, f>>)) : a.v \in Vivas => a.p = EnSitio(o)
    /\ \A a \in ToSet(EnLista(<<"dock">>)) : a.p.sitio
    /\ \A w \in Vivas \cap Mapeadas(m) : w \notin SeVan \cup Viajan => m.lugar[w].sitio

\* A new desktop is added at the end: no output changes the one it shows.
VistaQuieta ==
    [][m'.cuantos > m.cuantos => \A o \in m.salidas : ActivoEn(m', o) = ActivoEn(m, o)]_vars

\* With nothing moving, the keyboard is on a window that can be seen.
Tranquilo ==
    /\ \A o \in Salidas : ~Deslizando(o)
    /\ m.despeje.ventanas = <<>> /\ m.minimizando = <<>>
FocoALaVista == Tranquilo /\ m.foco \in Vivas => m.foco \in Mapeadas(m)

\* No window is lost, and each is in its place and the keyboard on one in sight,
\* whatever desktop and monitor it is brought back from (escritorios.rs).
VentanasEnOrden == Repartidas /\ SitioDeVuelta /\ FocoALaVista

\* Each window where the user would say it is, whatever moves on the screen.
Enumera(w) == {<<o, i>> \in Salidas \X (1..m.cuantos) :
                   w \in Son(m.guardadas[o][i]) \cup Son(m.escondidas[o][i])}
Entra(w) == {o \in Salidas : w \in Son(m.deslizando[o].entrantes)}
SalidaPropia(w) ==
    IF Entra(w) # {} THEN CHOOSE o \in Entra(w) : TRUE
    ELSE IF w \in Son(m.despeje.ventanas)
    THEN (CHOOSE a \in ToSet(m.despeje.ventanas) : a.v = w).p.salida
    ELSE m.lugar[w].salida
Mapa == INSTANCE DesktopMap WITH
    Inicial <- AlInicio, cuantos <- m.cuantos,
    vista <- [o \in m.salidas |-> ActivoEn(m, o)],
    casa <- [w \in Ventanas |->
        IF w \notin Vivas THEN [tipo |-> "nada"]
        ELSE IF EnDock(m, w) THEN [tipo |-> "dock"]
        ELSE LET o == SalidaPropia(w)
                 donde == Enumera(w)
                 l == CHOOSE l \in donde : TRUE
             IN  IF donde # {}
                 THEN [tipo |-> "escritorio", salida |-> l[1], numero |-> l[2],
                       oculta |-> w \in Son(m.escondidas[l[1]][l[2]])]
                 ELSE [tipo |-> "escritorio", salida |-> o, oculta |-> FALSE,
                       numero |-> IF o \in m.salidas THEN ActivoEn(m, o) ELSE 0]]

\* The lists, the stack and the animations implement that map: no gesture
\* loses a window, sends it elsewhere or shows what was put away.
ImplementaMapa == Mapa!Spec

-------------------------------------------------------------------------------
(* Values for TLC: at most two outputs in a row, and two programs.         *)

DosAlLado == [o \in Salidas |-> [d \in {-1, 1} |->
    IF Cardinality(Salidas) = 2 /\ d = IF o = Principal THEN 1 ELSE -1
    THEN CHOOSE p \in Salidas \ {o} : TRUE ELSE Ninguna]]
Programas == LET w0 == CHOOSE w \in Ventanas : TRUE
             IN  [w \in Ventanas |-> IF w = w0 THEN "a" ELSE "b"]
===============================================================================
