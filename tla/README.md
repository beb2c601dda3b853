# Verification of bookos-desktop

TLA+ models of BookOS Desktop, checked with TLC on small instances and, where
section 5 says so, proved with TLAPS for every value of the constants. The
desktop is one Wayland compositor with its shell in the same process
(`crates/bookos-comp`, `crates/bookos-shell`), a few daemons and helpers, a
login screen, and a session supervisor in bash. Names in the modules are the
code's own, Spanish included.

Contents: 1 the system, 2 the modules, 3 the runs, 4 fairness, 5 the proofs,
6 what the code does differently from what it says, 7 what is not modelled,
8 what remains.

## 1. The system

### How it runs

`session/bookos-session` (bash) starts the compositor and decides what follows
when it ends. The compositor is one thread around a calloop event loop: input,
Wayland clients, timers, and channels into which other threads put messages.
Everything in that thread runs to completion, so two handlers never interleave
inside it; what does interleave with it is the rest:

- **worker threads**: PAM conversations (`autenticar.rs`), the thread that runs
  `busctl` for the backlight (`retroiluminacion.rs`), PipeWire (`pw.rs`), MPRIS
  (`medios.rs`), copies of what is published (`publicar.rs`), an ffmpeg and its
  reader (`fondo.rs`);
- **the D-Bus executor** (zbus): settings, portal, notifications, activities.
  Its methods interleave with each other at every `await`, and reach the
  compositor only through a channel;
- **processes**: Wayland clients, the recovery helper and its private KWin,
  `bookos-system`, `bookos-budsd`, the greeter;
- **the machine**: suspend and resume, VT switches, monitors and devices that
  come and go, and a panic of the shell, which `shell.rs` catches and turns
  into a dead shell.

### Components

| Component | State it keeps | Correct when | Module |
|---|---|---|---|
| Screen lock (`keybinds.rs`, `autenticar.rs`) | `bloqueo`, its generation, pollers, timers, `OCUPADO`, the marker file | it opens only on a yes of its own lock; no verdict is lost; one owner of the reader; the delay after failures is kept | `Lock` |
| Session supervisor and recovery | marker, exit code, private KWin, the files `ready` and `choice` | a locked desktop that crashes never opens without authentication; every crash ends in a choice | `SessionRecovery` |
| Idle alarms (`backend/mod.rs`) | four one-shot timers, last input, inhibitors | it locks in time and with a warning; it sleeps on its own only when due | `Idle` |
| Screen sharing (`portal.rs`, `emision.rs`, `pw.rs`) | sessions, requests, promises, emissions, nodes | every Start ends; what was refused or cancelled shares nothing | `ScreenCast` |
| Brightness | dimming and its ramp, the sensor's, the writer's queue | the last request wins; the user's level comes back | `Brightness` |
| Displays (`pantallas.rs`) | layout, file, what KMS accepted | a layout that fails leaves the old one whole | `Displays` |
| Frames, copies and the portal's picture | what is dirty, queued, shown | nothing to show is left with nobody to draw it | `Frames` |
| Windows (`ventanas.rs`) | zone, free geometry, grab | a restored window goes back where it floated | `WindowPlaces`, `WindowFocus` |
| Pointer buttons (`input.rs`) | who took each press | the release reaches whoever took the press | `Buttons` |
| Keys (`teclas.rs`, `input.rs`) | translator, xkb, what clients see as down | no key stays down; none goes past the lock | `Keys` |
| Virtual desktops (`escritorios.rs`) | per output a list of desktops, slides, the sweep | each window on one desktop, and where the user sent it | `Desktops`, `DesktopMap` |
| Window switcher | the row and its targets | the chosen cell is the window that gets the focus | `Switcher` |
| Desktop icons (`escritorio.rs`) | cells, selection, drag, file | one cell per file; what was arranged stays | `DesktopIcons` |
| Launchpad | pages, folders, search, drag, file | the grid is whole and the file up to date | `Launchpad` |
| Notifications | server's ids, queue, toasts, alarms | told once, kept in order, none stuck on a still screen | `Notifications` |
| Cards and bars (`shell.rs`) | open card, its surface, the one that waits | a card has its surface; a surface without a card is leaving | `Cards` |
| Control center (`centro.rs`) | copies of the state of others | tiles show what they will act on | `ControlCenter` |
| Lock screen view (`bloqueo.rs`) | animations, menu, question, music card | it does what its image offered | `LockView` |
| Screen capture (`captura.rs`) | the marked rectangle, the bar | what is marked is what is captured | `Snip` |
| What a frame shows (`componer`) | order of surfaces | each window once; under the lock the lock alone | `Scene` |
| Night light, automatic theme | timetable, alarm, fade | an edge is never missed | `DayHours`, `NightLight`, `AutoTheme` |
| Wallpaper, published appearance | player, converter, reader, copies | no process is left behind; what is published is whole | `Wallpaper`, `Publish` |
| Settings (`ajustes.rs`, `config.rs`) | the file, what is in use | what was written stays and is in use | `Settings` |
| System service | lanes, kept state, waiting callers | the kept state is the machine's in the end | `SystemService`, `VolumeKeys`, `WifiProfiles` |
| Earbuds daemon | channel, tasks, bytes, state and file | one channel, read the same however it is cut, remembered | `Buds`, `BudsProtocol` |
| Live activities | the island, senders, covers | the island shows what runs | `Activities` |
| Greeter | the conversation with greetd, the networks | who is let in is who answered | `Greeter`, `GreeterWifi` |

`PROJECT.json` lists them with their sources, with what each leaves out, and the
parts that are not modelled at all (section 7). `vendor/smithay` is third-party
code and is left out.

### What is hard here

`PROJECT.json` lists the hazards line by line with the properties that cover each,
or why none does. They fall into these families:

1. **A verdict or message that outlives what it was for.** A PAM thread answers
   after its lock is gone; a permission card is answered after the session was
   closed; a poller belongs to the previous lock; a window's row is a copy of a
   list that has changed.
2. **A barrier that somebody must drop.** `OCUPADO`, `comprobando`, the promises
   of Start, the exchange with greetd: each holds something until its owner,
   a thread or a process that may die, lets go.
3. **A one-shot timer that must be programmed again.** The four idle alarms, the
   pollers and the countdown of the lock, the toasts, the night light and the
   theme all live in many places that cancel and program them.
4. **State read while a write is under way.** sysfs shows a brightness only
   after `busctl` ends; the settings file is read by one thread while another
   writes it; the cards show copies made by hand.
5. **Press here, release there.** A press and its release are decided apart, for
   keys, buttons, drags and the slides of the desktops.
6. **A crash or a refusal between two steps.** Each instruction of locking is a
   place where the compositor may die; KMS may refuse half a layout.

## 2. The modules

| Module | What it is |
|---|---|
| `Lock`, `LockBarrier`, `LockProofs` | the lock, the abstract barrier it implements, its theorems |
| `SessionRecovery`, `SessionBoundary`, `SessionRecoveryProofs` | the supervisor, the abstract authentication boundary, its theorems |
| `Idle`, `IdleProofs` | the alarms, their theorems |
| `ScreenCast`, `ScreenCastProofs` | sharing a screen, its theorems |
| `Desktops`, `DesktopMap` | the virtual desktops, and the map the user has in mind, which `Desktops` implements |
| `Frames`, `Displays`, `Keys`, `Buttons`; `MCSeat` | between the hardware of a seat and the desktop, and their sum |
| `Launchpad`, `Notifications`, `Cards`, `ControlCenter`, `Switcher`, `Snip`, `LockView`; `MCShell` | what the shell shows, and their sum |
| `WindowPlaces`, `WindowFocus`, `DesktopIcons`, `Scene`, `Wallpaper`, `Publish`; `MCWindows` | the desktop itself, and their sum |
| `Greeter`, `GreeterWifi`, `Buds`, `BudsProtocol`, `Activities`, `SystemService`, `VolumeKeys`, `WifiProfiles`, `Settings`, `NightLight`, `AutoTheme`, `Brightness`; `MCServices` | services and what follows the clock, and their sum |
| `DayHours` | the stretch of the day, used by `NightLight` and `AutoTheme`; its two theorems are in `MCServices` |

**The sums.** `MCSeat`, `MCShell`, `MCWindows` and `MCServices` instantiate several
machines that share no state in the code (or whose shared state is an input of
each). `parte` says which machine a behaviour is of: its variables follow its own
Init and actions while those of the others stay at `nada`. The reachable states
are the union of those of each machine, and a property of a sum is, for each
machine, the conjunction of that machine's own. They are sums and not products:
no interaction between two machines of a sum is claimed. What machines have to
do with each other is inside a module: `Scene` takes lock, cards, overview,
switcher and notices as inputs of one frame; `Buttons` and `Keys` take lock,
layer and cards as things that may open between a press and its release;
`NightLight` and `Wallpaper` take the change of TTY.

**How the parts meet.** The two safety-critical modules meet at the marker file
and at exit code 77: for `Lock` it is proved that the marker is gone while the
screen is locked (`CierreSeguro`), and locking is one step there;
`SessionRecovery` breaks that step at the points where the compositor may die,
and takes the conversation with PAM as one step (`Autentica`). `Idle` and
`Brightness` meet at the warning before the lock: `Idle` says when it comes and
goes, `Brightness` what it does to the panel. `Lock` decides who may open,
`LockView` what the sheet shows.

**The map.** `PROJECT.json` maps every operation and every part of the state to its lines. A
helper whose lines lie inside those of an operation that is listed is not listed again.

**Slips.** An operator called *a slip* in a comment is a plausible mistake kept
beside the definition it would replace (a dropped guard, a missing reset, an
order swapped). Every property has one that breaks it, listed under `mutants` in
`PROJECT.json`; the others were used in the same way while the modules were
built.

### Lock

- *Variables.* `bloqueo` is `state.bloqueo` field by field; instants are kept as
  the result of their comparison (`vencido`, `huella_espera`, a worker's `tarde`).
  `bloqueada` and `muerto` are the shell's side, `marca` the marker, `obreros` the
  threads, `ocupado` the flag OCUPADO, `sondeosClave`, `sondeosHuella` and
  `temporizadores` the calloop timers with the generation each captured, `visto`
  and `mensaje` what the lock screen was last given.
- *Actions.* `Bloquear`, `BloqueoEscribir/Borrar/Limpiar`, `ComprobarRetenido`,
  `LanzarComprobacion`, `ComprobarSinHilo`, `BloqueoHuella` are entries from the
  keyboard and the shell; `SondeoClave*` and `SondeoHuella*` one tick of a poller
  by verdict; `TemporizadorReintento` the countdown; `ReanudarHuella` the resume.
  A thread asks, sends its verdict, and only then drops its guard on the reader
  (`ContestaHuella`, `LiberaSensor`): the gap is what 6.2 is about. `MuereObrero` is
  a thread that unwinds, `Revienta` a panic of the shell, `Dormir`/`Despertar` a
  suspend that cuts the reader's conversation.
- *Taken as given.* Inserting a timer into calloop succeeds. The PAM service for
  the fingerprint is installed. A dead shell draws no lock, so the invariants
  speak of `EstaBloqueado`, which is what the code asks too. The message
  "recognized" is overwritten by the unlock in the same step.

### SessionRecovery

- *Variables.* Where the supervisor's loop is (`sup`), the compositor and its
  half-done step (`paso`), the marker, the exit code, the phase of the python
  helper, the private KWin and the window's process, and the two files by which
  the window talks (`listo`, `eleccion`, where "vacia" is a file created and not
  yet written). History variables: `cerrada`, `concedido`, `pulsada`.
- *Actions.* `Bloquea`, `EchaCandado`, `Autentica`, `SueltaCandado` split locking
  and unlocking where the compositor may die (`Cae`) or leave (`Sale`); removing the
  marker may fail, which ends in code 77; writing it may fail, which only makes the
  next crash ask for authentication. `Evalua` is the supervisor's judgement of an
  exit. `AbreKwin`, `VeVentana`, `VeKwinMuerto`, `Plazo`, `PlazoTerminar`,
  `DejaDeEsperar`, `Decide`, `Tty` follow `prompt` and `recover` of the helper.
  `Senal` is TERM, INT or HUP at any moment.
- *Taken as given.* The window may still write after its KWin is gone, as long as
  the directory exists. The dead shell is Lock's business.

### Idle

- *Variables.* `e` is the compositor's state: each of the four alarms is `Ninguna` or
  the units left; `ocio` is the time since the last input. Outside: live surfaces,
  inhibitor objects, the VT, sleep, a suspend that has been asked for and the
  resume notice not read yet. History: time since the lock and the reasons for
  the exceptions the properties name.
- *Actions.* `Entrada*` (an input on its own, or one that locks, sleeps, suspends,
  keeps awake, changes the brightness), `Desbloquea`, the four `Vence*`, `Tic`,
  inhibitors made, released, destroyed and lost with their client, `Ajustes`,
  `Bateria`, VT switches, suspend granted or refused, wake and the notice.
- *Taken as given.* DRM backend. Units are integers and halving rounds down.
  A timer that is due is served before time passes; time stands still in sleep,
  as `Instant` does. Turning an output on does not fail; turning it off may.

### ScreenCast

- *Variables.* Per session: where its Start is, response code, whether its Request is
  on the bus, the two promises, the emission, the node. Three channels as
  sequences: `avisos` to the compositor, `ordenes` to the PipeWire thread, and the
  frames in nodes and on their way back.
- *Actions.* Start is cut at its awaits (`Start`, `StartPregunta`/`StartNoPublica`,
  `StartRespondida`, `StartNodo`, `StartRetira`); `CierraSolicitud` and `CierraSesion`
  are the D-Bus Close of Request and Session; `Consentir`, `Cerrar`, `Cancelar` serve
  the compositor's channel; `Acepta`, `Rechaza`, `TarjetaSeCierra`, `DenegarSiSeCerro`
  the card; `Emitir`/`EmitirCorta` a frame; `Abrir`, `Marco`, `CerrarNodo`,
  `NodoConecta`, `NodoFalla`, `Procesa` the PipeWire thread; `HiloCae` its end.
- *Taken as given.* A session path is handed out once and Start is called once per
  session, as xdg-desktop-portal does. What the channel crate does with a promise
  inside an order to a thread that has ended is external.

### Desktops

- *Variables.* What is mapped, the lists of desktops per output, what is set aside
  by "show desktop", what is shrinking or minimized, one slide per output, the
  sweep, the drag of the overview, the outputs that are there.
- *Actions.* Opening and closing a window, changing, creating and deleting desktops,
  moving a window to a desktop or an output, show desktop, the dock, the overview,
  the end of each animation, a monitor that is unplugged and comes back.
- *Taken as given.* A window's place is the output that holds its centre. With
  `Solapes = FALSE` no gesture starts over another's slide; with `Huerfanas =
  FALSE` no output goes while windows are put away under it in mid-slide.
- *Refinement.* `DesktopMap` knows for each open window one desktop of one output,
  hidden or in the dock, and nothing of lists, stacks or animations.

### The machines of the sums

The comment at the head of each module says which code it covers, what an
action is there and what is taken as external; the comments on its constants
name its surroundings. In short:

- `Frames`: one round of the loop (`Vuelta`), events, vblanks, DPMS, TTY switches,
  copies and pictures. `Displays`: requests, validation, KMS one output at a time,
  rollback, quick modes, hotplug, start-up. `Keys`: the five stations of a key from
  the translator to the client. `Buttons`: every owner of a press.
- `Launchpad`, `Cards`, `ControlCenter`, `Switcher`, `Snip`, `LockView`,
  `Notifications`: one action per key, press, release or arrival, with the trailing
  refresh or save of the handler inside it.
- `WindowPlaces`, `WindowFocus`, `DesktopIcons`: the same for windows and icons;
  `Scene`: what a frame is made of; `Wallpaper`, `Publish`: processes and copies.
- `Greeter`: the screen, the thread of the socket, and greetd with PAM as a script;
  `Buds`: supervisor and tasks; `BudsProtocol`: bytes, kept state, two parts of the sum;
  `SystemService`, `VolumeKeys`, `WifiProfiles`: lanes, steps, profiles;
  `Settings`, `NightLight`, `AutoTheme`: files and clocks;
  `Brightness`: `b` is the compositor's state with the raw level sysfs shows and the
  writer's one-place queue, `enCurso` the write being carried out, and the history
  keeps what was last asked for and what the user chose.

## 3. The runs

Twelve runs. State counts and times are those of two workers.

| Run | States | Checks and shows |
|---|---|---|
| `lock_safety` | 2.1 M | two locks in a row, two threads that answer, time out, die or outlive their lock, a suspend, a change of settings, a shell panic. `ConversacionAtendida` (a pending conversation has a poller that will not drop itself), `SensorDeUno`, `SecretoComprobado` (what PAM checks is what the field holds), `PantallaFiel` (types, the screen shows the state, a reader is written off only around a suspend), `PasosVeraces` (the delay after the third failure is never skipped, nor a finger asked for when nobody listens), `ImplementaBarrera` |
| `lock_liveness` | 0.6 M | one lock with both ways in, threads that die, a suspend. `TodoTermina`: every attempt ends, the countdown goes away, a reader written off because a suspend cut it is put back |
| `session_recovery` | 11 k | three compositors, each locked up to twice. `SinPermiso`, `UnSoloDueno`, `ReintentoPedido` (no automatic retry, no stale or half-written choice), `FronteraRespetada`, and `RecuperacionTermina` |
| `idle_alarms` | 4.9 M | two clients that inhibit. `AlarmasEnOrden` (no alarm against what holds it back, the lock on time and announced, a lit screen for whoever is there, dark over a lock nobody looks at) and `SuspensionMerecida` |
| `screencast_safety` | 3.1 M | two sessions, one of them drawn. `SesionEnOrden`: every promise in somebody's hands, a live card for whoever waits for it, one frame on its way, a node behind each emission, nothing shared after a no or a cancel |
| `screencast_liveness` | 0.8 M | two sessions, still desktop. `UnaAcaba`: a Start ends or waits for the user, and a cancelled request ends with nothing shared |
| `screencast_closed_session` | | expected to fail, see section 6 |
| `desktops_places` | 87 k | one window of each of two programs, two outputs. `VentanasEnOrden` (each in one place, nothing left in mid-travel) and `ImplementaMapa` |
| `seat_parts` | 0.9 M | `NadaSinEnsenar` (Frames), `EscritorioEntero` (Displays), `NadaTrabado` (Keys, Buttons), `CiegoBajoCandado` (Keys) |
| `shell_parts` | 1.3 M | `RejillaEntera` (Launchpad), `AvisosFieles` (Notifications), `TarjetasEnOrden` (Cards, ControlCenter), `ConmutadorEnOrden` (Switcher), `CapturaEnOrden` (Snip), `LockViewEnOrden`, and the action property `PasosDelShell` of three of them |
| `window_parts` | 2.7 M | `VentanaEnSuSitio`, `FocoEnOrden`, `IconosEnOrden`, `EscenaEnOrden`, `FondoEnOrden` (Wallpaper, Publish) |
| `service_parts` | 2.7 M | `AccesoEnOrden` (Greeter, GreeterWifi), `CascosEnOrden` (Buds, BudsProtocol), `ActividadesEnOrden`, `SistemaEnOrden` (SystemService, VolumeKeys, WifiProfiles), `AjustesAlDia` (Settings, NightLight, AutoTheme), `BrilloEnOrden` |

A property of a sum names, machine by machine, the invariant defined in that machine's
module, with its type invariant where it has one. The types of the other modules are a
conjunct of `PantallaFiel`, `AlarmasEnOrden`, `SesionEnOrden` and `VentanasEnOrden`.

### Bounds, and why they are enough

- **Lock.** Two workers: OCUPADO allows one conversation with the reader and
  `comprobando` one with the password, and a thread of an old lock takes the
  place of either, which is what the generation guards against. `MaxGeneracion = 3`
  is lock, unlock, lock: the generation moves at each, so a second
  lock meets everything the first left behind. One character tells an edited
  text from the one under check; one resume tells a conversation cut by a
  suspend from one that was not. `FallosMax = 3` is the
  first count at which the delay exists; the counter saturates there in the
  model as it does at `u32::MAX` in the code. The liveness run has one lock: what a
  second one could break is the safety of the pollers, which `lock_safety` covers.
- **SessionRecovery.** Two installed desktops tell the choice made from another;
  three compositors give a retry after a retry; two locks tell a
  compositor that locked, opened and locked again from one that never did.
- **Idle.** One unit is five seconds: DPMS 2, deafness 1, warning 1, deadlines 0 (off)
  or 3, and times beyond 4 are not told apart since no comparison reaches past it.
  Two clients tell the last inhibitor from one of several.
- **ScreenCast.** The channels need no bound: each session puts a bounded number of
  messages in them. Two sessions are what meet at the one card. The liveness run
  draws none, as frames do not hold any promise.
- **Desktops.** Two desktops per output and two windows of two programs; one
  unplugging; names of desktops up to `Maximo`. Three windows on one output were
  checked while building and told nothing more.
- **The seat.** Two outputs and one copy; three monitors of two widths in nine layouts
  with one refusal of KMS; three keys held at once, which is the chord of Copilot;
  one button held.
- **The shell.** Three applications on pages of two; queues and stacks cut to two or
  three so that each limit is met; seven acts with the switcher, which open a row, change
  the windows under it and open the next; a small screen in whole units, where every region
  of each card has a point inside and on its edge.
- **The windows.** One window to be placed, two in the frame, and for the keyboard one of each kind
  (Wayland, X11, and X11 that no manager rules), of which `FocoBien` proves the same for any number;
  in the frame, one free surface at a time and one more bar away; three icons on two small grids,
  two outputs. A window meets one of what `MaxCambios` counts (a drag, a resize, a growth, a bar
  that comes or goes, a change of output), with any number of orders before and after it and one in
  the middle of a drag, which may be any of them; of the arrows there, only the left one
  (`Flechas`), as the rest are told apart without a drag. A wider bound was checked while building
  (13 M states) and told nothing more. Up to six ffmpeg processes, which is what a wallpaper that
  fades, one in sight and one being loaded need, each with a conversion under way.
- **The services.** Two accounts and two networks; two tasks that overlap; pieces of
  bytes up to the longest frame; two applications, of which the player may leave the bus and come
  back, only its window comes to the front (`Delante`), and one call or order is on its way at a time
  (`MaxBus`), to which the falls of the senders are added without limit; a day of a few minutes in which
  both edges, midnight and a jump of the clock fall; six levels of brightness, in
  which the step of each ramp, the floor, the threshold and the clamp of the offset
  all still matter, with three events from outside (`BrilloBien` is proved for any number).

`CHECK_DEADLOCK FALSE` is set where the system may really stop: a login that has
ended, a sharing session that is over, a machine of a sum whose bounded events are
spent.

### The surroundings

Each sum's `.cfg` gives values to the parameters of the machines the theorems are about, and
fixes Boolean constants that say what may happen around a machine.
Most of them are FALSE because the code is known to misbehave there, and a run that
must pass is not the place to show it; set one to TRUE and TLC finds the trace. What
is listed is the constant, the module's definition to check in a configuration of that
module, and where in the code.

| Lifted | Violates | Because |
|---|---|---|
| `Vacias` | Frames `NadaSinEnsenar` | an animation step that changes no pixel leaves no vblank to come back (`udev.rs:618`) |
| `Repite` | Keys `NingunaTrabada` | the Copilot key sends F23 again before Meta and Shift are up |
| a map with both `copilot` and `meta` | Keys `NingunaTrabada` | the chord lets go of Meta itself (`teclas.rs`, `traducir`), swallows its release, and never gives back what Meta had been made into: with `meta = alt`, Alt stays down |
| `Interrumpe` | Buttons `AgarreConBoton` | the layer or the lock comes with a button held, and the note of its release stays |
| `Impaciente` | ControlCenter, its conjuncts about presses | a press before the last one was carried out acts on the old copy |
| `MismoSegundo` | Snip `CadaUnaEnSuFichero` | two pictures in one second have one name |
| `EscN`, `EscD`, `UNIDAD` (a fractional scale) | Snip `FotoDeLoMarcado` | the picture rounds origin and size, the veil rounds edges: a physical pixel apart |
| `TeclaEnArrastre` | Snip `IntroCopiaLoMarcado` | Enter with the drag under way copies the rectangle before it is settled |
| `Tardon` | LockView `QuietaAlDia` | one frame after the whole animation sees nothing moving and is not painted |
| `Deprisa`, `ConfigEnMenu` | LockView `LoPintadoManda` | a press before the animation settles, or settings that take the open menu away |
| `MenuYMusica` | LockView `MenuSeCierraFuera` | a press on the music leaves the menu open (`bloqueo.rs:857-862`, against `898-906`) |
| `Lento` (places) | WindowPlaces, its conjuncts about sizes | the client answers after the next order; in the run an order finds the one before it answered |
| `EnMedio`, `Explorador` | DesktopIcons | the folder is read in the middle of a band with Ctrl; somebody else writes the colours |
| `Deprisa`, `RetiraX11`, `Entretanto` | WindowFocus | something is done while a window goes to the dock; an X11 window is withdrawn from it; windows come and go under a menu |
| `OtraVez` | Wallpaper `UnSoloEscritor` | reloading settings starts a second conversion to the same file (`fondo.rs:428-433`); the run's invariants hold with it TRUE |
| `Solapan`, `Tarjeta` (publish) | Publish `NuncaMedio`, `SiempreAlDia` | two threads share the temporary name (`publicar.rs:160`); a choice from the card is not published |
| `FondosRotos`, `CancelaAvisos` | Greeter | a wallpaper that fails to load; a cancel under a notice of PAM leaves its exchange in flight |
| `Tarde` | Buds with two earbuds, `CanalDelSuyo` | a late channel of one is taken for the other's |
| `DosEscriben` | BudsProtocol `PreferenciaFiel` | thread and service rewrite one file |
| `Lento` (activities) | Activities `SinHuerfanas` | a publication that is still in the hands of the thread of the bus when its sender falls, and arrives after the fall; in the run what a dead sender leaves is in the channel already |
| `Cruzan` | SystemService `CacheAlDia` | a reply and a signal pass each other |
| `Mudo` | VolumeKeys `SilencioFiel` | the mute key and the kept state disagree (the run's invariants hold) |
| `Solapan` (settings) | Settings `LoDemasSigue` | the thread of D-Bus and the loop rewrite the file from two readings |
| `LeeEnFoto` | AutoTheme `AppsAlDia` | an application asks while the old theme is photographed |
| `Lenta` | Brightness `PrevioEsElPedido`, `NivelDevuelto` | the level to come back to is read before the writer's thread has written it (`atenuacion.rs:128`) |
| `Maximo` of fewer steps than levels, or more that do not fall on them | Brightness `NivelDevuelto` | the level is rounded down each time it is read back (item 15 of section 6); in the run the device shows each level as it is |
| `Solapes`, `Huerfanas` | Desktops `ActivaVacia`, `VistaQuieta`, `ClicCumplido` | a gesture over another's slide; an output that goes in mid-slide |

## 4. Fairness

Only what the scheduling gives is assumed.

- *Lock* (`Equidad`): the event loop polls and its timers fire; PAM bounds every
  conversation (15 s at the reader); a thread that answered runs to its end; a
  sleeping machine wakes and the resume is read. Nobody owes a key, a finger, a
  change of settings or a panic.
- *SessionRecovery*: bash and python run; a KWin told to go, or whose session ended,
  goes in the end; the user answers the prompt in front of them or the terminal
  gives end of file. Nothing is assumed of a KWin showing its window: the deadline
  is the code's.
- *ScreenCast*: every thread runs and PipeWire connects a node or refuses it. Nobody has
  to answer a card, and nothing is promised once the PipeWire thread has ended.

All of it is weak fairness. The rest is checked for safety only: what must happen in the
end is stated there as a state that may not be left waiting (`NadaSinEnsenar`,
`PilaEnMarcha`, `NuncaCongelado`, `BloqueoATiempo`: something to do always has its timer or
its event).

## 5. The proofs

TLAPS checks every theorem for any value of the constants that meets the named
assumptions: any threads, generations, failures and texts (`Lock`: `Nadie` is not a
worker, flags are Boolean, bounds are naturals, `FallosMax >= 3`); any installed desktops
and any number of crashes and locks (`SessionRecovery`: no desktop is named like one of
the helper's own answers); any units of time and any clients (`Idle`,
`PlazosAssumption`); any sessions with channels of any length (`ScreenCast`:
`Nadie` is not a session). `MCSeat`, `MCShell`, `MCWindows` and `MCServices` hold the
theorems of the machines they put together: the parameters of those machines are
constants of the sum, which its `.cfg` gives values and an `ASSUME` of the sum bounds
(any outputs, copies and callers; any keyboard and keymaps; any windows, widgets,
identifiers, screens; any accounts, conversations of PAM and networks; any levels of
brightness). A lemma named `...Aparte` says that a step of the sum is one of that
machine's or none, so each theorem of a sum is a theorem of the machine. What a
theorem takes from the surroundings of a machine (the table of section 3) it says as its
hypothesis, and each is discussed below. No module of the project declares a RECURSIVE
operator, and nothing is assumed beyond these.

**The lock.** `TypeCorrect` first, one step per action. `CierreSeguro`,
`ConversacionAtendida`, `SensorDeUno` and `SecretoComprobado` are not inductive one by
one. That a poller acts on a verdict of its own lock needs that the receiver it
reads belongs to its generation, which needs that opening the session empties
`bloqueo`, which needs that no captured generation lies ahead of the current one
and that a worker keeps its kind while somebody refers to it. `Coherencia` is that
conjunction: the marker is absent whenever the lock is drawn (also with a dead
shell, which is the strengthening of `CierreSeguro`), pending conversations have a
poller, the reader has one owner and OCUPADO tells, the text under check is the
field's, generations are in the past, kinds agree, a poller of this lock reads a
worker of this lock, and nothing is pending in an open session.
`CoherenciaCorrect` goes action by action, with lemmas for what several share
(`ComprobarHuellaEfecto`, `DesbloquearCoherente`, `LanzarCoherente`...). The four
invariants follow from it.

`BarreraCorrect` proves that `Lock` implements `LockBarrier` with `concedido` mapped to
"a conversation the lock refers to, of this generation, was answered with a
yes". A step maps to `Echar` (lock), `Conceder` (a thread sends its yes),
`Soltar` (a poller opens), or a stutter. The part that needs `Coherencia` is that a grant
is never withdrawn by a step the barrier does not know (`ConcesionQueda`).

What the screen shows needs two more invariants on top of `Coherencia`.
`DemoraEnMarcha`: while the delay after the third failure holds, a countdown timer of
this very lock runs, and what the screen was last told is what the state says.
`LectorVeraz`: the reader is written off only on the word of PAM or of a suspend that cut
the conversation, which needs what each poller, worker and flag knows about the other two
at each moment of a thread's life. From both follow `PantallaFielCorrect` and the action
property `PasosVeracesCorrect`: no step lifts the delay before its countdown, nor asks for
a finger that nobody reads.

**The session.** `Inductivo` is the type invariant with `SinPermiso` and what it rests
on: `PuertaVista` ties the compositor's half-done step to the history of the door,
`AyudaAvisada` says that the helper was told the desktop is protected whenever it
is, and `KwinDentro` that the private KWin lives only inside a prompt. Each is
preserved by its own lemma. `SinPermisoCorrect`, `UnSoloDuenoCorrect` and
`FronteraCorrect` (the refinement of `SessionBoundary`) follow.
`ReintentoPedidoCorrect` adds `EleccionPulsada`: a file of choice that is there was
written by a press in the window that is open, so a choice of an earlier prompt, or one
created and not yet written, never becomes a retry.

**The alarms.** `AlarmasEnOrden` speaks of what is late, unannounced or running against
an inhibitor, and none of it is inductive: each alarm is programmed in a dozen places,
with a time left that depends on how long nobody has been there. `Orden` relates each of
the four alarms to that time: `BloqueoVigente`, `SuspensionVigente` and `AvisoVigente` say
when each must be there and when it must not; `ATiempo`, that the lock's reaches the
deadline and does not pass it; `Anunciado`, that before it there is a warning to come, or
one given, or an excuse (and a warning that was tried was tried that long before the
deadline, which is the strengthening of `AvisoPrevio`); `Contada`, that the suspend's has
counted all of its time; `Encendida` and `Apagandose`, the screen. There is a lemma for
each function of the code that programs alarms (`ProgramarBien`, `RestaurarBien`,
`DespertarBien`, `BloquearBien`...), about its result for any argument, and then one per
action, which only says which function it calls and with what. `AlarmasEnOrdenCorrect`
follows, and `SuspensionMerecidaCorrect`, an action property: the alarm that puts the
machine to sleep does not look at the clock, and it is right because of `Contada`.
TLC checks `Orden` over the 4.9 M states of `idle_alarms` too; it is stated in
`IdleProofs`.

**The day.** `NadaCambiaAntes` and `CambiaEnElBorde`: between a minute and the next edge
the stretch of the day neither begins nor ends, and at the edge it does, for any edges
and any length of the day. It is why one alarm per change is enough for `NightLight` and
`AutoTheme`.

**Sharing a screen.** `SesionEnOrden` is a statement about three threads that share
nothing but channels, so its strengthening says what the channels may hold.
`Preguntas`: the question of a Start is in the channel or in the dialog, once, and before
the cancel of its request. `Concedidas`: whatever an emission has anywhere, an order, a
node, a frame, comes from a yes, and there is one yes per session; so a session that is
accepted now has nothing left over from before. `UnLugar`: the frame of a session is in
one place, the channel, its node or the way back, and `pendientes` knows. `CierreDetras`:
behind what is no longer shared comes the order that closes it, and a thread that is gone
has nothing. Channels are sequences of any length; the lemmas of the second part of
`ScreenCastProofs` say what `Append` and `Tail` do to four questions (is the message there,
is it there once, does one kind come before another, is one kind followed by another),
those of the third what each message of the code does, and no later proof looks inside
a sequence. `Inductivo` has one lemma per part with one step per action, and
`SesionEnOrdenCorrect` follows: `UnMarco` with the cardinality of sets of one element or
none, `NodoConEmision` from `CierreDetras`. TLC checks `Inductivo` over the 3.1 M states of
`screencast_safety` too.

**The frames.** `NadaSinEnsenar` says that what was damaged and not shown has somebody to come back
to it. `Inductivo` in `Frames` is that property with three more parts. `Marcada`: an output that
owes a picture, and was not refused the last one, has been asked for, by a mark of its own, by the
loop's or by an animation. `Entera`: one that comes back from being off owes the whole of it.
`EnMarcha`: an animation under way is noted for the next turn, or has a frame in flight or a damaged
output to go on with. Each handler of the loop has its lemma, and those that draw several outputs
share `Trazo`, what drawing one of them leaves. The theorem takes two hypotheses: the primary is one
of the outputs, and `Vacias = FALSE`, no step of an animation leaves the pixels as they were, which
is one of the surroundings of section 3. It is proved in the module for any outputs, and in `MCSeat`
for the sum that the run checks; `FramesAparte` says that a step of the sum is one of the frames' or
none.

**The keys.** One physical event becomes a burst of up to three, and each of them goes
through the whole filter, which may lock, open and close on the way. `Tapada` says that
under the lock nothing is open; `UnoTapado`, that one event keeps it and forwards nothing
under the lock; `RafagaTapada`, that a burst does as a whole, because only its last event
may press something. `CiegoBajoCandadoCorrect`, an action property, needs of the keymaps
only that they are written as the file can be (`MapasEscritos`).

`NingunaTrabadaCorrect` rests on `Debe`, which relates the three lists of the translator,
xkb and the fingers: what is to be swallowed or given back is of keys that are held, each
at most once and in one list; and what xkb holds is a key that is held and owed nothing,
or what one that is held was turned into. There is a lemma for each thing the translator
does with a key (`DebePulsada`, `DebeCapturada`, `DebeCambiada`, `DebeAcorde`,
`DebeTragada`, `DebeDevuelta`, `DebeSuelta`), over lists of any length, and `TodosPesan`
says what a burst does to xkb whatever else the filter does. The hypotheses are two:
the chord does not repeat (`Repite = FALSE`), and `AcordeIntacto`, nobody maps the Copilot
key and also its Meta or its Shift. The file can say that, and then the property fails
(the row in section 3): the proof needed the hypothesis, and TLC shows why.

**The buttons.** The last part of `NadaTrabado` is proved in `MCSeat`, with one button
held at a time as the run has it and `Interrumpe = FALSE`. `Anotado`: with none held
nothing waits; with one held there is at most one note, of the kind which the release of
that button takes away, and none under the capture layer or the lock, which leave notes
alone. `NadaTrabadoCorrect` joins the keys and the buttons.

**Cards and the control center.** `TarjetasBien`. For the cards, `Cuelga` ties the open card,
the one that waits and the surfaces that leave, and `Veraz` each dodging bar to the window
under it. For the control center the copy on the tiles, the worker's queue and the system
are three, and none is always equal to another: `Reparto` says how far behind the worker
may be, `Rastro` that while a finger holds the slider the volume on it is the finger's, that
the last request for a volume is the finger's, and that with none left the system has it
unless somebody else moved it since; the rest follows from the two by cases on the press.
Hypothesis: `Impaciente = FALSE`.

**The sheet of the lock.** `HojaBien` (hypothesis `Tardon = FALSE`) needs of the painted
surface more than the run asks: it shows what the lock says also while things move, but for
the ripple of the field (`AlDia`). `BloqueoHonesto`, an action property, adds that an open menu
is of a composition that has one, and takes two more hypotheses, which are rows of section 3:
nobody presses before the animation settles, and the settings do not take a menu that is open.

**The notices.** `AvisosBien` has no hypothesis. `ColaBien`: nobody is twice in the queue, or in
it after the application was told that it left. `CopiaBien`: the open card is a copy of the
queue. `PilaBien`: how a stack of toasts must be for its limit to hold at every step, and
that one which leaves has a screen that is awake.

**The capture.** `CapturaBien`: what is marked lies on the screen and is worth a photograph
(`Marcas`), what is painted is of what is marked, and what was asked for is what was seen
through the hole of the veil, turned over or not. The lemmas of this part are about
rectangles between two points, pulled by an edge past the other, or pushed against the
border, on any screen. Hypothesis: `EscalaEntera`, a logical pixel is a whole number of physical
ones, which section 3 explains.

**The switcher.** `ConmutadorBien`: the row either says nothing (`Muda`) or is `Viva`, made of the
windows of the compositor in the order of use with nobody twice, and `Sujeta`, held by its key. What
the grid does on a screen is arithmetic, with square roots and divisions rounded up: the number of
columns and the sides of a cell are bounded for any number of windows, on any screen of at least 560
by 388 logical pixels, below which a cell has no room for its margins. That the compositor's list
and the shell's row are filtered alike is induction over a list; it is done without the induction
theorems, by a least counterexample taken from the well-foundedness of the naturals (`Elegidas` is
defined by what it returns and where, and not by a fold). It has no hypothesis: windows die, arrive,
are minimized, put aside and given back under the row, and the overview opens over it. `PasosBien`,
with the hypotheses of the lock sheet (`Tardon`, `Deprisa`, `ConfigEnMenu` FALSE), joins the three
action properties of the run: nobody leaves the queue of notices untold, one Tab goes to the window
used before and leaves this one as the one used before, the lock does what its image offered.

**The windows.** `FocoBien`: `Sitio`, each window is on the desktop or in the dock and not in two;
`EnElDock` and `Yendose`, what is there or on its way can come back; `Activa`, the one told
that it is active is the one with the keyboard; `SinX`, what is left when XWayland falls.
Hypothesis: `Calma`, the three surroundings of its row in section 3. `FondoBien`: an
animated wallpaper in sight moves, every ffmpeg is of one wallpaper or of the thread that will
drop it, what is in sight is what was chosen for the theme there is, also with a second conversion
under way; and of what is published, that one thread writes the temporary file at a time (`UnoSolo`)
and what it has done so far (`Hecho`). Hypothesis: `Solapan = FALSE`; `Tarjeta` and `OtraVez` are free.

**The login.** `AccesoBien` says that who is let in is who answered PAM. Its invariant says where the
one request in flight to greetd is, of whom, and what the screen shows at each point of the
exchange; and of the card of networks, of which network the key it asks is. Hypothesis: `Prudente`,
no wallpaper fails to load and nobody cancels under a notice of PAM.

**The brightness.** `MandoBien`, without hypotheses: the last request is what will be on the panel,
however late the writer's thread is (`Mando`), and each ramp has who asked for it (`Rampas`).
`DesvioBien` and `BrilloBien` are about what the user wished. `Inocente`: while nobody moves the level,
no offset is learnt, what is not recent is on the panel, and what the automatic brightness believes
it has set is the last request within the code's tolerance. `Fiel`: while only the user asks, the
level is the user's or is kept to come back to. Each function of the three files has a lemma that says
what it does to both, for any state (`Guarda`). Hypotheses: `Lenta = FALSE`, since the level is read
from the device; for the first `Cercana`, the device shows each level within the tolerance, which
`BastaLaTolerancia` proves for every device with at least as many steps as there are levels
and any tolerance from 1 on (the code's is 2); for the second `Exacta`, it shows each level as it is.
Item 15 of section 6 is what happens without it.

**The activities.** `ActividadesBien`. What has to be known is where each thing is between the
application, the bus, the server's thread and the shell. `Conexiones`: an application whose activity is kept has
its connection on the bus, or word of its fall is in the channel to the shell; a publication in the channel
is of a connection that lives, or the word of its fall comes behind it; and no word of a fall is there of
a connection that lives. `Verdad`: of an
application with nothing left to send, the last that was said of it, wherever in the queues
it is, is the state it is really at. `IslaBien`: the island shows the one that the order, the focus
and the choice of the user say, and a copy of it that is not old. "The first of the list that is shown" is
taken as a least element, from the well-foundedness of the naturals and without induction on the list.
Hypothesis: `Lento = FALSE`, the fall of a sender does not overtake its last call.

**Only model-checked.** All liveness (`TodoTermina`, `RecuperacionTermina`, `UnaAcaba`): fairness
and ENABLED are beyond the prover. `VentanasEnOrden`, `ImplementaMapa`, `EscritorioEntero`: what
`Desktops` and `Displays` do to their lists and layouts is a fold over a sequence of any length (the
lists of desktops of each output, the row of the outputs), so what these say is the outcome of an
induction over data, which the library's theorems cannot express for the installed provers, and
which would have to be undone by hand at each fold as was done for the row of the switcher.
`RejillaEntera` and `IconosEnOrden` are of the same kind (pages refilled, cells dealt out one after
another). `CascosEnOrden` has `CorteIndiferente`, about what a recursive function computes
for every input. `VentanaEnSuSitio` and `EscenaEnOrden`: the sizes and orders of what is
on the screen. `SistemaEnOrden`, which nothing here prevents from being proved. `AjustesAlDia`, whose
part of the configuration compares files merged key by key (`LoDemasSigue`, `VueltaEntera`), again a
fold over a list of any length.

## 6. Where the code and its words differ

1. `screencast_closed_session` (a run, quoted in `PROJECT.json`). Session.Close is said to
   end the sharing. While the permission card is up the notice finds no emission, and a
   later yes shares the screen for a session that no longer exists.
2. `Lock`, `EsperaRenovada` (`README.md:835`): a fingerprint wait that times out starts a
   new one. The thread sends its verdict before it drops its guard on the reader
   (`autenticar.rs:162`); a poller that collects it in between finds OCUPADO set and starts
   nothing. The screen then asks for F9 until a key or a resume.
3. `Idle`, `InhibidorLiberado` (`backend/mod.rs`, programar_suspension_inactividad): when the
   last inhibitor is released the time starts again. A client that dies never sends the
   release; its surface leaves the list only when somebody looks, and in a locked
   session nobody does.
4. `Brightness`. Coming back from the warning should have no ramp, and starts one with the
   sensor on; a key pressed while the battery dims is learned as an offset on the dimmed
   level; a difference the user chose is learned against a clamped target and added
   before the clamp (`brillo_auto.rs:251`, `360`); the time stamp that makes the key start
   from its own last level is renewed by others (`236`).
5. The traces of the table of surroundings in section 3.
6. `NightLight` `LuzTrasDormir`, `CurvaPuesta`: after a sleep nobody looks at the clock again
   (`luz_nocturna.rs:22-27`), and a screen that was off keeps its old curve (`167-175`).
7. `Displays`: unplugging the primary between a request and its application indexes
   the request by an output that is gone (`ajustes.rs:1124-1130`); after an apply that
   failed and was undone the Space still maps dead outputs.
8. `Scene` `VistaSinCristal`: `shell.rs:1177` against `1170`, the glass of a card over the
   overview. A press on a miniature, then closing by key and releasing, opens the
   overview again.
9. `Desktops`: an unplugged output's windows are adopted into the list that is active,
   and a click in the overview is carried out in another order than it is drawn.
10. `Notifications`: an entry pushed off the end of the queue gets no NotificationClosed.
11. `Settings`: ApplyConfig takes a whole object that Settings read earlier and writes over
    what changed since; several keys are never read again in a running session; a write
    that fails leaves the file empty.
12. `SystemService`: a notice that finds the channel full is dropped. `WifiProfiles`: a wrong
    password is saved before it is known to be wrong.
13. `WindowPlaces`. Leaving the full screen from a zone goes back to where the window floated and
    still says it is in the zone (`ventanas.rs:1738-1788`), so the comment at `1749-1751` holds of the
    place and not of the zone: maximized and restored after that, it stays put when there
    is no way back left. The arrow down on a tiled window in full screen takes it out of its zone and
    leaves it marked as full screen, and leaving that then covers the area (`1761-1763`). A bar that comes
    or goes tiles again a window in full screen, which stays marked (`1818-1827`). A tiled window dragged
    by its bar keeps its zone (`1470-1487`), and dropped on another edge goes back later to the old
    tile. Decorated in a zone, it no longer fills it. Meta and a drag confine the size it had in
    the zone (`1504-1541`) and may leave it out of the screen, as may pulling an edge of a window half
    out. `LlenaSuZona` is therefore asked while an order was the last to move the window, and
    `Alcanzable` unless an edge was pulled or a size changed in the hand (`hecho`).
    `WindowFocus`: the fall of XWayland leaves focus and dock as they were.
14. `Snip`: the layer covers the first output only. `Launchpad`: a folder named "#x" is lost
    when the file is read again. `DesktopIcons`: a drop while the folder cannot be read
    writes an empty positions file. `ControlCenter`: the tile of the power profile always
    goes back to "balanced".
15. `Brightness`. Waking up writes "that same level" (`atenuacion.rs:18-19`), but the level to come
    back to is read from the device, rounded down (`state.rs:349`). On a device whose steps do not
    show each level as it is, a level comes back one point lower, and each dimming may
    sink the panel by one more: with `Maximo = 8`, `Tope = 7`, `Tolerancia = 1` the user at 3
    is two below after a warning and a movement (`NivelDevuelto`). With tolerance 0 the difference
    would also be learnt as the user's own (`DesvioDelUsuario`); `DesvioBien` proves that the
    code's tolerance prevents it.
16. `Snip`, `FotoDeLoMarcado`: with a fractional scale (`EscN = 3`, `EscD = 2`) the origin and the size of
    the picture are rounded apart and the hole of the veil by its edges, so the picture is a
    physical pixel off what was seen through the hole.

17. `Switcher`. The overview opens over an open row (`keybinds.rs:168-170` keeps only the row from
    opening over it). A window minimized with the row open is still in it and gets the keyboard when it
    is chosen (`263-266`), though it is not in sight. Tab over the grid that a gesture opened, or the
    other mode finding no window after it (`178-238`), leaves the mark of the gesture, and the row
    stays when its key is let go. `FocoVivo` and `SeResuelveAlSoltar` say what holds with all of this.
18. `Scene`. Locking closes what was open (`keybinds.rs:1817-1822`), but the overview closes with its
    animation, and its grid of windows is drawn over the lock until it ends. A notification
    is painted under the lock, though only the lock is said to be drawn (`shell.rs:4411-4413`). The overview
    closed with a window in the hand draws that window nowhere until it is let go. The lock put
    again while the last image of it fades lets what is behind be seen (`BloqueoOpaco`).
    `SoloElCandado` and `CadaVentanaUnaVez` say what else is never drawn, or drawn twice.

Items 2 to 18 are seen by checking the named definition, or the constant lifted, in a
configuration of the module on its own; they take no run of the project.

## 7. What is not modelled

- **Layout, painting, animation curves, rendering** (widgets of the panel, shaders,
  blur): floating-point geometry of one thread with no discrete state. `Scene` models
  the order of what is put in a frame, `LockView` and `Snip` the regions a press falls in.
- **Device backends** (DRM, winit) apart from what `Frames` and `Displays` take of them;
  **Wayland handlers** apart from inhibitors, screen copies, and windows that map, move or
  die: they hand the work to smithay.
- **Recognition of touchpad gestures** from finger positions: floating point. What a
  finished swipe does is in `Desktops` and `Switcher`.
- **Bluetooth pairing, mounting, power profiles** of `bookos-system`: sequential calls
  over BlueZ, udisks and power-profiles-daemon.
- **Self test and metrics**: a harness and counters.
- **SelectSources and the file chooser of the portal**; keyboard light; failing backlight
  writes; insertion of timers failing.
- **Interactions between machines of a sum**, beyond what section 2 says.
- **Hazards that no property covers.** A shell that panics while locked
  (`shell.rs:3764`) is an action of `Lock`, and its invariants stop there; a client that
  dies while it inhibits and a slow backlight are violated, as sections 3 and 6 say.
  Reachable in a model, with nothing in the code or its documents promising otherwise: a
  node that fails after connecting leaves its emission (`pw.rs:267`); after an automatic
  suspend the alarm waits for the next input (`backend/mod.rs:1893`); the alarms run while
  another TTY is in front (`udev.rs:535`). Outside the models: a timer that cannot be
  inserted (`keybinds.rs:1531`), two inhibitors on one surface, which are one entry of a
  set (`handlers.rs:1002`), an output unplugged while it is shared (`emision.rs:40`), a
  second screenshot in place of the first (`portal.rs:1437`).

## 8. What remains

Proof, for the invariants section 5 lists as only model-checked:

1. `SistemaEnOrden`, whose invariant is close to inductive; then the clock of `AjustesAlDia`, which
   needs what `NadaCambiaAntes` says of one alarm.
2. `EscritorioEntero`: that moving a layout to its origin changes neither which outputs
   overlap nor which can be reached, without its folds.
3. `VentanasEnOrden` and `ImplementaMapa`, with the lists of `Desktops` as functions of the output
   and one lemma for each thing that is done to a list.

In the models: an output unplugged while it is shared (`emision.rs:40`); two
inhibitors on one surface (`handlers.rs:1002`); a composition of `Idle` with
`Brightness`, where the warning has its real ramp.
