------------------------------ MODULE Graphics ------------------------------
(***************************************************************************)
(* The Direct3D half of BoardStats/dllmain.c, with YawSpeed.c and the panel *)
(* bitmaps of Presentation.c: what PresentHud's DrawFrame, ReloadOptions    *)
(* and InitializeRenderer do with the objects they share under RenderLock.  *)
(*                                                                         *)
(* Objects are counted, not described. A device lives at an address that   *)
(* the game may use again once the last reference is gone; the resources   *)
(* made on it are known by the device's number. A painting is the options  *)
(* and the board, or the yaw reading, it was painted from. Of the clock     *)
(* only "younger than the sampling period" and "older" are kept.            *)
(***************************************************************************)
EXTENDS Integers, Sequences, FiniteSets

CONSTANTS
    Threads,        \* game threads that present
    Chains,         \* swap chains
    Addresses,      \* addresses of ID3D11Device objects
    None,           \* no object, thread or frame
    Boards,         \* newest boards of a snapshot
    MaxDevices,     \* bound: devices the game creates
    MaxReloads      \* bound: options installed

Layers == {"hud", "yaw"}

\* DrawFrame and DrawLayer: the locals of a frame that outlive a step.
Frames == [thread : Threads, chain : Chains, layer : Layers,
           step : {"enter", "device", "panel", "sample", "show", "draw", "final"},
           device : Addresses \cup {None}, fresh : BOOLEAN, ok : BOOLEAN]

ASSUME BoundsAssumption == {MaxDevices, MaxReloads} \subseteq Nat
ASSUME ChainsAssumption == IsFiniteSet(Chains)
ASSUME NoneAssumption == None \notin Threads \cup Addresses \cup Frames

\* What g_Graphics holds besides the device, in the order CreateGraphics makes it.
Order == << "context", "hudContext", "vs", "ps", "texture0", "view0", "texture1", "view1",
            "sampler", "blend", "raster" >>
Parts == {Order[i] : i \in DOMAIN Order}

\* What a layer holds while it is drawn.
Temporaries == {"backBuffer", "target", "previous"}

\* CreateGraphics' own pointers: lpDevice1 and the immediate context.
Borrowed == {"device1", "immediate"}

VARIABLES
    \* the game
    device,     \* per address: number of the device that lives there, 0 if none
    refs,       \* per address: its reference count
    chain,      \* per swap chain: the address of its device, or None
    devices,    \* history: devices created so far
    \* g_Graphics and the objects alive in its name
    lpDevice,   \* address, or None
    part,       \* per part: number of the device it was made on, 0 for NULL
    live,       \* history: references of each kind taken and not given back
    texture,    \* per layer: the painting last copied into its texture, or None
    renderer,   \* "none", "ready", "failed": the result of InitializeRenderer
    \* g_Hud
    panel,      \* per layer: the thread its bitmap was made on, None without bitmap
    panels,     \* history: bitmaps of each layer nobody destroyed
    painted,    \* per layer: the painting in its bitmap, or None
    sampled,    \* per layer: "never" (0), "young" or "due"
    state,      \* g_Hud.State: the board it shows newest
    options,    \* g_Hud.Options: a number, bShowYawSpeed, iDuration > 0
    \* YawSpeed.c
    yaw,        \* client: g_hYawClient is set; refs: references to it; ready: g_bYawReady
    \* the frame being drawn under RenderLock
    frame       \* None, or thread, chain, layer, step, the layer's lpDevice, whether it
                \* sampled a new board, and SUCCEEDED(hr)

gameVars == <<device, refs, chain, devices>>
graphicsVars == <<lpDevice, part, live, texture>>
panelVars == <<panel, panels, painted>>
hudVars == <<sampled, state, options, yaw>>
vars == <<gameVars, graphicsVars, renderer, panelVars, hudVars, frame>>

Init ==
    /\ device = [a \in Addresses |-> 0] /\ refs = [a \in Addresses |-> 0]
    /\ chain = [c \in Chains |-> None] /\ devices = 0
    /\ lpDevice = None /\ part = [p \in Parts |-> 0]
    /\ live = [o \in Parts \cup Temporaries \cup Borrowed |-> 0]
    /\ texture = [l \in Layers |-> None] /\ renderer = "none"
    /\ panel = [l \in Layers |-> None] /\ panels = [l \in Layers |-> 0]
    /\ painted = [l \in Layers |-> None]
    /\ sampled = [l \in Layers |-> "never"] /\ state = None
    /\ options = [number |-> 0, yaw |-> FALSE, expires |-> FALSE]
    /\ yaw = [client |-> FALSE, refs |-> 0, ready |-> FALSE]
    /\ frame = None

-----------------------------------------------------------------------------
(* The game: devices and swap chains come and go on other threads. A swap   *)
(* chain keeps its device and is not destroyed while it is being presented. *)

\* Only the references that are counted keep a device: the last one frees it.
Referenced(r) == /\ refs' = r
                 /\ device' = [a \in Addresses |-> IF r[a] = 0 THEN 0 ELSE device[a]]

AddRef(r, a) == [r EXCEPT ![a] = @ + 1]
Drop(r, a) == IF a = None THEN r ELSE [r EXCEPT ![a] = @ - 1]

GameCreates(c, a) ==
    /\ chain[c] = None
    /\ IF device[a] = 0
       THEN /\ devices < MaxDevices /\ devices' = devices + 1
            /\ device' = [device EXCEPT ![a] = devices + 1]
       ELSE UNCHANGED <<device, devices>>
    /\ refs' = AddRef(refs, a) /\ chain' = [chain EXCEPT ![c] = a]
    /\ UNCHANGED <<graphicsVars, renderer, panelVars, hudVars, frame>>

GameDestroys(c) ==
    /\ chain[c] # None /\ (frame # None => frame.chain # c)
    /\ Referenced(Drop(refs, chain[c])) /\ chain' = [chain EXCEPT ![c] = None]
    /\ UNCHANGED <<devices, graphicsVars, renderer, panelVars, hudVars, frame>>

-----------------------------------------------------------------------------

(* The renderer, and ReloadOptions once the paint exception is configured.  *)

\* Its probe device and window are given back on every path; a failure is final.
InitializeRenderer ==
    /\ renderer = "none"
    /\ renderer' \in {"ready", "failed"}
    /\ UNCHANGED <<gameVars, graphicsVars, panelVars, hudVars, frame>>

\* client.dll was found and its hash is another one: FreeLibrary.
ForeignClient(y) == [y EXCEPT !.ready = FALSE]

VerifiedClient(y) == [client |-> TRUE, refs |-> y.refs + 1, ready |-> TRUE]

\* ConfigureYawSpeed: without memory for the path it returns at once; a client
\* verified once is not looked for again.
ConfigureYawSpeed(enabled) ==
    \/ UNCHANGED yaw
    \/ ~enabled /\ yaw' = [yaw EXCEPT !.ready = FALSE]
    \/ enabled /\ yaw.client /\ yaw' = [yaw EXCEPT !.ready = TRUE]
    \/ enabled /\ ~yaw.client /\ yaw' \in {ForeignClient(yaw), VerifiedClient(yaw)}

Resample == [l \in Layers |-> "never"]

ReloadOptions(showYaw, expires) ==
    /\ renderer = "ready" /\ frame = None /\ options.number < MaxReloads
    /\ ConfigureYawSpeed(showYaw)
    /\ options' = [number |-> options.number + 1, yaw |-> showYaw, expires |-> expires]
    /\ sampled' = Resample
    /\ UNCHANGED <<gameVars, graphicsVars, renderer, panelVars, state, frame>>

-----------------------------------------------------------------------------
(* CreateGraphics and ReleaseGraphics, over records of what they change.    *)

G == [lpDevice |-> lpDevice, part |-> part, live |-> live, refs |-> refs]

\* Mutant: DROP_COM of one view is missing.
ReleaseForgetsView(g) ==
    LET dropped == {p \in Parts \ {"view1"} : g.part[p] # 0}
    IN  [lpDevice |-> None, refs |-> Drop(g.refs, g.lpDevice),
         part |-> [p \in Parts |-> IF p \in dropped THEN 0 ELSE g.part[p]],
         live |-> [o \in DOMAIN g.live |-> IF o \in dropped THEN g.live[o] - 1 ELSE g.live[o]]]

Release(g) ==
    LET dropped == {p \in Parts : g.part[p] # 0}
    IN  [lpDevice |-> None, refs |-> Drop(g.refs, g.lpDevice),
         part |-> [p \in Parts |-> 0],
         live |-> [o \in DOMAIN g.live |-> IF o \in dropped THEN g.live[o] - 1 ELSE g.live[o]]]

\* The first n parts are made on device d.
Make(g, d, n) ==
    LET made == {Order[i] : i \in 1..n}
    IN  [g EXCEPT !.part = [p \in Parts |-> IF p \in made THEN d ELSE @[p]],
                  !.live = [o \in DOMAIN @ |-> IF o \in made THEN @[o] + 1 ELSE @[o]]]

\* Mutant: the device is remembered and not kept.
KeepUncounted(g, a) == [g EXCEPT !.lpDevice = a]

\* g_Graphics.lpDevice = lpDevice, with a reference of its own.
Keep(g, a) == [g EXCEPT !.lpDevice = a, !.refs = AddRef(@, a)]

Borrow(g) ==
    [g EXCEPT !.live = [o \in DOMAIN @ |-> IF o \in Borrowed THEN @[o] + 1 ELSE @[o]]]

\* Mutant: the immediate context is not given back.
GiveBackDevice(g) ==
    [g EXCEPT !.live = [o \in DOMAIN @ |-> IF o = "device1" THEN @[o] - 1 ELSE @[o]]]

GiveBack(g) ==
    [g EXCEPT !.live = [o \in DOMAIN @ |-> IF o \in Borrowed THEN @[o] - 1 ELSE @[o]]]

\* CreateGraphics on the device at a, of which n parts can be made. Where the device has
\* no ID3D11Device1 nothing is borrowed and nothing made, which leaves what n = 0 leaves.
Create(g, a, n) ==
    LET made == Make(Borrow(g), device[a], n)
        done == GiveBack(IF n = Len(Order) THEN Keep(made, a) ELSE made)
    IN  IF n = Len(Order) THEN done ELSE Release(done)

-----------------------------------------------------------------------------
(* DrawFrame and DrawLayer on the thread that got RenderLock.               *)

At(step) == frame # None /\ frame.step = step
Goto(step) == frame' = [frame EXCEPT !.step = step]
Fail == frame' = [frame EXCEPT !.step = "final", !.ok = FALSE]

\* Rendering is enabled after the first options are installed.
DrawFrame(t, c) ==
    /\ options.number > 0 /\ frame = None /\ chain[c] # None
    /\ frame' = [thread |-> t, chain |-> c, layer |-> "hud", step |-> "enter",
                 device |-> None, fresh |-> FALSE, ok |-> TRUE]
    /\ UNCHANGED <<gameVars, graphicsVars, renderer, panelVars, hudVars>>

\* An output window that is missing, hidden or another process's is passed over.
LayerEnter ==
    /\ At("enter")
    /\ \/ Goto("final") /\ UNCHANGED refs
       \/ Fail /\ UNCHANGED refs
       \/ LET a == chain[frame.chain]
          IN  /\ refs' = AddRef(refs, a)
              /\ frame' = [frame EXCEPT !.step = "device", !.device = a]
    /\ UNCHANGED <<device, chain, devices, graphicsVars, renderer, panelVars, hudVars>>

NewTextures == [l \in Layers |-> "never"]

\* Another device than the last frame's: all resources are made again on it.
LayerDevice(n) ==
    /\ At("device") /\ frame.device # lpDevice
    /\ LET g == Create(Release(G), frame.device, n)
       IN  /\ lpDevice' = g.lpDevice /\ part' = g.part /\ live' = g.live /\ Referenced(g.refs)
           /\ texture' = [l \in Layers |-> None]
           /\ IF n = Len(Order)
              THEN sampled' = NewTextures /\ Goto("panel")
              ELSE Fail /\ UNCHANGED sampled
    /\ UNCHANGED <<chain, devices, renderer, panelVars, state, options, yaw>>

LayerSameDevice ==
    /\ At("device") /\ frame.device = lpDevice
    /\ Goto("panel")
    /\ UNCHANGED <<gameVars, graphicsVars, renderer, panelVars, hudVars>>

\* The bitmap is missing or was made on another thread.
ForeignPanel(l) == panel[l] # frame.thread

\* DestroyHudPanel, then CreateHudPanel, which may fail and leaves nothing then.
LayerNewPanel ==
    LET l == frame.layer
    IN  /\ At("panel") /\ ForeignPanel(l)
        /\ painted' = [painted EXCEPT ![l] = None]
        /\ LET destroyed == IF panel[l] = None THEN panels[l] ELSE panels[l] - 1
           IN  \/ /\ panel' = [panel EXCEPT ![l] = frame.thread]
                  /\ panels' = [panels EXCEPT ![l] = destroyed + 1]
                  /\ sampled' = [sampled EXCEPT ![l] = "never"] /\ Goto("sample")
               \/ /\ panel' = [panel EXCEPT ![l] = None]
                  /\ panels' = [panels EXCEPT ![l] = destroyed]
                  /\ Fail /\ UNCHANGED sampled
        /\ UNCHANGED <<gameVars, graphicsVars, renderer, state, options, yaw>>

LayerOwnPanel ==
    /\ At("panel") /\ ~ForeignPanel(frame.layer)
    /\ Goto("sample")
    /\ UNCHANGED <<gameVars, graphicsVars, renderer, panelVars, hudVars>>

LayerRecent ==
    /\ At("sample") /\ sampled[frame.layer] = "young"
    /\ Goto("show")
    /\ UNCHANGED <<gameVars, graphicsVars, renderer, panelVars, hudVars>>

\* Mutant: the time of the sample is taken before Map.
LayerPaintsStamped(l, content, fresh) ==
    /\ painted' = [painted EXCEPT ![l] = content]
    /\ sampled' = [sampled EXCEPT ![l] = "young"]
    /\ \/ /\ texture' = [texture EXCEPT ![l] = content]
          /\ frame' = [frame EXCEPT !.step = "show", !.fresh = fresh]
       \/ Fail /\ UNCHANGED texture
    /\ UNCHANGED <<gameVars, lpDevice, part, live, renderer, panel, panels, options, yaw>>

\* The panel is painted with content, and Map gives the texture to copy it to,
\* or fails or gives nothing to write to: then the layer stays due.
LayerPaints(l, content, fresh) ==
    /\ painted' = [painted EXCEPT ![l] = content]
    /\ \/ /\ texture' = [texture EXCEPT ![l] = content]
          /\ sampled' = [sampled EXCEPT ![l] = "young"]
          /\ frame' = [frame EXCEPT !.step = "show", !.fresh = fresh]
       \/ Fail /\ UNCHANGED <<texture, sampled>>
    /\ UNCHANGED <<gameVars, lpDevice, part, live, renderer, panel, panels, options, yaw>>

\* The snapshot may be refused: the last state is painted again.
LayerSampleHud(b) ==
    /\ At("sample") /\ frame.layer = "hud" /\ sampled["hud"] # "young"
    /\ state' = b
    /\ LayerPaints("hud", <<options.number, b>>, b # state)

\* ReadYawSpeed needs the verified client.
LayerSampleYaw(available) ==
    /\ At("sample") /\ frame.layer = "yaw" /\ sampled["yaw"] # "young"
    /\ available => yaw.ready /\ yaw.client
    /\ LayerPaints("yaw", <<options.number, available>>, FALSE)
    /\ UNCHANGED state

\* The board has been shown for iDuration; one seen just now has not.
LayerExpired ==
    /\ At("show") /\ frame.layer = "hud" /\ options.expires /\ state # None /\ ~frame.fresh
    /\ Goto("final")
    /\ UNCHANGED <<gameVars, graphicsVars, renderer, panelVars, hudVars>>

\* GetBuffer and CreateRenderTargetView: got holds what they returned.
LayerTarget(got) ==
    /\ At("show")
    /\ live' = [o \in DOMAIN live |-> IF o \in got THEN live[o] + 1 ELSE live[o]]
    /\ IF got = {"backBuffer", "target"} THEN Goto("draw") ELSE Fail
    /\ UNCHANGED <<gameVars, lpDevice, part, texture, renderer, panelVars, hudVars>>

\* SwapDeviceContextState hands out the game's state and takes it back.
LayerDraw ==
    /\ At("draw")
    /\ live' = [live EXCEPT !["previous"] = @ + 1]
    /\ Goto("final")
    /\ UNCHANGED <<gameVars, lpDevice, part, texture, renderer, panelVars, hudVars>>

\* _FINAL; the yaw label follows a layer that did not fail.
LayerFinal ==
    /\ At("final")
    /\ live' = [o \in DOMAIN live |-> IF o \in Temporaries THEN 0 ELSE live[o]]
    /\ Referenced(Drop(refs, frame.device))
    /\ frame' = IF frame.ok /\ frame.layer = "hud" /\ options.yaw
                THEN [frame EXCEPT !.layer = "yaw", !.step = "enter", !.device = None,
                                   !.fresh = FALSE]
                ELSE None
    /\ UNCHANGED <<chain, devices, lpDevice, part, texture, renderer, panelVars, hudVars>>

\* GetTickCount64 is read once per layer, before it looks at anything.
TimePasses ==
    /\ frame = None \/ At("enter")
    /\ \E l \in Layers : sampled[l] = "young" /\ sampled' = [sampled EXCEPT ![l] = "due"]
    /\ UNCHANGED <<gameVars, graphicsVars, renderer, panelVars, state, options, yaw, frame>>

Layer ==
    \/ LayerEnter \/ LayerSameDevice \/ LayerNewPanel \/ LayerOwnPanel \/ LayerRecent
    \/ LayerExpired \/ LayerDraw \/ LayerFinal
    \/ \E n \in 0..Len(Order) : LayerDevice(n)
    \/ \E b \in Boards \cup {None} : LayerSampleHud(b)
    \/ \E available \in BOOLEAN : LayerSampleYaw(available)
    \/ \E got \in {{}, {"backBuffer"}, {"backBuffer", "target"}} : LayerTarget(got)

Next ==
    \/ \E c \in Chains : GameDestroys(c) \/ \E a \in Addresses : GameCreates(c, a)
    \/ InitializeRenderer
    \/ \E showYaw, expires \in BOOLEAN : ReloadOptions(showYaw, expires)
    \/ \E t \in Threads, c \in Chains : DrawFrame(t, c)
    \/ Layer \/ TimePasses

Spec == Init /\ [][Next]_vars

-----------------------------------------------------------------------------
(* Properties.                                                             *)

Paintings == ((0..MaxReloads) \X (Boards \cup {None} \cup BOOLEAN)) \cup {None}

\* Every variable keeps its type; no reference is given back twice.
TypeOK ==
    /\ device \in [Addresses -> 0..MaxDevices] /\ devices \in 0..MaxDevices
    /\ refs \in [Addresses -> Nat]
    /\ live \in [Parts \cup Temporaries \cup Borrowed -> Nat]
    /\ chain \in [Chains -> Addresses \cup {None}] /\ lpDevice \in Addresses \cup {None}
    /\ part \in [Parts -> 0..MaxDevices] /\ renderer \in {"none", "ready", "failed"}
    /\ panel \in [Layers -> Threads \cup {None}] /\ panels \in [Layers -> Nat]
    /\ painted \in [Layers -> Paintings] /\ texture \in [Layers -> Paintings]
    /\ sampled \in [Layers -> {"never", "young", "due"}] /\ state \in Boards \cup {None}
    /\ options \in [number : 0..MaxReloads, yaw : BOOLEAN, expires : BOOLEAN]
    /\ yaw \in [client : BOOLEAN, refs : Nat, ready : BOOLEAN]
    /\ frame \in Frames \cup {None}

Count(b) == IF b THEN 1 ELSE 0

\* Between frames every object that is alive is held by exactly one pointer: no
\* failure while the resources are made, no device change, panel of another
\* thread, foreign client.dll or abandoned layer leaves one behind, and the back
\* buffer, of which a single forgotten reference would keep the game from
\* resizing its window, is given back.
NothingLeaks ==
    frame = None =>
        /\ \A a \in Addresses :
               refs[a] = Cardinality({c \in Chains : chain[c] = a}) + Count(lpDevice = a)
        /\ \A p \in Parts : live[p] = Count(part[p] # 0)
        /\ \A o \in Temporaries \cup Borrowed : live[o] = 0
        /\ \A l \in Layers : panels[l] = Count(panel[l] # None)
        /\ yaw.refs = Count(yaw.client)

\* Whatever is drawn was made on the live device that is drawing, though devices
\* are told apart by address only and addresses are used again; and it shows what
\* this thread's panel was painted with under the options in force, though the
\* copy into the texture may have failed, and devices, threads and options may
\* have changed, since either was painted.
DrawsWhatItPainted ==
    At("draw") =>
        /\ device[frame.device] # 0 /\ \A p \in Parts : part[p] = device[frame.device]
        /\ panel[frame.layer] = frame.thread
        /\ texture[frame.layer] = painted[frame.layer]
        /\ texture[frame.layer][1] = options.number

=============================================================================
