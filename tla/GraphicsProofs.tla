--------------------------- MODULE GraphicsProofs ---------------------------
(***************************************************************************)
(* Proofs about Graphics, for any number of game threads, swap chains,      *)
(* devices and reloads: every object has one owner, nothing is left behind  *)
(* between frames, and what is drawn is current and on the drawing device.  *)
(***************************************************************************)
EXTENDS Graphics, TLAPS, FiniteSetTheorems

\* What a frame has done by the time it is at a step of its layer.
FrameKnows ==
    frame # None =>
        /\ chain[frame.chain] # None
        /\ frame.step = "enter" => frame.device = None
        /\ frame.step \notin {"enter", "final"} => frame.device # None
        /\ frame.step \in {"panel", "sample", "show", "draw"} => lpDevice = frame.device
        /\ frame.step \in {"sample", "show", "draw"} => panel[frame.layer] = frame.thread
        /\ frame.step \in {"show", "draw"} => sampled[frame.layer] = "young"

\* Who holds a reference to the device at a: swap chains, g_Graphics, the layer.
Users(a) == {c \in Chains : chain[c] = a}
FrameHolds(a) == IF frame # None /\ frame.device = a THEN 1 ELSE 0

DevicesCounted ==
    \A a \in Addresses :
        /\ refs[a] = Cardinality(Users(a)) + Count(lpDevice = a) + FrameHolds(a)
        /\ device[a] = 0 <=> refs[a] = 0

\* The parts are there together, and all on the device g_Graphics holds.
PartsOfDevice ==
    \A p \in Parts : part[p] = IF lpDevice = None THEN 0 ELSE device[lpDevice]

\* The temporaries are there only from LayerTarget to LayerFinal, what CreateGraphics
\* borrows only within its step.
ObjectsCounted ==
    /\ \A p \in Parts : live[p] = Count(part[p] # 0)
    /\ frame = None \/ frame.step \notin {"draw", "final"} => \A o \in Temporaries : live[o] = 0
    /\ \A o \in Borrowed : live[o] = 0
    /\ \A l \in Layers : panels[l] = Count(panel[l] # None)
    /\ yaw.refs = Count(yaw.client)

\* A young sample was painted and copied under these options, if the panel and the
\* texture it went through are still there.
YoungIsShown ==
    \A l \in Layers :
        sampled[l] = "young" /\ panel[l] # None /\ lpDevice # None =>
            texture[l] = painted[l] /\ texture[l][1] = options.number

GraphicsInv ==
    FrameKnows /\ DevicesCounted /\ PartsOfDevice /\ ObjectsCounted /\ YoungIsShown

-----------------------------------------------------------------------------

\* The parts are the eleven of Order, and nothing else is one of them.
LEMMA PartsAreOrdered ==
    /\ Len(Order) = 11
    /\ Parts = {Order[i] : i \in 1..11}
    /\ Parts \cap Temporaries = {} /\ (Parts \cup Temporaries) \cap Borrowed = {}
BY DEF Order, Parts, Temporaries, Borrowed

\* The swap chains of a device can be counted.
LEMMA UsersAreCounted ==
    ASSUME NEW a
    PROVE  IsFiniteSet(Users(a)) /\ Cardinality(Users(a)) \in Nat
<1>1. Users(a) \in SUBSET Chains
  BY DEF Users
<1>2. IsFiniteSet(Users(a))
  BY <1>1, ChainsAssumption, FS_Subset
<1> QED BY <1>2, FS_CardinalityType

\* A device somebody points to has a reference and is alive.
LEMMA HeldIsAlive ==
    ASSUME TypeOK, DevicesCounted, NEW a \in Addresses,
           \/ lpDevice = a
           \/ frame # None /\ frame.device = a
           \/ \E c \in Chains : chain[c] = a
    PROVE  refs[a] >= 1 /\ device[a] # 0
<1>1. IsFiniteSet(Users(a)) /\ Cardinality(Users(a)) \in Nat
  BY UsersAreCounted
<1>2. refs[a] = Cardinality(Users(a)) + Count(lpDevice = a) + FrameHolds(a)
  BY DEF DevicesCounted
<1>3. (\E c \in Chains : chain[c] = a) => Cardinality(Users(a)) # 0
  BY <1>1, FS_EmptySet DEF Users
<1>4. refs[a] >= 1
  BY <1>1, <1>2, <1>3 DEF Count, FrameHolds
<1> QED BY <1>4 DEF DevicesCounted, TypeOK

\* What CreateGraphics leaves when it is called on another device: all eleven parts
\* on it and a reference, or nothing.
LEMMA WhatCreateLeaves ==
    ASSUME TypeOK, GraphicsInv, At("device"), frame.device # lpDevice,
           NEW n \in 0..Len(Order)
    PROVE  LET g == Create(Release(G), frame.device, n)
               all == n = Len(Order)
           IN  /\ g.lpDevice = IF all THEN frame.device ELSE None
               /\ g.part = [p \in Parts |-> IF all THEN device[frame.device] ELSE 0]
               /\ g.live = [o \in Parts \cup Temporaries \cup Borrowed |->
                              IF o \in Parts THEN (IF all THEN 1 ELSE 0) ELSE live[o]]
               /\ g.refs = IF all THEN AddRef(Drop(refs, lpDevice), frame.device)
                                  ELSE Drop(refs, lpDevice)
<1> DEFINE Objects == Parts \cup Temporaries \cup Borrowed
           all == n = Len(Order)
           made == {Order[i] : i \in 1..n}
           r == Release(G)
           b == Borrow(r)
           m == Make(b, device[frame.device], n)
           k == IF all THEN Keep(m, frame.device) ELSE m
           d == GiveBack(k)
<1>1. frame.device \in Addresses /\ device[frame.device] \in Nat /\ device[frame.device] # 0
  <2>1. frame.device \in Addresses /\ frame # None
    BY DEF At, GraphicsInv, FrameKnows, TypeOK, Frames
  <2>2. device[frame.device] \in 0..MaxDevices /\ device[frame.device] # 0
    BY <2>1, HeldIsAlive DEF TypeOK, GraphicsInv
  <2> QED BY <2>1, <2>2, BoundsAssumption
<1>2. /\ \A p \in Parts : live[p] = IF part[p] # 0 THEN 1 ELSE 0
      /\ \A o \in Borrowed : live[o] = 0
  BY DEF GraphicsInv, ObjectsCounted, Count
<1>3. made \subseteq Parts /\ (n = Len(Order) => made = Parts)
  BY PartsAreOrdered
<1>4. r = [lpDevice |-> None, refs |-> Drop(refs, lpDevice), part |-> [p \in Parts |-> 0],
           live |-> [o \in Objects |-> IF o \in Parts THEN 0 ELSE live[o]]]
  <2>1. DOMAIN live = Parts \cup Temporaries \cup Borrowed
    BY DEF TypeOK
  <2>2. [o \in DOMAIN live |-> IF o \in {p \in Parts : part[p] # 0} THEN live[o] - 1 ELSE live[o]]
        = [o \in Parts \cup Temporaries \cup Borrowed |-> IF o \in Parts THEN 0 ELSE live[o]]
    BY <1>2, <2>1
  <2> QED BY <2>2 DEF Release, G
<1>5. b = [lpDevice |-> None, refs |-> Drop(refs, lpDevice), part |-> [p \in Parts |-> 0],
           live |-> [o \in Objects |-> IF o \in Parts THEN 0
                                      ELSE IF o \in Borrowed THEN 1 ELSE live[o]]]
  <2>1. b = [r EXCEPT !.live = [o \in DOMAIN r.live |-> IF o \in Borrowed THEN r.live[o] + 1
                                                                         ELSE r.live[o]]]
    BY DEF Borrow
  <2>2. [o \in DOMAIN r.live |-> IF o \in Borrowed THEN r.live[o] + 1 ELSE r.live[o]]
        = [o \in Objects |-> IF o \in Parts THEN 0 ELSE IF o \in Borrowed THEN 1 ELSE live[o]]
    BY <1>2, <1>4, PartsAreOrdered
  <2> HIDE DEF r
  <2> QED BY <1>4, <2>1, <2>2
<1>6. m = [lpDevice |-> None, refs |-> Drop(refs, lpDevice),
           part |-> [p \in Parts |-> IF p \in made THEN device[frame.device] ELSE 0],
           live |-> [o \in Objects |-> IF o \in Parts THEN (IF o \in made THEN 1 ELSE 0)
                                      ELSE IF o \in Borrowed THEN 1 ELSE live[o]]]
  <2>1. [p \in Parts |-> IF p \in made THEN device[frame.device] ELSE b.part[p]]
        = [p \in Parts |-> IF p \in made THEN device[frame.device] ELSE 0]
    BY <1>5
  <2>2. [o \in DOMAIN b.live |-> IF o \in made THEN b.live[o] + 1 ELSE b.live[o]]
        = [o \in Objects |-> IF o \in Parts THEN (IF o \in made THEN 1 ELSE 0)
                            ELSE IF o \in Borrowed THEN 1 ELSE live[o]]
    BY <1>3, <1>5
  <2>3. m = [b EXCEPT !.part = [p \in Parts |-> IF p \in made THEN device[frame.device]
                                                             ELSE b.part[p]],
                      !.live = [o \in DOMAIN b.live |-> IF o \in made THEN b.live[o] + 1
                                                                      ELSE b.live[o]]]
    BY DEF Make
  <2> HIDE DEF made, b
  <2> QED BY <1>5, <2>1, <2>2, <2>3
<1>7. k = [lpDevice |-> IF all THEN frame.device ELSE None,
           refs |-> IF all THEN AddRef(Drop(refs, lpDevice), frame.device)
                           ELSE Drop(refs, lpDevice),
           part |-> m.part, live |-> m.live]
  <2> HIDE DEF made, m
  <2>1. CASE all
    BY <1>6, <2>1 DEF Keep
  <2>2. CASE ~all
    BY <1>6, <2>2
  <2> QED BY <2>1, <2>2
<1>8. d = [lpDevice |-> k.lpDevice, refs |-> k.refs,
           part |-> [p \in Parts |-> IF p \in made THEN device[frame.device] ELSE 0],
           live |-> [o \in Objects |-> IF o \in Parts THEN (IF o \in made THEN 1 ELSE 0)
                                      ELSE live[o]]]
  <2>1. [o \in DOMAIN k.live |-> IF o \in Borrowed THEN k.live[o] - 1 ELSE k.live[o]]
        = [o \in Objects |-> IF o \in Parts THEN (IF o \in made THEN 1 ELSE 0) ELSE live[o]]
    <3> HIDE DEF made, k, m
    <3> QED BY <1>2, <1>6, <1>7, PartsAreOrdered
  <2>2. d = [k EXCEPT !.live = [o \in DOMAIN k.live |-> IF o \in Borrowed THEN k.live[o] - 1
                                                                         ELSE k.live[o]]]
    BY DEF GiveBack
  <2> HIDE DEF made, k, m
  <2> QED BY <1>6, <1>7, <2>1, <2>2
<1>9. Create(r, frame.device, n) = IF all THEN d ELSE Release(d)
  BY DEF Create
<1>10. CASE all
  <2> HIDE DEF made, k, m, d
  <2> QED BY <1>3, <1>7, <1>8, <1>9, <1>10
<1>11. CASE ~all
  <2>1. [o \in DOMAIN d.live |->
           IF o \in {p \in Parts : d.part[p] # 0} THEN d.live[o] - 1 ELSE d.live[o]]
        = [o \in Objects |-> IF o \in Parts THEN 0 ELSE live[o]]
    <3> HIDE DEF made, k, m, d
    <3> QED BY <1>1, <1>3, <1>8
  <2>2. Drop(d.refs, d.lpDevice) = Drop(refs, lpDevice)
    <3> HIDE DEF made, m, d, k
    <3> QED BY <1>7, <1>8, <1>11 DEF Drop
  <2>3. Release(d) = [lpDevice |-> None, refs |-> Drop(refs, lpDevice),
                      part |-> [p \in Parts |-> 0],
                      live |-> [o \in Objects |-> IF o \in Parts THEN 0 ELSE live[o]]]
    <3> HIDE DEF d
    <3> QED BY <2>1, <2>2 DEF Release
  <2> HIDE DEF d
  <2> QED BY <1>9, <1>11, <2>3
<1> QED BY <1>10, <1>11

\* LayerDevice over the variables; only the devices g_Graphics holds change hands.
LEMMA WhatLayerDeviceDoes ==
    ASSUME TypeOK, GraphicsInv, NEW n \in 0..Len(Order), LayerDevice(n)
    PROVE  LET all == n = Len(Order)
           IN  /\ frame \in Frames /\ frame # None /\ frame.step = "device"
               /\ frame.device \in Addresses /\ frame.device # lpDevice
               /\ lpDevice' = IF all THEN frame.device ELSE None
               /\ part' = [p \in Parts |-> IF all THEN device[frame.device] ELSE 0]
               /\ live' = [o \in Parts \cup Temporaries \cup Borrowed |->
                             IF o \in Parts THEN (IF all THEN 1 ELSE 0) ELSE live[o]]
               /\ refs' \in [Addresses -> Nat]
               /\ \A a \in Addresses :
                     refs'[a] = Cardinality(Users(a)) + FrameHolds(a)
                                + (IF all /\ a = frame.device THEN 1 ELSE 0)
               /\ device' = [a \in Addresses |-> IF refs'[a] = 0 THEN 0 ELSE device[a]]
               /\ device'[frame.device] = device[frame.device] /\ device[frame.device] # 0
<1> DEFINE g == Create(Release(G), frame.device, n)
           all == n = Len(Order)
<1>1. /\ frame \in Frames /\ frame # None /\ frame.step = "device"
      /\ frame.device \in Addresses /\ frame.device # lpDevice
  BY DEF LayerDevice, At, GraphicsInv, FrameKnows, TypeOK, Frames
<1>2. /\ lpDevice' = g.lpDevice /\ part' = g.part /\ live' = g.live
      /\ refs' = g.refs
      /\ device' = [a \in Addresses |-> IF refs'[a] = 0 THEN 0 ELSE device[a]]
  BY DEF LayerDevice, Referenced
<1>3. /\ g.lpDevice = IF all THEN frame.device ELSE None
      /\ g.part = [p \in Parts |-> IF all THEN device[frame.device] ELSE 0]
      /\ g.live = [o \in Parts \cup Temporaries \cup Borrowed |->
                     IF o \in Parts THEN (IF all THEN 1 ELSE 0) ELSE live[o]]
      /\ g.refs = IF all THEN AddRef(Drop(refs, lpDevice), frame.device)
                         ELSE Drop(refs, lpDevice)
  BY <1>1, WhatCreateLeaves DEF At
<1> HIDE DEF g
<1>4. \A a \in Addresses : /\ Cardinality(Users(a)) \in Nat
                           /\ FrameHolds(a) \in Nat /\ Count(lpDevice = a) \in Nat
                           /\ refs[a] = Cardinality(Users(a)) + Count(lpDevice = a) + FrameHolds(a)
  BY UsersAreCounted DEF GraphicsInv, DevicesCounted, FrameHolds, Count
<1>5. refs \in [Addresses -> Nat] /\ lpDevice \in Addresses \cup {None}
  BY DEF TypeOK
<1>6. Drop(refs, lpDevice) = [a \in Addresses |-> Cardinality(Users(a)) + FrameHolds(a)]
  <2>1. CASE lpDevice = None
    <3>1. \A a \in Addresses : refs[a] = Cardinality(Users(a)) + FrameHolds(a)
      BY <1>4, <2>1, NoneAssumption DEF Count
    <3> QED BY <1>5, <2>1, <3>1 DEF Drop
  <2>2. CASE lpDevice # None
    <3>1. Drop(refs, lpDevice) = [refs EXCEPT ![lpDevice] = @ - 1]
      BY <2>2 DEF Drop
    <3>2. \A a \in Addresses : [refs EXCEPT ![lpDevice] = @ - 1][a]
                               = Cardinality(Users(a)) + FrameHolds(a)
      BY <1>4, <1>5, <2>2 DEF Count
    <3> QED BY <1>5, <3>1, <3>2
  <2> QED BY <2>1, <2>2
<1>7. \A a \in Addresses :
         g.refs[a] = Cardinality(Users(a)) + FrameHolds(a)
                     + (IF all /\ a = frame.device THEN 1 ELSE 0)
  <2> DEFINE d == Drop(refs, lpDevice)
  <2>1. \A a \in Addresses : d[a] = Cardinality(Users(a)) + FrameHolds(a) /\ d[a] \in Nat
    BY <1>4, <1>6
  <2>2. DOMAIN d = Addresses
    BY <1>6
  <2> HIDE DEF d
  <2>3. CASE all
    BY <1>1, <1>3, <1>4, <2>1, <2>2, <2>3 DEF AddRef, d
  <2>4. CASE ~all
    BY <1>3, <1>4, <2>1, <2>4 DEF d
  <2> QED BY <2>3, <2>4
<1>8. g.refs \in [Addresses -> Nat]
  <2>1. g.refs = [a \in Addresses |-> g.refs[a]]
    BY <1>3, <1>6 DEF AddRef
  <2> QED BY <1>4, <1>7, <2>1
<1>9. device[frame.device] # 0
  BY <1>1, HeldIsAlive DEF GraphicsInv
<1>10. refs'[frame.device] # 0
  BY <1>1, <1>2, <1>4, <1>7 DEF FrameHolds
<1>11. device'[frame.device] = device[frame.device]
  BY <1>1, <1>2, <1>10
<1> QED BY <1>1, <1>2, <1>3, <1>7, <1>8, <1>9, <1>11

-----------------------------------------------------------------------------

\* Drop and AddRef keep counting when there is something to drop.
LEMMA CountsStay ==
    ASSUME TypeOK, DevicesCounted, NEW a \in Addresses
    PROVE  /\ AddRef(refs, a) \in [Addresses -> Nat]
           /\ lpDevice = a \/ (frame # None /\ frame.device = a)
              \/ (\E c \in Chains : chain[c] = a) => Drop(refs, a) \in [Addresses -> Nat]
<1>1. refs \in [Addresses -> Nat]
  BY DEF TypeOK
<1> QED BY <1>1, HeldIsAlive, NoneAssumption DEF AddRef, Drop

LEMMA PaintingsStay ==
    ASSUME NEW f \in [Layers -> Paintings], NEW l, NEW content \in Paintings
    PROVE  [f EXCEPT ![l] = content] \in [Layers -> Paintings]
OBVIOUS

\* Every action keeps the types.
LEMMA TypeStep ==
    ASSUME TypeOK, GraphicsInv, [Next]_vars
    PROVE  TypeOK'
<1>0. frame \in Frames \cup {None}
  BY DEF TypeOK
<1>1. ASSUME NEW c \in Chains, GameDestroys(c) PROVE TypeOK'
  <2>1. chain[c] \in Addresses
    BY <1>1 DEF GameDestroys, TypeOK
  <2>2. Drop(refs, chain[c]) \in [Addresses -> Nat]
    BY <2>1, CountsStay DEF GraphicsInv
  <2>3. refs' \in [Addresses -> Nat] /\ device' \in [Addresses -> 0..MaxDevices]
    BY <1>1, <2>2, BoundsAssumption DEF GameDestroys, Referenced, TypeOK
  <2> QED BY <1>1, <2>3 DEF GameDestroys, TypeOK, graphicsVars, panelVars, hudVars
<1>2. ASSUME NEW c \in Chains, NEW a \in Addresses, GameCreates(c, a) PROVE TypeOK'
  <2>1. refs' \in [Addresses -> Nat]
    BY <1>2, CountsStay DEF GameCreates, GraphicsInv
  <2>2. device' \in [Addresses -> 0..MaxDevices] /\ devices' \in 0..MaxDevices
    BY <1>2, BoundsAssumption DEF GameCreates, TypeOK
  <2> QED BY <1>2, <2>1, <2>2 DEF GameCreates, TypeOK, graphicsVars, panelVars, hudVars
<1>3. CASE InitializeRenderer
  BY <1>3 DEF InitializeRenderer, TypeOK, gameVars, graphicsVars, panelVars, hudVars
<1>4. ASSUME NEW showYaw \in BOOLEAN, NEW expires \in BOOLEAN, ReloadOptions(showYaw, expires)
      PROVE TypeOK'
  <2>1. yaw' \in [client : BOOLEAN, refs : Nat, ready : BOOLEAN]
    <3>1. yaw \in [client : BOOLEAN, refs : Nat, ready : BOOLEAN]
      BY DEF TypeOK
    <3>2. CASE yaw' = yaw
      BY <3>1, <3>2
    <3>3. ASSUME NEW r \in BOOLEAN, yaw' = [yaw EXCEPT !.ready = r]
          PROVE  yaw' \in [client : BOOLEAN, refs : Nat, ready : BOOLEAN]
      BY <3>1, <3>3
    <3>4. CASE yaw' = VerifiedClient(yaw)
      BY <3>1, <3>4 DEF VerifiedClient
    <3> QED BY <1>4, <3>2, <3>3, <3>4 DEF ReloadOptions, ConfigureYawSpeed, ForeignClient
  <2>2. options' \in [number : 0..MaxReloads, yaw : BOOLEAN, expires : BOOLEAN]
    BY <1>4, BoundsAssumption DEF ReloadOptions, TypeOK
  <2>3. sampled' \in [Layers -> {"never", "young", "due"}]
    BY <1>4 DEF ReloadOptions, Resample
  <2> QED BY <1>4, <2>1, <2>2, <2>3 DEF ReloadOptions, TypeOK, gameVars, graphicsVars, panelVars
<1>5. ASSUME NEW t \in Threads, NEW c \in Chains, DrawFrame(t, c) PROVE TypeOK'
  <2>1. frame' \in Frames
    BY <1>5 DEF DrawFrame, Frames, Layers
  <2> QED BY <1>5, <2>1 DEF DrawFrame, TypeOK, Frames, gameVars, graphicsVars, panelVars, hudVars
<1>6. CASE LayerEnter
  <2>1. frame \in Frames /\ chain[frame.chain] \in Addresses
    BY <1>0, <1>6 DEF LayerEnter, At, GraphicsInv, FrameKnows, TypeOK, Frames
  <2>2. frame' \in Frames
    BY <1>6, <2>1 DEF LayerEnter, Goto, Fail, Frames
  <2>3. refs' \in [Addresses -> Nat]
    BY <1>6, <2>1, CountsStay DEF LayerEnter, GraphicsInv, TypeOK
  <2> QED BY <1>6, <2>2, <2>3 DEF LayerEnter, TypeOK, Frames, graphicsVars, panelVars, hudVars
<1>7. ASSUME NEW n \in 0..Len(Order), LayerDevice(n) PROVE TypeOK'
  <2> DEFINE all == n = Len(Order)
  <2>1. /\ frame \in Frames /\ frame # None /\ frame.device \in Addresses
        /\ lpDevice' = IF all THEN frame.device ELSE None
        /\ part' = [p \in Parts |-> IF all THEN device[frame.device] ELSE 0]
        /\ live' = [o \in Parts \cup Temporaries \cup Borrowed |->
                      IF o \in Parts THEN (IF all THEN 1 ELSE 0) ELSE live[o]]
        /\ refs' \in [Addresses -> Nat]
        /\ device' = [a \in Addresses |-> IF refs'[a] = 0 THEN 0 ELSE device[a]]
    BY <1>7, WhatLayerDeviceDoes
  <2>2. frame' \in Frames
    BY <1>7, <2>1 DEF LayerDevice, Goto, Fail, Frames
  <2>3. sampled' \in [Layers -> {"never", "young", "due"}]
    BY <1>7 DEF LayerDevice, NewTextures, TypeOK
  <2>4. device' \in [Addresses -> 0..MaxDevices]
    BY <2>1, BoundsAssumption DEF TypeOK
  <2>5. lpDevice' \in Addresses \cup {None} /\ part' \in [Parts -> 0..MaxDevices]
    BY <2>1, BoundsAssumption DEF TypeOK
  <2>6. live' \in [Parts \cup Temporaries \cup Borrowed -> Nat]
    BY <2>1 DEF TypeOK
  <2>7. texture' \in [Layers -> Paintings]
    BY <1>7 DEF LayerDevice, Paintings
  <2>8. UNCHANGED <<chain, devices, renderer, panelVars, state, options, yaw>>
    BY <1>7 DEF LayerDevice
  <2> QED BY <2>1, <2>2, <2>3, <2>4, <2>5, <2>6, <2>7, <2>8 DEF TypeOK, Frames, panelVars
<1>8. CASE LayerSameDevice \/ LayerOwnPanel \/ LayerRecent \/ LayerExpired
  <2>1. frame \in Frames /\ frame' \in Frames
    BY <1>0, <1>8 DEF LayerSameDevice, LayerOwnPanel, LayerRecent, LayerExpired, At, Goto, Frames
  <2> QED BY <1>8, <2>1 DEF LayerSameDevice, LayerOwnPanel, LayerRecent, LayerExpired, TypeOK,
        Frames, gameVars, graphicsVars, panelVars, hudVars
<1>9. CASE LayerNewPanel
  <2>1. frame \in Frames /\ frame.thread \in Threads /\ frame.layer \in Layers
    BY <1>0, <1>9 DEF LayerNewPanel, At, Frames
  <2>2. frame' \in Frames
    BY <1>9, <2>1 DEF LayerNewPanel, Goto, Fail, Frames
  <2>3. painted' \in [Layers -> Paintings]
    BY <1>9 DEF LayerNewPanel, TypeOK, Paintings
  <2>4. panel' \in [Layers -> Threads \cup {None}]
    BY <1>9, <2>1 DEF LayerNewPanel, TypeOK
  <2>5. panels' \in [Layers -> Nat]
    BY <1>9, <2>1 DEF LayerNewPanel, TypeOK, GraphicsInv, ObjectsCounted, Count
  <2>6. sampled' \in [Layers -> {"never", "young", "due"}]
    BY <1>9 DEF LayerNewPanel, TypeOK
  <2> QED BY <1>9, <2>2, <2>3, <2>4, <2>5, <2>6 DEF LayerNewPanel, TypeOK, Frames, gameVars,
        graphicsVars
<1>10. ASSUME NEW b \in Boards \cup {None}, LayerSampleHud(b) PROVE TypeOK'
  <2>1. frame \in Frames /\ frame' \in Frames
    BY <1>0, <1>10 DEF LayerSampleHud, LayerPaints, At, Fail, Frames
  <2>2. <<options.number, b>> \in Paintings
    BY DEF TypeOK, Paintings
  <2>3. painted' \in [Layers -> Paintings] /\ texture' \in [Layers -> Paintings]
    <3> DEFINE content == <<options.number, b>>
    <3>1. content \in Paintings
      BY <2>2
    <3> HIDE DEF content
    <3>2. painted' = [painted EXCEPT !["hud"] = content]
      BY <1>10 DEF LayerSampleHud, LayerPaints, content
    <3>3. texture' = texture \/ texture' = [texture EXCEPT !["hud"] = content]
      BY <1>10 DEF LayerSampleHud, LayerPaints, content
    <3>4. painted \in [Layers -> Paintings] /\ texture \in [Layers -> Paintings]
      BY DEF TypeOK
    <3> QED BY <3>1, <3>2, <3>3, <3>4, PaintingsStay
  <2>4. sampled' \in [Layers -> {"never", "young", "due"}]
    BY <1>10 DEF LayerSampleHud, LayerPaints, TypeOK
  <2> QED BY <1>10, <2>1, <2>3, <2>4 DEF LayerSampleHud, LayerPaints, TypeOK, Frames, gameVars
<1>11. ASSUME NEW available \in BOOLEAN, LayerSampleYaw(available) PROVE TypeOK'
  <2>1. frame \in Frames /\ frame' \in Frames
    BY <1>0, <1>11 DEF LayerSampleYaw, LayerPaints, At, Fail, Frames
  <2>2. <<options.number, available>> \in Paintings
    BY DEF TypeOK, Paintings
  <2>3. painted' \in [Layers -> Paintings] /\ texture' \in [Layers -> Paintings]
    <3> DEFINE content == <<options.number, available>>
    <3>1. content \in Paintings
      BY <2>2
    <3> HIDE DEF content
    <3>2. painted' = [painted EXCEPT !["yaw"] = content]
      BY <1>11 DEF LayerSampleYaw, LayerPaints, content
    <3>3. texture' = texture \/ texture' = [texture EXCEPT !["yaw"] = content]
      BY <1>11 DEF LayerSampleYaw, LayerPaints, content
    <3>4. painted \in [Layers -> Paintings] /\ texture \in [Layers -> Paintings]
      BY DEF TypeOK
    <3> QED BY <3>1, <3>2, <3>3, <3>4, PaintingsStay
  <2>4. sampled' \in [Layers -> {"never", "young", "due"}]
    BY <1>11 DEF LayerSampleYaw, LayerPaints, TypeOK
  <2> QED BY <1>11, <2>1, <2>3, <2>4 DEF LayerSampleYaw, LayerPaints, TypeOK, Frames, gameVars
<1>12. ASSUME NEW got, LayerTarget(got) PROVE TypeOK'
  <2>1. frame \in Frames /\ frame' \in Frames
    BY <1>0, <1>12 DEF LayerTarget, At, Goto, Fail, Frames
  <2>2. live' \in [Parts \cup Temporaries \cup Borrowed -> Nat]
    BY <1>12 DEF LayerTarget, TypeOK
  <2> QED BY <1>12, <2>1, <2>2 DEF LayerTarget, TypeOK, Frames, gameVars, panelVars, hudVars
<1>13. CASE LayerDraw
  <2>1. frame \in Frames /\ frame' \in Frames
    BY <1>0, <1>13 DEF LayerDraw, At, Goto, Frames
  <2>2. live' \in [Parts \cup Temporaries \cup Borrowed -> Nat]
    BY <1>13 DEF LayerDraw, TypeOK, Temporaries
  <2> QED BY <1>13, <2>1, <2>2 DEF LayerDraw, TypeOK, Frames, gameVars, panelVars, hudVars
<1>14. CASE LayerFinal
  <2>1. frame # None /\ frame \in Frames
    BY <1>0, <1>14 DEF LayerFinal, At, Frames
  <2>2. frame' = None \/ frame' \in Frames
    BY <1>14, <2>1 DEF LayerFinal, Frames, Layers
  <2>3. Drop(refs, frame.device) \in [Addresses -> Nat]
    BY <2>1, CountsStay DEF GraphicsInv, TypeOK, Drop, Frames
  <2>4. refs' \in [Addresses -> Nat] /\ device' \in [Addresses -> 0..MaxDevices]
    BY <1>14, <2>3, BoundsAssumption DEF LayerFinal, Referenced, TypeOK
  <2>5. live' \in [Parts \cup Temporaries \cup Borrowed -> Nat]
    BY <1>14 DEF LayerFinal, TypeOK
  <2> QED BY <1>14, <2>2, <2>4, <2>5 DEF LayerFinal, TypeOK, Frames, panelVars, hudVars
<1>15. CASE TimePasses
  BY <1>15 DEF TimePasses, TypeOK, gameVars, graphicsVars, panelVars
<1>16. CASE UNCHANGED vars
  BY <1>16 DEF vars, TypeOK, gameVars, graphicsVars, panelVars, hudVars
<1> QED BY <1>1, <1>2, <1>3, <1>4, <1>5, <1>6, <1>7, <1>8, <1>9, <1>10, <1>11, <1>12, <1>13,
      <1>14, <1>15, <1>16 DEF Next, Layer

-----------------------------------------------------------------------------

\* Everything LayerX leaves alone in a step of a frame that only moves it on.
LayerMoves == LayerSameDevice \/ LayerOwnPanel \/ LayerRecent \/ LayerExpired

\* What a frame knows follows from the steps it has taken: the others do not touch
\* what is drawn while RenderLock is held, and the game keeps the chain it presents.
LEMMA FrameStep ==
    ASSUME TypeOK, GraphicsInv, [Next]_vars
    PROVE  FrameKnows'
<1>1. FrameKnows /\ frame \in Frames \cup {None} /\ chain \in [Chains -> Addresses \cup {None}]
  BY DEF GraphicsInv, TypeOK
<1>2. ASSUME NEW c \in Chains, GameDestroys(c) PROVE FrameKnows'
  BY <1>1, <1>2 DEF GameDestroys, FrameKnows, Frames, graphicsVars, panelVars, hudVars
<1>3. ASSUME NEW c \in Chains, NEW a \in Addresses, GameCreates(c, a) PROVE FrameKnows'
  BY <1>1, <1>3, NoneAssumption DEF GameCreates, FrameKnows, Frames, graphicsVars, panelVars,
        hudVars
<1>4. CASE InitializeRenderer
  BY <1>1, <1>4 DEF InitializeRenderer, FrameKnows, gameVars, graphicsVars, panelVars, hudVars
<1>5. ASSUME NEW showYaw, NEW expires, ReloadOptions(showYaw, expires) PROVE FrameKnows'
  BY <1>5 DEF ReloadOptions, FrameKnows
<1>6. ASSUME NEW t, NEW c, DrawFrame(t, c) PROVE FrameKnows'
  BY <1>6 DEF DrawFrame, FrameKnows, gameVars
<1>7. CASE LayerEnter
  <2>1. frame \in Frames /\ chain[frame.chain] \in Addresses
    BY <1>1, <1>7 DEF LayerEnter, At, FrameKnows, Frames
  <2> QED BY <1>1, <1>7, <2>1, NoneAssumption DEF LayerEnter, At, Goto, Fail, FrameKnows, Frames,
        graphicsVars, panelVars, hudVars
<1>8. ASSUME NEW n \in 0..Len(Order), LayerDevice(n) PROVE FrameKnows'
  <2> DEFINE all == n = Len(Order)
  <2>1. frame \in Frames /\ frame # None /\ frame.device \in Addresses
    BY <1>8, WhatLayerDeviceDoes
  <2>2. lpDevice' = IF all THEN frame.device ELSE None
    BY <1>8, WhatLayerDeviceDoes
  <2>3. IF all THEN Goto("panel") ELSE Fail
    BY <1>8 DEF LayerDevice
  <2>4. chain' = chain
    BY <1>8 DEF LayerDevice
  <2> QED BY <1>1, <2>1, <2>2, <2>3, <2>4, NoneAssumption DEF Goto, Fail, FrameKnows, Frames
<1>9. CASE LayerMoves
  BY <1>1, <1>9 DEF LayerMoves, LayerSameDevice, LayerOwnPanel, LayerRecent, LayerExpired,
        ForeignPanel, At, Goto, FrameKnows, Frames, gameVars, graphicsVars, panelVars, hudVars
<1>10. CASE LayerNewPanel
  <2>1. frame \in Frames /\ frame.layer \in Layers
    BY <1>1, <1>10 DEF LayerNewPanel, At, Frames
  <2>2. panel \in [Layers -> Threads \cup {None}]
    BY DEF TypeOK
  <2> QED BY <1>1, <1>10, <2>1, <2>2 DEF LayerNewPanel, At, Goto, Fail, FrameKnows, Frames,
        gameVars, graphicsVars
<1>11. ASSUME NEW b, LayerSampleHud(b) PROVE FrameKnows'
  <2>1. sampled \in [Layers -> {"never", "young", "due"}]
    BY DEF TypeOK
  <2> QED BY <1>1, <1>11, <2>1 DEF LayerSampleHud, LayerPaints, At, Fail, FrameKnows, Frames,
        Layers, gameVars
<1>12. ASSUME NEW available, LayerSampleYaw(available) PROVE FrameKnows'
  <2>1. sampled \in [Layers -> {"never", "young", "due"}]
    BY DEF TypeOK
  <2> QED BY <1>1, <1>12, <2>1 DEF LayerSampleYaw, LayerPaints, At, Fail, FrameKnows, Frames,
        Layers, gameVars
<1>13. ASSUME NEW got, LayerTarget(got) PROVE FrameKnows'
  BY <1>1, <1>13 DEF LayerTarget, At, Goto, Fail, FrameKnows, Frames, gameVars, panelVars, hudVars
<1>14. CASE LayerDraw
  BY <1>1, <1>14 DEF LayerDraw, At, Goto, FrameKnows, Frames, gameVars, panelVars, hudVars
<1>15. CASE LayerFinal
  BY <1>1, <1>15 DEF LayerFinal, At, FrameKnows, Frames, panelVars, hudVars
<1>16. CASE TimePasses
  BY <1>1, <1>16 DEF TimePasses, At, FrameKnows, Frames, gameVars, graphicsVars, panelVars
<1>17. CASE UNCHANGED vars
  BY <1>1, <1>17 DEF vars, FrameKnows, gameVars, graphicsVars, panelVars, hudVars
<1> QED BY <1>2, <1>3, <1>4, <1>5, <1>6, <1>7, <1>8, <1>9, <1>10, <1>11, <1>12, <1>13, <1>14,
      <1>15, <1>16, <1>17 DEF Next, Layer, LayerMoves

\* The users of a device are the chains the game gave it to.
LEMMA UsersOfCreated ==
    ASSUME TypeOK, NEW c \in Chains, NEW a \in Addresses, GameCreates(c, a)
    PROVE  \A b \in Addresses : Cardinality(Users(b)') = Cardinality(Users(b))
                                                         + (IF b = a THEN 1 ELSE 0)
<1> SUFFICES ASSUME NEW b \in Addresses
             PROVE  Cardinality(Users(b)') = Cardinality(Users(b)) + (IF b = a THEN 1 ELSE 0)
  OBVIOUS
<1>1. /\ chain[c] = None /\ chain' = [chain EXCEPT ![c] = a]
      /\ chain \in [Chains -> Addresses \cup {None}]
  BY DEF GameCreates, TypeOK
<1>2. IsFiniteSet(Users(b)) /\ Cardinality(Users(b)) \in Nat
  BY UsersAreCounted
<1>3. CASE b = a
  <2>1. Users(b)' = Users(b) \cup {c} /\ c \notin Users(b)
    BY <1>1, <1>3, NoneAssumption DEF Users
  <2> QED BY <1>2, <1>3, <2>1, FS_AddElement
<1>4. CASE b # a
  <2>1. Users(b)' = Users(b)
    BY <1>1, <1>4, NoneAssumption DEF Users
  <2> QED BY <1>2, <1>4, <2>1
<1> QED BY <1>3, <1>4

LEMMA UsersOfDestroyed ==
    ASSUME TypeOK, NEW c \in Chains, GameDestroys(c)
    PROVE  \A b \in Addresses : Cardinality(Users(b)') = Cardinality(Users(b))
                                                         - (IF b = chain[c] THEN 1 ELSE 0)
<1> SUFFICES ASSUME NEW b \in Addresses
             PROVE  Cardinality(Users(b)') = Cardinality(Users(b))
                                             - (IF b = chain[c] THEN 1 ELSE 0)
  OBVIOUS
<1>1. chain[c] # None /\ chain' = [chain EXCEPT ![c] = None]
      /\ chain \in [Chains -> Addresses \cup {None}]
  BY DEF GameDestroys, TypeOK
<1>2. IsFiniteSet(Users(b)) /\ Cardinality(Users(b)) \in Nat
  BY UsersAreCounted
<1>3. CASE b = chain[c]
  <2>1. Users(b)' = Users(b) \ {c} /\ c \in Users(b)
    BY <1>1, <1>3, NoneAssumption DEF Users
  <2> QED BY <1>2, <1>3, <2>1, FS_RemoveElement
<1>4. CASE b # chain[c]
  <2>1. Users(b)' = Users(b)
    BY <1>1, <1>4, NoneAssumption DEF Users
  <2> QED BY <1>2, <1>4, <2>1
<1> QED BY <1>3, <1>4

\* The account holds in a step that gives back one of the references of a device.
LEMMA Dropped ==
    ASSUME TypeOK, DevicesCounted, NEW a \in Addresses,
           Referenced(Drop(refs, a)),
           \A b \in Addresses :
              Cardinality(Users(b)') + Count(lpDevice = b)' + FrameHolds(b)'
              = Cardinality(Users(b)) + Count(lpDevice = b) + FrameHolds(b)
                - (IF b = a THEN 1 ELSE 0)
    PROVE  DevicesCounted'
<1>1. refs \in [Addresses -> Nat] /\ a # None
  BY NoneAssumption DEF TypeOK
<1>2. refs' = [refs EXCEPT ![a] = @ - 1]
      /\ device' = [b \in Addresses |-> IF refs'[b] = 0 THEN 0 ELSE device[b]]
  BY <1>1 DEF Referenced, Drop
<1>3. \A b \in Addresses :
         /\ refs[b] = Cardinality(Users(b)) + Count(lpDevice = b) + FrameHolds(b)
         /\ device[b] = 0 <=> refs[b] = 0
         /\ Cardinality(Users(b)) \in Nat /\ Count(lpDevice = b) \in Nat /\ FrameHolds(b) \in Nat
  BY UsersAreCounted DEF DevicesCounted, Count, FrameHolds
<1>4. \A b \in Addresses : refs'[b] = refs[b] - (IF b = a THEN 1 ELSE 0)
  BY <1>1, <1>2
<1>5. \A b \in Addresses :
         refs'[b] = Cardinality(Users(b)') + Count(lpDevice = b)' + FrameHolds(b)'
  BY <1>3, <1>4
<1>6. \A b \in Addresses : refs'[b] # 0 => refs[b] # 0
  <2> SUFFICES ASSUME NEW b \in Addresses, refs'[b] # 0 PROVE refs[b] # 0
    OBVIOUS
  <2>1. CASE b = a
    <3>1. refs[a] # 0
      <4>1. Count(lpDevice = a)' \in Nat /\ FrameHolds(a)' \in Nat
        BY DEF Count, FrameHolds
      <4>2. Cardinality(Users(a)') \in Nat
        <5>1. Users(a)' \in SUBSET Chains
          BY DEF Users
        <5>2. IsFiniteSet(Users(a)')
          BY <5>1, ChainsAssumption, FS_Subset
        <5> QED BY <5>2, FS_CardinalityType
      <4> QED BY <1>3, <4>1, <4>2
    <3> QED BY <2>1, <3>1
  <2>2. CASE b # a
    BY <1>4, <1>1, <2>2
  <2> QED BY <2>1, <2>2
<1>7. \A b \in Addresses : device'[b] = 0 <=> refs'[b] = 0
  BY <1>2, <1>3, <1>6
<1> QED BY <1>5, <1>7 DEF DevicesCounted

\* Every reference to a device has its holder, and a device is alive while it has one.
LEMMA DevicesStep ==
    ASSUME TypeOK, GraphicsInv, [Next]_vars
    PROVE  DevicesCounted'
<1>1. DevicesCounted /\ FrameKnows /\ frame \in Frames \cup {None}
      /\ lpDevice \in Addresses \cup {None} /\ refs \in [Addresses -> Nat]
      /\ device \in [Addresses -> 0..MaxDevices]
  BY DEF GraphicsInv, TypeOK
<1>2. \A b \in Addresses :
         /\ refs[b] = Cardinality(Users(b)) + Count(lpDevice = b) + FrameHolds(b)
         /\ device[b] = 0 <=> refs[b] = 0
         /\ Cardinality(Users(b)) \in Nat /\ Count(lpDevice = b) \in Nat /\ FrameHolds(b) \in Nat
  BY <1>1, UsersAreCounted DEF DevicesCounted, Count, FrameHolds
<1>3. ASSUME NEW c \in Chains, GameDestroys(c) PROVE DevicesCounted'
  <2>1. chain[c] \in Addresses /\ Referenced(Drop(refs, chain[c]))
    BY <1>3 DEF GameDestroys, TypeOK
  <2>2. \A b \in Addresses : Count(lpDevice = b)' = Count(lpDevice = b)
                             /\ FrameHolds(b)' = FrameHolds(b)
    BY <1>3 DEF GameDestroys, Count, FrameHolds, graphicsVars
  <2>3. \A b \in Addresses : Cardinality(Users(b)') = Cardinality(Users(b))
                                                      - (IF b = chain[c] THEN 1 ELSE 0)
    BY <1>3, UsersOfDestroyed
  <2>4. \A b \in Addresses :
              Cardinality(Users(b)') + Count(lpDevice = b)' + FrameHolds(b)'
              = Cardinality(Users(b)) + Count(lpDevice = b) + FrameHolds(b)
                - (IF b = chain[c] THEN 1 ELSE 0)
    BY <1>2, <2>2, <2>3
  <2> QED BY <1>1, <2>1, <2>4, Dropped
<1>4. ASSUME NEW c \in Chains, NEW a \in Addresses, GameCreates(c, a) PROVE DevicesCounted'
  <2>1. \A b \in Addresses : Count(lpDevice = b)' = Count(lpDevice = b)
                             /\ FrameHolds(b)' = FrameHolds(b)
    BY <1>4 DEF GameCreates, Count, FrameHolds, graphicsVars
  <2>2. \A b \in Addresses : Cardinality(Users(b)') = Cardinality(Users(b))
                                                      + (IF b = a THEN 1 ELSE 0)
    BY <1>4, UsersOfCreated
  <2>3. \A b \in Addresses : refs'[b] = refs[b] + (IF b = a THEN 1 ELSE 0)
    BY <1>1, <1>4 DEF GameCreates, AddRef
  <2>4. \A b \in Addresses :
           refs'[b] = Cardinality(Users(b)') + Count(lpDevice = b)' + FrameHolds(b)'
    BY <1>2, <2>1, <2>2, <2>3
  <2>5. \A b \in Addresses : device'[b] = 0 <=> b # a /\ device[b] = 0
    BY <1>1, <1>4, BoundsAssumption DEF GameCreates, TypeOK
  <2>6. \A b \in Addresses : device'[b] = 0 <=> refs'[b] = 0
    BY <1>1, <1>2, <2>3, <2>5
  <2> QED BY <2>4, <2>6 DEF DevicesCounted
<1>5. ASSUME UNCHANGED <<device, refs, chain, lpDevice>>,
             \A b \in Addresses : FrameHolds(b)' = FrameHolds(b)
      PROVE  DevicesCounted'
  <2>1. \A b \in Addresses : Users(b)' = Users(b)
    BY <1>5 DEF Users
  <2>2. \A b \in Addresses : Count(lpDevice = b)' = Count(lpDevice = b)
    BY <1>5 DEF Count
  <2> QED BY <1>2, <1>5, <2>1, <2>2 DEF DevicesCounted
<1>6. CASE InitializeRenderer
  BY <1>5, <1>6 DEF InitializeRenderer, gameVars, graphicsVars, FrameHolds
<1>7. ASSUME NEW showYaw, NEW expires, ReloadOptions(showYaw, expires) PROVE DevicesCounted'
  BY <1>5, <1>7 DEF ReloadOptions, gameVars, graphicsVars, FrameHolds
<1>8. ASSUME NEW t, NEW c, DrawFrame(t, c) PROVE DevicesCounted'
  <2>1. \A b \in Addresses : FrameHolds(b)' = 0 /\ FrameHolds(b) = 0
    BY <1>8, NoneAssumption DEF DrawFrame, FrameHolds
  <2> QED BY <1>5, <1>8, <2>1 DEF DrawFrame, gameVars, graphicsVars
<1>9. CASE LayerEnter
  <2>1. frame \in Frames /\ frame # None /\ frame.device = None /\ chain[frame.chain] \in Addresses
    BY <1>1, <1>9 DEF LayerEnter, At, FrameKnows, Frames, TypeOK
  <2>2. UNCHANGED <<device, chain, lpDevice>>
    BY <1>9 DEF LayerEnter, graphicsVars
  <2>3. CASE refs' = refs /\ (Goto("final") \/ Fail)
    <3>1. \A b \in Addresses : FrameHolds(b)' = FrameHolds(b)
      BY <2>1, <2>3, NoneAssumption DEF FrameHolds, Goto, Fail, Frames
    <3> QED BY <1>5, <2>2, <2>3, <3>1
  <2>4. CASE refs' = AddRef(refs, chain[frame.chain])
             /\ frame' = [frame EXCEPT !.step = "device", !.device = chain[frame.chain]]
    <3> DEFINE a == chain[frame.chain]
    <3>1. \A b \in Addresses : refs'[b] = refs[b] + (IF b = a THEN 1 ELSE 0)
      BY <1>1, <2>1, <2>4 DEF AddRef
    <3>2. \A b \in Addresses : FrameHolds(b) = 0 /\ FrameHolds(b)' = IF b = a THEN 1 ELSE 0
      <4>1. \A b \in Addresses : FrameHolds(b) = 0
        BY <2>1, NoneAssumption DEF FrameHolds
      <4>2. frame' # None
        <5>1. frame' \in Frames
          BY <2>1, <2>4 DEF Frames
        <5> QED BY <5>1, NoneAssumption
      <4>3. frame'.device = a
        BY <2>1, <2>4 DEF Frames
      <4> QED BY <4>1, <4>2, <4>3 DEF FrameHolds
    <3>3. \A b \in Addresses : Users(b)' = Users(b) /\ Count(lpDevice = b)' = Count(lpDevice = b)
      BY <2>2 DEF Users, Count
    <3>4. \A b \in Addresses :
             refs'[b] = Cardinality(Users(b)') + Count(lpDevice = b)' + FrameHolds(b)'
      BY <1>2, <3>1, <3>2, <3>3
    <3>5. device[a] # 0
      BY <1>1, <2>1, HeldIsAlive DEF Frames
    <3>6. \A b \in Addresses : device'[b] = 0 <=> refs'[b] = 0
      BY <1>1, <1>2, <2>2, <3>1, <3>5
    <3> QED BY <3>4, <3>6 DEF DevicesCounted
  <2> QED BY <1>9, <2>3, <2>4 DEF LayerEnter

<1>10. ASSUME UNCHANGED <<device, refs, chain, lpDevice>>, frame # None, frame' # None,
              frame'.device = frame.device
       PROVE  DevicesCounted'
  BY <1>5, <1>10 DEF FrameHolds
<1>11. ASSUME NEW n \in 0..Len(Order), LayerDevice(n) PROVE DevicesCounted'
  <2> DEFINE all == n = Len(Order)
  <2>1. /\ frame \in Frames /\ frame # None
        /\ frame.device \in Addresses /\ frame.device # lpDevice
        /\ lpDevice' = IF all THEN frame.device ELSE None
        /\ \A a \in Addresses : refs'[a] = Cardinality(Users(a)) + FrameHolds(a)
                                           + (IF all /\ a = frame.device THEN 1 ELSE 0)
        /\ device' = [a \in Addresses |-> IF refs'[a] = 0 THEN 0 ELSE device[a]]
        /\ device'[frame.device] # 0
    BY <1>11, WhatLayerDeviceDoes
  <2>2. \A b \in Addresses : Users(b)' = Users(b)
    BY <1>11 DEF LayerDevice, Users
  <2>3. \A b \in Addresses : FrameHolds(b)' = FrameHolds(b)
    <3>1. frame' \in Frames /\ frame'.device = frame.device
      BY <1>11, <2>1 DEF LayerDevice, Goto, Fail, Frames
    <3> QED BY <2>1, <3>1, NoneAssumption DEF FrameHolds
  <2>4. \A b \in Addresses : Count(lpDevice = b)' = IF all /\ b = frame.device THEN 1 ELSE 0
    BY <2>1, NoneAssumption DEF Count
  <2>5. \A b \in Addresses :
           refs'[b] = Cardinality(Users(b)') + Count(lpDevice = b)' + FrameHolds(b)'
    BY <1>2, <2>1, <2>2, <2>3, <2>4
  <2>6. \A b \in Addresses : b # frame.device /\ refs'[b] # 0 => refs[b] # 0
    <3> SUFFICES ASSUME NEW b \in Addresses, b # frame.device, refs'[b] # 0 PROVE refs[b] # 0
      OBVIOUS
    <3>1. refs'[b] = Cardinality(Users(b)) + FrameHolds(b)
      BY <1>2, <2>1
    <3>2. refs[b] = Cardinality(Users(b)) + Count(lpDevice = b) + FrameHolds(b)
      BY <1>2
    <3> QED BY <1>2, <3>1, <3>2
  <2>7. \A b \in Addresses : device'[b] = 0 <=> refs'[b] = 0
    BY <1>2, <2>1, <2>6
  <2> QED BY <2>5, <2>7 DEF DevicesCounted
<1>12. CASE LayerMoves
  <2>1. UNCHANGED <<device, refs, chain, lpDevice>> /\ frame # None
    BY <1>12 DEF LayerMoves, LayerSameDevice, LayerOwnPanel, LayerRecent, LayerExpired, At,
          gameVars, graphicsVars
  <2>2. frame' \in Frames /\ frame'.device = frame.device
    BY <1>1, <1>12, <2>1 DEF LayerMoves, LayerSameDevice, LayerOwnPanel, LayerRecent,
          LayerExpired, Goto, Frames
  <2> QED BY <1>10, <2>1, <2>2, NoneAssumption
<1>13. CASE LayerNewPanel
  <2>1. UNCHANGED <<device, refs, chain, lpDevice>> /\ frame # None
    BY <1>13 DEF LayerNewPanel, At, gameVars, graphicsVars
  <2>2. frame' \in Frames /\ frame'.device = frame.device
    BY <1>1, <1>13, <2>1 DEF LayerNewPanel, Goto, Fail, Frames
  <2> QED BY <1>10, <2>1, <2>2, NoneAssumption
<1>14. ASSUME NEW l, NEW content, NEW fresh \in BOOLEAN, At("sample"),
              LayerPaints(l, content, fresh)
       PROVE  DevicesCounted'
  <2>1. UNCHANGED <<device, refs, chain, lpDevice>> /\ frame # None
    BY <1>14 DEF LayerPaints, At, gameVars
  <2>2. frame' \in Frames /\ frame'.device = frame.device
    BY <1>1, <1>14, <2>1 DEF LayerPaints, Fail, Frames
  <2> QED BY <1>10, <2>1, <2>2, NoneAssumption
<1>15. ASSUME NEW b, LayerSampleHud(b) PROVE DevicesCounted'
  BY <1>14, <1>15 DEF LayerSampleHud
<1>16. ASSUME NEW available, LayerSampleYaw(available) PROVE DevicesCounted'
  BY <1>14, <1>16 DEF LayerSampleYaw
<1>17. ASSUME NEW got, LayerTarget(got) PROVE DevicesCounted'
  <2>1. UNCHANGED <<device, refs, chain, lpDevice>> /\ frame # None
    BY <1>17 DEF LayerTarget, At, gameVars
  <2>2. frame' \in Frames /\ frame'.device = frame.device
    BY <1>1, <1>17, <2>1 DEF LayerTarget, Goto, Fail, Frames
  <2> QED BY <1>10, <2>1, <2>2, NoneAssumption
<1>18. CASE LayerDraw
  <2>1. UNCHANGED <<device, refs, chain, lpDevice>> /\ frame # None
    BY <1>18 DEF LayerDraw, At, gameVars
  <2>2. frame' \in Frames /\ frame'.device = frame.device
    BY <1>1, <1>18, <2>1 DEF LayerDraw, Goto, Frames
  <2> QED BY <1>10, <2>1, <2>2, NoneAssumption
<1>19. CASE LayerFinal
  <2>1. frame \in Frames /\ frame # None /\ UNCHANGED <<chain, lpDevice>>
        /\ Referenced(Drop(refs, frame.device))
    BY <1>1, <1>19 DEF LayerFinal, At
  <2>2. \A b \in Addresses : FrameHolds(b)' = 0
    <3>1. frame' = None \/ frame'.device = None
      BY <1>19, <2>1 DEF LayerFinal, Frames
    <3> QED BY <3>1, NoneAssumption DEF FrameHolds
  <2>3. \A b \in Addresses : FrameHolds(b) = IF b = frame.device THEN 1 ELSE 0
    BY <2>1 DEF FrameHolds
  <2>4. \A b \in Addresses : Users(b)' = Users(b) /\ Count(lpDevice = b)' = Count(lpDevice = b)
    BY <2>1 DEF Users, Count
  <2>5. CASE frame.device = None
    <3>1. refs' = refs /\ \A b \in Addresses : FrameHolds(b)' = FrameHolds(b)
      BY <2>1, <2>2, <2>3, <2>5, NoneAssumption DEF Referenced, Drop
    <3>2. device' = device
      BY <1>1, <1>2, <2>1, <3>1 DEF Referenced
    <3> QED BY <1>5, <2>1, <3>1, <3>2
  <2>6. CASE frame.device # None
    <3>1. frame.device \in Addresses
      BY <2>1, <2>6 DEF Frames
    <3>2. \A b \in Addresses :
              Cardinality(Users(b)') + Count(lpDevice = b)' + FrameHolds(b)'
              = Cardinality(Users(b)) + Count(lpDevice = b) + FrameHolds(b)
                - (IF b = frame.device THEN 1 ELSE 0)
      BY <1>2, <2>2, <2>3, <2>4
    <3> QED BY <1>1, <2>1, <3>1, <3>2, Dropped
  <2> QED BY <2>5, <2>6
<1>20. CASE TimePasses
  BY <1>5, <1>20 DEF TimePasses, gameVars, graphicsVars, FrameHolds
<1>21. CASE UNCHANGED vars
  BY <1>5, <1>21 DEF vars, gameVars, graphicsVars, FrameHolds
<1> QED BY <1>3, <1>4, <1>6, <1>7, <1>8, <1>9, <1>11, <1>12, <1>13, <1>15, <1>16, <1>17, <1>18,
      <1>19, <1>20, <1>21 DEF Next, Layer, LayerMoves

-----------------------------------------------------------------------------

\* A device is not replaced while it lives, so the one g_Graphics holds stays what it was.
LEMMA HeldDeviceStays ==
    ASSUME TypeOK, GraphicsInv, [Next]_vars, lpDevice # None, lpDevice' = lpDevice
    PROVE  device'[lpDevice] = device[lpDevice]
<1>1. lpDevice \in Addresses /\ device[lpDevice] # 0
  <2>1. lpDevice \in Addresses
    BY DEF TypeOK
  <2> QED BY <2>1, HeldIsAlive DEF GraphicsInv
<1>2. device'[lpDevice] # 0
  <2>1. DevicesCounted' /\ Cardinality(Users(lpDevice)') \in Nat
    <3>1. Users(lpDevice)' \in SUBSET Chains
      BY DEF Users
    <3>2. IsFiniteSet(Users(lpDevice)')
      BY <3>1, ChainsAssumption, FS_Subset
    <3> QED BY <3>2, FS_CardinalityType, DevicesStep
  <2>2. refs'[lpDevice] = Cardinality(Users(lpDevice)') + 1 + FrameHolds(lpDevice)'
    BY <1>1, <2>1 DEF DevicesCounted, Count, Users, FrameHolds
  <2>3. FrameHolds(lpDevice)' \in Nat
    BY DEF FrameHolds
  <2>4. refs'[lpDevice] # 0
    BY <2>1, <2>2, <2>3
  <2> QED BY <1>1, <2>1, <2>4 DEF DevicesCounted
<1> DEFINE Kept == \A a \in Addresses : device[a] = 0 \/ device'[a] \in {0, device[a]}
<1>3. Kept
  <2>1. device \in [Addresses -> 0..MaxDevices]
    BY DEF TypeOK
  <2>2. ASSUME device' = device PROVE Kept
    BY <2>1, <2>2
  <2>3. ASSUME NEW r, Referenced(r) PROVE Kept
    BY <2>1, <2>3 DEF Referenced
  <2>4. ASSUME NEW c \in Chains, NEW a \in Addresses, GameCreates(c, a) PROVE Kept
    BY <2>1, <2>4 DEF GameCreates
  <2>5. ASSUME NEW c \in Chains, GameDestroys(c) PROVE Kept
    BY <2>3, <2>5 DEF GameDestroys
  <2>6. ASSUME NEW n, LayerDevice(n) PROVE Kept
    BY <2>3, <2>6 DEF LayerDevice
  <2>7. CASE LayerFinal
    BY <2>3, <2>7 DEF LayerFinal
  <2>8. \/ device' = device \/ LayerFinal
        \/ \E c \in Chains : GameDestroys(c) \/ \E a \in Addresses : GameCreates(c, a)
        \/ \E n \in 0..Len(Order) : LayerDevice(n)
    BY DEF Next, Layer, InitializeRenderer, ReloadOptions, DrawFrame, LayerEnter, LayerSameDevice,
       LayerNewPanel, LayerOwnPanel, LayerRecent, LayerExpired, LayerDraw, LayerSampleHud,
       LayerSampleYaw, LayerPaints, LayerTarget, TimePasses, vars, gameVars
  <2> QED BY <2>2, <2>4, <2>5, <2>6, <2>7, <2>8
<1> QED BY <1>1, <1>2, <1>3

\* All parts change together, in LayerDevice.
LEMMA PartsStep ==
    ASSUME TypeOK, GraphicsInv, [Next]_vars
    PROVE  PartsOfDevice'
<1>1. CASE UNCHANGED <<lpDevice, part>>
  <2>1. PartsOfDevice
    BY DEF GraphicsInv
  <2> QED BY <1>1, <2>1, HeldDeviceStays DEF PartsOfDevice
<1>2. ASSUME NEW n \in 0..Len(Order), LayerDevice(n) PROVE PartsOfDevice'
  <2> DEFINE all == n = Len(Order)
  <2>1. /\ frame.device \in Addresses
        /\ lpDevice' = IF all THEN frame.device ELSE None
        /\ part' = [p \in Parts |-> IF all THEN device[frame.device] ELSE 0]
        /\ device'[frame.device] = device[frame.device]
    BY <1>2, WhatLayerDeviceDoes
  <2>2. frame.device # None
    BY <2>1, NoneAssumption
  <2> QED BY <2>1, <2>2 DEF PartsOfDevice
<1>3. UNCHANGED <<lpDevice, part>> \/ \E n \in 0..Len(Order) : LayerDevice(n)
  BY DEF Next, Layer, GameDestroys, GameCreates, InitializeRenderer, ReloadOptions, DrawFrame,
     LayerEnter, LayerSameDevice, LayerNewPanel, LayerOwnPanel, LayerRecent, LayerExpired,
     LayerDraw, LayerFinal, LayerSampleHud, LayerSampleYaw, LayerPaints, LayerTarget, TimePasses,
     vars, graphicsVars
<1> QED BY <1>1, <1>2, <1>3

\* What is made on the device is counted with the part that holds it.
LiveParts == \A p \in Parts : live[p] = Count(part[p] # 0)
LiveTemporaries ==
    frame = None \/ frame.step \notin {"draw", "final"} => \A o \in Temporaries : live[o] = 0
LiveBorrowed == \A o \in Borrowed : live[o] = 0
LivePanels == \A l \in Layers : panels[l] = Count(panel[l] # None)

LEMMA LivePartsStep ==
    ASSUME TypeOK, LiveParts, GraphicsInv, [Next]_vars
    PROVE  LiveParts'
<1>1. /\ live \in [Parts \cup Temporaries \cup Borrowed -> Nat]
      /\ \A p \in Parts : p \notin Temporaries
  BY PartsAreOrdered DEF TypeOK
<1>2. CASE part' = part /\ \A p \in Parts : live'[p] = live[p]
  BY <1>2 DEF LiveParts
<1>3. ASSUME NEW n \in 0..Len(Order), LayerDevice(n) PROVE LiveParts'
  <2> DEFINE all == n = Len(Order)
  <2>1. /\ part' = [p \in Parts |-> IF all THEN device[frame.device] ELSE 0]
        /\ live' = [o \in Parts \cup Temporaries \cup Borrowed |->
                      IF o \in Parts THEN (IF all THEN 1 ELSE 0) ELSE live[o]]
        /\ device[frame.device] # 0
    BY <1>3, WhatLayerDeviceDoes
  <2> QED BY <2>1 DEF LiveParts, Count
<1>4. ASSUME NEW got \in {{}, {"backBuffer"}, {"backBuffer", "target"}}, LayerTarget(got)
      PROVE  LiveParts'
  <2>1. got \subseteq Temporaries
    BY <1>4 DEF Temporaries
  <2> QED BY <1>1, <1>2, <1>4, <2>1 DEF LayerTarget
<1>5. CASE LayerDraw
  <2>1. \A p \in Parts : p # "previous"
    BY <1>1 DEF Temporaries
  <2> QED BY <1>1, <1>2, <1>5, <2>1 DEF LayerDraw
<1>6. CASE LayerFinal
  BY <1>1, <1>2, <1>6 DEF LayerFinal
<1>7. \/ UNCHANGED <<live, part>> \/ LayerDraw \/ LayerFinal
      \/ \E n \in 0..Len(Order) : LayerDevice(n)
      \/ \E got \in {{}, {"backBuffer"}, {"backBuffer", "target"}} : LayerTarget(got)
  BY DEF Next, Layer, GameDestroys, GameCreates, InitializeRenderer, ReloadOptions, DrawFrame,
     LayerEnter, LayerSameDevice, LayerNewPanel, LayerOwnPanel, LayerRecent, LayerExpired,
     LayerSampleHud, LayerSampleYaw, LayerPaints, TimePasses, vars, graphicsVars
<1> QED BY <1>2, <1>3, <1>4, <1>5, <1>6, <1>7

\* CreateGraphics gives back what it borrows within its step.
LEMMA LiveBorrowedStep ==
    ASSUME TypeOK, LiveBorrowed, GraphicsInv, [Next]_vars
    PROVE  LiveBorrowed'
<1>1. /\ live \in [Parts \cup Temporaries \cup Borrowed -> Nat]
      /\ \A o \in Borrowed : o \notin Parts /\ o \notin Temporaries
  BY PartsAreOrdered DEF TypeOK
<1>2. ASSUME \A o \in Borrowed : live'[o] = live[o] PROVE LiveBorrowed'
  BY <1>2 DEF LiveBorrowed
<1>3. ASSUME NEW n \in 0..Len(Order), LayerDevice(n) PROVE LiveBorrowed'
  <2>1. live' = [o \in Parts \cup Temporaries \cup Borrowed |->
                   IF o \in Parts THEN (IF n = Len(Order) THEN 1 ELSE 0) ELSE live[o]]
    BY <1>3, WhatLayerDeviceDoes
  <2> QED BY <1>1, <1>2, <2>1
<1>4. ASSUME NEW got \in {{}, {"backBuffer"}, {"backBuffer", "target"}}, LayerTarget(got)
      PROVE  LiveBorrowed'
  <2>1. got \subseteq Temporaries
    BY <1>4 DEF Temporaries
  <2> QED BY <1>1, <1>2, <1>4, <2>1 DEF LayerTarget
<1>5. CASE LayerDraw
  <2>1. \A o \in Borrowed : o # "previous"
    BY <1>1 DEF Temporaries
  <2> QED BY <1>1, <1>2, <1>5, <2>1 DEF LayerDraw
<1>6. CASE LayerFinal
  BY <1>1, <1>2, <1>6 DEF LayerFinal
<1>7. CASE UNCHANGED live
  BY <1>2, <1>7
<1>8. \/ UNCHANGED live \/ LayerDraw \/ LayerFinal
      \/ \E n \in 0..Len(Order) : LayerDevice(n)
      \/ \E got \in {{}, {"backBuffer"}, {"backBuffer", "target"}} : LayerTarget(got)
  BY DEF Next, Layer, GameDestroys, GameCreates, InitializeRenderer, ReloadOptions, DrawFrame,
     LayerEnter, LayerSameDevice, LayerNewPanel, LayerOwnPanel, LayerRecent, LayerExpired,
     LayerSampleHud, LayerSampleYaw, LayerPaints, TimePasses, vars, graphicsVars
<1> QED BY <1>3, <1>4, <1>5, <1>6, <1>7, <1>8

\* LayerTarget leads to LayerFinal, over LayerDraw or at once.
LEMMA LiveTemporariesStep ==
    ASSUME TypeOK, LiveTemporaries, GraphicsInv, [Next]_vars
    PROVE  LiveTemporaries'
<1>1. /\ live \in [Parts \cup Temporaries \cup Borrowed -> Nat] /\ frame \in Frames \cup {None}
      /\ \A p \in Parts : p \notin Temporaries
  BY PartsAreOrdered DEF TypeOK
<1>2. ASSUME \A o \in Temporaries : live'[o] = live[o],
             \/ frame' = frame \/ frame = None
             \/ frame # None /\ frame.step \notin {"draw", "final"}
      PROVE  LiveTemporaries'
  BY <1>2 DEF LiveTemporaries
<1>3. ASSUME NEW n \in 0..Len(Order), LayerDevice(n) PROVE LiveTemporaries'
  <2>1. /\ frame # None /\ frame.step = "device"
        /\ live' = [o \in Parts \cup Temporaries \cup Borrowed |->
                      IF o \in Parts THEN (IF n = Len(Order) THEN 1 ELSE 0) ELSE live[o]]
    BY <1>3, WhatLayerDeviceDoes
  <2> QED BY <1>1, <1>2, <2>1
<1>4. ASSUME NEW got, LayerTarget(got) PROVE LiveTemporaries'
  <2>1. frame' \in Frames /\ frame'.step \in {"draw", "final"}
    BY <1>1, <1>4 DEF LayerTarget, At, Goto, Fail, Frames
  <2> QED BY <2>1, NoneAssumption DEF LiveTemporaries
<1>5. CASE LayerDraw
  <2>1. frame' \in Frames /\ frame'.step \in {"draw", "final"}
    BY <1>1, <1>5 DEF LayerDraw, At, Goto, Frames
  <2> QED BY <2>1, NoneAssumption DEF LiveTemporaries
<1>6. CASE LayerFinal
  BY <1>1, <1>6 DEF LayerFinal, LiveTemporaries
<1>7. CASE UNCHANGED <<live, frame>>
  BY <1>2, <1>7
<1>8. CASE live' = live /\ frame # None /\ frame.step \notin {"draw", "final"}
  BY <1>2, <1>8
<1>9. CASE live' = live /\ frame = None
  BY <1>2, <1>9
<1>10. \/ UNCHANGED <<live, frame>> \/ LayerDraw \/ LayerFinal
       \/ \E n \in 0..Len(Order) : LayerDevice(n)
       \/ \E got \in {{}, {"backBuffer"}, {"backBuffer", "target"}} : LayerTarget(got)
       \/ live' = live /\ frame # None /\ frame.step \notin {"draw", "final"}
       \/ live' = live /\ frame = None
  BY DEF Next, Layer, GameDestroys, GameCreates, InitializeRenderer, ReloadOptions, DrawFrame,
     LayerEnter, LayerSameDevice, LayerNewPanel, LayerOwnPanel, LayerRecent, LayerExpired,
     LayerSampleHud, LayerSampleYaw, LayerPaints, TimePasses, At, vars, graphicsVars
<1> QED BY <1>3, <1>4, <1>5, <1>6, <1>7, <1>8, <1>9, <1>10

\* A bitmap is destroyed before another takes its place; a reference to client.dll is
\* taken only without one.
LEMMA PanelsAndClientStep ==
    ASSUME TypeOK, GraphicsInv, [Next]_vars
    PROVE  LivePanels' /\ yaw'.refs = Count(yaw'.client)
<1>1. LivePanels /\ yaw.refs = Count(yaw.client)
  BY DEF GraphicsInv, ObjectsCounted, LivePanels
<1>2. panel \in [Layers -> Threads \cup {None}] /\ panels \in [Layers -> Nat]
      /\ yaw \in [client : BOOLEAN, refs : Nat, ready : BOOLEAN] /\ frame \in Frames \cup {None}
  BY DEF TypeOK
<1>3. CASE LayerNewPanel
  <2>1. frame.layer \in Layers /\ frame.thread # None
    BY <1>2, <1>3, NoneAssumption DEF LayerNewPanel, At, Frames
  <2>2. LivePanels'
    BY <1>1, <1>2, <1>3, <2>1 DEF LayerNewPanel, LivePanels, Count
  <2> QED BY <1>1, <1>3, <2>2 DEF LayerNewPanel
<1>4. ASSUME NEW showYaw \in BOOLEAN, NEW expires, ReloadOptions(showYaw, expires)
      PROVE  LivePanels' /\ yaw'.refs = Count(yaw'.client)
  <2>1. LivePanels'
    BY <1>1, <1>4 DEF ReloadOptions, LivePanels, panelVars
  <2>2. CASE yaw' = yaw
    BY <1>1, <2>1, <2>2
  <2>3. ASSUME NEW r \in BOOLEAN, yaw' = [yaw EXCEPT !.ready = r]
        PROVE  yaw'.refs = Count(yaw'.client)
    <3>1. yaw'.refs = yaw.refs /\ yaw'.client = yaw.client
      BY <1>2, <2>3
    <3> QED BY <1>1, <3>1
  <2>4. CASE ~yaw.client /\ yaw' = VerifiedClient(yaw)
    <3>1. yaw.refs = 0
      BY <1>1, <2>4 DEF Count
    <3> QED BY <2>1, <2>4, <3>1 DEF VerifiedClient, Count
  <2> QED BY <1>4, <2>1, <2>2, <2>3, <2>4 DEF ReloadOptions, ConfigureYawSpeed, ForeignClient
<1>5. CASE UNCHANGED <<panel, panels, yaw>>
  BY <1>1, <1>5 DEF LivePanels
<1>6. \/ UNCHANGED <<panel, panels, yaw>> \/ LayerNewPanel
      \/ \E showYaw, expires \in BOOLEAN : ReloadOptions(showYaw, expires)
  BY DEF Next, Layer, GameDestroys, GameCreates, InitializeRenderer, DrawFrame, LayerEnter,
     LayerDevice, LayerSameDevice, LayerOwnPanel, LayerRecent, LayerExpired, LayerSampleHud,
     LayerSampleYaw, LayerPaints, LayerTarget, LayerDraw, LayerFinal, TimePasses, vars, panelVars,
     hudVars
<1> QED BY <1>3, <1>4, <1>5, <1>6

LEMMA ObjectsStep ==
    ASSUME TypeOK, GraphicsInv, [Next]_vars
    PROVE  ObjectsCounted'
<1>1. LiveParts /\ LiveTemporaries /\ LiveBorrowed
  BY DEF GraphicsInv, ObjectsCounted, LiveParts, LiveTemporaries, LiveBorrowed
<1>2. /\ LiveParts' /\ LiveTemporaries' /\ LiveBorrowed' /\ LivePanels'
      /\ yaw'.refs = Count(yaw'.client)
  BY <1>1, LivePartsStep, LiveTemporariesStep, LiveBorrowedStep, PanelsAndClientStep
<1> QED BY <1>2 DEF ObjectsCounted, LiveParts, LiveTemporaries, LiveBorrowed, LivePanels

-----------------------------------------------------------------------------

\* What a young sample shows survives every step that does not make it due, and the
\* panel, texture or options it depends on change only in steps that do.
LEMMA YoungStep ==
    ASSUME TypeOK, GraphicsInv, [Next]_vars
    PROVE  YoungIsShown'
<1>1. YoungIsShown /\ FrameKnows
  BY DEF GraphicsInv
<1>2. /\ frame \in Frames \cup {None} /\ sampled \in [Layers -> {"never", "young", "due"}]
      /\ panel \in [Layers -> Threads \cup {None}] /\ painted \in [Layers -> Paintings]
      /\ texture \in [Layers -> Paintings] /\ lpDevice \in Addresses \cup {None}
  BY DEF TypeOK
<1>3. ASSUME UNCHANGED <<panel, lpDevice, texture, painted, options>>,
             \A l \in Layers : sampled'[l] = "young" => sampled[l] = "young"
      PROVE  YoungIsShown'
  BY <1>1, <1>3 DEF YoungIsShown
<1>4. CASE UNCHANGED <<panel, lpDevice, texture, painted, options, sampled>>
  BY <1>3, <1>4
<1>5. ASSUME NEW showYaw, NEW expires, ReloadOptions(showYaw, expires) PROVE YoungIsShown'
  BY <1>5 DEF ReloadOptions, Resample, YoungIsShown
<1>6. ASSUME NEW n \in 0..Len(Order), LayerDevice(n) PROVE YoungIsShown'
  <2>1. CASE n = Len(Order)
    BY <1>6, <2>1 DEF LayerDevice, NewTextures, YoungIsShown
  <2>2. CASE n # Len(Order)
    <3>1. lpDevice' = None
      BY <1>6, <2>2, WhatLayerDeviceDoes
    <3> QED BY <3>1 DEF YoungIsShown
  <2> QED BY <2>1, <2>2
<1>7. CASE LayerNewPanel
  <2> DEFINE l == frame.layer
  <2>1. l \in Layers /\ UNCHANGED <<lpDevice, texture, options>>
    BY <1>2, <1>7 DEF LayerNewPanel, At, Frames, graphicsVars
  <2>2. \A k \in Layers : k # l => panel'[k] = panel[k] /\ painted'[k] = painted[k]
                                   /\ sampled'[k] = sampled[k]
    BY <1>2, <1>7, <2>1 DEF LayerNewPanel
  <2>3. sampled'[l] = "never" \/ panel'[l] = None
    BY <1>2, <1>7, <2>1 DEF LayerNewPanel
  <2> QED BY <1>1, <2>1, <2>2, <2>3 DEF YoungIsShown
<1>8. ASSUME NEW l \in Layers, NEW x, NEW fresh, sampled[l] # "young",
             LayerPaints(l, <<options.number, x>>, fresh)
      PROVE  YoungIsShown'
  <2> DEFINE content == <<options.number, x>>
  <2>1. content[1] = options.number
    OBVIOUS
  <2> HIDE DEF content
  <2>2. /\ painted' = [painted EXCEPT ![l] = content]
        /\ UNCHANGED <<panel, lpDevice, options>>
        /\ \/ /\ texture' = [texture EXCEPT ![l] = content]
              /\ sampled' = [sampled EXCEPT ![l] = "young"]
           \/ UNCHANGED <<texture, sampled>>
    BY <1>8 DEF LayerPaints, content
  <2>3. \A k \in Layers : k # l => painted'[k] = painted[k] /\ texture'[k] = texture[k]
                                   /\ sampled'[k] = sampled[k]
    BY <1>2, <2>2
  <2>4. sampled'[l] = "young" => painted'[l] = content /\ texture'[l] = content
    BY <1>2, <1>8, <2>2
  <2> QED BY <1>1, <2>1, <2>2, <2>3, <2>4 DEF YoungIsShown
<1>9. ASSUME NEW b, LayerSampleHud(b) PROVE YoungIsShown'
  BY <1>8, <1>9 DEF LayerSampleHud, Layers
<1>10. ASSUME NEW available, LayerSampleYaw(available) PROVE YoungIsShown'
  BY <1>8, <1>10 DEF LayerSampleYaw, Layers
<1>11. CASE TimePasses
  <2>1. \A l \in Layers : sampled'[l] = "young" => sampled[l] = "young"
    BY <1>2, <1>11 DEF TimePasses
  <2> QED BY <1>3, <1>11, <2>1 DEF TimePasses, graphicsVars, panelVars
<1>12. \/ UNCHANGED <<panel, lpDevice, texture, painted, options, sampled>>
       \/ LayerNewPanel \/ TimePasses
       \/ \E showYaw, expires \in BOOLEAN : ReloadOptions(showYaw, expires)
       \/ \E n \in 0..Len(Order) : LayerDevice(n)
       \/ \E b \in Boards \cup {None} : LayerSampleHud(b)
       \/ \E available \in BOOLEAN : LayerSampleYaw(available)
  BY DEF Next, Layer, GameDestroys, GameCreates, InitializeRenderer, DrawFrame, LayerEnter,
     LayerSameDevice, LayerOwnPanel, LayerRecent, LayerExpired, LayerTarget, LayerDraw, LayerFinal,
     vars, graphicsVars, panelVars, hudVars
<1> QED BY <1>4, <1>5, <1>6, <1>7, <1>9, <1>10, <1>11, <1>12

-----------------------------------------------------------------------------

LEMMA GraphicsStart ==
    ASSUME Init
    PROVE  TypeOK /\ GraphicsInv
<1> USE DEF Init
<1>1. Parts \cup Temporaries \cup Borrowed = DOMAIN live
  OBVIOUS
<1>2. TypeOK
  <2>1. 0 \in 0..MaxDevices /\ 0 \in 0..MaxReloads
    BY BoundsAssumption
  <2>2. None \in Paintings
    BY DEF Paintings
  <2> QED BY <2>1, <2>2 DEF TypeOK
<1>3. FrameKnows
  BY DEF FrameKnows
<1>4. DevicesCounted
  <2>1. \A a \in Addresses : Users(a) = {}
    BY NoneAssumption DEF Users
  <2>2. \A a \in Addresses : Cardinality(Users(a)) = 0
    BY <2>1, FS_EmptySet
  <2> QED BY <2>2, NoneAssumption DEF DevicesCounted, Count, FrameHolds
<1>5. PartsOfDevice
  BY DEF PartsOfDevice
<1>6. ObjectsCounted
  BY DEF ObjectsCounted, Count
<1>7. YoungIsShown
  BY DEF YoungIsShown
<1> QED BY <1>2, <1>3, <1>4, <1>5, <1>6, <1>7 DEF GraphicsInv

\* The inductive invariant of Graphics: what the frame under RenderLock has done, whose
\* every reference and object is, and what a sample stands for.
THEOREM GraphicsCorrect == Spec => [](TypeOK /\ GraphicsInv)
<1>1. Init => TypeOK /\ GraphicsInv
  BY GraphicsStart
<1>2. TypeOK /\ GraphicsInv /\ [Next]_vars => (TypeOK /\ GraphicsInv)'
  BY TypeStep, FrameStep, DevicesStep, PartsStep, ObjectsStep, YoungStep DEF GraphicsInv
<1> QED BY <1>1, <1>2, PTL DEF Spec

\* No reference to a device, COM object, bitmap or module is given back twice: their
\* counts stay natural numbers, and every other variable keeps its type.
THEOREM GraphicsType == Spec => []TypeOK
BY GraphicsCorrect, PTL

\* DrawFrame, ReloadOptions and the yaw client give back whatever they took, on every
\* path: between frames each live object is held by one pointer.
THEOREM NothingIsLeaked == Spec => []NothingLeaks
<1>1. TypeOK /\ GraphicsInv => NothingLeaks
  <2> SUFFICES ASSUME TypeOK, GraphicsInv, frame = None PROVE NothingLeaks
    BY DEF NothingLeaks
  <2>1. \A a \in Addresses :
           refs[a] = Cardinality({c \in Chains : chain[c] = a}) + Count(lpDevice = a)
    <3> SUFFICES ASSUME NEW a \in Addresses
                 PROVE  refs[a] = Cardinality({c \in Chains : chain[c] = a}) + Count(lpDevice = a)
      OBVIOUS
    <3>1. refs[a] = Cardinality(Users(a)) + Count(lpDevice = a) + FrameHolds(a)
      BY DEF GraphicsInv, DevicesCounted
    <3>2. FrameHolds(a) = 0 /\ Count(lpDevice = a) \in Nat
      BY DEF FrameHolds, Count
    <3>3. Cardinality(Users(a)) \in Nat
      BY UsersAreCounted
    <3> QED BY <3>1, <3>2, <3>3 DEF Users
  <2> QED BY <2>1 DEF GraphicsInv, ObjectsCounted, NothingLeaks
<1> QED BY <1>1, GraphicsCorrect, PTL

\* What DrawLayer draws was made on the device that draws it, and shows what this thread's
\* panel was last painted with, under the options in force.
THEOREM DrawnIsPainted == Spec => []DrawsWhatItPainted
<1>1. TypeOK /\ GraphicsInv => DrawsWhatItPainted
  <2> SUFFICES ASSUME TypeOK, GraphicsInv, At("draw") PROVE DrawsWhatItPainted
    BY DEF DrawsWhatItPainted
  <2>1. frame \in Frames /\ frame # None /\ frame.step = "draw"
    BY DEF At, TypeOK
  <2>2. /\ frame.device # None /\ lpDevice = frame.device /\ panel[frame.layer] = frame.thread
        /\ sampled[frame.layer] = "young"
    BY <2>1 DEF GraphicsInv, FrameKnows
  <2>3. frame.layer \in Layers /\ panel[frame.layer] # None
    BY <2>1, <2>2, NoneAssumption DEF Frames
  <2>4. device[frame.device] # 0 /\ \A p \in Parts : part[p] = device[frame.device]
    <3>1. device[frame.device] # 0
      BY <2>1, <2>2, HeldIsAlive DEF Frames, GraphicsInv
    <3> QED BY <2>2, <3>1 DEF GraphicsInv, PartsOfDevice
  <2>5. texture[frame.layer] = painted[frame.layer] /\ texture[frame.layer][1] = options.number
    BY <2>2, <2>3 DEF GraphicsInv, YoungIsShown
  <2> QED BY <2>2, <2>4, <2>5 DEF DrawsWhatItPainted
<1> QED BY <1>1, GraphicsCorrect, PTL

=============================================================================
