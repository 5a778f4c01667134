--------------------------- MODULE DeviceConfigProofs ---------------------------
(***************************************************************************)
(* Proofs about devices.config.json and about the page that edits the      *)
(* floorplans.  For any devices, floorplans and requests, what a           *)
(* reconciliation repaired, what a user typed and what other writers saved *)
(* stays as long as requests do not overlap.                               *)
(*                                                                         *)
(* While nothing has disturbed, at most one request is under way, and what *)
(* it has read is still so.  Ready says of every phase what the request    *)
(* then holds: a config that keeps what was promised and, unless the       *)
(* placements are about to be reconciled, follows the floorplans.          *)
(*                                                                         *)
(* The second part is about the page.  PageInv says of every call under    *)
(* way what its answer will find: while calls do not overlap, the plan of  *)
(* an opened or saved draft is still in the file when the answer comes,    *)
(* and a device about to be placed is neither on the draft nor on the plan *)
(* that is being saved.                                                    *)
(***************************************************************************)
EXTENDS FloorplanPage, TLAPS

\* An entry follows the placements m that the floorplans give.
PositionFollows(m, e, d) == e.at \in Plans => m[d] # None /\ m[d].plan = e.at
Follows(m, e, d) == PositionFollows(m, e, d) /\ (e.meta # None => m[d] # None /\ e.meta.room = m[d].room)
DevicesFollow(m, devices) == \A d \in Devices : devices[d] # None => Follows(m, devices[d], d)
MicsFollow(m, mics) == \A d \in Mics : Follows(m, mics[d], d)

\* What users were told (a) about device d holds of its entry.
RoomKept(a, e, d) == a.room[d] # None => e # None /\ e.room = a.room[d] /\ ~Managed(e)
NameKept(a, e, d) == d \in a.name => e # None /\ e.name
PromisesKept(a, devices) == \A d \in Devices : RoomKept(a, devices[d], d) /\ NameKept(a, devices[d], d)

\* The placements of the config are about to be brought in line with the floorplans.
Reconciling(q) == q.phase \in {"saved", "listed", "loaded"}

\* The draft of q can be laid over the entry without losing what was promised.
DraftReady(m, a, q) ==
  /\ PositionFollows(m, q.draft, q.dev)
  /\ a.room[q.dev] # None => q.draft.room \in {"", a.room[q.dev]}

\* The devices that a put or delete is going to write.
DevicesReady(m, a, q) ==
  LET devices == q.got.devices IN
  /\ DevicesFollow(m, devices)
  /\ \A d \in Devices \ {q.dev} : RoomKept(a, devices[d], d) /\ NameKept(a, devices[d], d)
  /\ q.kind = "put" =>
       /\ NameKept(a, devices[q.dev], q.dev)
       /\ q.typed = None => RoomKept(a, devices[q.dev], q.dev)
       /\ q.typed # None => devices[q.dev].room = q.typed

\* What a request holds in each phase is still so, and can be written.
Saves(q) == q.kind \in {"put", "delete"}
Ready(m, a, c, q) ==
  /\ q.phase \in {"listed", "loaded"} => q.map = m
  /\ q.phase = "loaded" => q.got = ReconciledConfig(c, m)
  /\ q.phase = "drafted" => DraftReady(m, a, q)
  /\ q.phase \in {"saving", "writing"} /\ Saves(q) => DevicesReady(m, a, q)
  /\ q.phase = "writing" /\ Saves(q) => q.got.mics = c.mics /\ q.got.virtual = c.virtual
  /\ q.phase = "writing" /\ q.kind = "virtual" => q.got.devices = c.devices /\ q.got.mics = c.mics
  /\ q.phase = "mic" => Follows(m, q.got.devices[q.dev], q.dev)
  /\ q.phase = "micWriting" => q.got.devices = c.devices /\ q.got.virtual = c.virtual /\ MicsFollow(m, q.got.mics)

\* A request has the phases of its kind, and the device it is about.
Fits(q) ==
  /\ q.kind = "plan" => q.phase \in {"saving", "saved", "listed", "loaded"}
  /\ q.kind = "boot" => q.phase \in {"saved", "listed", "loaded"}
  /\ q.kind = "put" => q.phase \in {"drafted", "saving", "writing", "mic", "micWriting"} /\ q.dev \in Devices
  /\ q.kind = "delete" => q.phase \in {"saving", "writing"} /\ q.dev \in Devices
  /\ q.kind = "virtual" => q.phase = "writing"
  /\ q.kind = "put" /\ q.phase \in {"saving", "writing", "mic"} => q.got.devices[q.dev] # None
  /\ q.phase \in {"mic", "micWriting"} => q.dev \in Mics

\* What holds while nothing has disturbed: of the files, and of the request under way.
FilesRight(m, a, c) == c.virtual = a.virtual /\ PromisesKept(a, c.devices)
ConfigFollows(m, c) == DevicesFollow(m, c.devices) /\ MicsFollow(m, c.mics)

Solitary == \A q, r \in Slots : InFlight(q) /\ InFlight(r) => q = r
Undisturbed ==
  /\ Solitary
  /\ FilesRight(PlacementMap(plans), asked, config)
  /\ (\A r \in Slots : ~Reconciling(req[r])) => ConfigFollows(PlacementMap(plans), config)
  /\ \A r \in Slots : InFlight(r) => Ready(PlacementMap(plans), asked, config, req[r])

PlansType == [Plans -> Layouts \cup {None}]
Types ==
  /\ plans \in PlansType /\ config \in Config
  /\ up \in BOOLEAN /\ disturbed \in BOOLEAN /\ count \in 0 .. MaxRequests /\ asked \in Asked
  /\ req \in [Slots -> Request \cup {Idle}]
  /\ \A r \in Slots : InFlight(r) => Fits(req[r])

IInv == Types /\ (~disturbed => Undisturbed)

-----------------------------------------------------------------------------
(* Types of what the requests compute.                                      *)

\* The floorplans give every device a placement or none.
LEMMA PlacementMapType ==
  ASSUME NEW ps \in PlansType
  PROVE  PlacementMap(ps) \in [Devices -> Derived \cup {None}]
<1> SUFFICES ASSUME NEW d \in Devices, \E p \in Plans : On(ps, p, d)
             PROVE  LET p == CHOOSE p \in Plans : On(ps, p, d) IN [plan |-> p, room |-> ps[p][d]] \in Derived
  BY DEF PlacementMap
<1> DEFINE p == CHOOSE p \in Plans : On(ps, p, d)
<1>1. p \in Plans /\ On(ps, p, d)
  OBVIOUS
<1> HIDE DEF p
<1>2. ps[p] \in Layout
  BY <1>1, DeviceConfigAssumption DEF PlansType, On
<1>3. ps[p][d] \in Named
  BY <1>1, <1>2 DEF Layout, On
<1> QED
  BY <1>1, <1>3 DEF Derived, p

\* An entry that a floorplan gives something stays an entry.
LEMMA ApplyType ==
  ASSUME NEW e \in Entry, NEW derived \in Derived
  PROVE  /\ Apply(e, derived) \in Entry /\ Apply(e, derived).name = e.name
         /\ Apply(e, derived).at = derived.plan /\ Apply(e, derived).meta.room = derived.room
<1> DEFINE manages == derived.room # "" /\ (e.room = "" \/ Managed(e))
           room == IF manages THEN derived.room ELSE IF derived.room = "" /\ Managed(e) THEN "" ELSE e.room
           meta == [room |-> derived.room, manages |-> manages]
<1>1. Apply(e, derived) = [e EXCEPT !.at = derived.plan, !.room = room, !.meta = meta]
  BY DEF Apply, Entry
<1>2. room \in Named
  BY DEF Entry, Derived, Named
<1>3. meta \in Meta /\ meta.room = derived.room
  BY DEF Meta, Derived
<1>4. derived.plan \in Plans
  BY DEF Derived
<1> HIDE DEF room, meta
<1>5. /\ [e EXCEPT !.at = derived.plan, !.room = room, !.meta = meta].name = e.name
      /\ [e EXCEPT !.at = derived.plan, !.room = room, !.meta = meta].at = derived.plan
      /\ [e EXCEPT !.at = derived.plan, !.room = room, !.meta = meta].meta = meta
      /\ [e EXCEPT !.at = derived.plan, !.room = room, !.meta = meta] \in Entry
  BY <1>2, <1>3, <1>4 DEF Entry
<1> QED
  BY <1>1, <1>3, <1>5

\* An entry that leaves the floorplans stays an entry, with nothing of theirs.
LEMMA CleanType ==
  ASSUME NEW e \in Entry
  PROVE  /\ Clean(e) \in Entry /\ Clean(e).name = e.name /\ Clean(e).at \notin Plans /\ Clean(e).meta = None
         /\ ~Managed(e) => Clean(e).room = e.room
<1> DEFINE at == IF e.at \in Plans THEN "none" ELSE e.at
           room == IF Managed(e) THEN "" ELSE e.room
<1>1. Clean(e) = [e EXCEPT !.at = at, !.room = room, !.meta = None]
  BY DEF Clean, Entry
<1>2. at \in {"none", "manual"} /\ at \notin Plans
  BY DeviceConfigAssumption DEF Entry
<1>3. room \in Named /\ (~Managed(e) => room = e.room)
  BY DEF Entry, Named
<1> HIDE DEF at, room
<1> QED
  BY <1>1, <1>2, <1>3 DEF Entry

\* The empty entry is one, and empty.
LEMMA BlankType == Blank \in Entry /\ Blank.room = "" /\ Blank.name = FALSE
BY DEF Blank, Entry, Named

\* A reconciled entry follows the floorplans, and keeps its name and a room of its own.
LEMMA ReconciledFacts ==
  ASSUME NEW e \in Entry, NEW m \in [Devices -> Derived \cup {None}], NEW d \in Devices
  PROVE  /\ Reconciled(e, m[d]) \in Entry /\ Follows(m, Reconciled(e, m[d]), d)
         /\ Reconciled(e, m[d]).name = e.name
         /\ e.room # "" /\ ~Managed(e) => Reconciled(e, m[d]).room = e.room /\ ~Managed(Reconciled(e, m[d]))
<1>1. CASE m[d] # None
  <2> DEFINE new == Apply(e, m[d])
  <2>1. m[d] \in Derived
    BY <1>1
  <2>2. new \in Entry /\ new.name = e.name /\ new.at = m[d].plan /\ new.meta.room = m[d].room
    BY <2>1, ApplyType
  <2>3. Follows(m, new, d)
    BY <1>1, <2>2 DEF Follows, PositionFollows
  <2>4. e.room # "" /\ ~Managed(e) => new.room = e.room /\ ~Managed(new)
    BY <2>1 DEF Apply, Entry, Managed
  <2>5. Reconciled(e, m[d]) = new
    BY <1>1 DEF Reconciled
  <2> HIDE DEF new
  <2> QED
    BY <2>2, <2>3, <2>4, <2>5
<1>2. CASE m[d] = None /\ (e.at \in Plans \/ e.meta # None)
  <2>1. Reconciled(e, m[d]) = Clean(e)
    BY <1>2 DEF Reconciled
  <2>2. ~Managed(Clean(e))
    BY CleanType DEF Managed
  <2> QED
    BY <2>1, <2>2, CleanType DEF Follows, PositionFollows
<1>3. CASE m[d] = None /\ ~(e.at \in Plans \/ e.meta # None)
  <2>1. Reconciled(e, m[d]) = e
    BY <1>3 DEF Reconciled
  <2> QED
    BY <1>3, <2>1 DEF Follows, PositionFollows
<1> QED
  BY <1>1, <1>2, <1>3

\* A reconciled config follows the floorplans, and keeps what was promised.
LEMMA ReconciledConfigFacts ==
  ASSUME NEW c \in Config, NEW m \in [Devices -> Derived \cup {None}]
  PROVE  LET new == ReconciledConfig(c, m) IN
         /\ new \in Config /\ ConfigFollows(m, new) /\ new.virtual = c.virtual
         /\ \A a \in Asked : PromisesKept(a, c.devices) => PromisesKept(a, new.devices)
<1> DEFINE Entries(d) ==
             IF c.devices[d] = None
             THEN IF m[d] # None THEN Apply(Blank, m[d]) ELSE None
             ELSE LET e == Reconciled(c.devices[d], m[d]) IN IF e = Blank THEN None ELSE e
           devices == [d \in Devices |-> Entries(d)]
           mics == [d \in Mics |-> Reconciled(c.mics[d], m[d])]
<1>1. ReconciledConfig(c, m) = [c EXCEPT !.devices = devices, !.mics = mics]
  BY DEF ReconciledConfig, Config
<1>2. ASSUME NEW d \in Devices
      PROVE  /\ Entries(d) \in Entry \cup {None}
             /\ Entries(d) # None => Follows(m, Entries(d), d)
             /\ \A a \in Asked : RoomKept(a, c.devices[d], d) => RoomKept(a, Entries(d), d)
             /\ \A a \in Asked : NameKept(a, c.devices[d], d) => NameKept(a, Entries(d), d)
  <2>1. CASE c.devices[d] = None
    <3>1. CASE m[d] # None
      <4>1. Entries(d) = Apply(Blank, m[d])
        BY <2>1, <3>1
      <4>2. Apply(Blank, m[d]) \in Entry /\ Follows(m, Apply(Blank, m[d]), d)
        BY <3>1, BlankType, ApplyType DEF Follows, PositionFollows
      <4> HIDE DEF Entries
      <4> QED
        BY <2>1, <4>1, <4>2 DEF RoomKept, NameKept
    <3>2. CASE m[d] = None
      <4>1. Entries(d) = None
        BY <2>1, <3>2
      <4> HIDE DEF Entries
      <4> QED
        BY <2>1, <4>1 DEF RoomKept, NameKept
    <3> QED
      BY <3>1, <3>2
  <2>2. CASE c.devices[d] # None
    <3> DEFINE e == c.devices[d]
               new == Reconciled(e, m[d])
    <3>1. e \in Entry
      BY <2>2 DEF Config
    <3>2. Entries(d) = IF new = Blank THEN None ELSE new
      BY <2>2
    <3> HIDE DEF Entries
    <3>3. /\ new \in Entry /\ Follows(m, new, d) /\ new.name = e.name
          /\ e.room # "" /\ ~Managed(e) => new.room = e.room /\ ~Managed(new)
      BY <3>1, ReconciledFacts
    <3>4. new # None
      BY <3>3, DeviceConfigAssumption
    <3> HIDE DEF new
    <3>5. ASSUME NEW a \in Asked, RoomKept(a, e, d)  PROVE RoomKept(a, Entries(d), d)
      <4> SUFFICES ASSUME a.room[d] # None
                   PROVE  Entries(d) # None /\ Entries(d).room = a.room[d] /\ ~Managed(Entries(d))
        BY DEF RoomKept
      <4>1. a.room[d] \in Rooms /\ a.room[d] # ""
        BY DeviceConfigAssumption DEF Asked
      <4>2. e.room = a.room[d] /\ ~Managed(e)
        BY <3>5 DEF RoomKept
      <4>3. new.room = a.room[d] /\ ~Managed(new) /\ new # Blank
        BY <3>3, <4>1, <4>2, BlankType
      <4> QED
        BY <3>2, <3>4, <4>3
    <3>6. ASSUME NEW a \in Asked, NameKept(a, e, d)  PROVE NameKept(a, Entries(d), d)
      BY <3>2, <3>3, <3>4, <3>6, BlankType DEF NameKept
    <3> QED
      BY <3>2, <3>3, <3>5, <3>6
  <2> QED
    BY <2>1, <2>2
<1> HIDE DEF Entries
<1>3. ASSUME NEW d \in Mics
      PROVE  Reconciled(c.mics[d], m[d]) \in Entry /\ Follows(m, Reconciled(c.mics[d], m[d]), d)
  <2>1. d \in Devices /\ c.mics[d] \in Entry
    BY DeviceConfigAssumption DEF Config
  <2> QED
    BY <2>1, ReconciledFacts
<1>4. devices \in [Devices -> Entry \cup {None}] /\ \A d \in Devices : devices[d] = Entries(d)
  BY <1>2
<1>5. mics \in [Mics -> Entry] /\ \A d \in Mics : mics[d] = Reconciled(c.mics[d], m[d])
  BY <1>3
<1> HIDE DEF devices, mics
<1> DEFINE new == [c EXCEPT !.devices = devices, !.mics = mics]
<1>6. new \in Config /\ new.devices = devices /\ new.mics = mics /\ new.virtual = c.virtual
  BY <1>4, <1>5 DEF Config
<1> HIDE DEF new
<1>7. ConfigFollows(m, new)
  BY <1>2, <1>3, <1>4, <1>5, <1>6 DEF ConfigFollows, DevicesFollow, MicsFollow
<1>8. ASSUME NEW a \in Asked, PromisesKept(a, c.devices)  PROVE PromisesKept(a, new.devices)
  BY <1>2, <1>4, <1>6, <1>8 DEF PromisesKept
<1> QED
  BY <1>1, <1>6, <1>7, <1>8 DEF new

\* A placement laid over an entry.
LEMMA OverFacts ==
  ASSUME NEW e \in Entry, NEW f \in Entry
  PROVE  /\ Over(e, f) \in Entry /\ Over(e, f).name = e.name /\ Over(e, f).meta = e.meta
         /\ Over(e, f).room = IF f.room = "" THEN e.room ELSE f.room
         /\ Over(e, f).at = IF f.at = "none" THEN e.at ELSE f.at
<1> DEFINE room == IF f.room = "" THEN e.room ELSE f.room
           at == IF f.at = "none" THEN e.at ELSE f.at
<1>1. Over(e, f) = [e EXCEPT !.room = room, !.at = at]
  BY DEF Over, Entry
<1>2. room \in Named /\ at \in Plans \cup {"none", "manual"}
  BY DEF Entry
<1> HIDE DEF room, at
<1>3. /\ [e EXCEPT !.room = room, !.at = at] \in Entry
      /\ [e EXCEPT !.room = room, !.at = at].name = e.name
      /\ [e EXCEPT !.room = room, !.at = at].meta = e.meta
      /\ [e EXCEPT !.room = room, !.at = at].room = room
      /\ [e EXCEPT !.room = room, !.at = at].at = at
  BY <1>2 DEF Entry
<1> QED
  BY <1>1, <1>3 DEF room, at

\* What follows the floorplans still does under a placement that follows them.
LEMMA OverFollows ==
  ASSUME NEW m, NEW d, NEW e \in Entry, NEW f \in Entry, Follows(m, e, d), PositionFollows(m, f, d)
  PROVE  Follows(m, Over(e, f), d)
BY OverFacts DEF Follows, PositionFollows

\* The stored override of a device, empty when there is none.
Stored(d) == IF config.devices[d] = None THEN Blank ELSE config.devices[d]

\* The override that is shown, and the one that a draft becomes.
LEMMA ShownType == ASSUME config \in Config, NEW d \in Devices PROVE Stored(d) \in Entry /\ Shown(d) \in Entry
<1>1. Stored(d) \in Entry
  BY BlankType DEF Config, Stored
<1>2. CASE d \in Mics
  <2>1. config.mics[d] \in Entry
    BY <1>2 DEF Config
  <2> QED
    BY <1>1, <1>2, <2>1, OverFacts DEF Shown, Stored
<1>3. CASE d \notin Mics
  BY <1>1, <1>3 DEF Shown, Stored
<1> QED
  BY <1>1, <1>2, <1>3

\* The merged override: its meta is the stored one, its room and position the draft's.
LEMMA MergedFacts ==
  ASSUME config \in Config, NEW q \in Request, q.dev \in Devices
  PROVE  /\ Merged(q) \in Entry /\ Merged(q).meta = Stored(q.dev).meta
         /\ Merged(q).at = Over(Stored(q.dev), q.draft).at
         /\ Stored(q.dev).name => Merged(q).name
         /\ Merged(q).room = IF q.typed = None THEN Over(Stored(q.dev), q.draft).room ELSE q.typed
<1> DEFINE o == Over(Stored(q.dev), q.draft)
           name == o.name \/ q.draft.name
           n == [o EXCEPT !.name = name]
<1>1. Stored(q.dev) \in Entry /\ q.draft \in Entry
  BY ShownType DEF Request
<1>2. o \in Entry /\ o.name = Stored(q.dev).name /\ o.meta = Stored(q.dev).meta
  BY <1>1, OverFacts
<1> HIDE DEF o
<1>3. name \in BOOLEAN /\ (o.name => name)
  BY <1>2 DEF Entry
<1> HIDE DEF name
<1>4. n \in Entry /\ n.name = name /\ n.meta = o.meta /\ n.at = o.at /\ n.room = o.room
  BY <1>2, <1>3 DEF Entry
<1>5. Merged(q) = IF q.typed = None THEN n ELSE [n EXCEPT !.room = q.typed]
  BY DEF Merged, Stored, o, name
<1>6. q.typed # None => q.typed \in Named
  BY DEF Request
<1> HIDE DEF n
<1>7. CASE q.typed = None
  BY <1>2, <1>3, <1>4, <1>5, <1>7 DEF o
<1>8. CASE q.typed # None
  <2>1. Merged(q) = [n EXCEPT !.room = q.typed]
    BY <1>5, <1>8
  <2>2. Merged(q) \in Entry /\ Merged(q).meta = n.meta /\ Merged(q).at = n.at /\ Merged(q).name = n.name
        /\ Merged(q).room = q.typed
    BY <1>4, <1>6, <1>8, <2>1 DEF Entry
  <2> QED
    BY <1>2, <1>3, <1>4, <1>8, <2>2 DEF o
<1> QED
  BY <1>7, <1>8

-----------------------------------------------------------------------------
(* How a request goes on.                                                   *)

\* The types of the plans' placements.
LEMMA PlacementsNow == ASSUME Types PROVE PlacementMap(plans) \in [Devices -> Derived \cup {None}]
BY PlacementMapType DEF Types

\* A request under way takes a step, or comes to its end (q is Idle).
LEMMA Goes ==
  ASSUME IInv, NEW r \in Slots, InFlight(r), NEW q \in Request \cup {Idle}, q.phase # "idle" => Fits(q),
         req' = [req EXCEPT ![r] = q], plans' \in PlansType, config' \in Config, count' = count,
         up' \in BOOLEAN, asked' \in Asked, disturbed' \in BOOLEAN,
         disturbed /\ ~disturbed' => ~Others(r),
         ~disturbed' /\ (disturbed \/ Undisturbed) =>
           /\ FilesRight(PlacementMap(plans'), asked', config')
           /\ ~Reconciling(q) => ConfigFollows(PlacementMap(plans'), config')
           /\ q.phase # "idle" => Ready(PlacementMap(plans'), asked', config', q)
  PROVE  IInv'
<1>1. req \in [Slots -> Request \cup {Idle}]
  BY DEF IInv, Types
<1>2. req' \in [Slots -> Request \cup {Idle}] /\ req'[r] = q /\ \A s \in Slots : s # r => req'[s] = req[s]
  BY <1>1
<1>3. Types'
  BY <1>2 DEF IInv, Types, InFlight
<1>4. ASSUME ~disturbed'  PROVE Undisturbed'
  <2>1. \A s \in Slots : s # r => ~InFlight(s)
    BY <1>4 DEF IInv, Undisturbed, Solitary, Others
  <2>2. \A s \in Slots : s # r => req'[s].phase = "idle"
    BY <1>2, <2>1 DEF InFlight
  <2>3. Solitary'
    BY <2>2 DEF Solitary, InFlight
  <2>4. disturbed \/ Undisturbed
    BY DEF IInv
  <2> QED
    BY <1>2, <1>4, <2>2, <2>3, <2>4 DEF Undisturbed, InFlight
<1> QED
  BY <1>3, <1>4 DEF IInv

\* The bound on requests is a number.
LEMMA LimitType == MaxRequests \in Nat
BY DeviceConfigAssumption

\* A request begins; it is the only one, or it disturbs.
LEMMA Begins ==
  ASSUME IInv, NEW r \in Slots, NEW q \in Request, Begin(r, q), UNCHANGED <<plans, config, up>>, Fits(q),
         ~Reconciling(q),
         FilesRight(PlacementMap(plans), asked, config) /\ ConfigFollows(PlacementMap(plans), config)
           => Ready(PlacementMap(plans), asked, config, q)
  PROVE  IInv'
<1>1. /\ req \in [Slots -> Request \cup {Idle}] /\ req' = [req EXCEPT ![r] = q] /\ count' = count + 1
      /\ count < MaxRequests /\ req[r].phase = "idle"
      /\ disturbed' = (disturbed \/ Others(r))
      /\ asked' = IF Others(r) THEN NothingAsked ELSE asked
  BY DEF IInv, Types, Begin, Disturb
<1>2. req' \in [Slots -> Request \cup {Idle}] /\ req'[r] = q /\ \A s \in Slots : s # r => req'[s] = req[s]
  BY <1>1
<1>3. count' \in 0 .. MaxRequests
  <2>1. count \in 0 .. MaxRequests
    BY DEF IInv, Types
  <2>2. count < MaxRequests /\ count' = count + 1
    BY DEF Begin
  <2> QED
    BY <2>1, <2>2, LimitType
<1>4. NothingAsked \in Asked
  BY DEF NothingAsked, Asked, IInv, Types, Config
<1>5. disturbed' \in BOOLEAN
  <2>1. Others(r) \in BOOLEAN
    BY DEF Others
  <2> QED
    BY <1>1, <2>1 DEF IInv, Types
<1>6. Types'
  BY <1>1, <1>2, <1>3, <1>4, <1>5 DEF IInv, Types, InFlight
<1>7. ASSUME ~disturbed'  PROVE Undisturbed'
  <2>1. ~disturbed /\ ~Others(r) /\ asked' = asked /\ Undisturbed
    BY <1>1, <1>7 DEF IInv
  <2>2. \A s \in Slots : s # r => req'[s].phase = "idle"
    BY <1>2, <2>1 DEF Others, InFlight
  <2>3. Solitary'
    BY <2>2 DEF Solitary, InFlight
  <2>4. \A s \in Slots : ~Reconciling(req[s])
    BY <1>1, <2>1 DEF Others, InFlight, Reconciling
  <2>5. FilesRight(PlacementMap(plans), asked, config) /\ ConfigFollows(PlacementMap(plans), config)
    BY <2>1, <2>4 DEF Undisturbed
  <2> QED
    BY <1>2, <2>1, <2>2, <2>3, <2>5 DEF Undisturbed, InFlight
<1> QED
  BY <1>6, <1>7 DEF IInv

\* A new request is one.
LEMMA NewRequestType ==
  ASSUME Types, NEW kind \in Kinds, NEW phase \in Phases
  PROVE  /\ NewRequest(kind, phase) \in Request
         /\ NewRequest(kind, phase).kind = kind /\ NewRequest(kind, phase).phase = phase
         /\ NewRequest(kind, phase).got = config /\ NewRequest(kind, phase).draft = Blank
         /\ NewRequest(kind, phase).typed = None
<1>1. plans \in [Plans -> Layouts \cup {None}] /\ config \in Config
  BY DEF Types, PlansType
<1>2. [d \in Devices |-> None] \in [Devices -> Derived \cup {None}]
  OBVIOUS
<1> QED
  BY <1>1, <1>2, BlankType DEF NewRequest, Request

-----------------------------------------------------------------------------
(* The steps of a request, by its phase.                                    *)

\* A floorplan is about to be saved.
LEMMA PlanReadStep ==
  ASSUME IInv, NEW r \in Slots, NEW p \in Plans, NEW layout \in Layouts \cup {None}, PlanRead(r, p, layout)
  PROVE  IInv'
<1> DEFINE next == [plans EXCEPT ![p] = layout]
           q == [NewRequest("plan", "saving") EXCEPT !.plan = p, !.next = next]
<1>1. Begin(r, q) /\ UNCHANGED <<plans, config, up>>
  BY DEF PlanRead
<1>2. next \in [Plans -> Layouts \cup {None}]
  BY DEF IInv, Types, PlansType
<1> HIDE DEF next
<1>3. q \in Request /\ q.kind = "plan" /\ q.phase = "saving"
  <2>1. NewRequest("plan", "saving") \in Request /\ NewRequest("plan", "saving").kind = "plan"
        /\ NewRequest("plan", "saving").phase = "saving"
    BY NewRequestType DEF IInv, Kinds, Phases
  <2> QED
    BY <1>2, <2>1 DEF Request
<1> HIDE DEF q
<1>4. Fits(q) /\ ~Reconciling(q) /\ Ready(PlacementMap(plans), asked, config, q)
  BY <1>3 DEF Fits, Reconciling, Ready, Saves
<1> QED
  BY <1>1, <1>3, <1>4, Begins

\* A floorplan is saved, and its placements are to be reconciled.
LEMMA PlanRenameStep == ASSUME IInv, NEW r \in Slots, PlanRename(r) PROVE IInv'
<1> DEFINE q == [req[r] EXCEPT !.phase = "saved"]
<1>1. /\ req[r].phase = "saving" /\ req[r].kind = "plan" /\ InFlight(r) /\ req' = [req EXCEPT ![r] = q]
      /\ plans' = req[r].next /\ UNCHANGED <<config, up, count, disturbed, asked>>
  BY DEF PlanRename, InFlight
<1>2. req[r] \in Request
  BY <1>1 DEF IInv, Types, Idle
<1>3. q \in Request /\ q.kind = "plan" /\ q.phase = "saved" /\ req[r].next \in PlansType
  BY <1>1, <1>2 DEF Request, Phases, PlansType
<1> HIDE DEF q
<1>4. Fits(q) /\ Reconciling(q) /\ Ready(PlacementMap(plans'), asked', config', q)
  BY <1>3 DEF Fits, Reconciling, Ready, Saves
<1>5. Undisturbed => FilesRight(PlacementMap(plans'), asked', config')
  BY <1>1 DEF Undisturbed, FilesRight
<1> QED
  BY <1>1, <1>3, <1>4, <1>5, Goes DEF IInv, Types

\* The placements are computed from the floorplans.
LEMMA ListPlansStep == ASSUME IInv, NEW r \in Slots, ListPlans(r) PROVE IInv'
<1> DEFINE q == [req[r] EXCEPT !.phase = "listed", !.map = PlacementMap(plans)]
<1>1. /\ req[r].phase = "saved" /\ InFlight(r) /\ req' = [req EXCEPT ![r] = q]
      /\ UNCHANGED <<plans, config, up, count, disturbed, asked>>
  BY DEF ListPlans, InFlight
<1>2. req[r] \in Request /\ Fits(req[r])
  BY <1>1 DEF IInv, Types, Idle
<1>3. PlacementMap(plans) \in [Devices -> Derived \cup {None}]
  BY PlacementsNow DEF IInv
<1>4. q \in Request /\ q.kind = req[r].kind /\ q.phase = "listed" /\ q.map = PlacementMap(plans)
  BY <1>1, <1>2, <1>3 DEF Request, Phases
<1> HIDE DEF q
<1>5. Fits(q) /\ Reconciling(q) /\ Ready(PlacementMap(plans'), asked', config', q)
  BY <1>1, <1>2, <1>4 DEF Fits, Reconciling, Ready, Saves, Request, Kinds
<1>6. Undisturbed => FilesRight(PlacementMap(plans'), asked', config')
  BY <1>1 DEF Undisturbed
<1> QED
  BY <1>1, <1>4, <1>5, <1>6, Goes DEF IInv, Types

\* The reconciled config is computed.
LEMMA LoadStep == ASSUME IInv, NEW r \in Slots, Load(r) PROVE IInv'
<1> DEFINE new == ReconciledConfig(config, req[r].map)
           q == [req[r] EXCEPT !.phase = "loaded", !.got = new]
<1>1. /\ req[r].phase = "listed" /\ InFlight(r) /\ req' = [req EXCEPT ![r] = q]
      /\ UNCHANGED <<plans, config, up, count, disturbed, asked>>
  BY DEF Load, InFlight
<1>2. req[r] \in Request /\ Fits(req[r]) /\ config \in Config
  BY <1>1 DEF IInv, Types, Idle
<1>3. new \in Config
  BY <1>2, ReconciledConfigFacts DEF Request
<1> HIDE DEF new
<1>4. q \in Request /\ q.kind = req[r].kind /\ q.phase = "loaded" /\ q.map = req[r].map /\ q.got = new
  BY <1>1, <1>2, <1>3 DEF Request, Phases
<1> HIDE DEF q
<1>5. Fits(q) /\ Reconciling(q)
  BY <1>1, <1>2, <1>4 DEF Fits, Reconciling, Request, Kinds
<1>6. ASSUME Undisturbed
      PROVE  FilesRight(PlacementMap(plans'), asked', config') /\ Ready(PlacementMap(plans'), asked', config', q)
  <2>1. req[r].map = PlacementMap(plans)
    BY <1>1, <1>6 DEF Undisturbed, Ready
  <2> QED
    BY <1>1, <1>4, <1>6, <2>1 DEF Undisturbed, Ready, Saves, new
<1> QED
  BY <1>1, <1>4, <1>5, <1>6, Goes DEF IInv, Types

\* The reconciled config takes the place of the file: the placements are right.
LEMMA ReconcileStep == ASSUME IInv, NEW r \in Slots, Reconcile(r) PROVE IInv'
<1> DEFINE fresh == ~Others(r) /\ req[r].map = PlacementMap(plans) /\ req[r].got = ReconciledConfig(config, req[r].map)
<1>1. /\ req[r].phase = "loaded" /\ InFlight(r) /\ req' = [req EXCEPT ![r] = Idle]
      /\ config' = req[r].got /\ up' = TRUE /\ UNCHANGED <<plans, count>>
      /\ \/ disturbed /\ fresh /\ disturbed' = FALSE /\ asked' = [NothingAsked EXCEPT !.virtual = config'.virtual]
         \/ UNCHANGED <<disturbed, asked>>
  BY DEF Reconcile, InFlight
<1>2. req[r] \in Request /\ config \in Config /\ plans \in PlansType
  BY <1>1 DEF IInv, Types, Idle
<1>3. config' \in Config
  BY <1>1, <1>2 DEF Request
<1> DEFINE blank == [NothingAsked EXCEPT !.virtual = config'.virtual]
<1>4. /\ blank \in Asked /\ blank.virtual = config'.virtual /\ (\A d \in Devices : blank.room[d] = None)
      /\ blank.name = {}
  BY <1>2, <1>3 DEF NothingAsked, Asked, Config
<1> HIDE DEF blank
<1>5. req[r].map = PlacementMap(plans) /\ req[r].got = ReconciledConfig(config, req[r].map)
      => ConfigFollows(PlacementMap(plans'), config')
  BY <1>1, <1>2, PlacementsNow, ReconciledConfigFacts DEF IInv
<1>6. Idle.phase = "idle" /\ ~Reconciling(Idle)
  BY DEF Idle, Reconciling
<1>7. CASE disturbed /\ fresh /\ disturbed' = FALSE /\ asked' = blank
  <2>1. FilesRight(PlacementMap(plans'), asked', config')
    BY <1>4, <1>7 DEF FilesRight, PromisesKept, RoomKept, NameKept
  <2>2. ConfigFollows(PlacementMap(plans'), config')
    BY <1>5, <1>7
  <2>3. asked' \in Asked /\ ~Others(r) /\ disturbed' \in BOOLEAN
    BY <1>4, <1>7
  <2> HIDE DEF fresh
  <2> QED
    BY <1>1, <1>2, <1>3, <1>6, <2>1, <2>2, <2>3, Goes
<1>8. CASE UNCHANGED <<disturbed, asked>>
  <2>1. ASSUME Undisturbed
        PROVE  FilesRight(PlacementMap(plans'), asked', config') /\ ConfigFollows(PlacementMap(plans'), config')
    <3>1. req[r].map = PlacementMap(plans) /\ req[r].got = ReconciledConfig(config, req[r].map)
      BY <1>1, <2>1 DEF Undisturbed, Ready
    <3>2. FilesRight(PlacementMap(plans), asked, config) /\ asked \in Asked
      BY <2>1 DEF Undisturbed, IInv, Types
    <3>3. config'.virtual = config.virtual /\ PromisesKept(asked, config'.devices)
      BY <1>1, <1>2, <3>1, <3>2, PlacementsNow, ReconciledConfigFacts DEF IInv, FilesRight
    <3> QED
      BY <1>5, <1>8, <3>1, <3>2, <3>3 DEF FilesRight
  <2> HIDE DEF fresh
  <2> QED
    BY <1>1, <1>2, <1>3, <1>6, <1>8, <2>1, Goes DEF IInv, Types
<1> QED
  BY <1>1, <1>7, <1>8 DEF blank

\* While one request is under way that reconciles nothing, the config follows the plans.
LEMMA FollowsNow ==
  ASSUME Undisturbed, NEW r \in Slots, InFlight(r), ~Reconciling(req[r])
  PROVE  ConfigFollows(PlacementMap(plans), config)
BY DEF Undisturbed, Solitary, InFlight, Reconciling

\* The editor opens an override: the draft is what the files say.
LEMMA OpenStep ==
  ASSUME IInv, NEW r \in Slots, NEW d \in Devices, NEW typed \in Typed, Open(r, d, typed)
  PROVE  IInv'
<1> DEFINE q == [NewRequest("put", "drafted") EXCEPT !.dev = d, !.draft = Shown(d), !.typed = typed]
<1>1. Begin(r, q) /\ UNCHANGED <<plans, config, up>>
  BY DEF Open
<1>2. config \in Config /\ Shown(d) \in Entry /\ Stored(d) \in Entry
  BY ShownType DEF IInv, Types
<1>3. q \in Request /\ q.kind = "put" /\ q.phase = "drafted" /\ q.dev = d /\ q.draft = Shown(d)
  <2>1. NewRequest("put", "drafted") \in Request /\ NewRequest("put", "drafted").kind = "put"
        /\ NewRequest("put", "drafted").phase = "drafted"
    BY NewRequestType DEF IInv, Kinds, Phases
  <2>2. typed \in Named \cup {None}
    BY DeviceConfigAssumption
  <2> QED
    BY <1>2, <2>1, <2>2 DEF Request
<1> HIDE DEF q
<1>4. Fits(q) /\ ~Reconciling(q)
  BY <1>3 DEF Fits, Reconciling
<1>5. ASSUME FilesRight(PlacementMap(plans), asked, config), ConfigFollows(PlacementMap(plans), config)
      PROVE  DraftReady(PlacementMap(plans), asked, q)
  <2> DEFINE m == PlacementMap(plans)
  <2>1. PositionFollows(m, Stored(d), d)
    BY <1>5, DeviceConfigAssumption DEF ConfigFollows, DevicesFollow, Follows, Stored, PositionFollows, Blank
  <2>2. asked.room[d] # None => Stored(d).room = asked.room[d] /\ asked.room[d] # ""
    BY <1>5, DeviceConfigAssumption DEF FilesRight, PromisesKept, RoomKept, Stored, IInv, Types, Asked
  <2>3. CASE d \in Mics
    <3>1. config.mics[d] \in Entry /\ PositionFollows(m, config.mics[d], d)
      BY <1>2, <1>5, <2>3 DEF Config, ConfigFollows, MicsFollow, Follows
    <3>2. Shown(d) = Over(config.mics[d], Stored(d))
      BY <2>3 DEF Shown, Stored
    <3>3. /\ Shown(d).room = IF Stored(d).room = "" THEN config.mics[d].room ELSE Stored(d).room
          /\ Shown(d).at = IF Stored(d).at = "none" THEN config.mics[d].at ELSE Stored(d).at
      <4>1. /\ Over(config.mics[d], Stored(d)).room = IF Stored(d).room = "" THEN config.mics[d].room ELSE Stored(d).room
            /\ Over(config.mics[d], Stored(d)).at = IF Stored(d).at = "none" THEN config.mics[d].at ELSE Stored(d).at
        BY <1>2, <3>1, OverFacts
      <4> QED
        BY <3>2, <4>1
    <3>4. PositionFollows(m, Shown(d), d)
      BY <2>1, <3>1, <3>3 DEF PositionFollows
    <3> QED
      BY <1>3, <2>2, <3>3, <3>4 DEF DraftReady
  <2>4. CASE d \notin Mics
    <3>1. Shown(d) = Stored(d)
      BY <2>4 DEF Shown, Stored
    <3> QED
      BY <1>3, <2>1, <2>2, <3>1 DEF DraftReady
  <2> QED
    BY <2>3, <2>4
<1>6. FilesRight(PlacementMap(plans), asked, config) /\ ConfigFollows(PlacementMap(plans), config)
      => Ready(PlacementMap(plans), asked, config, q)
  BY <1>3, <1>5 DEF Ready
<1> QED
  BY <1>1, <1>3, <1>4, <1>6, Begins

\* The switch panel renames a channel: a draft with a name and no placement.
LEMMA RenameStep ==
  ASSUME IInv, NEW r \in Slots, NEW d \in Devices, Rename(r, d)
  PROVE  IInv'
<1> DEFINE named == [Blank EXCEPT !.name = TRUE]
           q == [NewRequest("put", "drafted") EXCEPT !.dev = d, !.draft = named]
<1>1. NewRequest("put", "drafted") \in Request /\ NewRequest("put", "drafted").kind = "put"
      /\ NewRequest("put", "drafted").phase = "drafted" /\ NewRequest("put", "drafted").draft = Blank
  BY NewRequestType DEF IInv, Kinds, Phases
<1>2. named \in Entry /\ named.room = "" /\ named.at = "none"
  BY BlankType DEF Blank, Entry
<1>3. q = [NewRequest("put", "drafted") EXCEPT !.dev = d, !.draft.name = TRUE]
  BY <1>1 DEF Request
<1> HIDE DEF named
<1>4. q \in Request /\ q.kind = "put" /\ q.phase = "drafted" /\ q.dev = d /\ q.draft = named
  BY <1>1, <1>2 DEF Request
<1>5. Begin(r, q) /\ UNCHANGED <<plans, config, up>>
  BY <1>3 DEF Rename
<1> HIDE DEF q
<1>6. Fits(q) /\ ~Reconciling(q)
  BY <1>4 DEF Fits, Reconciling
<1>7. Ready(PlacementMap(plans), asked, config, q)
  BY <1>2, <1>4, DeviceConfigAssumption DEF Ready, DraftReady, PositionFollows
<1> QED
  BY <1>4, <1>5, <1>6, <1>7, Begins

\* The stored override is read and the draft merged into it.
LEMMA PutReadStep == ASSUME IInv, NEW r \in Slots, PutRead(r) PROVE IInv'
<1> DEFINE e == Merged(req[r])
           d == req[r].dev
           devices == [config.devices EXCEPT ![d] = e]
           got == [req[r].got EXCEPT !.devices = devices]
           q == [req[r] EXCEPT !.phase = "saving", !.got = got]
           m == PlacementMap(plans)
<1>1. req[r].phase = "drafted" /\ InFlight(r) /\ UNCHANGED <<plans, config, up, count, disturbed, asked>>
  BY DEF PutRead, InFlight
<1>2. req[r] \in Request /\ config \in Config /\ req[r].got \in Config /\ Fits(req[r])
  BY <1>1 DEF IInv, Types, Idle, Request
<1>3. req[r].kind = "put" /\ d \in Devices
  BY <1>1, <1>2 DEF Fits, Request, Kinds
<1>4. /\ e \in Entry /\ e.meta = Stored(d).meta /\ e.at = Over(Stored(d), req[r].draft).at
      /\ Stored(d).name => e.name
      /\ e.room = IF req[r].typed = None THEN Over(Stored(d), req[r].draft).room ELSE req[r].typed
  BY <1>2, <1>3, MergedFacts
<1>5. Stored(d) \in Entry /\ req[r].draft \in Entry /\ e # None
  BY <1>2, <1>3, <1>4, ShownType, DeviceConfigAssumption DEF Request
<1> HIDE DEF e
<1>6. devices \in [Devices -> Entry \cup {None}] /\ devices[d] = e
      /\ \A c \in Devices \ {d} : devices[c] = config.devices[c]
  BY <1>2, <1>3, <1>4 DEF Config
<1>7. req' = [req EXCEPT ![r] = q]
  BY <1>2 DEF PutRead, e, Request, Config
<1> HIDE DEF devices
<1>8. got \in Config /\ got.devices = devices
  BY <1>2, <1>6 DEF Config
<1> HIDE DEF got
<1>9. q \in Request /\ q.phase = "saving" /\ q.kind = "put" /\ q.dev = d /\ q.got = got /\ q.typed = req[r].typed
  BY <1>2, <1>3, <1>8 DEF Request, Phases
<1> HIDE DEF q
<1>10. Fits(q) /\ ~Reconciling(q)
  BY <1>3, <1>5, <1>6, <1>8, <1>9 DEF Fits, Reconciling
<1>11. ASSUME Undisturbed
       PROVE  FilesRight(m, asked, config) /\ ConfigFollows(m, config) /\ DevicesReady(m, asked, q)
  <2>1. FilesRight(m, asked, config) /\ ConfigFollows(m, config)
    BY <1>1, <1>11, FollowsNow DEF Undisturbed, Reconciling
  <2>2. DraftReady(m, asked, req[r])
    BY <1>1, <1>11 DEF Undisturbed, Ready
  <2>3. Follows(m, e, d)
    <3>1. Follows(m, Stored(d), d)
      BY <1>3, <2>1, DeviceConfigAssumption DEF ConfigFollows, DevicesFollow, Follows, Stored, PositionFollows, Blank
    <3>2. Follows(m, Over(Stored(d), req[r].draft), d)
      BY <1>5, <2>2, <3>1, OverFollows DEF DraftReady
    <3> QED
      BY <1>4, <3>1, <3>2 DEF Follows, PositionFollows
  <2>4. DevicesFollow(m, devices)
    BY <1>6, <2>1, <2>3 DEF ConfigFollows, DevicesFollow
  <2>5. \A c \in Devices \ {d} : RoomKept(asked, devices[c], c) /\ NameKept(asked, devices[c], c)
    BY <1>6, <2>1 DEF FilesRight, PromisesKept
  <2>6. RoomKept(asked, config.devices[d], d) /\ NameKept(asked, config.devices[d], d)
    BY <1>3, <2>1 DEF FilesRight, PromisesKept
  <2>7. NameKept(asked, e, d)
    BY <1>4, <1>5, <2>6 DEF NameKept, Stored
  <2>8. ASSUME req[r].typed = None, asked.room[d] # None
        PROVE  e.room = asked.room[d] /\ ~Managed(e)
    <3>1. Stored(d).room = asked.room[d] /\ ~Managed(Stored(d))
      BY <2>6, <2>8 DEF RoomKept, Stored
    <3>2. e.room = IF req[r].draft.room = "" THEN Stored(d).room ELSE req[r].draft.room
      BY <1>4, <1>5, <2>8, OverFacts
    <3>3. req[r].draft.room \in {"", asked.room[d]}
      BY <2>2, <2>8 DEF DraftReady
    <3>4. e.room = asked.room[d]
      BY <3>1, <3>2, <3>3
    <3> QED
      BY <1>4, <3>1, <3>4 DEF Managed
  <2>9. req[r].typed # None => e.room = req[r].typed
    BY <1>4
  <2> HIDE DEF m, d
  <2> QED
    BY <1>5, <1>6, <1>8, <1>9, <2>1, <2>4, <2>5, <2>7, <2>8, <2>9 DEF DevicesReady, RoomKept
<1>12. Undisturbed => /\ FilesRight(PlacementMap(plans'), asked', config')
                      /\ ConfigFollows(PlacementMap(plans'), config')
                      /\ Ready(PlacementMap(plans'), asked', config', q)
  BY <1>1, <1>9, <1>11 DEF Ready
<1> QED
  BY <1>1, <1>7, <1>9, <1>10, <1>12, Goes DEF IInv, Types

\* An override is deleted from the list that was read.
LEMMA DeleteReadStep ==
  ASSUME IInv, NEW r \in Slots, NEW d \in Devices, DeleteRead(r, d)
  PROVE  IInv'
<1> DEFINE devices == [config.devices EXCEPT ![d] = None]
           got == [config EXCEPT !.devices = devices]
           q == [NewRequest("delete", "saving") EXCEPT !.dev = d, !.got = got]
           m == PlacementMap(plans)
<1>1. NewRequest("delete", "saving") \in Request /\ NewRequest("delete", "saving").kind = "delete"
      /\ NewRequest("delete", "saving").phase = "saving" /\ NewRequest("delete", "saving").got = config
  BY NewRequestType DEF IInv, Kinds, Phases
<1>2. config \in Config
  BY DEF IInv, Types
<1>3. q = [NewRequest("delete", "saving") EXCEPT !.dev = d, !.got.devices[d] = None]
  BY <1>1, <1>2 DEF Request, Config
<1>4. devices \in [Devices -> Entry \cup {None}] /\ devices[d] = None
      /\ \A c \in Devices \ {d} : devices[c] = config.devices[c]
  BY <1>2 DEF Config
<1> HIDE DEF devices
<1>5. got \in Config /\ got.devices = devices
  BY <1>2, <1>4 DEF Config
<1> HIDE DEF got
<1>6. q \in Request /\ q.kind = "delete" /\ q.phase = "saving" /\ q.dev = d /\ q.got = got
  BY <1>1, <1>5 DEF Request
<1>7. Begin(r, q) /\ UNCHANGED <<plans, config, up>>
  BY <1>3 DEF DeleteRead
<1> HIDE DEF q
<1>8. Fits(q) /\ ~Reconciling(q)
  BY <1>6 DEF Fits, Reconciling
<1>9. FilesRight(m, asked, config) /\ ConfigFollows(m, config) => DevicesReady(m, asked, q)
  BY <1>4, <1>5, <1>6 DEF FilesRight, PromisesKept, ConfigFollows, DevicesFollow, DevicesReady
<1>10. FilesRight(m, asked, config) /\ ConfigFollows(m, config) => Ready(m, asked, config, q)
  BY <1>6, <1>9 DEF Ready
<1> QED
  BY <1>6, <1>7, <1>8, <1>10, Begins

\* The rest of the file is read again before it is written.
LEMMA SaveLoadStep == ASSUME IInv, NEW r \in Slots, SaveLoad(r) PROVE IInv'
<1> DEFINE got == [config EXCEPT !.devices = req[r].got.devices]
           q == [req[r] EXCEPT !.phase = "writing", !.got = got]
           m == PlacementMap(plans)
<1>1. /\ req[r].phase = "saving" /\ Saves(req[r]) /\ InFlight(r) /\ req' = [req EXCEPT ![r] = q]
      /\ UNCHANGED <<plans, config, up, count, disturbed, asked>>
  BY DEF SaveLoad, InFlight, Saves
<1>2. req[r] \in Request /\ config \in Config /\ Fits(req[r])
  BY <1>1 DEF IInv, Types, Idle
<1>3. got \in Config /\ got.devices = req[r].got.devices /\ got.mics = config.mics /\ got.virtual = config.virtual
  BY <1>2 DEF Request, Config
<1> HIDE DEF got
<1>4. q \in Request /\ q.phase = "writing" /\ q.kind = req[r].kind /\ q.dev = req[r].dev /\ q.got = got
      /\ q.typed = req[r].typed
  BY <1>2, <1>3 DEF Request, Phases
<1> HIDE DEF q
<1>5. Fits(q) /\ ~Reconciling(q)
  BY <1>1, <1>2, <1>3, <1>4 DEF Fits, Reconciling, Saves
<1>6. ASSUME Undisturbed
      PROVE  FilesRight(m, asked, config) /\ ConfigFollows(m, config) /\ DevicesReady(m, asked, q)
  <2>1. FilesRight(m, asked, config) /\ ConfigFollows(m, config)
    BY <1>1, <1>6, FollowsNow DEF Undisturbed, Reconciling
  <2>2. DevicesReady(m, asked, req[r])
    BY <1>1, <1>6 DEF Undisturbed, Ready
  <2> QED
    BY <1>3, <1>4, <2>1, <2>2 DEF DevicesReady
<1>7. Undisturbed => /\ FilesRight(PlacementMap(plans'), asked', config')
                     /\ ConfigFollows(PlacementMap(plans'), config')
                     /\ Ready(PlacementMap(plans'), asked', config', q)
  BY <1>1, <1>3, <1>4, <1>6 DEF Ready, Saves
<1> QED
  BY <1>1, <1>4, <1>5, <1>7, Goes DEF IInv, Types

\* What a user may count on after a save is what the saved override holds.
LEMMA PromisedFacts ==
  ASSUME asked \in Asked, NEW q \in Request, Saves(q), q.dev \in Devices, NEW m, DevicesReady(m, asked, q),
         q.kind = "put" => q.got.devices[q.dev] # None
  PROVE  PromisesKept(Promised(q), q.got.devices)
<1> DEFINE a == Promised(q)
           e == q.got.devices[q.dev]
           own == e.room # "" /\ ~Managed(e)
<1>1. CASE q.kind = "delete"
  <2>1. a = [asked EXCEPT !.room[q.dev] = None, !.name = @ \ {q.dev}]
    BY <1>1 DEF Promised
  <2>2. a.room[q.dev] = None /\ q.dev \notin a.name
    BY <2>1 DEF Asked
  <2>3. \A d \in Devices \ {q.dev} : a.room[d] = asked.room[d] /\ (d \in a.name <=> d \in asked.name)
    BY <2>1 DEF Asked
  <2> HIDE DEF a
  <2> QED
    BY <2>2, <2>3 DEF DevicesReady, PromisesKept, RoomKept, NameKept, a
<1>2. CASE q.kind = "put"
  <2> DEFINE room == IF own /\ q.typed \in Rooms THEN q.typed ELSE IF q.typed = None THEN asked.room[q.dev] ELSE None
             name == IF e.name THEN asked.name \cup {q.dev} ELSE asked.name
  <2> DEFINE rooms == [asked.room EXCEPT ![q.dev] = room]
  <2>1. a = [asked EXCEPT !.name = name, !.room = rooms]
    BY <1>2 DEF Promised, Asked
  <2>2. a.room[q.dev] = room /\ a.name = name /\ \A d \in Devices \ {q.dev} : a.room[d] = asked.room[d]
    <3>1. rooms[q.dev] = room /\ \A d \in Devices \ {q.dev} : rooms[d] = asked.room[d]
      BY DEF Asked
    <3> HIDE DEF room, name, rooms
    <3>2. a.room = rooms /\ a.name = name
      BY <2>1 DEF Asked
    <3> QED
      BY <3>1, <3>2
  <2>3. \A d \in Devices \ {q.dev} : d \in name <=> d \in asked.name
    OBVIOUS
  <2>4. q.dev \in name => e # None /\ e.name
    BY <1>2 DEF DevicesReady, NameKept
  <2>5. room # None => e # None /\ e.room = room /\ ~Managed(e)
    <3>1. e # None
      BY <1>2
    <3>2. CASE own /\ q.typed \in Rooms
      <4>1. q.typed # None => e.room = q.typed
        BY <1>2 DEF DevicesReady
      <4>2. room = q.typed
        BY <3>2
      <4> HIDE DEF room
      <4> QED
        BY <3>1, <3>2, <4>1, <4>2
    <3>3. CASE ~(own /\ q.typed \in Rooms) /\ q.typed = None
      <4>1. RoomKept(asked, e, q.dev)
        BY <1>2, <3>3 DEF DevicesReady
      <4>2. room = asked.room[q.dev]
        BY <3>3
      <4> HIDE DEF room
      <4> QED
        BY <4>1, <4>2 DEF RoomKept
    <3>4. CASE ~(own /\ q.typed \in Rooms) /\ q.typed # None
      <4>1. room = None
        BY <3>4
      <4> HIDE DEF room
      <4> QED
        BY <4>1
    <3> QED
      BY <3>2, <3>3, <3>4
  <2> HIDE DEF room, name, a
  <2>6. ASSUME NEW d \in Devices  PROVE RoomKept(a, q.got.devices[d], d) /\ NameKept(a, q.got.devices[d], d)
    <3>1. CASE d = q.dev
      BY <2>2, <2>4, <2>5, <3>1 DEF RoomKept, NameKept
    <3>2. CASE d # q.dev
      <4>1. RoomKept(asked, q.got.devices[d], d) /\ NameKept(asked, q.got.devices[d], d)
        BY <3>2 DEF DevicesReady
      <4> QED
        BY <2>2, <2>3, <3>2, <4>1 DEF RoomKept, NameKept
    <3> QED
      BY <3>1, <3>2
  <2> QED
    BY <2>6 DEF PromisesKept, a
<1> QED
  BY <1>1, <1>2 DEF Saves

\* What users may count on has its type, and says nothing of the virtual devices.
LEMMA PromisedType ==
  ASSUME asked \in Asked, NEW q \in Request, q.dev \in Devices
  PROVE  Promised(q) \in Asked /\ Promised(q).virtual = asked.virtual
<1> DEFINE e == q.got.devices[q.dev]
           own == e.room # "" /\ ~Managed(e)
           room == IF own /\ q.typed \in Rooms THEN q.typed ELSE IF q.typed = None THEN asked.room[q.dev] ELSE None
           name == IF e.name THEN asked.name \cup {q.dev} ELSE asked.name
<1>1. CASE q.kind = "delete"
  BY <1>1 DEF Promised, Asked
<1>2. CASE q.kind # "delete"
  <2>1. Promised(q) = [asked EXCEPT !.name = name, !.room[q.dev] = room]
    BY <1>2 DEF Promised, Asked
  <2>2. room \in Rooms \cup {None} /\ name \in SUBSET Devices
    BY DEF Asked
  <2> HIDE DEF room, name
  <2> QED
    BY <2>1, <2>2 DEF Asked
<1> QED
  BY <1>1, <1>2

\* The saved override takes the place of the file: what it holds is promised from now on.
LEMMA SaveRenameStep == ASSUME IInv, NEW r \in Slots, SaveRename(r) PROVE IInv'
<1> DEFINE mic == [req[r] EXCEPT !.phase = "mic"]
           q == IF req[r].kind = "put" /\ req[r].dev \in Mics THEN mic ELSE Idle
           m == PlacementMap(plans)
<1>1. /\ req[r].phase = "writing" /\ Saves(req[r]) /\ InFlight(r) /\ req' = [req EXCEPT ![r] = q]
      /\ config' = req[r].got /\ asked' = (IF disturbed THEN asked ELSE Promised(req[r]))
      /\ UNCHANGED <<plans, up, count, disturbed>>
  BY DEF SaveRename, InFlight, Saves
<1>2. req[r] \in Request /\ Fits(req[r]) /\ asked \in Asked
  BY <1>1 DEF IInv, Types, Idle
<1>3. config' \in Config /\ req[r].dev \in Devices
  BY <1>1, <1>2 DEF Request, Fits, Saves
<1>4. asked' \in Asked
  BY <1>1, <1>2, <1>3, PromisedType
<1>5. mic \in Request /\ mic.phase = "mic" /\ mic.kind = req[r].kind /\ mic.dev = req[r].dev /\ mic.got = req[r].got
  BY <1>2 DEF Request, Phases
<1> HIDE DEF mic
<1>6. q \in Request \cup {Idle} /\ ~Reconciling(q)
  BY <1>5 DEF Reconciling, Idle
<1>7. q.phase # "idle" => q = mic /\ req[r].kind = "put" /\ req[r].dev \in Mics
  BY DEF Idle
<1> HIDE DEF q
<1>8. q.phase # "idle" => Fits(q)
  BY <1>1, <1>2, <1>3, <1>5, <1>7 DEF Fits
<1>9. ASSUME ~disturbed, Undisturbed
      PROVE  FilesRight(m, asked', config') /\ ConfigFollows(m, config')
             /\ (q.phase # "idle" => Ready(m, asked', config', q))
  <2>1. DevicesReady(m, asked, req[r]) /\ req[r].got.mics = config.mics /\ req[r].got.virtual = config.virtual
    BY <1>1, <1>9 DEF Undisturbed, Ready
  <2>2. ConfigFollows(m, config) /\ config.virtual = asked.virtual
    BY <1>1, <1>9, FollowsNow DEF Undisturbed, FilesRight, Reconciling
  <2>3. PromisesKept(asked', config'.devices)
    BY <1>1, <1>2, <1>3, <1>9, <2>1, PromisedFacts DEF Fits
  <2>4. asked'.virtual = config'.virtual
    BY <1>1, <1>2, <1>3, <1>9, <2>1, <2>2, PromisedType
  <2>5. ConfigFollows(m, config')
    BY <1>1, <2>1, <2>2 DEF DevicesReady, ConfigFollows
  <2>6. ASSUME q.phase # "idle"  PROVE Follows(m, q.got.devices[q.dev], q.dev)
    BY <1>1, <1>2, <1>3, <1>5, <1>7, <2>1, <2>6 DEF DevicesReady, DevicesFollow, Fits
  <2>7. q.phase # "idle" => Ready(m, asked', config', q)
    BY <1>5, <1>7, <2>6 DEF Ready
  <2> QED
    BY <2>3, <2>4, <2>5, <2>7 DEF FilesRight
<1> QED
  BY <1>1, <1>3, <1>4, <1>6, <1>8, <1>9, Goes DEF IInv, Types

\* The entry of the microphone is read and the placement laid over it.
LEMMA MicReadStep == ASSUME IInv, NEW r \in Slots, MicRead(r) PROVE IInv'
<1> DEFINE d == req[r].dev
           e == Over(config.mics[d], req[r].got.devices[d])
           mics == [config.mics EXCEPT ![d] = e]
           got == [config EXCEPT !.mics = mics]
           q == [req[r] EXCEPT !.phase = "micWriting", !.got = got]
           m == PlacementMap(plans)
<1>1. req[r].phase = "mic" /\ InFlight(r) /\ UNCHANGED <<plans, config, up, count, disturbed, asked>>
  BY DEF MicRead, InFlight
<1>2. req[r] \in Request /\ config \in Config /\ Fits(req[r])
  BY <1>1 DEF IInv, Types, Idle
<1>3. req' = [req EXCEPT ![r] = q]
  BY <1>2 DEF MicRead, Config
<1>4. d \in Mics /\ d \in Devices /\ req[r].kind = "put"
  BY <1>1, <1>2, DeviceConfigAssumption DEF Fits, Request, Kinds
<1>5. config.mics[d] \in Entry /\ req[r].got.devices[d] \in Entry
  BY <1>1, <1>2, <1>4 DEF Config, Request, Fits
<1>6. e \in Entry
  BY <1>5, OverFacts
<1> HIDE DEF e
<1>7. mics \in [Mics -> Entry] /\ mics[d] = e /\ \A c \in Mics \ {d} : mics[c] = config.mics[c]
  BY <1>2, <1>4, <1>6 DEF Config
<1> HIDE DEF mics
<1>8. got \in Config /\ got.mics = mics /\ got.devices = config.devices /\ got.virtual = config.virtual
  BY <1>2, <1>7 DEF Config
<1> HIDE DEF got
<1>9. q \in Request /\ q.phase = "micWriting" /\ q.kind = "put" /\ q.dev = d /\ q.got = got
  BY <1>2, <1>4, <1>8 DEF Request, Phases
<1> HIDE DEF q
<1>10. Fits(q) /\ ~Reconciling(q)
  BY <1>4, <1>9 DEF Fits, Reconciling
<1>11. ASSUME Undisturbed
       PROVE  FilesRight(m, asked, config) /\ ConfigFollows(m, config) /\ MicsFollow(m, mics)
  <2>1. FilesRight(m, asked, config) /\ ConfigFollows(m, config)
    BY <1>1, <1>11, FollowsNow DEF Undisturbed, Reconciling
  <2>2. Follows(m, req[r].got.devices[d], d)
    BY <1>1, <1>11 DEF Undisturbed, Ready
  <2>3. Follows(m, e, d)
    BY <1>4, <1>5, <2>1, <2>2, OverFollows DEF ConfigFollows, MicsFollow, Follows, e
  <2> QED
    BY <1>7, <2>1, <2>3 DEF MicsFollow, ConfigFollows
<1>12. Undisturbed => /\ FilesRight(PlacementMap(plans'), asked', config')
                      /\ ConfigFollows(PlacementMap(plans'), config')
                      /\ Ready(PlacementMap(plans'), asked', config', q)
  BY <1>1, <1>8, <1>9, <1>11 DEF Ready
<1> QED
  BY <1>1, <1>3, <1>9, <1>10, <1>12, Goes DEF IInv, Types

\* The entry of the microphone is saved.
LEMMA MicRenameStep == ASSUME IInv, NEW r \in Slots, MicRename(r) PROVE IInv'
<1>1. /\ req[r].phase = "micWriting" /\ InFlight(r) /\ req' = [req EXCEPT ![r] = Idle]
      /\ config' = req[r].got /\ UNCHANGED <<plans, up, count, disturbed, asked>>
  BY DEF MicRename, InFlight
<1>2. req[r] \in Request
  BY <1>1 DEF IInv, Types, Idle
<1>3. config' \in Config
  BY <1>1, <1>2 DEF Request
<1>4. ASSUME Undisturbed
      PROVE  FilesRight(PlacementMap(plans), asked, config') /\ ConfigFollows(PlacementMap(plans), config')
  <2>1. FilesRight(PlacementMap(plans), asked, config) /\ ConfigFollows(PlacementMap(plans), config)
    BY <1>1, <1>4, FollowsNow DEF Undisturbed, Reconciling
  <2>2. config'.devices = config.devices /\ config'.virtual = config.virtual
        /\ MicsFollow(PlacementMap(plans), config'.mics)
    BY <1>1, <1>4 DEF Undisturbed, Ready
  <2> QED
    BY <2>1, <2>2 DEF FilesRight, ConfigFollows
<1>5. Idle.phase = "idle"
  BY DEF Idle
<1> QED
  BY <1>1, <1>3, <1>4, <1>5, Goes DEF IInv, Types

\* The part of the virtual devices is changed in what was read.
LEMMA VirtualReadStep == ASSUME IInv, NEW r \in Slots, VirtualRead(r) PROVE IInv'
<1> DEFINE got == [config EXCEPT !.virtual = count + 1]
           q == [NewRequest("virtual", "writing") EXCEPT !.got = got]
<1>1. NewRequest("virtual", "writing") \in Request /\ NewRequest("virtual", "writing").kind = "virtual"
      /\ NewRequest("virtual", "writing").phase = "writing" /\ NewRequest("virtual", "writing").got = config
  BY NewRequestType DEF IInv, Kinds, Phases
<1>2. config \in Config /\ count + 1 \in 0 .. MaxRequests
  <2>1. count \in 0 .. MaxRequests /\ config \in Config
    BY DEF IInv, Types
  <2>2. count < MaxRequests
    BY DEF VirtualRead, Begin
  <2> QED
    BY <2>1, <2>2, LimitType
<1>3. q = [NewRequest("virtual", "writing") EXCEPT !.got.virtual = count + 1]
  BY <1>1 DEF Request
<1>4. got \in Config /\ got.devices = config.devices /\ got.mics = config.mics
  BY <1>2 DEF Config
<1> HIDE DEF got
<1>5. q \in Request /\ q.kind = "virtual" /\ q.phase = "writing" /\ q.got = got
  BY <1>1, <1>4 DEF Request
<1>6. Begin(r, q) /\ UNCHANGED <<plans, config, up>>
  BY <1>3 DEF VirtualRead
<1> HIDE DEF q
<1>7. Fits(q) /\ ~Reconciling(q) /\ Ready(PlacementMap(plans), asked, config, q)
  BY <1>4, <1>5 DEF Fits, Reconciling, Ready, Saves
<1> QED
  BY <1>5, <1>6, <1>7, Begins

\* The virtual devices are saved, and promised from now on.
LEMMA VirtualRenameStep == ASSUME IInv, NEW r \in Slots, VirtualRename(r) PROVE IInv'
<1> DEFINE new == [asked EXCEPT !.virtual = config'.virtual]
<1>1. /\ req[r].phase = "writing" /\ req[r].kind = "virtual" /\ InFlight(r) /\ req' = [req EXCEPT ![r] = Idle]
      /\ config' = req[r].got /\ asked' = (IF disturbed THEN asked ELSE new)
      /\ UNCHANGED <<plans, up, count, disturbed>>
  BY DEF VirtualRename, InFlight
<1>2. req[r] \in Request /\ asked \in Asked
  BY <1>1 DEF IInv, Types, Idle
<1>3. config' \in Config
  BY <1>1, <1>2 DEF Request
<1>4. new \in Asked /\ new.virtual = config'.virtual /\ new.room = asked.room /\ new.name = asked.name
  BY <1>2, <1>3 DEF Asked, Config
<1> HIDE DEF new
<1>5. ASSUME ~disturbed, Undisturbed
      PROVE  FilesRight(PlacementMap(plans), asked', config') /\ ConfigFollows(PlacementMap(plans), config')
  <2>1. FilesRight(PlacementMap(plans), asked, config) /\ ConfigFollows(PlacementMap(plans), config)
    BY <1>1, <1>5, FollowsNow DEF Undisturbed, Reconciling
  <2>2. config'.devices = config.devices /\ config'.mics = config.mics
    BY <1>1, <1>5 DEF Undisturbed, Ready
  <2>3. asked'.virtual = config'.virtual /\ asked'.room = asked.room /\ asked'.name = asked.name
    BY <1>1, <1>4, <1>5
  <2> QED
    BY <2>1, <2>2, <2>3 DEF FilesRight, ConfigFollows, PromisesKept, RoomKept, NameKept
<1>6. Idle.phase = "idle" /\ asked' \in Asked
  BY <1>1, <1>2, <1>4 DEF Idle
<1> QED
  BY <1>1, <1>3, <1>5, <1>6, Goes DEF IInv, Types

\* A request fails: what it had saved before counts as a disturbance.
LEMMA FailsStep == ASSUME IInv, NEW r \in Slots, Fails(r) PROVE IInv'
<1> DEFINE half == req[r].phase \in {"saved", "listed", "loaded", "mic", "micWriting"}
<1>1. /\ InFlight(r) /\ up' = TRUE /\ req' = [req EXCEPT ![r] = Idle]
      /\ disturbed' = (disturbed \/ half) /\ asked' = (IF half THEN NothingAsked ELSE asked)
      /\ UNCHANGED <<plans, config, count>>
  BY DEF Fails, Disturb
<1>2. NothingAsked \in Asked
  BY DEF NothingAsked, Asked, IInv, Types, Config
<1>3. asked' \in Asked /\ disturbed' \in BOOLEAN /\ (~disturbed' => ~disturbed /\ ~half /\ asked' = asked)
  BY <1>1, <1>2 DEF IInv, Types
<1>4. ~half => ~Reconciling(req[r])
  BY DEF Reconciling
<1> HIDE DEF half
<1>5. ASSUME ~disturbed', Undisturbed
      PROVE  FilesRight(PlacementMap(plans), asked, config) /\ ConfigFollows(PlacementMap(plans), config)
  BY <1>1, <1>3, <1>4, <1>5, FollowsNow DEF Undisturbed
<1>6. Idle.phase = "idle"
  BY DEF Idle
<1> QED
  BY <1>1, <1>3, <1>5, <1>6, Goes DEF IInv, Types

\* The gateway stops and starts: a reconciliation is under way, alone.
LEMMA CrashStep == ASSUME IInv, NEW r \in Slots, Crash(r) PROVE IInv'
<1> DEFINE q == NewRequest("boot", "saved")
           busy == \E s \in Slots : InFlight(s)
<1>1. /\ count < MaxRequests /\ count' = count + 1 /\ up' = FALSE /\ UNCHANGED <<plans, config>>
      /\ req' = [s \in Slots |-> IF s = r THEN q ELSE Idle]
      /\ disturbed' = (disturbed \/ busy) /\ asked' = (IF busy THEN NothingAsked ELSE asked)
  BY DEF Crash, Disturb
<1>2. q \in Request /\ q.kind = "boot" /\ q.phase = "saved"
  BY NewRequestType DEF IInv, Kinds, Phases
<1> HIDE DEF q
<1>3. req' \in [Slots -> Request \cup {Idle}] /\ \A s \in Slots : InFlight(s)' => s = r /\ req'[s] = q
  BY <1>1, <1>2 DEF InFlight, Idle
<1>4. Fits(q) /\ Reconciling(q)
  BY <1>2 DEF Fits, Reconciling
<1>5. NothingAsked \in Asked
  BY DEF NothingAsked, Asked, IInv, Types, Config
<1>6. count' \in 0 .. MaxRequests
  <2>1. count \in 0 .. MaxRequests
    BY DEF IInv, Types
  <2>2. count < MaxRequests /\ count' = count + 1
    BY DEF Crash
  <2> QED
    BY <2>1, <2>2, LimitType
<1>7. asked' \in Asked /\ disturbed' \in BOOLEAN /\ (~disturbed' => ~disturbed /\ asked' = asked)
  BY <1>1, <1>5 DEF IInv, Types
<1>8. Types'
  BY <1>1, <1>3, <1>4, <1>6, <1>7 DEF IInv, Types
<1>9. ASSUME ~disturbed'  PROVE Undisturbed'
  <2>1. Undisturbed /\ asked' = asked /\ config' = config /\ plans' = plans
    BY <1>1, <1>7, <1>9 DEF IInv
  <2>2. Solitary' /\ req'[r] = q
    BY <1>1, <1>3 DEF Solitary
  <2>3. Ready(PlacementMap(plans), asked, config, q)
    BY <1>2 DEF Ready
  <2> QED
    BY <1>3, <1>4, <2>1, <2>2, <2>3 DEF Undisturbed
<1> QED
  BY <1>8, <1>9 DEF IInv

-----------------------------------------------------------------------------
(* The theorems.                                                            *)

\* The gateway starts with a reconciliation; nothing is promised yet.
LEMMA InitIInv == Init => IInv
<1> SUFFICES ASSUME Init PROVE IInv
  OBVIOUS
<1>1. plans \in PlansType /\ config \in Config /\ up = FALSE /\ disturbed = TRUE /\ asked = NothingAsked
  BY DeviceConfigAssumption DEF Init, PlansType
<1>2. asked \in Asked
  BY <1>1 DEF NothingAsked, Asked, Config
<1>3. count \in 0 .. MaxRequests
  BY LimitType DEF Init
<1> DEFINE q == NewRequest("boot", "saved")
<1>4. PICK r \in Slots : req = [s \in Slots |-> IF s = r THEN q ELSE Idle]
  BY DEF Init
<1>5. q \in Request /\ q.kind = "boot" /\ q.phase = "saved"
  <2>1. plans \in [Plans -> Layouts \cup {None}]
    BY <1>1 DEF PlansType
  <2>2. [d \in Devices |-> None] \in [Devices -> Derived \cup {None}]
    OBVIOUS
  <2> QED
    BY <1>1, <2>1, <2>2, BlankType DEF NewRequest, Request, Kinds, Phases
<1> HIDE DEF q
<1>6. req \in [Slots -> Request \cup {Idle}] /\ \A s \in Slots : InFlight(s) => req[s] = q
  BY <1>4, <1>5 DEF InFlight, Idle
<1>7. Fits(q)
  BY <1>5 DEF Fits
<1> QED
  BY <1>1, <1>2, <1>3, <1>6, <1>7 DEF IInv, Types

\* Every step keeps the invariant.
LEMMA NextIInv == IInv /\ [Next]_vars => IInv'
<1> SUFFICES ASSUME IInv, [Next]_vars PROVE IInv'
  OBVIOUS
<1>1. CASE UNCHANGED vars
  <2>1. Types'
    BY <1>1 DEF vars, IInv, Types, InFlight
  <2>2. Undisturbed => Undisturbed'
    BY <1>1 DEF vars, Undisturbed, Solitary, InFlight
  <2>3. disturbed' = disturbed
    BY <1>1 DEF vars
  <2> QED
    BY <2>1, <2>2, <2>3 DEF IInv
<1>2. CASE Next
  BY <1>2, PlanReadStep, PlanRenameStep, ListPlansStep, LoadStep, ReconcileStep, OpenStep, RenameStep,
     DeleteReadStep, PutReadStep, SaveLoadStep, SaveRenameStep, MicReadStep, MicRenameStep, VirtualReadStep,
     VirtualRenameStep, FailsStep, CrashStep DEF Next
<1> QED
  BY <1>1, <1>2

\* server.js, device-overrides-store.js: while nothing has disturbed, one request at most is
\* under way, what it has read is still so, and what it will write keeps what was promised.
THEOREM ConfigInvariant == Spec => []IInv
<1> QED
  BY InitIInv, NextIInv, PTL DEF Spec

\* Every variable keeps its type.
THEOREM TypeCorrect == Spec => []TypeOK
<1>1. IInv => TypeOK
  BY DEF IInv, Types, TypeOK, PlansType, InFlight, Idle
<1> QED
  BY <1>1, ConfigInvariant, PTL

\* What holds when nothing has disturbed and no request is under way.
LEMMA QuietFacts ==
  ASSUME IInv, Quiet
  PROVE  FilesRight(PlacementMap(plans), asked, config) /\ ConfigFollows(PlacementMap(plans), config)
<1>1. Undisturbed /\ \A r \in Slots : ~Reconciling(req[r])
  BY DEF IInv, Quiet, InFlight, Reconciling
<1> QED
  BY <1>1 DEF Undisturbed

\* device-overrides-store.js:89-321: after one reconciliation that nothing disturbs no entry and no
\* microphone holds on to a floorplan it is not on, for any devices, plans and leftovers.
THEOREM PlacementsAreRepaired == Spec => []PlacementsRepaired
<1>1. IInv => PlacementsRepaired
  BY QuietFacts DEF PlacementsRepaired, ConfigFollows, DevicesFollow, MicsFollow, Follows, PositionFollows, FollowsPlans
<1> QED
  BY <1>1, ConfigInvariant, PTL

\* device-overrides-store.js:89-321: a room that a user typed stays through any change of floorplans
\* and any restart.
THEOREM TypedRoomsStay == Spec => []TypedRoomKept
<1>1. IInv => TypedRoomKept
  BY QuietFacts DEF TypedRoomKept, FilesRight, PromisesKept, RoomKept
<1> QED
  BY <1>1, ConfigInvariant, PTL

\* device-overrides-store.js, virtual-devices-store.js: what was saved in one part of
\* devices.config.json survives the writes of the others.
THEOREM SavedPartsStay == Spec => []SavedPartsKept
<1>1. IInv /\ Quiet => config.virtual = asked.virtual
  BY QuietFacts DEF FilesRight
<1>2. IInv /\ Quiet => \A d \in asked.name : config.devices[d] # None /\ config.devices[d].name
  <2> SUFFICES ASSUME IInv, Quiet, NEW d \in asked.name
               PROVE  config.devices[d] # None /\ config.devices[d].name
    OBVIOUS
  <2>1. d \in Devices
    BY DEF IInv, Types, Asked
  <2> QED
    BY <2>1, QuietFacts DEF FilesRight, PromisesKept, NameKept
<1>3. IInv => SavedPartsKept
  BY <1>1, <1>2 DEF SavedPartsKept
<1> QED
  BY <1>3, ConfigInvariant, PTL

-----------------------------------------------------------------------------
(* The floorplan page: its invariant.                                       *)

Names == {"load", "save", "create", "delete"}
CallsNamed == \A c \in Calls :
  /\ calls[c].kind \in Names => calls[c].id \in Plans
  /\ calls[c].kind = "virtual" => calls[c].dev \in Devices
AnswersSound == \A c \in Calls : calls[c].at = "ok" /\ calls[c].kind \in {"load", "save"} => Sound(calls[c].body)

AtMostOne == \A c, k \in Calls : Busy(c) /\ Busy(k) => c = k
Waits(kind) == \E c \in Calls : calls[c].kind = kind
Settled == \A c \in Calls : calls[c].kind \in {"save", "delete"} => calls[c].at # "ok"

\* What a call that nothing overlaps finds when it is answered.
AsAnswered(q) ==
  /\ q.kind \in {"load", "save"} /\ q.at = "ok" => stored[q.id] = q.body
  /\ q.kind = "load" /\ page.stage = "editor" => page.active = q.id
  /\ q.kind = "save" /\ page.stage = "editor" => page.id = q.id
  /\ q.kind = "create" => page.stage = "browse"

Undoubted ==
  /\ AtMostOne
  /\ \A c \in Calls : AsAnswered(calls[c])
  /\ page.stage = "editor" /\ page.id # None /\ ~Waits("load") => page.active = page.id
  /\ page.id # None /\ Settled => stored[page.id] # None /\ stored[page.id] = page.saved

\* What is about to be placed is not there yet.
Free(d, plan) == d # None => d \notin Placed(plan)
AsPlaced(q) ==
  /\ q.kind = "save" => Free(page.placing, q.body) /\ (page.stage = "editor" => q.body = page.draft)
  /\ q.kind = "virtual" /\ ~q.placed => q.dev \notin Placed(page.draft)

Unhurried ==
  /\ EachOnce(page.draft) /\ Free(page.placing, page.draft)
  /\ \A c \in Calls : AsPlaced(calls[c])

PageInv ==
  /\ PageTypeOK /\ SoundFile(stored) /\ CallsNamed /\ AnswersSound
  /\ RoomsExist(page.draft)
  /\ ~doubt => Undoubted
  /\ ~doubt /\ ~hasty => Unhurried

LEMMA BareFacts ==
  /\ AnyLook \in Looks
  /\ \A look \in Looks : Bare(look) \in Plan /\ Sound(Bare(look)) /\ RoomsExist(Bare(look)) /\ Placed(Bare(look)) = {}
  /\ NoCall \in Call /\ NoCall.kind = "none"
<1>1. AnyLook \in Looks
  BY FloorplanAssumption DEF AnyLook
<1>2. ASSUME NEW look \in Looks
      PROVE Bare(look) \in Plan /\ Sound(Bare(look)) /\ RoomsExist(Bare(look)) /\ Placed(Bare(look)) = {}
  BY DEF Bare, Plan, Sound, RoomsExist, EachOnce, Placed
<1>3. NoCall \in Call /\ NoCall.kind = "none"
  BY <1>1, <1>2 DEF NoCall, Call, CallKinds
<1> QED
  BY <1>1, <1>2, <1>3

LEMMA NewCallFacts ==
  ASSUME NEW kind \in CallKinds, NEW id \in Plans \cup {None}
  PROVE  /\ NewCall(kind, id) \in Call
         /\ NewCall(kind, id).kind = kind /\ NewCall(kind, id).id = id
         /\ NewCall(kind, id).at = "sent" /\ NewCall(kind, id).dev = None /\ ~NewCall(kind, id).placed
<1>1. NoCall \in Call /\ NoCall.at = "sent" /\ NoCall.dev = None /\ ~NoCall.placed
  BY BareFacts DEF NoCall
<1> HIDE DEF NoCall
<1> QED
  BY <1>1 DEF NewCall, Call

\* A call is sent: unless others are under way it is the only one.
LEMMA SendKeeps ==
  ASSUME PageInv, NEW c \in Calls, NEW q \in Call, Send(c, q), page' \in Page,
         q.at = "sent", q.kind # "none", q.kind \in Names => q.id \in Plans, q.kind = "virtual" => q.dev \in Devices,
         RoomsExist(page'.draft),
         ~doubt' => /\ page'.stage = "editor" /\ page'.id # None /\ q.kind # "load" => page'.active = page'.id
                    /\ page'.id = page.id /\ page'.saved = page.saved
                    /\ q.kind = "load" /\ page'.stage = "editor" => page'.active = q.id
                    /\ q.kind = "save" /\ page'.stage = "editor" => page'.id = q.id
                    /\ q.kind = "create" => page'.stage = "browse",
         ~doubt' /\ ~hasty' =>
                   /\ EachOnce(page'.draft) /\ Free(page'.placing, page'.draft)
                   /\ q.kind = "save" => Free(page'.placing, q.body) /\ (page'.stage = "editor" => q.body = page'.draft)
                   /\ q.kind = "virtual" /\ ~q.placed => q.dev \notin Placed(page'.draft)
  PROVE  PageInv'
<1>1. /\ ~Busy(c) /\ sent < MaxCalls /\ sent' = sent + 1 /\ calls' = [calls EXCEPT ![c] = q]
      /\ doubt' = (doubt \/ ~Alone(c)) /\ stored' = stored /\ edits' = edits /\ hasty' = hasty
  BY DEF Send
<1>2. calls' \in [Calls -> Call] /\ calls'[c] = q /\ \A k \in Calls \ {c} : calls'[k] = calls[k]
  BY <1>1 DEF PageInv, PageTypeOK
<1>3. PageTypeOK' /\ SoundFile(stored)' /\ RoomsExist(page.draft)'
  BY <1>1, <1>2, FloorplanAssumption DEF PageInv, PageTypeOK
<1>4. CallsNamed' /\ AnswersSound'
  BY <1>2 DEF PageInv, CallsNamed, AnswersSound
<1>5. ASSUME ~doubt' PROVE Undoubted'
  <2>1. ~doubt /\ Undoubted /\ \A k \in Calls \ {c} : calls'[k].kind = "none"
    BY <1>1, <1>2, <1>5 DEF PageInv, PageTypeOK, Alone, Busy
  <2>2. AtMostOne'
    BY <1>2, <2>1 DEF AtMostOne, Busy
  <2>3. ASSUME NEW k \in Calls PROVE AsAnswered(calls[k])'
    BY <1>1, <1>2, <1>5, <2>1 DEF AsAnswered
  <2>4. Settled /\ (q.kind = "load" => Waits("load")')
    BY <1>1, <1>2, <2>1 DEF Settled, Waits, Busy
  <2>5. (page.stage = "editor" /\ page.id # None /\ ~Waits("load") => page.active = page.id)'
    BY <1>5, <2>1, <2>4
  <2>6. (page.id # None /\ Settled => stored[page.id] # None /\ stored[page.id] = page.saved)'
    BY <1>1, <1>5, <2>1, <2>4 DEF Undoubted
  <2> QED
    BY <2>2, <2>3, <2>5, <2>6 DEF Undoubted
<1>6. ASSUME ~doubt', ~hasty' PROVE Unhurried'
  <2>1. ~doubt /\ ~hasty /\ \A k \in Calls \ {c} : calls'[k].kind = "none"
    BY <1>1, <1>2, <1>6 DEF PageInv, PageTypeOK, Alone, Busy
  <2>2. ASSUME NEW k \in Calls PROVE AsPlaced(calls[k])'
    BY <1>1, <1>2, <1>6, <2>1 DEF AsPlaced, Free, Placed
  <2> QED
    BY <1>6, <2>1, <2>2 DEF Unhurried, Free, Placed, EachOnce
<1> QED
  BY <1>3, <1>4, <1>5, <1>6 DEF PageInv

\* The draft is edited.
LEMMA EditKeeps ==
  ASSUME PageInv, NEW plan \in Plan, NEW placing \in Devices \cup {None}, Edit(plan, placing), RoomsExist(plan),
         ~doubt /\ ~hasty => EachOnce(plan) /\ Free(placing, plan)
  PROVE  PageInv'
<1>1. /\ page.stage = "editor" /\ page.id # None /\ edits < MaxEdits /\ edits' = edits + 1
      /\ page' = [page EXCEPT !.draft = plan, !.placing = placing]
      /\ hasty' = (hasty \/ \E c \in Calls : Busy(c))
      /\ stored' = stored /\ calls' = calls /\ sent' = sent /\ doubt' = doubt
  BY DEF Edit
<1>2. /\ page' \in Page /\ page'.draft = plan /\ page'.placing = placing /\ page'.stage = page.stage
      /\ page'.active = page.active /\ page'.id = page.id /\ page'.saved = page.saved
  BY <1>1 DEF PageInv, PageTypeOK, Page
<1>3. PageTypeOK' /\ SoundFile(stored)' /\ CallsNamed' /\ AnswersSound' /\ RoomsExist(page.draft)'
  BY <1>1, <1>2, FloorplanAssumption DEF PageInv, PageTypeOK, CallsNamed, AnswersSound
<1>4. ASSUME ~doubt' PROVE Undoubted'
  BY <1>1, <1>2, <1>4 DEF PageInv, Undoubted, AtMostOne, Busy, AsAnswered, Waits, Settled
<1>5. ASSUME ~doubt', ~hasty' PROVE Unhurried'
  <2>1. ~doubt /\ ~hasty /\ \A c \in Calls : calls'[c].kind = "none"
    BY <1>1, <1>5 DEF PageInv, PageTypeOK, Busy
  <2>2. \A c \in Calls : AsPlaced(calls[c])'
    BY <2>1 DEF AsPlaced
  <2> QED
    BY <1>2, <2>1, <2>2 DEF Unhurried, EachOnce, Free, Placed
<1> QED
  BY <1>3, <1>4, <1>5 DEF PageInv

\* A call is answered or lost, and the page and the histories changed by that.
LEMMA AnswerKeeps ==
  ASSUME PageInv, NEW c \in Calls, Busy(c), Finished(c), page' \in Page, doubt' \in BOOLEAN, hasty' \in BOOLEAN,
         RoomsExist(page'.draft),
         ~doubt' => /\ page'.stage = "editor" /\ page'.id # None => page'.active = page'.id
                    /\ page'.id # None => stored[page'.id] # None /\ stored[page'.id] = page'.saved
                    /\ \A k \in Calls \ {c} : ~Busy(k),
         ~doubt' /\ ~hasty' => EachOnce(page'.draft) /\ Free(page'.placing, page'.draft)
  PROVE  PageInv'
<1>1. calls' = [calls EXCEPT ![c] = NoCall] /\ stored' = stored /\ edits' = edits /\ sent' = sent
  BY DEF Finished
<1>2. calls' \in [Calls -> Call] /\ calls'[c] = NoCall /\ \A k \in Calls \ {c} : calls'[k] = calls[k]
  BY <1>1, BareFacts DEF PageInv, PageTypeOK
<1>3. PageTypeOK' /\ SoundFile(stored)' /\ RoomsExist(page.draft)'
  BY <1>1, <1>2 DEF PageInv, PageTypeOK
<1>4. CallsNamed' /\ AnswersSound'
  BY <1>2, BareFacts DEF PageInv, CallsNamed, AnswersSound, Names
<1>5. ASSUME ~doubt' PROVE Undoubted' /\ \A k \in Calls : calls'[k].kind = "none"
  <2>1. \A k \in Calls : calls'[k].kind = "none"
    BY <1>2, <1>5, BareFacts DEF Busy
  <2> QED
    BY <1>1, <1>5, <2>1 DEF Undoubted, AtMostOne, Busy, AsAnswered
<1>6. ASSUME ~doubt', ~hasty' PROVE Unhurried'
  BY <1>5, <1>6 DEF Unhurried, AsPlaced, EachOnce, Free, Placed
<1> QED
  BY <1>3, <1>4, <1>5, <1>6 DEF PageInv

\* The server answers a call, storing what it asks for or not.
LEMMA ServeKeeps ==
  ASSUME PageInv, NEW c \in Calls, Busy(c), NEW q \in Call, calls' = [calls EXCEPT ![c] = q],
         page' = page, edits' = edits, sent' = sent, hasty' = hasty, doubt' \in BOOLEAN,
         q.kind = calls[c].kind, q.id = calls[c].id, q.dev = calls[c].dev, q.placed = calls[c].placed,
         q.at = "ok" /\ q.kind \in {"load", "save"} => Sound(q.body) /\ stored'[q.id] = q.body,
         q.kind # "load" => q.body = calls[c].body,
         stored' \in [Plans -> Plan \cup {None}], SoundFile(stored'),
         ~doubt' => /\ ~doubt
                    /\ page.id # None /\ Settled' => stored'[page.id] # None /\ stored'[page.id] = page.saved
  PROVE  PageInv'
<1>2. calls' \in [Calls -> Call] /\ calls'[c] = q /\ \A k \in Calls \ {c} : calls'[k] = calls[k]
  BY DEF PageInv, PageTypeOK
<1>3. PageTypeOK' /\ SoundFile(stored)' /\ RoomsExist(page.draft)'
  BY <1>2 DEF PageInv, PageTypeOK
<1>4. CallsNamed' /\ AnswersSound'
  BY <1>2 DEF PageInv, CallsNamed, AnswersSound
<1>5. ASSUME ~doubt' PROVE Undoubted'
  <2>1. Undoubted /\ \A k \in Calls \ {c} : calls'[k] = calls[k] /\ ~Busy(k)
    BY <1>2, <1>5 DEF PageInv, Undoubted, AtMostOne
  <2>2. AtMostOne'
    BY <1>2, <2>1 DEF AtMostOne, Busy
  <2>3. ASSUME NEW k \in Calls PROVE AsAnswered(calls[k])'
    BY <1>2, <2>1 DEF AsAnswered, Undoubted, Busy
  <2>4. Waits("load")' <=> Waits("load")
    BY <1>2 DEF Waits
  <2> QED
    BY <1>5, <2>1, <2>2, <2>3, <2>4 DEF Undoubted
<1>6. ASSUME ~doubt', ~hasty' PROVE Unhurried'
  <2>1. ASSUME NEW k \in Calls PROVE AsPlaced(calls[k])'
    BY <1>2, <1>6 DEF PageInv, Unhurried, AsPlaced
  <2> QED
    BY <1>6, <2>1 DEF PageInv, Unhurried
<1> QED
  BY <1>3, <1>4, <1>5, <1>6 DEF PageInv

\* What each edit makes of a plan.
LEMMA PlanWith ==
  ASSUME NEW plan \in Plan, NEW rooms \in [Rooms -> Nat], NEW devices \in SUBSET Placement
  PROVE  [plan EXCEPT !.rooms = rooms, !.devices = devices] \in Plan
BY DEF Plan

LEMMA PlanWithDevices ==
  ASSUME NEW plan \in Plan, NEW devices \in SUBSET Placement
  PROVE  [plan EXCEPT !.devices = devices] \in Plan
BY DEF Plan

LEMMA RoomRemoved ==
  ASSUME NEW plan \in Plan, NEW r \in Rooms, RoomsExist(plan)
  PROVE  /\ WithoutRoom(plan, r) \in Plan /\ RoomsExist(WithoutRoom(plan, r))
         /\ Placed(WithoutRoom(plan, r)) = Placed(plan)
         /\ EachOnce(plan) => EachOnce(WithoutRoom(plan, r))
<1> DEFINE new == WithoutRoom(plan, r)
<1>1. /\ new.rooms = [plan.rooms EXCEPT ![r] = 0] /\ new.devices = {Emptied(x, r) : x \in plan.devices}
      /\ plan.rooms \in [Rooms -> Nat] /\ plan.devices \subseteq Placement
  BY DEF Plan, WithoutRoom
<1>2. ASSUME NEW x \in Placement
      PROVE /\ Emptied(x, r) \in Placement /\ Emptied(x, r).dev = x.dev
            /\ Emptied(x, r).room = IF x.room = r THEN "" ELSE x.room
  BY DEF Emptied, Placement, Named
<1>3. new \in Plan
  <2>1. new.rooms \in [Rooms -> Nat]
    BY <1>1
  <2>2. new.devices \subseteq Placement
    <3> SUFFICES ASSUME NEW y \in new.devices PROVE y \in Placement
      OBVIOUS
    <3>1. PICK x \in plan.devices : y = Emptied(x, r)
      BY <1>1
    <3> QED
      BY <1>1, <1>2, <3>1
  <2> QED
    BY <1>1, <2>1, <2>2, PlanWith DEF WithoutRoom
<1> HIDE DEF new
<1>4. RoomsExist(new)
  <2> SUFFICES ASSUME NEW y \in new.devices PROVE y.room \in RoomsAt(new)
    BY DEF RoomsExist
  <2>1. PICK x \in plan.devices : y = Emptied(x, r)
    BY <1>1
  <2>2. x \in Placement
    BY <1>1
  <2>3. x.room \in RoomsAt(plan)
    BY DEF RoomsExist
  <2>4. CASE x.room = r
    <3>1. y.room = ""
      BY <1>2, <2>1, <2>2, <2>4
    <3> QED
      BY <3>1 DEF RoomsAt
  <2>5. CASE x.room # r
    <3>1. y.room = x.room
      BY <1>2, <2>1, <2>2, <2>5
    <3>2. x.room \in RoomsOf(plan) => x.room \in RoomsOf(new)
      BY <1>1, <2>5 DEF RoomsOf, RoomsAt
    <3> QED
      BY <2>3, <3>1, <3>2 DEF RoomsAt
  <2> QED
    BY <2>4, <2>5
<1>5. Placed(new) = Placed(plan)
  <2>1. ASSUME NEW d1 \in Placed(plan) PROVE d1 \in Placed(new)
    <3>1. PICK x \in plan.devices : d1 = x.dev
      BY DEF Placed
    <3>2. Emptied(x, r) \in new.devices /\ Emptied(x, r).dev = d1
      BY <1>1, <1>2, <3>1
    <3> QED
      BY <3>2 DEF Placed
  <2>2. ASSUME NEW d1 \in Placed(new) PROVE d1 \in Placed(plan)
    <3>1. PICK y \in new.devices : d1 = y.dev
      BY DEF Placed
    <3>2. PICK x \in plan.devices : y = Emptied(x, r)
      BY <1>1
    <3>3. x.dev = d1
      BY <1>1, <1>2, <3>1, <3>2
    <3> QED
      BY <3>3 DEF Placed
  <2> QED
    BY <2>1, <2>2
<1>6. EachOnce(plan) => EachOnce(new)
  <2> SUFFICES ASSUME EachOnce(plan), NEW y \in new.devices, NEW z \in new.devices, y.dev = z.dev PROVE y = z
    BY DEF EachOnce
  <2>1. PICK u \in plan.devices : y = Emptied(u, r)
    BY <1>1
  <2>2. PICK v \in plan.devices : z = Emptied(v, r)
    BY <1>1
  <2> QED
    BY <1>1, <1>2, <2>1, <2>2 DEF EachOnce
<1> QED
  BY <1>3, <1>4, <1>5, <1>6 DEF new

LEMMA DeviceMoved ==
  ASSUME NEW plan \in Plan, NEW d, NEW room \in RoomsAt(plan), RoomsExist(plan)
  PROVE  /\ Rearranged(plan, d, room) \in Plan /\ RoomsExist(Rearranged(plan, d, room))
         /\ Placed(Rearranged(plan, d, room)) = Placed(plan)
         /\ EachOnce(plan) => EachOnce(Rearranged(plan, d, room))
<1> DEFINE new == Rearranged(plan, d, room)
<1>1. /\ new.rooms = plan.rooms /\ new.devices = {Moved(x, d, room) : x \in plan.devices}
      /\ plan.devices \subseteq Placement
  BY DEF Plan, Rearranged
<1>2. ASSUME NEW x \in Placement
      PROVE /\ Moved(x, d, room) \in Placement /\ Moved(x, d, room).dev = x.dev
            /\ Moved(x, d, room).room = IF x.dev = d THEN room ELSE x.room
  BY DEF Moved, Placement, Named, RoomsOf, RoomsAt
<1>3. new \in Plan
  <2>1. new.devices \subseteq Placement
    <3> SUFFICES ASSUME NEW y \in new.devices PROVE y \in Placement
      OBVIOUS
    <3>1. PICK x \in plan.devices : y = Moved(x, d, room)
      BY <1>1
    <3> QED
      BY <1>1, <1>2, <3>1
  <2> QED
    BY <1>1, <2>1, PlanWithDevices DEF Rearranged
<1> HIDE DEF new
<1>4. RoomsExist(new)
  <2> SUFFICES ASSUME NEW y \in new.devices PROVE y.room \in RoomsAt(new)
    BY DEF RoomsExist
  <2>1. RoomsOf(new) = RoomsOf(plan)
    BY <1>1 DEF RoomsOf, RoomsAt
  <2>2. PICK x \in plan.devices : y = Moved(x, d, room)
    BY <1>1
  <2>3. x \in Placement /\ x.room \in RoomsAt(plan)
    BY <1>1 DEF RoomsExist
  <2>4. y.room \in {room, x.room}
    BY <1>2, <2>2, <2>3
  <2> QED
    BY <2>1, <2>3, <2>4 DEF RoomsAt
<1>5. Placed(new) = Placed(plan)
  <2>1. ASSUME NEW d1 \in Placed(plan) PROVE d1 \in Placed(new)
    <3>1. PICK x \in plan.devices : d1 = x.dev
      BY DEF Placed
    <3>2. Moved(x, d, room) \in new.devices /\ Moved(x, d, room).dev = d1
      BY <1>1, <1>2, <3>1
    <3> QED
      BY <3>2 DEF Placed
  <2>2. ASSUME NEW d1 \in Placed(new) PROVE d1 \in Placed(plan)
    <3>1. PICK y \in new.devices : d1 = y.dev
      BY DEF Placed
    <3>2. PICK x \in plan.devices : y = Moved(x, d, room)
      BY <1>1
    <3>3. x.dev = d1
      BY <1>1, <1>2, <3>1, <3>2
    <3> QED
      BY <3>3 DEF Placed
  <2> QED
    BY <2>1, <2>2
<1>6. EachOnce(plan) => EachOnce(new)
  <2> SUFFICES ASSUME EachOnce(plan), NEW y \in new.devices, NEW z \in new.devices, y.dev = z.dev PROVE y = z
    BY DEF EachOnce
  <2>1. PICK u \in plan.devices : y = Moved(u, d, room)
    BY <1>1
  <2>2. PICK v \in plan.devices : z = Moved(v, d, room)
    BY <1>1
  <2> QED
    BY <1>1, <1>2, <2>1, <2>2 DEF EachOnce
<1> QED
  BY <1>3, <1>4, <1>5, <1>6 DEF new

LEMMA DeviceAdded ==
  ASSUME NEW plan \in Plan, NEW x \in Placement, x.room \in RoomsAt(plan), RoomsExist(plan)
  PROVE  /\ Added(plan, x) \in Plan /\ RoomsExist(Added(plan, x))
         /\ EachOnce(plan) /\ x.dev \notin Placed(plan) => EachOnce(Added(plan, x))
<1> DEFINE new == Added(plan, x)
<1>1. new.rooms = plan.rooms /\ new.devices = plan.devices \cup {x} /\ plan.devices \subseteq Placement
  BY DEF Plan, Added
<1>2. new \in Plan
  BY <1>1 DEF Plan, Added
<1> HIDE DEF new
<1>3. RoomsExist(new)
  BY <1>1 DEF RoomsExist, RoomsOf, RoomsAt
<1>4. EachOnce(plan) /\ x.dev \notin Placed(plan) => EachOnce(new)
  BY <1>1 DEF EachOnce, Placed
<1> QED
  BY <1>2, <1>3, <1>4 DEF new

LEMMA DeviceRemoved ==
  ASSUME NEW plan \in Plan, NEW new \in Plan, RoomsExist(plan), new.rooms = plan.rooms, new.devices \subseteq plan.devices
  PROVE  RoomsExist(new) /\ Placed(new) \subseteq Placed(plan) /\ (EachOnce(plan) => EachOnce(new))
<1>1. RoomsOf(new) = RoomsOf(plan)
  BY DEF RoomsOf, RoomsAt
<1> QED
  BY <1>1 DEF RoomsExist, Placed, EachOnce, RoomsAt

\* Only what is to be placed changes, or the mode.
LEMMA PlacingKeeps ==
  ASSUME PageInv, NEW placing \in Devices \cup {None}, NEW mode \in {"view", "rooms", "devices"},
         page' \in {[page EXCEPT !.placing = placing], [page EXCEPT !.mode = mode, !.placing = placing]},
         ~doubt /\ ~hasty =>
           Free(placing, page.draft) /\ \A c \in Calls : calls[c].kind = "save" => Free(placing, calls[c].body),
         UNCHANGED <<stored, calls, edits, sent, doubt, hasty>>
  PROVE  PageInv'
<1>2. /\ page' \in Page /\ page'.draft = page.draft /\ page'.placing = placing /\ page'.stage = page.stage
      /\ page'.active = page.active /\ page'.id = page.id /\ page'.saved = page.saved
  BY DEF PageInv, PageTypeOK, Page
<1>3. PageTypeOK' /\ SoundFile(stored)' /\ CallsNamed' /\ AnswersSound' /\ RoomsExist(page.draft)'
  BY <1>2 DEF PageInv, PageTypeOK, CallsNamed, AnswersSound
<1>4. ASSUME ~doubt' PROVE Undoubted'
  BY <1>2, <1>4 DEF PageInv, Undoubted, AtMostOne, Busy, AsAnswered, Waits, Settled
<1>5. ASSUME ~doubt', ~hasty' PROVE Unhurried'
  <2>1. ~doubt /\ ~hasty /\ Unhurried
    BY <1>5 DEF PageInv
  <2>2. \A c \in Calls : AsPlaced(calls[c])'
    BY <1>2, <2>1 DEF Unhurried, AsPlaced
  <2> QED
    BY <1>2, <2>1, <2>2 DEF Unhurried
<1> QED
  BY <1>3, <1>4, <1>5 DEF PageInv

LEMMA EditingKeeps == PageInv /\ Editing => PageInv'
<1> SUFFICES ASSUME PageInv, Editing PROVE PageInv'
  OBVIOUS
<1> DEFINE draft == page.draft
<1>0. edits + 1 \in Nat
  BY FloorplanAssumption DEF PageInv, PageTypeOK
<1>1. /\ draft \in Plan /\ RoomsExist(draft) /\ page.placing \in Devices \cup {None}
      /\ ~doubt /\ ~hasty => EachOnce(draft) /\ Free(page.placing, draft)
  BY FloorplanAssumption DEF PageInv, PageTypeOK, Page, Unhurried
<1>2. ASSUME NEW look \in Looks, EditLook(look) PROVE PageInv'
  <2> DEFINE new == [draft EXCEPT !.look = look]
  <2>1. new \in Plan /\ new.rooms = draft.rooms /\ new.devices \subseteq draft.devices
    BY <1>1 DEF Plan
  <2> QED
    BY <1>1, <1>2, <2>1, DeviceRemoved, EditKeeps DEF EditLook, Free
<1>3. ASSUME NEW r \in Rooms, FinishRoom(r) PROVE PageInv'
  <2> DEFINE new == [draft EXCEPT !.rooms[r] = @ + 1]
  <2>1. new \in Plan /\ new.rooms = [draft.rooms EXCEPT ![r] = @ + 1] /\ new.devices = draft.devices
    <3>1. draft.rooms \in [Rooms -> Nat] /\ draft.rooms[r] + 1 \in Nat
      BY <1>1 DEF Plan
    <3>2. [draft.rooms EXCEPT ![r] = @ + 1] \in [Rooms -> Nat]
      BY <3>1
    <3> QED
      BY <1>1, <3>2 DEF Plan
  <2>2. RoomsExist(new)
    <3>1. RoomsOf(draft) \subseteq RoomsOf(new)
      BY <1>1, <2>1 DEF RoomsOf, RoomsAt, Plan
    <3> QED
      BY <1>1, <2>1, <3>1 DEF RoomsExist, RoomsAt
  <2>3. Placed(new) = Placed(draft) /\ (EachOnce(draft) => EachOnce(new))
    BY <2>1 DEF Placed, EachOnce
  <2> QED
    BY <1>1, <1>3, <2>1, <2>2, <2>3, EditKeeps DEF FinishRoom, Free
<1>4. ASSUME NEW r \in Rooms, RemoveRoom(r) PROVE PageInv'
  BY <1>1, <1>4, RoomRemoved, EditKeeps DEF RemoveRoom, Free
<1>5. ASSUME NEW d \in Devices, RemoveDevice(d) PROVE PageInv'
  <2> DEFINE new == [draft EXCEPT !.devices = {x \in draft.devices : x.dev # d}]
  <2>1. new \in Plan /\ new.rooms = draft.rooms /\ new.devices \subseteq draft.devices
    BY <1>1 DEF Plan
  <2> QED
    BY <1>1, <1>5, <2>1, DeviceRemoved, EditKeeps DEF RemoveDevice, Free
<1>6. ASSUME NEW room \in RoomsAt(draft), PlaceDevice(room) PROVE PageInv'
  <2> DEFINE x == [dev |-> page.placing, room |-> room, nth |-> edits + 1]
  <2>1. x \in Placement /\ x.dev = page.placing /\ x.room = room
    <3>1. page.placing \in Devices
      BY <1>1, <1>6 DEF PlaceDevice
    <3>2. room \in Named
      BY DEF Named, RoomsOf, RoomsAt
    <3> QED
      BY <1>0, <3>1, <3>2 DEF Placement
  <2> HIDE DEF x
  <2>2. Edit(Added(draft, x), None)
    BY <1>6 DEF PlaceDevice, x
  <2>3. Free(None, Added(draft, x))
    BY DEF Free
  <2> QED
    BY <1>1, <1>6, <2>1, <2>2, <2>3, DeviceAdded, EditKeeps DEF PlaceDevice, Free
<1>7. ASSUME NEW room \in RoomsAt(draft), NEW d \in Devices, MoveDevice(d, room) PROVE PageInv'
  BY <1>1, <1>7, DeviceMoved, EditKeeps DEF MoveDevice, Free
<1>8. ASSUME NEW scaled \in BOOLEAN, Edit([draft EXCEPT !.scaled = scaled], page.placing) PROVE PageInv'
  <2> DEFINE new == [draft EXCEPT !.scaled = scaled]
  <2>1. new \in Plan /\ new.rooms = draft.rooms /\ new.devices \subseteq draft.devices
    BY <1>1 DEF Plan
  <2> QED
    BY <1>1, <1>8, <2>1, DeviceRemoved, EditKeeps DEF Free
<1>9. ASSUME NEW d \in Devices, StartPlacing(d) PROVE PageInv'
  <2> DEFINE placing == IF draft.scaled /\ d \notin Placed(draft) THEN d ELSE None
  <2>1. placing \in Devices \cup {None} /\ Free(placing, draft)
    BY DEF Free
  <2>2. page' = [page EXCEPT !.placing = placing] /\ UNCHANGED <<stored, calls, edits, sent, doubt, hasty>>
    BY <1>9 DEF StartPlacing
  <2>3. ~doubt /\ ~hasty => \A c \in Calls : calls[c].kind = "save" => calls[c].body = draft
    BY <1>9 DEF StartPlacing, PageInv, Unhurried, AsPlaced
  <2> HIDE DEF placing
  <2> QED
    BY <2>1, <2>2, <2>3, PlacingKeeps
<1>10. CASE CancelPlacing
  BY <1>10, PlacingKeeps DEF CancelPlacing, Free
<1>11. CASE SaveImageScale
  BY <1>8, <1>11 DEF SaveImageScale
<1>12. CASE ClearImageScale
  BY <1>8, <1>12 DEF ClearImageScale
<1> QED
  BY <1>2, <1>3, <1>4, <1>5, <1>6, <1>7, <1>9, <1>10, <1>11, <1>12 DEF Editing

LEMMA ClearedFacts ==
  /\ Cleared.stage = "browse" /\ Cleared.id = None /\ Cleared.placing = None
  /\ Cleared.draft = Bare(AnyLook) /\ RoomsExist(Cleared.draft) /\ EachOnce(Cleared.draft) /\ Placed(Cleared.draft) = {}
  /\ page \in Page => Cleared \in Page
<1>1. Bare(AnyLook) \in Plan /\ RoomsExist(Bare(AnyLook)) /\ EachOnce(Bare(AnyLook)) /\ Placed(Bare(AnyLook)) = {}
  BY BareFacts DEF Sound
<1>2. page \in Page => Cleared \in Page
  BY <1>1 DEF Cleared, Page
<1>3. /\ Cleared.stage = "browse" /\ Cleared.id = None /\ Cleared.placing = None /\ Cleared.draft = Bare(AnyLook)
  BY DEF Cleared
<1> QED
  BY <1>1, <1>2, <1>3

LEMMA ReturnKeeps == PageInv /\ ReturnToBrowse => PageInv'
<1> SUFFICES ASSUME PageInv, ReturnToBrowse PROVE PageInv'
  OBVIOUS
<1>1. page' = Cleared /\ stored' = stored /\ calls' = calls /\ edits' = edits /\ sent' = sent /\ doubt' = doubt /\ hasty' = hasty
  BY DEF ReturnToBrowse
<1>2. /\ page' \in Page /\ page'.stage = "browse" /\ page'.id = None /\ page'.placing = None
      /\ RoomsExist(page'.draft) /\ EachOnce(page'.draft) /\ Placed(page'.draft) = {}
  BY <1>1, ClearedFacts DEF PageInv, PageTypeOK
<1>3. PageTypeOK' /\ SoundFile(stored)' /\ CallsNamed' /\ AnswersSound' /\ RoomsExist(page.draft)'
  BY <1>1, <1>2 DEF PageInv, PageTypeOK, CallsNamed, AnswersSound
<1>4. ASSUME ~doubt' PROVE Undoubted'
  BY <1>1, <1>2, <1>4 DEF PageInv, Undoubted, AtMostOne, Busy, AsAnswered
<1>5. ASSUME ~doubt', ~hasty' PROVE Unhurried'
  BY <1>1, <1>2, <1>5 DEF Unhurried, AsPlaced, Free, EachOnce, Placed
<1> QED
  BY <1>3, <1>4, <1>5 DEF PageInv

LEMMA ModeKeeps ==
  ASSUME PageInv, NEW m \in {"view", "rooms", "devices"}, SetMode(m)
  PROVE  PageInv'
<1> DEFINE placing == IF m = "devices" THEN page.placing ELSE None
<1>1. page.placing \in Devices \cup {None}
  BY DEF PageInv, PageTypeOK, Page
<1>2. /\ page.stage = "editor" /\ page' = [page EXCEPT !.mode = m, !.placing = placing]
      /\ UNCHANGED <<stored, calls, edits, sent, doubt, hasty>>
  BY DEF SetMode
<1>3. ~doubt /\ ~hasty => /\ Free(page.placing, page.draft)
                          /\ \A c \in Calls : calls[c].kind = "save" => calls[c].body = page.draft
  BY <1>2 DEF PageInv, Unhurried, AsPlaced
<1>4. placing \in {page.placing, None}
  OBVIOUS
<1> HIDE DEF placing
<1>5. ~doubt /\ ~hasty => Free(placing, page.draft)
  BY <1>3, <1>4 DEF Free
<1> QED
  BY <1>1, <1>2, <1>3, <1>4, <1>5, PlacingKeeps

\* Every call that the page sends.
LEMMA SendingKeeps ==
  ASSUME PageInv, NEW c \in Calls,
         \/ \E p \in Plans : EnterEditor(c, p) \/ \E look \in Looks : CreateFloorplan(c, p, look)
         \/ SaveFloorplan(c) \/ DeleteFloorplan(c)
         \/ \E d \in Simulated : SaveVirtualDevice(c, d)
         \/ \E look \in Looks : ReplaceImage(c, look)
  PROVE  PageInv'
<1>1. /\ page \in Page /\ page.draft \in Plan /\ page.id \in Plans \cup {None}
      /\ None \notin Plans /\ RoomsExist(page.draft) /\ Simulated \subseteq Devices
  BY FloorplanAssumption, DeviceConfigAssumption DEF PageInv, PageTypeOK, Page
<1>2. /\ ~doubt => (page.stage = "editor" /\ page.id # None /\ ~Waits("load") => page.active = page.id)
      /\ ~doubt /\ ~hasty => EachOnce(page.draft) /\ Free(page.placing, page.draft)
  BY DEF PageInv, Undoubted, Unhurried
<1>3. ASSUME NEW p \in Plans, EnterEditor(c, p) PROVE PageInv'
  <2> DEFINE q == NewCall("load", p)
  <2>1. /\ q \in Call /\ q.kind = "load" /\ q.id = p /\ q.at = "sent"
    BY NewCallFacts DEF CallKinds
  <2> HIDE DEF q
  <2>2. page' = [page EXCEPT !.stage = "editor", !.active = p, !.mode = "view", !.placing = None] /\ Send(c, q)
    BY <1>3 DEF EnterEditor, q
  <2>3. /\ page' \in Page /\ page'.draft = page.draft /\ page'.placing = None /\ page'.active = p
        /\ page'.id = page.id /\ page'.saved = page.saved
    BY <1>1, <2>2 DEF Page
  <2>4. (~doubt' => ~doubt) /\ hasty' = hasty
    BY <2>2 DEF Send
  <2> QED
    BY <1>1, <1>2, <2>1, <2>2, <2>3, <2>4, SendKeeps DEF Free
<1>4. ASSUME NEW q \in Call, Send(c, q), q.at = "sent", q.kind \notin {"none", "load"},
             q.kind \in Names => q.id \in Plans, q.kind = "virtual" => q.dev \in Devices,
             page' = page,
             q.kind = "save" => page.id = q.id /\ q.body = page.draft,
             q.kind = "create" => page.stage = "browse",
             q.kind = "virtual" /\ ~q.placed => q.dev \notin Placed(page.draft)
      PROVE PageInv'
  <2>1. ~doubt' => ~doubt /\ ~Waits("load")
    BY <1>4 DEF Send, Alone, Busy, Waits, PageInv, PageTypeOK
  <2>2. hasty' = hasty
    BY <1>4 DEF Send
  <2> QED
    BY <1>1, <1>2, <1>4, <2>1, <2>2, SendKeeps
<1>5. ASSUME NEW p \in Plans, NEW look \in Looks, CreateFloorplan(c, p, look) PROVE PageInv'
  <2> DEFINE q == [NewCall("create", p) EXCEPT !.body = Bare(look)]
  <2>1. q \in Call /\ q.kind = "create" /\ q.id = p /\ q.at = "sent"
    BY NewCallFacts, BareFacts DEF CallKinds, Call
  <2> HIDE DEF q
  <2>2. page.stage = "browse" /\ Send(c, q) /\ page' = page
    BY <1>5 DEF CreateFloorplan, q
  <2> QED
    BY <1>4, <2>1, <2>2
<1>6. CASE SaveFloorplan(c)
  <2> DEFINE q == [NewCall("save", page.id) EXCEPT !.body = page.draft]
  <2>1. q \in Call /\ q.kind = "save" /\ q.id = page.id /\ q.at = "sent" /\ q.body = page.draft
    BY <1>1, NewCallFacts DEF CallKinds, Call
  <2> HIDE DEF q
  <2>2. page.id # None /\ Send(c, q) /\ page' = page
    BY <1>6 DEF SaveFloorplan, Dirty, q
  <2> QED
    BY <1>1, <1>4, <2>1, <2>2
<1>7. CASE DeleteFloorplan(c)
  <2> DEFINE q == NewCall("delete", page.id)
  <2>1. q \in Call /\ q.kind = "delete" /\ q.id = page.id /\ q.at = "sent"
    BY <1>1, NewCallFacts DEF CallKinds
  <2> HIDE DEF q
  <2>2. page.id # None /\ Send(c, q) /\ page' = page
    BY <1>7 DEF DeleteFloorplan, q
  <2> QED
    BY <1>1, <1>4, <2>1, <2>2
<1>8. ASSUME NEW d \in Simulated, SaveVirtualDevice(c, d) PROVE PageInv'
  <2> DEFINE b == d \in Placed(page.draft)
             q == [NewCall("virtual", None) EXCEPT !.dev = d, !.placed = b]
  <2>0. d \in Devices
    BY <1>1
  <2>1. b \in BOOLEAN /\ (~b => d \notin Placed(page.draft))
    OBVIOUS
  <2>2. Send(c, q) /\ page' = page
    BY <1>8, Zenon DEF SaveVirtualDevice
  <2>3. ASSUME NEW new \in Call, NEW f \in BOOLEAN
        PROVE LET u == [new EXCEPT !.dev = d, !.placed = f]
              IN u \in Call /\ u.kind = new.kind /\ u.at = new.at /\ u.dev = d /\ u.placed = f
    BY <2>0 DEF Call
  <2>4. NewCall("virtual", None) \in Call /\ NewCall("virtual", None).kind = "virtual" /\ NewCall("virtual", None).at = "sent"
    BY NewCallFacts DEF CallKinds
  <2> HIDE DEF b
  <2>5. q \in Call /\ q.kind = "virtual" /\ q.at = "sent" /\ q.dev = d /\ q.placed = b
    BY <2>1, <2>3, <2>4
  <2> HIDE DEF q
  <2> QED
    BY <1>4, <2>0, <2>1, <2>2, <2>5 DEF Names
<1>9. ASSUME NEW look \in Looks, ReplaceImage(c, look) PROVE PageInv'
  <2> DEFINE q == [NewCall("image", None) EXCEPT !.body = Bare(look)]
  <2>1. q \in Call /\ q.kind = "image" /\ q.at = "sent"
    BY NewCallFacts, BareFacts DEF CallKinds, Call
  <2> HIDE DEF q
  <2>2. Send(c, q) /\ page' = page
    BY <1>9 DEF ReplaceImage, q
  <2> QED
    BY <1>4, <2>1, <2>2 DEF Names
<1> QED
  BY <1>3, <1>5, <1>6, <1>7, <1>8, <1>9

\* What the server holds stays sound.
LEMMA AfterSound ==
  ASSUME SoundFile(stored), stored \in [Plans -> Plan \cup {None}], NEW q \in Call, Accepts(q),
         q.kind \in Names => q.id \in Plans
  PROVE  After(q) \in [Plans -> Plan \cup {None}] /\ SoundFile(After(q))
<1>1. CASE q.kind \notin Changes
  BY <1>1 DEF After
<1>2. CASE q.kind \in Changes
  <2> DEFINE plan == IF q.kind = "delete" THEN None ELSE q.body
  <2>1. After(q) = [stored EXCEPT ![q.id] = plan] /\ q.id \in Plans /\ plan \in Plan \cup {None}
    BY <1>2 DEF After, Changes, Names, Call
  <2>2. plan # None => Sound(plan) /\ \A p \in Plans \ {q.id} : stored[p] # None => Placed(stored[p]) \cap Placed(plan) = {}
    BY <1>2 DEF Accepts, Storable, Changes
  <2> HIDE DEF plan
  <2>3. /\ After(q) \in [Plans -> Plan \cup {None}] /\ After(q)[q.id] = plan
        /\ \A p \in Plans \ {q.id} : After(q)[p] = stored[p]
    BY <2>1
  <2>4. \A p \in Plans : After(q)[p] # None => Sound(After(q)[p])
    BY <2>2, <2>3 DEF SoundFile
  <2>5. ASSUME NEW p \in Plans, NEW p2 \in Plans, p # p2, After(q)[p] # None, After(q)[p2] # None
        PROVE  Placed(After(q)[p]) \cap Placed(After(q)[p2]) = {}
    <3>1. CASE p = q.id
      BY <2>2, <2>3, <2>5, <3>1
    <3>2. CASE p2 = q.id
      BY <2>2, <2>3, <2>5, <3>2
    <3>3. CASE p # q.id /\ p2 # q.id
      BY <2>3, <2>5, <3>3 DEF SoundFile
    <3> QED
      BY <3>1, <3>2, <3>3
  <2> QED
    BY <2>3, <2>4, <2>5 DEF SoundFile
<1> QED
  BY <1>1, <1>2

\* While nothing overlaps it, a call that was not answered leaves the draft settled.
LEMMA SentSettled ==
  ASSUME PageInv, ~doubt, NEW c \in Calls, Busy(c), calls[c].kind \in {"save", "delete"} => calls[c].at # "ok"
  PROVE  Settled /\ (page.id # None => stored[page.id] # None /\ stored[page.id] = page.saved)
<1>1. \A k \in Calls \ {c} : ~Busy(k)
  BY DEF PageInv, Undoubted, AtMostOne
<1>2. Settled
  BY <1>1 DEF Settled, Busy
<1> QED
  BY <1>2 DEF PageInv, Undoubted

LEMMA ServerKeeps ==
  ASSUME PageInv, NEW c \in Calls, Serve(c) \/ Refuse(c) \/ StoreAndRefuse(c)
  PROVE  PageInv'
<1>1. /\ calls \in [Calls -> Call] /\ calls[c] \in Call /\ SoundFile(stored) /\ stored \in [Plans -> Plan \cup {None}]
      /\ calls[c].kind \in Names => calls[c].id \in Plans
      /\ None \notin Plan /\ doubt \in BOOLEAN
  BY FloorplanAssumption DEF PageInv, PageTypeOK, CallsNamed
<1>2. Busy(c) /\ calls[c].at = "sent" /\ page' = page /\ edits' = edits /\ sent' = sent /\ hasty' = hasty
  BY DEF Serve, Refuse, StoreAndRefuse, Busy, Changes
<1>3. ~doubt /\ page.id # None => Settled /\ stored[page.id] # None /\ stored[page.id] = page.saved
  BY <1>2, SentSettled
<1>4. CASE Serve(c)
  <2> DEFINE body == IF calls[c].kind = "load" THEN stored[calls[c].id] ELSE calls[c].body
             q == [calls[c] EXCEPT !.at = "ok", !.body = body]
  <2>1. Accepts(calls[c]) /\ stored' = After(calls[c]) /\ doubt' = doubt
    BY <1>4 DEF Serve
  <2>2. calls' = [calls EXCEPT ![c] = q]
    BY <1>1, <1>4 DEF Serve
  <2>3. body \in Plan
    BY <1>1, <2>1 DEF Accepts, Names, Call
  <2>4. /\ calls[c].kind \in {"load", "save"} => Sound(body) /\ stored'[calls[c].id] = body
        /\ calls[c].kind # "load" => body = calls[c].body
    <3>1. CASE calls[c].kind = "load"
      BY <1>1, <2>1, <3>1 DEF Accepts, After, Changes, SoundFile, Names
    <3>2. CASE calls[c].kind = "save"
      BY <1>1, <2>1, <3>2 DEF Accepts, After, Changes, Names, Storable
    <3> QED
      BY <3>1, <3>2
  <2> HIDE DEF body
  <2>5. /\ q \in Call /\ q.kind = calls[c].kind /\ q.id = calls[c].id /\ q.dev = calls[c].dev
        /\ q.placed = calls[c].placed /\ q.body = body /\ q.at = "ok"
    BY <1>1, <2>3 DEF Call
  <2> HIDE DEF q
  <2>6. ASSUME ~doubt', page.id # None, Settled'
        PROVE  stored'[page.id] # None /\ stored'[page.id] = page.saved
    <3>1. calls[c].kind \notin {"save", "delete"}
      BY <1>1, <2>2, <2>5, <2>6 DEF Settled
    <3>2. calls[c].kind = "create" => stored[calls[c].id] = None
      BY <2>1 DEF Accepts
    <3>3. page.id \in Plans
      BY <2>6 DEF PageInv, PageTypeOK, Page
    <3> QED
      BY <1>1, <1>3, <2>1, <2>6, <3>1, <3>2, <3>3 DEF After, Changes, Names
  <2> QED
    BY <1>1, <1>2, <2>1, <2>2, <2>4, <2>5, <2>6, AfterSound, ServeKeeps
<1>5. CASE Refuse(c)
  <2> DEFINE q == [calls[c] EXCEPT !.at = "refused"]
  <2>1. calls' = [calls EXCEPT ![c] = q] /\ stored' = stored /\ doubt' = doubt
    BY <1>1, <1>5 DEF Refuse
  <2>2. /\ q \in Call /\ q.kind = calls[c].kind /\ q.id = calls[c].id /\ q.dev = calls[c].dev
        /\ q.placed = calls[c].placed /\ q.body = calls[c].body /\ q.at = "refused"
    BY <1>1 DEF Call
  <2> HIDE DEF q
  <2> QED
    BY <1>1, <1>2, <1>3, <2>1, <2>2, ServeKeeps
<1>6. CASE StoreAndRefuse(c)
  <2> DEFINE q == [calls[c] EXCEPT !.at = "refused"]
  <2>1. calls' = [calls EXCEPT ![c] = q] /\ Accepts(calls[c]) /\ stored' = After(calls[c]) /\ doubt' = TRUE
    BY <1>1, <1>6 DEF StoreAndRefuse
  <2>2. /\ q \in Call /\ q.kind = calls[c].kind /\ q.id = calls[c].id /\ q.dev = calls[c].dev
        /\ q.placed = calls[c].placed /\ q.body = calls[c].body /\ q.at = "refused"
    BY <1>1 DEF Call
  <2> HIDE DEF q
  <2> QED
    BY <1>1, <1>2, <2>1, <2>2, AfterSound, ServeKeeps
<1> QED
  BY <1>4, <1>5, <1>6

LEMMA ElsewhereKeeps ==
  ASSUME PageInv, NEW p \in Plans, NEW plan \in Foreign \cup {None}, Elsewhere(p, plan)
  PROVE  PageInv'
<1>1. /\ sent < MaxCalls /\ sent' = sent + 1 /\ stored' = [stored EXCEPT ![p] = plan] /\ SoundFile(stored') /\ doubt' = TRUE
      /\ page' = page /\ calls' = calls /\ edits' = edits /\ hasty' = hasty
  BY DEF Elsewhere
<1>2. PageTypeOK'
  BY <1>1, FloorplanAssumption DEF PageInv, PageTypeOK
<1> QED
  BY <1>1, <1>2 DEF PageInv, CallsNamed, AnswersSound

\* Every answer that the page hears.
LEMMA AnsweringKeeps ==
  ASSUME PageInv, NEW c \in Calls,
         \/ Loaded(c) \/ Saved(c) \/ Deleted(c) \/ VirtualSaved(c) \/ ImageReplaced(c) \/ RefusalShown(c) \/ Lost(c)
  PROVE  PageInv'
<1> DEFINE q == calls[c]
<1>1. /\ q \in Call /\ page \in Page /\ page.draft \in Plan /\ RoomsExist(page.draft) /\ None \notin Plan \cup Plans
      /\ q.kind \in Names => q.id \in Plans
      /\ q.kind = "virtual" => q.dev \in Devices
      /\ q.at = "ok" /\ q.kind \in {"load", "save"} => Sound(q.body)
      /\ doubt \in BOOLEAN /\ hasty \in BOOLEAN
  BY FloorplanAssumption, DeviceConfigAssumption DEF PageInv, PageTypeOK, Page, CallsNamed, AnswersSound
<1>2. q.body \in Plan
  BY <1>1 DEF Call
<1>3. ASSUME ~doubt, Busy(c)
      PROVE  /\ \A k \in Calls \ {c} : ~Busy(k)
             /\ AsAnswered(q)
             /\ page.stage = "editor" /\ page.id # None /\ q.kind # "load" => page.active = page.id
             /\ page.id # None /\ (q.kind \in {"save", "delete"} => q.at # "ok")
                  => stored[page.id] # None /\ stored[page.id] = page.saved
  <2>1. Undoubted /\ \A k \in Calls \ {c} : ~Busy(k)
    BY <1>3 DEF PageInv, Undoubted, AtMostOne
  <2>2. q.kind # "load" => ~Waits("load")
    BY <2>1 DEF Waits, Busy
  <2> QED
    BY <1>3, <2>1, <2>2, SentSettled DEF Undoubted
<1>4. ~doubt /\ ~hasty => EachOnce(page.draft) /\ Free(page.placing, page.draft) /\ AsPlaced(q)
  BY DEF PageInv, Unhurried
<1> HIDE DEF q
<1>5. CASE Lost(c)
  BY <1>1, <1>5, AnswerKeeps DEF Lost
<1>6. CASE RefusalShown(c)
  <2>1. Busy(c) /\ q.at = "refused" /\ doubt' = (doubt \/ q.kind = "load") /\ Finished(c) /\ page' = page /\ hasty' = hasty
    BY <1>6 DEF RefusalShown, q
  <2> QED
    BY <1>1, <1>3, <1>4, <2>1, AnswerKeeps
<1>7. CASE Loaded(c)
  <2> DEFINE undisturbed == Alone(c) /\ stored[q.id] = q.body /\ page.stage = "editor" /\ page.active = q.id
  <2>1. /\ q.kind = "load" /\ q.at = "ok" /\ Finished(c)
        /\ page' = [Shows(q.id, q.body) EXCEPT !.placing = None]
        /\ doubt' = (doubt /\ ~undisturbed) /\ hasty' = (hasty /\ ~undisturbed)
    BY <1>7 DEF Loaded, Answers, q
  <2>2. Busy(c) /\ q.id \in Plans /\ Sound(q.body)
    BY <1>1, <2>1 DEF Busy, Names, q
  <2>3. /\ page' \in Page /\ page'.id = q.id /\ page'.draft = q.body /\ page'.saved = q.body /\ page'.placing = None
        /\ page'.stage = page.stage /\ page'.active = page.active
    BY <1>1, <1>2, <2>1, <2>2 DEF Shows, Page
  <2>4. ~doubt => undisturbed \/ page.stage = "browse"
    BY <1>1, <1>3, <2>1, <2>2 DEF AsAnswered, Alone, Page
  <2>5. ~doubt' => (\A k \in Calls \ {c} : ~Busy(k)) /\ stored[q.id] = q.body /\ (page.stage = "editor" => page.active = q.id)
    BY <1>3, <2>1, <2>2 DEF AsAnswered, Alone
  <2> HIDE DEF undisturbed
  <2>6. q.body # None /\ EachOnce(q.body) /\ RoomsExist(q.body)
    BY <1>1, <1>2, <2>2 DEF Sound
  <2>7. doubt' \in BOOLEAN /\ hasty' \in BOOLEAN
    BY <2>1
  <2> QED
    BY <2>1, <2>2, <2>3, <2>5, <2>6, <2>7, AnswerKeeps DEF Free
<1>8. CASE Saved(c)
  <2>1. q.kind = "save" /\ q.at = "ok" /\ Finished(c) /\ page' = Shows(q.id, q.body) /\ doubt' = doubt /\ hasty' = hasty
    BY <1>8 DEF Saved, Answers, q
  <2>2. Busy(c) /\ q.id \in Plans /\ q.id # None /\ Sound(q.body)
    BY <1>1, <2>1 DEF Busy, Names, q
  <2>3. /\ page' \in Page /\ page'.id = q.id /\ page'.draft = q.body /\ page'.saved = q.body /\ page'.placing = page.placing
        /\ page'.stage = page.stage /\ page'.active = page.active
    BY <1>1, <1>2, <2>1, <2>2 DEF Shows, Page
  <2>4. q.body # None /\ EachOnce(q.body) /\ RoomsExist(q.body)
    BY <1>1, <1>2, <2>2 DEF Sound
  <2>5. ~doubt => stored[q.id] = q.body /\ (page.stage = "editor" => page.active = q.id)
    BY <1>3, <2>1, <2>2 DEF AsAnswered
  <2>6. ~doubt /\ ~hasty => Free(page.placing, q.body)
    BY <1>4, <2>1 DEF AsPlaced
  <2> QED
    BY <1>1, <1>3, <2>1, <2>2, <2>3, <2>4, <2>5, <2>6, AnswerKeeps
<1>9. CASE Deleted(c)
  <2>1. q.kind = "delete" /\ Finished(c) /\ page' = Cleared /\ doubt' = doubt /\ hasty' = hasty
    BY <1>9 DEF Deleted, Answers, q
  <2>2. Busy(c)
    BY <2>1 DEF Busy, q
  <2> QED
    BY <1>1, <1>3, <2>1, <2>2, ClearedFacts, AnswerKeeps DEF Free
<1>10. CASE VirtualSaved(c)
  <2> DEFINE placing == IF q.placed THEN None ELSE q.dev
  <2>1. q.kind = "virtual" /\ Finished(c) /\ page' = [page EXCEPT !.placing = placing] /\ doubt' = doubt /\ hasty' = hasty
    BY <1>10 DEF VirtualSaved, Answers, q
  <2>2. Busy(c)
    BY <2>1 DEF Busy, q
  <2>3. placing \in Devices \cup {None} /\ (~doubt /\ ~hasty => Free(placing, page.draft))
    BY <1>1, <1>4, <2>1 DEF AsPlaced, Free
  <2> HIDE DEF placing
  <2>4. /\ page' \in Page /\ page'.placing = placing /\ page'.draft = page.draft /\ page'.stage = page.stage
        /\ page'.active = page.active /\ page'.id = page.id /\ page'.saved = page.saved
    BY <1>1, <2>1, <2>3 DEF Page
  <2> QED
    BY <1>1, <1>3, <1>4, <2>1, <2>2, <2>3, <2>4, AnswerKeeps
<1>11. CASE ImageReplaced(c)
  <2>1. /\ q.kind = "image" /\ Finished(c) /\ doubt' = doubt /\ hasty' = hasty
        /\ page' = IF page.id = None THEN page
                   ELSE [page EXCEPT !.draft.look = q.body.look, !.draft.scaled = FALSE]
    BY <1>11 DEF ImageReplaced, Answers, q
  <2>2. Busy(c)
    BY <2>1 DEF Busy, q
  <2> DEFINE new == [page.draft EXCEPT !.look = q.body.look, !.scaled = FALSE]
  <2>3. new \in Plan /\ new.rooms = page.draft.rooms /\ new.devices = page.draft.devices
    BY <1>1, <1>2 DEF Plan
  <2>4. page' \in {page, [page EXCEPT !.draft = new]}
    BY <1>1, <2>1 DEF Page, Plan
  <2>5. RoomsExist(new) /\ Placed(new) = Placed(page.draft) /\ (EachOnce(page.draft) => EachOnce(new))
    BY <1>1, <2>3 DEF RoomsExist, RoomsOf, RoomsAt, Placed, EachOnce
  <2> HIDE DEF new
  <2>6. /\ page' \in Page /\ page'.draft \in {page.draft, new} /\ page'.placing = page.placing /\ page'.stage = page.stage
        /\ page'.active = page.active /\ page'.id = page.id /\ page'.saved = page.saved
    BY <1>1, <2>3, <2>4 DEF Page
  <2>7. /\ RoomsExist(page'.draft)
        /\ ~doubt' /\ ~hasty' => EachOnce(page'.draft) /\ Free(page'.placing, page'.draft)
    BY <1>1, <1>4, <2>1, <2>5, <2>6 DEF Free
  <2> QED
    BY <1>1, <1>3, <2>1, <2>2, <2>6, <2>7, AnswerKeeps
<1> QED
  BY <1>5, <1>6, <1>7, <1>8, <1>9, <1>10, <1>11

LEMMA CreatedKeeps ==
  ASSUME PageInv, NEW c \in Calls, Created(c)
  PROVE  PageInv'
<1> DEFINE p == calls[c].id
           q == IF page.stage = "editor" /\ page.active = p THEN NoCall ELSE NewCall("load", p)
<1>1. /\ calls[c].kind = "create" /\ calls[c].at = "ok" /\ p \in Plans /\ Busy(c)
      /\ calls \in [Calls -> Call] /\ page \in Page
      /\ page' = [page EXCEPT !.stage = "editor", !.active = p, !.mode = "view", !.placing = None]
      /\ calls' = [calls EXCEPT ![c] = q] /\ stored' = stored /\ edits' = edits /\ sent' = sent
      /\ doubt' = doubt /\ hasty' = hasty
  BY DEF Created, Answers, PageInv, PageTypeOK, CallsNamed, Names, Busy
<1>2. /\ q \in Call /\ q.kind \in {"none", "load"} /\ q.at = "sent" /\ (q.kind = "load" => q.id = p)
      /\ page.stage # "editor" => q.kind = "load"
  <2>1. NoCall \in Call /\ NoCall.kind = "none" /\ NoCall.at = "sent"
    BY BareFacts DEF NoCall
  <2>2. LET n == NewCall("load", p) IN n \in Call /\ n.kind = "load" /\ n.id = p /\ n.at = "sent"
    BY <1>1, NewCallFacts DEF CallKinds
  <2> QED
    BY <2>1, <2>2
<1> HIDE DEF q, p
<1>3. /\ page' \in Page /\ page'.stage = "editor" /\ page'.active = p /\ page'.placing = None
      /\ page'.draft = page.draft /\ page'.id = page.id /\ page'.saved = page.saved
  BY <1>1 DEF Page
<1>4. calls' \in [Calls -> Call] /\ calls'[c] = q /\ \A k \in Calls \ {c} : calls'[k] = calls[k]
  BY <1>1, <1>2
<1>5. PageTypeOK' /\ SoundFile(stored)' /\ CallsNamed' /\ AnswersSound' /\ RoomsExist(page.draft)'
  BY <1>1, <1>2, <1>3, <1>4 DEF PageInv, PageTypeOK, CallsNamed, AnswersSound, Names
<1>6. ASSUME ~doubt' PROVE Undoubted'
  <2>1. /\ \A k \in Calls \ {c} : calls'[k].kind = "none"
        /\ q.kind = "load"
    BY <1>1, <1>2, <1>4, <1>6 DEF PageInv, Undoubted, AtMostOne, Busy, AsAnswered
  <2>2. AtMostOne' /\ Waits("load")'
    BY <1>4, <2>1 DEF AtMostOne, Busy, Waits
  <2>3. ASSUME NEW k \in Calls PROVE AsAnswered(calls[k])'
    BY <1>2, <1>3, <1>4, <2>1 DEF AsAnswered
  <2>4. page.id # None => stored[page.id] # None /\ stored[page.id] = page.saved
    BY <1>1, <1>6, SentSettled
  <2> QED
    BY <1>1, <1>3, <2>2, <2>3, <2>4 DEF Undoubted
<1>7. ASSUME ~doubt', ~hasty' PROVE Unhurried'
  <2>1. ASSUME NEW k \in Calls PROVE AsPlaced(calls[k])'
    <3>1. k # c => calls[k].kind = "none"
      BY <1>1, <1>7 DEF PageInv, Undoubted, AtMostOne, Busy
    <3> QED
      BY <1>2, <1>4, <3>1 DEF AsPlaced
  <2> QED
    BY <1>1, <1>3, <1>7, <2>1 DEF PageInv, Unhurried, Free
<1> QED
  BY <1>5, <1>6, <1>7 DEF PageInv

LEMMA PageStep == PageInv /\ PageNext => PageInv'
<1> SUFFICES ASSUME PageInv, PageNext PROVE PageInv'
  OBVIOUS
<1>1. CASE ReturnToBrowse
  BY <1>1, ReturnKeeps
<1>2. ASSUME NEW m \in {"view", "rooms", "devices"}, SetMode(m) PROVE PageInv'
  BY <1>2, ModeKeeps
<1>3. CASE Editing
  BY <1>3, EditingKeeps
<1>4. ASSUME NEW p \in Plans, NEW plan \in Foreign \cup {None}, Elsewhere(p, plan) PROVE PageInv'
  BY <1>4, ElsewhereKeeps
<1>5. ASSUME NEW c \in Calls,
             \/ \E p \in Plans : EnterEditor(c, p) \/ \E look \in Looks : CreateFloorplan(c, p, look)
             \/ SaveFloorplan(c) \/ DeleteFloorplan(c)
             \/ \E d \in Simulated : SaveVirtualDevice(c, d)
             \/ \E look \in Looks : ReplaceImage(c, look)
      PROVE PageInv'
  BY <1>5, SendingKeeps
<1>6. ASSUME NEW c \in Calls, Serve(c) \/ Refuse(c) \/ StoreAndRefuse(c) PROVE PageInv'
  BY <1>6, ServerKeeps
<1>7. ASSUME NEW c \in Calls,
             \/ Loaded(c) \/ Saved(c) \/ Deleted(c) \/ VirtualSaved(c) \/ ImageReplaced(c) \/ RefusalShown(c) \/ Lost(c)
      PROVE PageInv'
  BY <1>7, AnsweringKeeps
<1>8. ASSUME NEW c \in Calls, Created(c) PROVE PageInv'
  BY <1>8, CreatedKeeps
<1> QED
  BY <1>1, <1>2, <1>3, <1>4, <1>5, <1>6, <1>7, <1>8 DEF PageNext

\* The page's state keeps its type, and every answer under way finds what PageInv says.
THEOREM PageInvariant == PageSpec => []PageInv
<1>1. PageInit => PageInv
  <2> SUFFICES ASSUME PageInit PROVE PageInv
    OBVIOUS
  <2>1. /\ calls = [c \in Calls |-> NoCall] /\ stored \in [Plans -> Plan \cup {None}] /\ SoundFile(stored)
        /\ page.id = None /\ page.draft = Bare(AnyLook) /\ page.placing = None /\ page.stage = "browse" /\ page \in Page
    BY BareFacts, FloorplanAssumption DEF PageInit, Page
  <2>2. \A c \in Calls : calls[c] = NoCall /\ calls[c].kind = "none"
    BY <2>1, BareFacts
  <2>3. PageTypeOK /\ CallsNamed /\ AnswersSound
    <3>1. calls \in [Calls -> Call]
      BY <2>1, BareFacts
    <3>2. edits \in 0 .. MaxEdits /\ sent \in 0 .. MaxCalls
      BY FloorplanAssumption DEF PageInit
    <3>3. doubt \in BOOLEAN /\ hasty \in BOOLEAN
      BY DEF PageInit
    <3>4. CallsNamed /\ AnswersSound
      BY <2>2 DEF CallsNamed, AnswersSound, Names
    <3> QED
      BY <2>1, <3>1, <3>2, <3>3, <3>4 DEF PageTypeOK
  <2>4. Undoubted
    BY <2>1, <2>2 DEF Undoubted, AtMostOne, Busy, AsAnswered
  <2>5. Unhurried
    BY <2>1, <2>2, BareFacts DEF Unhurried, AsPlaced, Free, Sound
  <2> QED
    BY <2>1, <2>3, <2>4, <2>5, BareFacts DEF PageInv
<1>2. PageInv /\ UNCHANGED pageVars => PageInv'
  BY DEF pageVars, PageInv, PageTypeOK, CallsNamed, AnswersSound, Undoubted, Unhurried, AtMostOne, Busy,
         AsAnswered, AsPlaced, Waits, Settled
<1> QED
  BY <1>1, <1>2, PageStep, PTL DEF PageSpec

\* Whatever the answers interrupt, no device is left in a room that was removed; and
\* without an edit under way none gets onto the draft twice.
THEOREM DraftStaysInOrder == PageSpec => []DraftInOrder
<1>1. PageInv => DraftInOrder
  BY DEF PageInv, Unhurried, DraftInOrder
<1> QED
  BY <1>1, PageInvariant, PTL

\* With nothing under way, what the editor takes for saved is what the server holds.
THEOREM StoredIsShown == PageSpec => []ShowsWhatIsStored
<1>1. PageInv => ShowsWhatIsStored
  <2> SUFFICES ASSUME PageInv, ~doubt, \A c \in Calls : ~Busy(c), page.id # None
               PROVE  /\ page.stage = "editor" => page.active = page.id
                      /\ ~Dirty => stored[page.id] = page.draft
    BY DEF ShowsWhatIsStored
  <2>1. Undoubted /\ ~Waits("load") /\ Settled
    BY DEF PageInv, Waits, Settled, Busy
  <2> QED
    BY <2>1 DEF Undoubted, Dirty
<1> QED
  BY <1>1, PageInvariant, PTL
=============================================================================
