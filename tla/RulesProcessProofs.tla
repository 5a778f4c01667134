-------------------------- MODULE RulesProcessProofs --------------------------
(***************************************************************************)
(* Proofs about automations.json, its writers and the process that runs    *)
(* it.                                                                     *)
(***************************************************************************)
EXTENDS RulesProcess, TLAPS

Known == Nat \cup {None}
Asked == [route : Routes, phase : {"checked", "writing"}, id : Ids, to : Automation \cup {None},
          checked : Nat, list : File]
Loading == [phase : {"stat", "read", "apply"}, mtime : Nat, got : File, at : Nat]

\* The types, without the bounds of the counters.
Types ==
  /\ file \in File /\ mtime \in Nat
  /\ req \in [Slots -> Asked \cup {Idle}]
  /\ raced \in BOOLEAN /\ unchecked \in BOOLEAN
  /\ last \in Known /\ load \in [Loads -> Loading \cup {NoLoad}]
  /\ engine \in File /\ engineAt \in Nat
  /\ ticking \in BOOLEAN /\ failed \in BOOLEAN /\ overtaken \in BOOLEAN

\* No time that was noted is ahead of the file's.
Times ==
  /\ last # None => last <= mtime
  /\ engineAt <= mtime
  /\ \A r \in Slots : req[r] # Idle => req[r].checked <= mtime
  /\ \A l \in Loads : load[l] # NoLoad => load[l].mtime <= mtime /\ load[l].at <= mtime

Changed(q) == [file EXCEPT ![q.id] = q.to]

\* A request that was decided on the list as it still is leaves it in order.
Decided(q) == q.checked = mtime =>
  /\ SourcesOnce(file) => SourcesOnce(Changed(q))
  /\ LoopFree(file) /\ (q.route = "page" => ~IsBinding(q.to)) => LoopFree(Changed(q))
  /\ q.phase = "writing" => q.list = Changed(q)
Sound == \A r \in Slots : req[r] # Idle => Decided(req[r])

\* The lists in the file, in the engine and on the way to it are in order, as long as
\* nothing went wrong.
InForce == {file, engine} \cup {load[l].got : l \in {l \in Loads : load[l].phase = "apply"}}
Once == ~raced => \A list \in InForce : SourcesOnce(list)
Free == ~raced /\ ~unchecked => \A list \in InForce : LoopFree(list)

\* The recorded time is that of the engine's list or of one that a refresh is to apply.
Catching(l) == load[l].phase = "read" \/ (load[l].phase = "apply" /\ load[l].at = mtime)
Recorded ==
  /\ \A l \in Loads : load[l].phase = "apply" /\ load[l].at = mtime => load[l].got = file
  /\ last = mtime /\ ~failed /\ ~overtaken =>
       (engineAt = mtime /\ engine = file) \/ \E l \in Loads : Catching(l)

IInv == Types /\ Times /\ Sound /\ Once /\ Free /\ Recorded

-----------------------------------------------------------------------------
(* What an allowed change does to a list.                                   *)

LEMMA NoneApart == None \notin Source /\ None \notin Automation /\ None \notin Nat
BY SwitchBindingsAssumption

\* A binding that was checked makes no second one of its source and no loop.
LEMMA AllowedKeeps ==
  ASSUME file \in File, NEW route \in {"create", "update"}, NEW id \in Ids, NEW a \in Automation,
         Allowed(route, id, a)
  PROVE  LET list == [file EXCEPT ![id] = a] IN
         (SourcesOnce(file) => SourcesOnce(list)) /\ LoopFree(list)
<1> DEFINE list == [file EXCEPT ![id] = a]
           with == [i \in Ids \cup {"new"} |-> IF i = "new" THEN a ELSE file[i]]
<1>1. list[id] = a /\ \A i \in Ids \ {id} : list[i] = file[i]
  BY DEF File
<1>2. Ids \ {id} \subseteq Compared(route, id)
  BY DEF Compared
<1>3. SourcesOnce(file) => SourcesOnce(list)
  <2> SUFFICES ASSUME SourcesOnce(file), NEW i \in Ids, NEW j \in Ids, i # j,
                      IsBinding(list[i]), IsBinding(list[j])
               PROVE  list[i].source # list[j].source
    BY DEF SourcesOnce
  <2> HIDE DEF list
  <2>1. CASE i = id
    BY <1>1, <1>2, <2>1 DEF Allowed
  <2>2. CASE j = id
    BY <1>1, <1>2, <2>2 DEF Allowed
  <2>3. CASE i # id /\ j # id
    BY <1>1, <2>3 DEF SourcesOnce
  <2> QED
    BY <2>1, <2>2, <2>3
<1>4. LoopFree(list)
  <2> SUFFICES ASSUME NEW cs \in (SUBSET Channels) \ {{}},
                      \A c \in cs : \E i \in Ids : StateOf(list[i], c) /\ list[i].target \in cs
               PROVE  Loop(with, Compared(route, id) \cup {"new"})
    BY DEF LoopFree, Loop, Allowed
  <2> HIDE DEF list
  <2>1. with["new"] = a /\ \A i \in Ids : with[i] = file[i]
    BY SwitchBindingsAssumption
  <2> HIDE DEF with
  <2>2. ASSUME NEW c \in cs
        PROVE  \E i \in Compared(route, id) \cup {"new"} : StateOf(with[i], c) /\ with[i].target \in cs
    <3>1. PICK i \in Ids : StateOf(list[i], c) /\ list[i].target \in cs
      BY <2>2
    <3>2. CASE i = id
      BY <1>1, <2>1, <3>1, <3>2
    <3>3. CASE i # id
      BY <1>1, <1>2, <2>1, <3>1, <3>3
    <3> QED
      BY <3>2, <3>3
  <2> QED
    BY <2>2 DEF Loop
<1> QED
  BY <1>3, <1>4

\* What is no binding takes part in neither.
LEMMA OrdinaryKeeps ==
  ASSUME file \in File, NEW id \in Ids, NEW a \in Automation \cup {None}, ~IsBinding(a)
  PROVE  LET list == [file EXCEPT ![id] = a] IN
         (SourcesOnce(file) => SourcesOnce(list)) /\ (LoopFree(file) => LoopFree(list))
<1> DEFINE list == [file EXCEPT ![id] = a]
<1>1. list[id] = a /\ \A i \in Ids \ {id} : list[i] = file[i]
  BY DEF File
<1> HIDE DEF list
<1>2. SourcesOnce(file) => SourcesOnce(list)
  BY <1>1 DEF SourcesOnce
<1>3. \A i \in Ids, c \in Channels : StateOf(list[i], c) => list[i] = file[i]
  BY <1>1 DEF StateOf
<1>4. Loop(list, Ids) => Loop(file, Ids)
  <2> SUFFICES ASSUME NEW cs \in (SUBSET Channels) \ {{}},
                      \A c \in cs : \E i \in Ids : StateOf(list[i], c) /\ list[i].target \in cs
               PROVE  \A c \in cs : \E i \in Ids : StateOf(file[i], c) /\ file[i].target \in cs
    BY DEF Loop
  <2> QED
    BY <1>3
<1> QED
  BY <1>2, <1>4 DEF LoopFree, list

\* The page keeps the source of what it edits.
LEMMA EditKeeps ==
  ASSUME file \in File, NEW id \in Ids, NEW t \in Targets, file[id] # None
  PROVE  LET list == [file EXCEPT ![id] = [file[id] EXCEPT !.target = t]] IN
         SourcesOnce(file) => SourcesOnce(list)
<1> DEFINE a == [file[id] EXCEPT !.target = t]
           list == [file EXCEPT ![id] = a]
<1>1. file[id] \in Automation
  BY DEF File
<1>2. a \in Automation /\ a.source = file[id].source
  BY <1>1 DEF Automation
<1> HIDE DEF a
<1>3. list[id] = a /\ \A i \in Ids \ {id} : list[i] = file[i]
  BY DEF File
<1> HIDE DEF list
<1>4. \A i \in Ids : IsBinding(list[i]) => IsBinding(file[i]) /\ list[i].source = file[i].source
  BY <1>2, <1>3 DEF IsBinding
<1>5. SourcesOnce(file) => SourcesOnce(list)
  BY <1>4 DEF SourcesOnce
<1> QED
  BY <1>5 DEF list, a

-----------------------------------------------------------------------------
(* The initial states.                                                      *)

LEMMA EmptyList == Nothing \in File /\ SourcesOnce(Nothing) /\ LoopFree(Nothing)
<1>1. \A i \in Ids : Nothing[i] = None
  BY DEF Nothing
<1>2. \A i \in Ids : ~IsBinding(Nothing[i])
  BY <1>1 DEF IsBinding
<1>3. ~Loop(Nothing, Ids)
  BY <1>2 DEF Loop, StateOf
<1> QED
  BY <1>2, <1>3 DEF Nothing, File, SourcesOnce, LoopFree

LEMMA InitIInv == Init => IInv
<1> SUFFICES ASSUME Init PROVE IInv
  OBVIOUS
<1> USE DEF Init, BindingsInit
<1>1. file \in File /\ SourcesOnce(file) /\ LoopFree(file)
  BY SwitchBindingsAssumption, FirstFilesAssumption
<1>2. \A r \in Slots : req[r] = Idle
  OBVIOUS
<1>3. \A l \in Loads : load[l] = NoLoad /\ load[l].phase = "none"
  BY DEF NoLoad
<1>4. InForce = {file, Nothing}
  BY <1>3 DEF InForce
<1>5. Types
  BY <1>1, EmptyList DEF Types, Known
<1>6. Times /\ Sound
  BY <1>2, <1>3 DEF Times, Sound
<1>7. Once /\ Free
  BY <1>1, <1>4, EmptyList DEF Once, Free
<1>8. Recorded
  BY <1>3, NoneApart DEF Recorded
<1> QED
  BY <1>5, <1>6, <1>7, <1>8 DEF IInv

-----------------------------------------------------------------------------
(* The steps of the gateway.                                                *)

LEMMA Phases ==
  ASSUME Types
  PROVE  /\ \A r \in Slots : req[r].phase # "idle" => req[r] \in Asked
         /\ \A r \in Slots : req[r].phase = "idle" <=> req[r] = Idle
         /\ \A l \in Loads : load[l].phase # "none" => load[l] \in Loading
         /\ \A l \in Loads : load[l].phase = "none" <=> load[l] = NoLoad
<1>1. \A r \in Slots : req[r] \in Asked \/ req[r] = Idle
  BY DEF Types
<1>2. \A l \in Loads : load[l] \in Loading \/ load[l] = NoLoad
  BY DEF Types
<1>3. Idle.phase = "idle" /\ \A q \in Asked : q.phase # "idle"
  BY DEF Idle, Asked
<1>4. NoLoad.phase = "none" /\ \A q \in Loading : q.phase # "none"
  BY DEF NoLoad, Loading
<1> QED
  BY <1>1, <1>2, <1>3, <1>4

\* A step that only changes what one request says keeps what else there is.
LEMMA RequestStep ==
  ASSUME IInv, NEW r \in Slots, NEW q \in Asked \cup {Idle},
         req' = [req EXCEPT ![r] = q],
         q # Idle => q.checked <= mtime /\ Decided(q),
         UNCHANGED <<file, mtime, raced, unchecked, engineVars>>
  PROVE  IInv'
<1> USE DEF engineVars
<1>1. Types'
  BY DEF IInv, Types
<1>2. \A s \in Slots : req'[s] = IF s = r THEN q ELSE req[s]
  BY DEF IInv, Types
<1>3. Times'
  BY <1>2 DEF IInv, Times
<1>4. \A p : Decided(p)' <=> Decided(p)
  BY DEF Decided, Changed, SourcesOnce, LoopFree, Loop, StateOf, IsBinding
<1>5. Sound'
  BY <1>2, <1>4 DEF IInv, Sound
<1>6. InForce' = InForce
  BY DEF InForce
<1>7. Once' /\ Free'
  BY <1>6 DEF IInv, Once, Free, SourcesOnce, LoopFree, Loop, StateOf, IsBinding
<1>8. Recorded'
  BY DEF IInv, Recorded, Catching
<1> QED
  BY <1>1, <1>3, <1>5, <1>7, <1>8 DEF IInv

\* A request begins with what its checks have found.
LEMMA BeginStep ==
  ASSUME IInv, NEW r \in Slots, NEW route \in Routes, NEW id \in Ids, NEW a \in Automation \cup {None},
         Begin(r, route, id, a), UNCHANGED engineVars,
         LET list == [file EXCEPT ![id] = a] IN
           /\ SourcesOnce(file) => SourcesOnce(list)
           /\ LoopFree(file) /\ (route = "page" => ~IsBinding(a)) => LoopFree(list)
  PROVE  IInv'
<1> DEFINE q == [route |-> route, phase |-> "checked", id |-> id, to |-> a, checked |-> mtime, list |-> Nothing]
<1>1. q \in Asked /\ mtime \in Nat
  BY EmptyList DEF Asked, IInv, Types
<1>2. Decided(q)
  BY DEF Decided, Changed
<1>3. req' = [req EXCEPT ![r] = q] /\ UNCHANGED <<file, mtime, raced, unchecked, engineVars>>
  BY DEF Begin
<1>4. q.checked <= mtime
  BY <1>1
<1> HIDE DEF q
<1> QED
  BY <1>1, <1>2, <1>3, <1>4, RequestStep

LEMMA ChecksStep ==
  ASSUME IInv, NEW r \in Slots, NEW id \in Ids, UNCHANGED engineVars,
         \/ \E a \in Wanted : Check(r, "create", id, a) \/ Check(r, "update", id, a) \/ PageNew(r, id, a)
         \/ CheckDelete(r, id)
         \/ \E t \in Targets : PageOpen(r, id, t)
  PROVE  IInv'
<1>1. file \in File /\ Wanted \subseteq Automation
  BY SwitchBindingsAssumption DEF IInv, Types
<1>2. ASSUME NEW a \in Wanted, NEW route \in {"create", "update"}, Check(r, route, id, a)
      PROVE  IInv'
  <2>1. a \in Automation /\ route \in Routes /\ Allowed(route, id, a) /\ Begin(r, route, id, a)
    BY <1>1, <1>2 DEF Check, Routes
  <2> QED
    BY <1>1, <2>1, AllowedKeeps, BeginStep
<1>3. ASSUME NEW a \in Wanted, PageNew(r, id, a)
      PROVE  IInv'
  <2>1. a \in Automation /\ ~IsBinding(a) /\ Begin(r, "new", id, a) /\ "new" \in Routes
    BY <1>1, <1>3 DEF PageNew, Routes
  <2> QED
    BY <1>1, <2>1, OrdinaryKeeps, BeginStep
<1>4. ASSUME CheckDelete(r, id)
      PROVE  IInv'
  <2>1. ~IsBinding(None) /\ Begin(r, "delete", id, None) /\ "delete" \in Routes
    BY <1>4 DEF CheckDelete, Routes, IsBinding
  <2> QED
    BY <1>1, <2>1, OrdinaryKeeps, BeginStep
<1>5. ASSUME NEW t \in Targets, PageOpen(r, id, t)
      PROVE  IInv'
  <2> DEFINE a == [file[id] EXCEPT !.target = t]
  <2>1. file[id] # None /\ Begin(r, "page", id, a) /\ "page" \in Routes
    BY <1>5 DEF PageOpen, Routes
  <2>2. file[id] \in Automation
    BY <1>1, <2>1 DEF File
  <2>3. a \in Automation
    BY <2>2 DEF Automation
  <2>4. SourcesOnce(file) => SourcesOnce([file EXCEPT ![id] = a])
    BY <1>1, <2>1, EditKeeps
  <2> HIDE DEF a
  <2>5. ~IsBinding(a) => (LoopFree(file) => LoopFree([file EXCEPT ![id] = a]))
    BY <1>1, <2>3, OrdinaryKeeps
  <2> QED
    BY <2>1, <2>3, <2>4, <2>5, BeginStep
<1> QED
  BY <1>2, <1>3, <1>4, <1>5

LEMMA ReadListStep ==
  ASSUME IInv, NEW r \in Slots, ReadList(r), UNCHANGED engineVars
  PROVE  IInv'
<1> DEFINE q == req[r]
           p == [q EXCEPT !.phase = "writing", !.list = [file EXCEPT ![q.id] = q.to]]
<1>1. q \in Asked /\ q # Idle /\ file \in File
  BY Phases DEF ReadList, IInv, Types
<1>2. req' = [req EXCEPT ![r] = p]
  BY <1>1 DEF ReadList, IInv, Types
<1>3. [file EXCEPT ![q.id] = q.to] \in File
  BY <1>1 DEF Asked, File
<1>4. p \in Asked /\ p.checked = q.checked /\ p.list = Changed(q) /\ p.id = q.id /\ p.to = q.to /\ p.route = q.route
  BY <1>1, <1>3 DEF Asked, Changed
<1>5. Changed(p) = Changed(q)
  BY <1>4 DEF Changed
<1>6. q.checked <= mtime /\ Decided(q)
  BY <1>1 DEF IInv, Times, Sound
<1>7. UNCHANGED <<file, mtime, raced, unchecked>>
  BY DEF ReadList
<1> HIDE DEF q, p
<1>8. Decided(p)
  BY <1>4, <1>5, <1>6 DEF Decided
<1> QED
  BY <1>2, <1>4, <1>6, <1>7, <1>8, RequestStep

LEMMA FailsStep ==
  ASSUME IInv, NEW r \in Slots, Fails(r), UNCHANGED engineVars
  PROVE  IInv'
BY RequestStep DEF Fails

\* A list that was decided on the file as it is replaces it by one in order.
LEMMA WriteStep ==
  ASSUME IInv, NEW r \in Slots, Write(r), UNCHANGED engineVars
  PROVE  IInv'
<1> USE DEF engineVars
<1> DEFINE q == req[r]
<1>1. q \in Asked /\ q # Idle /\ q.phase = "writing"
  BY Phases DEF Write, IInv
<1>2. file' = q.list /\ mtime' = mtime + 1 /\ req' = [req EXCEPT ![r] = Idle]
  BY DEF Write
<1>3. q.list \in File /\ mtime \in Nat
  BY <1>1 DEF Asked, IInv, Types
<1>4. Types'
  <2>1. raced' \in BOOLEAN /\ unchecked' \in BOOLEAN
    BY DEF Write
  <2>2. req' \in [Slots -> Asked \cup {Idle}]
    BY <1>2 DEF IInv, Types
  <2> QED
    BY <1>2, <1>3, <2>1, <2>2 DEF IInv, Types
<1>5. \A s \in Slots : req'[s] # Idle => req'[s] = req[s] /\ req[s] # Idle /\ req[s].checked < mtime'
  <2> SUFFICES ASSUME NEW s \in Slots, req'[s] # Idle
               PROVE  req'[s] = req[s] /\ req[s] # Idle /\ req[s].checked < mtime'
    OBVIOUS
  <2>1. req'[s] = req[s]
    BY <1>2 DEF IInv, Types
  <2>2. req[s] \in Asked /\ req[s].checked \in Nat
    BY <2>1 DEF IInv, Types, Asked
  <2>3. req[s].checked <= mtime
    BY <2>1 DEF IInv, Times
  <2> QED
    BY <1>2, <1>3, <2>1, <2>2, <2>3
<1>6. Times'
  <2>1. last \in Known /\ engineAt \in Nat /\ \A l \in Loads : load[l] # NoLoad => load[l].mtime \in Nat /\ load[l].at \in Nat
    BY DEF IInv, Types, Loading
  <2>2. (last # None => last <= mtime') /\ engineAt <= mtime'
    BY <1>2, <1>3, <2>1 DEF IInv, Times, Known
  <2>3. \A l \in Loads : load[l] # NoLoad => load[l].mtime <= mtime' /\ load[l].at <= mtime'
    BY <1>2, <1>3, <2>1 DEF IInv, Times
  <2>4. \A s \in Slots : req'[s] # Idle => req'[s].checked <= mtime'
    <3> SUFFICES ASSUME NEW s \in Slots, req'[s] # Idle PROVE req'[s].checked <= mtime'
      OBVIOUS
    <3>1. req'[s] = req[s] /\ req[s].checked <= mtime /\ req[s].checked \in Nat
      BY <1>5 DEF IInv, Times, Types, Asked
    <3> QED
      BY <1>2, <1>3, <3>1
  <2> QED
    BY <2>2, <2>3, <2>4 DEF Times
<1>7. Sound'
  <2> SUFFICES ASSUME NEW s \in Slots, req'[s] # Idle PROVE req'[s].checked # mtime'
    BY DEF Sound, Decided
  <2>1. req'[s] = req[s] /\ req[s].checked < mtime' /\ req[s].checked \in Nat
    BY <1>5 DEF IInv, Types, Asked
  <2> QED
    BY <1>2, <1>3, <2>1
<1>8. ~raced' => ~raced /\ q.checked = mtime
  BY DEF Write
<1>9. ~raced' => file' = Changed(q) /\ Decided(q)
  BY <1>1, <1>2, <1>8 DEF IInv, Sound, Decided
<1>10. file \in InForce /\ InForce' \subseteq InForce \cup {file'}
  BY DEF InForce
<1>11. Once'
  <2> SUFFICES ASSUME ~raced', NEW list \in InForce' PROVE SourcesOnce(list)
    BY DEF Once, SourcesOnce, IsBinding
  <2>1. SourcesOnce(file) /\ \A x \in InForce : SourcesOnce(x)
    BY <1>8, <1>10 DEF IInv, Once
  <2>2. SourcesOnce(Changed(q))
    BY <1>8, <1>9, <2>1 DEF Decided
  <2> QED
    BY <1>9, <1>10, <2>1, <2>2
<1>12. Free'
  <2> SUFFICES ASSUME ~raced', ~unchecked', NEW list \in InForce' PROVE LoopFree(list)
    BY DEF Free, LoopFree, Loop, StateOf, IsBinding
  <2>1. ~unchecked /\ (q.route = "page" => ~IsBinding(q.to))
    BY DEF Write
  <2>2. LoopFree(file) /\ \A x \in InForce : LoopFree(x)
    BY <1>8, <1>10, <2>1 DEF IInv, Free
  <2>3. LoopFree(Changed(q))
    BY <1>8, <1>9, <2>1, <2>2 DEF Decided
  <2> QED
    BY <1>9, <1>10, <2>2, <2>3
<1>13. Recorded'
  <2>1. last # mtime'
    BY <1>2, <1>3, NoneApart DEF IInv, Times, Types, Known
  <2>2. \A l \in Loads : load[l].phase = "apply" => load[l].at # mtime'
    <3> SUFFICES ASSUME NEW l \in Loads, load[l].phase = "apply" PROVE load[l].at # mtime'
      OBVIOUS
    <3>1. load[l] # NoLoad /\ load[l].at \in Nat
      BY Phases DEF IInv, Loading, NoLoad
    <3>2. load[l].at <= mtime
      BY <3>1 DEF IInv, Times
    <3> QED
      BY <1>2, <1>3, <3>1, <3>2
  <2> QED
    BY <2>1, <2>2 DEF Recorded
<1> QED
  BY <1>4, <1>6, <1>7, <1>11, <1>12, <1>13 DEF IInv

-----------------------------------------------------------------------------
(* The steps of the engine's process.                                       *)

\* They leave the gateway's part alone; what they take over must be in order.
LEMMA ProcessStep ==
  ASSUME IInv, UNCHANGED bindingVars, Types',
         last' # None => last' <= mtime, engineAt' <= mtime,
         \A l \in Loads : load'[l] # NoLoad => load'[l].mtime <= mtime /\ load'[l].at <= mtime,
         InForce' \subseteq InForce \cup {Nothing},
         Recorded'
  PROVE  IInv'
<1> USE DEF bindingVars
<1>1. Times'
  BY DEF IInv, Times
<1>2. \A q : Decided(q)' <=> Decided(q)
  BY DEF Decided, Changed, SourcesOnce, LoopFree, Loop, StateOf, IsBinding
<1>3. Sound'
  BY <1>2 DEF IInv, Sound
<1>4. Once'
  <2> SUFFICES ASSUME ~raced, NEW list \in InForce' PROVE SourcesOnce(list)
    BY DEF Once, SourcesOnce, IsBinding
  <2> QED
    BY EmptyList DEF IInv, Once
<1>5. Free'
  <2> SUFFICES ASSUME ~raced, ~unchecked, NEW list \in InForce' PROVE LoopFree(list)
    BY DEF Free, LoopFree, Loop, StateOf, IsBinding
  <2> QED
    BY EmptyList DEF IInv, Free
<1> QED
  BY <1>1, <1>3, <1>4, <1>5 DEF IInv

\* The times a refresh that goes on had noted.
LEMMA LoadTimes ==
  ASSUME IInv
  PROVE  /\ last # None => last <= mtime
         /\ engineAt <= mtime
         /\ \A l \in Loads : load[l].phase # "none" => load[l].mtime <= mtime /\ load[l].at <= mtime
         /\ mtime \in Nat /\ file \in File
         /\ \A l \in Loads : load[l].phase # "none" => load[l] \in Loading
BY Phases DEF IInv, Times, Types

LEMMA TickStep ==
  ASSUME IInv, NEW l \in Loads, Tick(l), UNCHANGED bindingVars
  PROVE  IInv'
<1> USE DEF bindingVars
<1> DEFINE p == [phase |-> "stat", mtime |-> mtime, got |-> Nothing, at |-> 0]
<1>1. p \in Loading /\ p.phase = "stat" /\ p.mtime = mtime /\ p.at = 0
  BY LoadTimes, EmptyList DEF Loading
<1>2. \A k \in Loads : load'[k] = IF k = l THEN p ELSE load[k]
  BY DEF Tick, IInv, Types
<1>3. load[l].phase = "none"
  BY DEF Tick, Resting
<1> HIDE DEF p
<1>4. load' \in [Loads -> Loading \cup {NoLoad}]
  <2>1. load' = [load EXCEPT ![l] = p]
    BY DEF Tick, p
  <2> QED
    BY <1>1, <2>1 DEF IInv, Types
<1>5. Types'
  BY <1>4 DEF Tick, IInv, Types
<1>6. \A k \in Loads : load'[k] # NoLoad => load'[k].mtime <= mtime /\ load'[k].at <= mtime
  BY <1>1, <1>2, LoadTimes DEF IInv, Times
<1>7. InForce' \subseteq InForce
  BY <1>1, <1>2 DEF Tick, InForce
<1>8. Recorded'
  <2>1. \A k \in Loads : Catching(k) => Catching(k)'
    BY <1>2, <1>3 DEF Catching
  <2>2. \A k \in Loads : load'[k].phase = "apply" => load'[k] = load[k]
    BY <1>1, <1>2
  <2> QED
    BY <2>1, <2>2 DEF Tick, IInv, Recorded
<1>9. last' = last /\ engineAt' = engineAt
  BY DEF Tick
<1> QED
  BY <1>5, <1>6, <1>7, <1>8, <1>9, LoadTimes, ProcessStep

\* A refresh that goes on to another phase, or is over, changes only its own record.
LEMMA OneLoad ==
  ASSUME IInv, NEW l \in Loads, NEW p \in Loading \cup {NoLoad}, load' = [load EXCEPT ![l] = p]
  PROVE  /\ load' \in [Loads -> Loading \cup {NoLoad}]
         /\ load'[l] = p
         /\ \A k \in Loads \ {l} : load'[k] = load[k]
         /\ (p # NoLoad => p.mtime <= mtime /\ p.at <= mtime)
              => \A k \in Loads : load'[k] # NoLoad => load'[k].mtime <= mtime /\ load'[k].at <= mtime
BY DEF IInv, Types, Times

LEMMA NoLoadPhase == NoLoad \in Loading \cup {NoLoad} /\ NoLoad.phase = "none"
BY DEF NoLoad

LEMMA CompareStep ==
  ASSUME IInv, NEW l \in Loads, Compare(l), UNCHANGED bindingVars
  PROVE  IInv'
<1> USE DEF bindingVars
<1>1. load[l].phase = "stat" /\ load[l] \in Loading /\ load[l].mtime <= mtime /\ load[l].at <= mtime
  BY LoadTimes DEF Compare
<1>2. CASE load[l].mtime = last
  <2>1. load' = [load EXCEPT ![l] = NoLoad] /\ ticking' = TRUE /\ last' = last
    BY <1>2 DEF Compare, Done
  <2>2. Types'
    BY <2>1, OneLoad, NoLoadPhase DEF Compare, IInv, Types
  <2>3. InForce' \subseteq InForce
    BY <2>1, OneLoad, NoLoadPhase DEF Compare, InForce
  <2>4. Recorded'
    <3>1. \A k \in Loads : Catching(k) => Catching(k)'
      BY <1>1, <2>1, OneLoad, NoLoadPhase DEF Catching
    <3>2. \A k \in Loads : load'[k].phase = "apply" => load'[k] = load[k]
      BY <2>1, OneLoad, NoLoadPhase
    <3> QED
      BY <2>1, <3>1, <3>2 DEF Compare, IInv, Recorded
  <2>5. \A k \in Loads : load'[k] # NoLoad => load'[k].mtime <= mtime /\ load'[k].at <= mtime
    BY <2>1, OneLoad, NoLoadPhase
  <2>6. engineAt' = engineAt
    BY DEF Compare
  <2> QED
    BY <2>1, <2>2, <2>3, <2>4, <2>5, <2>6, LoadTimes, ProcessStep
<1>3. CASE load[l].mtime # last
  <2> DEFINE p == [load[l] EXCEPT !.phase = "read", !.mtime = 0]
  <2>1. load' = [load EXCEPT ![l] = p] /\ last' = load[l].mtime
    BY <1>3 DEF Compare, IInv, Types
  <2>2. p \in Loading /\ p.phase = "read" /\ p.mtime = 0 /\ p.at = load[l].at
    BY <1>1 DEF Loading
  <2> HIDE DEF p
  <2>3. load[l].mtime \in Nat
    BY <1>1 DEF Loading
  <2>4. Types'
    <3>1. load' \in [Loads -> Loading \cup {NoLoad}] /\ last' \in Known
      BY <2>1, <2>2, <2>3, OneLoad DEF Known
    <3> QED
      BY <1>3, <3>1 DEF Compare, IInv, Types
  <2>5. InForce' \subseteq InForce
    BY <2>1, <2>2, OneLoad DEF Compare, InForce
  <2>6. Recorded'
    <3>1. Catching(l)'
      BY <2>1, <2>2, OneLoad DEF Catching
    <3>2. \A k \in Loads : load'[k].phase = "apply" => load'[k] = load[k]
      BY <2>1, <2>2, OneLoad
    <3> QED
      BY <3>1, <3>2 DEF Compare, IInv, Recorded
  <2>7. \A k \in Loads : load'[k] # NoLoad => load'[k].mtime <= mtime /\ load'[k].at <= mtime
    <3>1. p.mtime <= mtime /\ p.at <= mtime
      BY <1>1, <2>2, LoadTimes
    <3> QED
      BY <2>1, <2>2, <3>1, OneLoad
  <2>8. engineAt' = engineAt /\ last' <= mtime
    BY <1>1, <2>1 DEF Compare
  <2> QED
    BY <2>4, <2>5, <2>6, <2>7, <2>8, LoadTimes, ProcessStep
<1> QED
  BY <1>2, <1>3

LEMMA ReadFileStep ==
  ASSUME IInv, NEW l \in Loads, ReadFile(l), UNCHANGED bindingVars
  PROVE  IInv'
<1> USE DEF bindingVars
<1> DEFINE p == [load[l] EXCEPT !.phase = "apply", !.got = file, !.at = mtime]
<1>1. load[l].phase = "read" /\ load[l] \in Loading /\ load[l].mtime <= mtime /\ mtime \in Nat /\ file \in File
  BY LoadTimes DEF ReadFile
<1>2. load' = [load EXCEPT ![l] = p]
  BY DEF ReadFile, IInv, Types
<1>3. p \in Loading /\ p.phase = "apply" /\ p.got = file /\ p.at = mtime /\ p.mtime = load[l].mtime
  BY <1>1 DEF Loading
<1> HIDE DEF p
<1>4. load' \in [Loads -> Loading \cup {NoLoad}] /\ load'[l] = p /\ \A k \in Loads \ {l} : load'[k] = load[k]
  BY <1>2, <1>3, OneLoad
<1>5. Types'
  BY <1>4 DEF ReadFile, IInv, Types
<1>6. \A k \in Loads : load'[k] # NoLoad => load'[k].mtime <= mtime /\ load'[k].at <= mtime
  <2>1. p.mtime <= mtime /\ p.at <= mtime
    BY <1>1, <1>3
  <2> QED
    BY <1>2, <1>3, <2>1, OneLoad
<1>7. InForce' \subseteq InForce
  BY <1>3, <1>4 DEF ReadFile, InForce
<1>8. Recorded'
  <2>1. Catching(l)'
    BY <1>3, <1>4 DEF Catching
  <2>2. \A k \in Loads : load'[k].phase = "apply" /\ load'[k].at = mtime => load'[k].got = file
    BY <1>3, <1>4 DEF IInv, Recorded
  <2> QED
    BY <2>1, <2>2 DEF ReadFile, Recorded
<1>9. last' = last /\ engineAt' = engineAt
  BY DEF ReadFile
<1> QED
  BY <1>5, <1>6, <1>7, <1>8, <1>9, LoadTimes, ProcessStep

LEMMA ReadFailsStep ==
  ASSUME IInv, NEW l \in Loads, ReadFails(l), UNCHANGED bindingVars
  PROVE  IInv'
<1> USE DEF bindingVars
<1>1. load' = [load EXCEPT ![l] = NoLoad] /\ ticking' = TRUE /\ failed' = TRUE
  BY DEF ReadFails, Done
<1>2. last' = last /\ engineAt' = engineAt /\ engine' = engine /\ overtaken' = overtaken
  BY DEF ReadFails
<1>3. load' \in [Loads -> Loading \cup {NoLoad}] /\ load'[l] = NoLoad /\ \A k \in Loads \ {l} : load'[k] = load[k]
  BY <1>1, NoLoadPhase, OneLoad
<1>4. Types'
  BY <1>1, <1>2, <1>3 DEF IInv, Types
<1>5. \A k \in Loads : load'[k] # NoLoad => load'[k].mtime <= mtime /\ load'[k].at <= mtime
  BY <1>1, NoLoadPhase, OneLoad
<1>6. InForce' \subseteq InForce
  BY <1>2, <1>3, NoLoadPhase DEF InForce
<1>7. Recorded'
  <2>1. \A k \in Loads : load'[k].phase = "apply" => load'[k] = load[k]
    BY <1>3, NoLoadPhase
  <2> QED
    BY <1>1, <2>1 DEF IInv, Recorded
<1> QED
  BY <1>2, <1>4, <1>5, <1>6, <1>7, LoadTimes, ProcessStep

\* The engine takes over what was read; it is the file's unless that has changed, or
\* a newer list was there already.
LEMMA ApplyStep ==
  ASSUME IInv, NEW l \in Loads, Apply(l), UNCHANGED bindingVars
  PROVE  IInv'
<1> USE DEF bindingVars
<1>1. load' = [load EXCEPT ![l] = NoLoad] /\ ticking' = TRUE
  BY DEF Apply, Done
<1>2. /\ engine' = load[l].got /\ engineAt' = load[l].at /\ last' = last /\ failed' = failed
      /\ overtaken' = (overtaken \/ load[l].at < engineAt)
      /\ load[l].phase = "apply"
  BY DEF Apply
<1>3. load[l] \in Loading /\ load[l].got \in File /\ load[l].at \in Nat /\ load[l].at <= mtime /\ mtime \in Nat
  BY <1>2, LoadTimes DEF Loading
<1>4. load' \in [Loads -> Loading \cup {NoLoad}] /\ load'[l] = NoLoad /\ \A k \in Loads \ {l} : load'[k] = load[k]
  BY <1>1, NoLoadPhase, OneLoad
<1>5. overtaken' \in BOOLEAN
  BY <1>2 DEF IInv, Types
<1>6. Types'
  BY <1>1, <1>2, <1>3, <1>4, <1>5 DEF IInv, Types
<1>7. \A k \in Loads : load'[k] # NoLoad => load'[k].mtime <= mtime /\ load'[k].at <= mtime
  BY <1>1, NoLoadPhase, OneLoad
<1>8. InForce' \subseteq InForce
  BY <1>2, <1>4, NoLoadPhase DEF InForce
<1>9. Recorded'
  <2>1. \A k \in Loads : load'[k].phase = "apply" => load'[k] = load[k]
    BY <1>4, NoLoadPhase
  <2>2. ASSUME last = mtime, ~failed', ~overtaken'
        PROVE  (engineAt' = mtime /\ engine' = file) \/ \E k \in Loads : Catching(k)'
    <3>1. ~overtaken /\ ~(load[l].at < engineAt) /\ engineAt \in Nat /\ engineAt <= mtime
      BY <1>2, <2>2, LoadTimes DEF IInv, Types
    <3>2. CASE load[l].at = mtime
      BY <1>2, <3>2 DEF IInv, Recorded
    <3>3. CASE load[l].at # mtime
      <4>1. engineAt # mtime
        BY <1>3, <3>1, <3>3
      <4>2. PICK k \in Loads : Catching(k)
        BY <1>2, <2>2, <3>1, <4>1 DEF IInv, Recorded
      <4>3. k # l
        BY <1>2, <3>3, <4>2 DEF Catching
      <4> QED
        BY <1>4, <4>2, <4>3 DEF Catching
    <3> QED
      BY <3>2, <3>3
  <2>3. \A k \in Loads : load'[k].phase = "apply" /\ load'[k].at = mtime => load'[k].got = file
    BY <2>1 DEF IInv, Recorded
  <2> QED
    BY <1>2, <2>2, <2>3 DEF Recorded
<1>10. (last' # None => last' <= mtime) /\ engineAt' <= mtime
  BY <1>2, <1>3, LoadTimes
<1> QED
  BY <1>6, <1>7, <1>8, <1>9, <1>10, ProcessStep

LEMMA RestartStep ==
  ASSUME IInv, Restart, UNCHANGED bindingVars
  PROVE  IInv'
<1> USE DEF bindingVars, Restart
<1>1. \A l \in Loads : load'[l] = NoLoad /\ load'[l].phase = "none"
  BY NoLoadPhase
<1>2. Types'
  BY EmptyList DEF IInv, Types, Known
<1>3. InForce' \subseteq InForce \cup {Nothing}
  BY <1>1 DEF InForce
<1>4. Recorded'
  BY <1>1, LoadTimes, NoneApart DEF Recorded
<1>5. last' = None /\ engineAt' <= mtime
  BY LoadTimes
<1> QED
  BY <1>1, <1>2, <1>3, <1>4, <1>5, ProcessStep

-----------------------------------------------------------------------------
(* The theorems.                                                            *)

LEMMA NextIInv == IInv /\ [Next]_vars => IInv'
<1> SUFFICES ASSUME IInv, [Next]_vars PROVE IInv'
  OBVIOUS
<1>1. CASE BindingsNext /\ UNCHANGED engineVars
  BY <1>1, ChecksStep, ReadListStep, WriteStep, FailsStep DEF BindingsNext
<1>2. CASE EngineNext /\ UNCHANGED bindingVars
  BY <1>2, TickStep, CompareStep, ReadFileStep, ReadFailsStep, ApplyStep, RestartStep DEF EngineNext
<1>3. CASE UNCHANGED vars
  <2> USE <1>3 DEF vars, bindingVars, engineVars
  <2>1. Types' /\ Times' /\ Recorded'
    BY DEF IInv, Types, Times, Recorded, Catching
  <2>2. \A q : Decided(q)' <=> Decided(q)
    BY DEF Decided, Changed, SourcesOnce, LoopFree, Loop, StateOf, IsBinding
  <2>3. Sound'
    BY <2>2 DEF IInv, Sound
  <2>4. InForce' = InForce
    BY DEF InForce
  <2>5. Once' /\ Free'
    BY <2>4 DEF IInv, Once, Free, SourcesOnce, LoopFree, Loop, StateOf, IsBinding
  <2> QED
    BY <2>1, <2>3, <2>5 DEF IInv
<1> QED
  BY <1>1, <1>2, <1>3 DEF Next

\* The invariant: whatever requests and refreshes overlap, fail or restart.
THEOREM BindingsInvariant == Spec => []IInv
BY InitIInv, NextIInv, PTL DEF Spec

\* The checks of the routes keep two bindings of one source out of the file and of the
\* engine, for any number of requests and refreshes, as long as no write races.
THEOREM SourcesStayOnce == Spec => []OneBindingPerSource
<1>1. IInv => OneBindingPerSource
  BY DEF IInv, Once, InForce, OneBindingPerSource
<1> QED
  BY <1>1, BindingsInvariant, PTL

\* The same for loops of state bindings of any length, as long as no binding is
\* changed on the page of the automations.
THEOREM LoopsStayOut == Spec => []NoStateLoop
<1>1. IInv => NoStateLoop
  BY DEF IInv, Free, InForce, NoStateLoop
<1> QED
  BY <1>1, BindingsInvariant, PTL

\* When all refreshes are over and the recorded time is the file's, the engine runs
\* the file's list, unless a read failed or a refresh was overtaken.
THEOREM RecordedMeansLoaded == Spec => []RecordedIsLoaded
<1>1. IInv => RecordedIsLoaded
  BY DEF IInv, Recorded, Catching, RecordedIsLoaded, Resting
<1> QED
  BY <1>1, BindingsInvariant, PTL

===============================================================================
