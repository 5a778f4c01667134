----------------------------- MODULE GatewayProofs -----------------------------
(***************************************************************************)
(* Proofs about two parts of the gateway: the scene store and the mirror   *)
(* in Home Assistant.                                                      *)
(*                                                                         *)
(* The scene store, for every set of scenes and of requests and every      *)
(* valid file to start from: types, validity of the file under overlapping *)
(* writes and crashes, that it implements SceneCatalogue, what becomes of  *)
(* a scene that was put, and that what is valid is what can be expanded.   *)
(*                                                                         *)
(* The mirror, for any floorplans, devices and scenes, and whatever earlier*)
(* runs left behind: a run that nobody interferes with ends in what its    *)
(* snapshot says, it makes each call once, and what is mirrored stays.     *)
(* Todo(run) are the calls that a run has before it, stage by stage: what  *)
(* is left of the stage it is in, and what is due in the stages to come.   *)
(* The invariant is that everything else is right already.                 *)
(***************************************************************************)
EXTENDS SceneStore, HaMirror, TLAPS, SequenceTheorems, FiniteSetTheorems

Saving(r) == req[r].phase \in {"writing", "written"}

\* A request that is saving holds a valid list, made by one edit of a version.
Pending ==
  \A r \in Requests : Saving(r) =>
    /\ req[r].base \in DOMAIN versions
    /\ req[r].next \in Catalogue!Edits(versions[req[r].base])
    /\ Valid(req[r].next)

StoreInv ==
  /\ StoreTypeOK
  /\ file \in Lists /\ Valid(file)
  /\ versions \in Seq(Lists) /\ Len(versions) > 0
  /\ versions[Len(versions)] = file
  /\ Pending

-----------------------------------------------------------------------------
(* The edits.                                                               *)

\* A list is a function from scenes to scene definitions.
LEMMA ListFacts ==
  ASSUME NEW list \in Lists
  PROVE  /\ DOMAIN list \subseteq SceneIds
         /\ \A s \in DOMAIN list : list[s] \in Scene /\ list[s].refs \subseteq SceneIds
  BY DEF Lists, Scene, Catalogue!Lists, Catalogue!Scene

\* Putting a scene keeps a list a list.
LEMMA WithIsList ==
  ASSUME NEW list \in Lists, NEW s \in SceneIds, NEW scene \in Scene
  PROVE  Catalogue!With(list, s, scene) \in Lists
<1>1. Catalogue!With(list, s, scene) \in [DOMAIN list \cup {s} -> Scene]
  BY ListFacts DEF Catalogue!With
<1>2. DOMAIN list \cup {s} \in SUBSET SceneIds
  BY ListFacts
<1> QED
  BY <1>1, <1>2 DEF Lists, Scene, Catalogue!Lists

\* Removing scenes keeps a list a list.
LEMMA WithoutIsList ==
  ASSUME NEW list \in Lists, NEW R
  PROVE  Catalogue!Without(list, R) \in Lists
<1>1. Catalogue!Without(list, R) \in [DOMAIN list \ R -> Scene]
  BY ListFacts DEF Catalogue!Without
<1>2. DOMAIN list \ R \in SUBSET SceneIds
  BY ListFacts
<1> QED
  BY <1>1, <1>2 DEF Lists, Scene, Catalogue!Lists

\* A scene that nothing names depends on nothing but itself.
LEMMA NoDependents ==
  ASSUME NEW list \in Lists, NEW s \in DOMAIN list, DirectDependents(list, s) = {}
  PROVE  Catalogue!Dependents(list, s) = {s}
<1>1. {s} \in SUBSET DOMAIN list /\ Catalogue!Closed(list, {s})
  BY DEF Catalogue!Closed, DirectDependents
<1>2. Catalogue!Dependents(list, s) \subseteq {s}
  BY <1>1 DEF Catalogue!Dependents
<1>3. s \in Catalogue!Dependents(list, s)
  BY DEF Catalogue!Dependents
<1> QED
  BY <1>2, <1>3

\* What names a dependent is a dependent.
LEMMA DependentsClosed ==
  ASSUME NEW list \in Lists, NEW s \in DOMAIN list
  PROVE  Catalogue!Closed(list, Catalogue!Dependents(list, s))
<1>1. SUFFICES ASSUME NEW t \in DOMAIN list, NEW u \in Catalogue!Dependents(list, s), u \in list[t].refs
               PROVE  t \in Catalogue!Dependents(list, s)
  BY DEF Catalogue!Closed
<1>2. SUFFICES ASSUME NEW C \in SUBSET DOMAIN list, s \in C, Catalogue!Closed(list, C)
               PROVE  t \in C
  BY DEF Catalogue!Dependents
<1>3. u \in C
  BY <1>1, <1>2 DEF Catalogue!Dependents
<1> QED
  BY <1>1, <1>2, <1>3 DEF Catalogue!Closed

\* A delete validates nothing, and need not: what it leaves names nothing it removed.
LEMMA WithoutDependentsValid ==
  ASSUME NEW list \in Lists, Valid(list), NEW s \in DOMAIN list
  PROVE  Valid(Catalogue!Without(list, Catalogue!Dependents(list, s)))
<1> DEFINE R == Catalogue!Dependents(list, s)
           rest == Catalogue!Without(list, R)
<1>1. DOMAIN rest = DOMAIN list \ R /\ \A t \in DOMAIN rest : rest[t] = list[t]
  BY DEF Catalogue!Without
<1>2. Catalogue!NoMissing(list) /\ Catalogue!NoCycle(list)
  BY DEF Valid, Catalogue!Valid
<1>3. Catalogue!NoMissing(rest)
  <2>1. SUFFICES ASSUME NEW t \in DOMAIN rest, NEW u \in rest[t].refs
                 PROVE  u \in DOMAIN rest
    BY DEF Catalogue!NoMissing
  <2>2. t \in DOMAIN list /\ t \notin R /\ u \in list[t].refs
    BY <1>1, <2>1
  <2>3. u \in DOMAIN list
    BY <1>2, <2>2 DEF Catalogue!NoMissing
  <2>4. u \notin R
    BY <2>2, DependentsClosed DEF Catalogue!Closed
  <2> QED
    BY <1>1, <2>3, <2>4
<1>4. Catalogue!NoCycle(rest)
  <2>1. SUFFICES ASSUME NEW C \in (SUBSET DOMAIN rest) \ {{}}
                 PROVE  \E t \in C : rest[t].refs \cap C = {}
    BY DEF Catalogue!NoCycle
  <2>2. C \in (SUBSET DOMAIN list) \ {{}}
    BY <1>1, <2>1
  <2>3. PICK t \in C : list[t].refs \cap C = {}
    BY <1>2, <2>2 DEF Catalogue!NoCycle
  <2> QED
    BY <1>1, <2>1, <2>3
<1> QED
  BY <1>3, <1>4 DEF Valid, Catalogue!Valid

\* An edit that the store allows is an edit of the catalogue and gives a valid list.
LEMMA AllowedEdit ==
  ASSUME NEW list \in Lists, Valid(list), NEW op \in Ops, Allowed(list, op)
  PROVE  /\ Edited(list, op) \in Lists
         /\ Edited(list, op) \in Catalogue!Edits(list)
         /\ Valid(Edited(list, op))
<1>1. CASE op.kind \in {"create", "update"}
  <2>1. op.id \in SceneIds /\ op.scene \in Scene
    BY <1>1 DEF Ops
  <2>2. Edited(list, op) = Catalogue!With(list, op.id, op.scene)
    BY <1>1 DEF Edited
  <2>3. Valid(Edited(list, op))
    BY <1>1 DEF Allowed
  <2> QED
    BY <2>1, <2>2, <2>3, WithIsList DEF Catalogue!Edits, Scene
<1>2. CASE op.kind = "delete"
  <2>1. op.id \in DOMAIN list /\ (DirectDependents(list, op.id) = {} \/ op.cascade)
    BY <1>2 DEF Allowed
  <2>2. Removed(list, op) = Catalogue!Dependents(list, op.id)
    BY <2>1, NoDependents DEF Removed
  <2>3. Edited(list, op) = Catalogue!Without(list, Catalogue!Dependents(list, op.id))
    BY <1>2, <2>2 DEF Edited
  <2> QED
    BY <2>1, <2>3, WithoutIsList, WithoutDependentsValid DEF Catalogue!Edits
<1> QED
  BY <1>1, <1>2 DEF Ops

-----------------------------------------------------------------------------
(* The invariant.                                                           *)

\* The empty list is a list.
LEMMA NoListIsList == NoList \in Lists
  BY DEF NoList, Lists, Catalogue!Lists

\* The invariant holds when the gateway starts.
LEMMA InitStoreInv == StoreInit => StoreInv
<1> SUFFICES ASSUME StoreInit PROVE StoreInv
  OBVIOUS
<1>1. file \in Lists /\ Valid(file)
  BY SceneStoreAssumption DEF StoreInit
<1>2. versions \in Seq(Lists) /\ Len(versions) = 1 /\ versions[1] = file
  BY <1>1 DEF StoreInit
<1>3. versions \in Seq(Lists \cup {Torn})
  BY <1>1 DEF StoreInit
<1>4. Unasked \in Request
  BY NoListIsList DEF Unasked, Request
<1>5. StoreTypeOK
  BY <1>1, <1>3, <1>4 DEF StoreTypeOK, StoreInit
<1>6. Pending
  BY DEF Pending, Saving, StoreInit, Unasked
<1> QED
  BY <1>1, <1>2, <1>5, <1>6 DEF StoreInv

\* Reading the file and checking the edit: the new list is one edit of the last version.
LEMMA ReadStep ==
  ASSUME StoreInv, NEW r \in Requests, NEW op \in Ops, Read(r, op)
  PROVE  StoreInv'
<1>1. file \in Lists /\ Valid(file) /\ Readable
  BY SceneStoreAssumption DEF StoreInv, Readable
<1>2. Len(versions) \in Nat /\ Len(versions) \in DOMAIN versions /\ versions[Len(versions)] = file
  BY LenProperties DEF StoreInv
<1>3. UNCHANGED <<file, versions>>
  BY DEF Read
<1>4. CASE Allowed(file, op)
  <2> DEFINE q == [phase |-> "writing", op |-> op, next |-> Edited(file, op), base |-> Len(versions), made |-> 0]
  <2>1. req' = [req EXCEPT ![r] = q]
    BY <1>1, <1>4 DEF Read
  <2>2. /\ Edited(file, op) \in Lists
        /\ Edited(file, op) \in Catalogue!Edits(file)
        /\ Valid(Edited(file, op))
    BY <1>1, <1>4, AllowedEdit
  <2>3. q \in Request
    BY <1>2, <2>2 DEF Request
  <2>4. StoreTypeOK'
    BY <1>3, <2>1, <2>3 DEF StoreInv, StoreTypeOK
  <2>5. Pending'
    <3>1. SUFFICES ASSUME NEW p \in Requests, Saving(p)'
                   PROVE  /\ req'[p].base \in DOMAIN versions
                          /\ req'[p].next \in Catalogue!Edits(versions[req'[p].base])
                          /\ Valid(req'[p].next)
      BY <1>3 DEF Pending
    <3>2. CASE p = r
      <4>1. req'[p] = q
        BY <2>1, <3>2 DEF StoreInv, StoreTypeOK
      <4> QED
        BY <1>2, <2>2, <4>1
    <3>3. CASE p # r
      <4>1. req'[p] = req[p]
        BY <2>1, <3>3 DEF StoreInv, StoreTypeOK
      <4> QED
        BY <3>1, <4>1 DEF Saving, StoreInv, Pending
    <3> QED
      BY <3>2, <3>3
  <2> QED
    BY <1>3, <2>4, <2>5 DEF StoreInv
<1>5. CASE ~Allowed(file, op)
  <2> DEFINE q == [phase |-> "refused", op |-> op, next |-> NoList, base |-> Len(versions), made |-> 0]
  <2>1. req' = [req EXCEPT ![r] = q]
    BY <1>1, <1>5 DEF Read
  <2>2. q \in Request
    BY <1>2, NoListIsList DEF Request
  <2>3. StoreTypeOK'
    BY <1>3, <2>1, <2>2 DEF StoreInv, StoreTypeOK
  <2>4. Pending'
    BY <1>3, <2>1 DEF StoreInv, StoreTypeOK, Pending, Saving
  <2> QED
    BY <1>3, <2>3, <2>4 DEF StoreInv
<1> QED
  BY <1>4, <1>5

\* A request that changes only its phase keeps the invariant, unless it begins to save.
LEMMA PhaseStep ==
  ASSUME StoreInv, UNCHANGED <<file, versions>>, req' \in [Requests -> Request],
         \A r \in Requests : /\ req'[r].next = req[r].next
                             /\ req'[r].base = req[r].base
                             /\ Saving(r)' => Saving(r)
  PROVE  StoreInv'
<1>1. StoreTypeOK'
  BY DEF StoreInv, StoreTypeOK
<1>2. Pending'
  BY DEF StoreInv, Pending
<1> QED
  BY <1>1, <1>2 DEF StoreInv

\* The list that takes the place of the file is a valid edit of a version.
LEMMA RenameStep ==
  ASSUME StoreInv, NEW r \in Requests, Rename(r)
  PROVE  StoreInv'
<1>1. /\ req[r].phase = "written" /\ file' = req[r].next /\ versions' = Append(versions, file')
      /\ req' = [req EXCEPT ![r].phase = "done", ![r].made = Len(versions) + 1]
  BY DEF Rename
<1>2. req[r].next \in Lists /\ Valid(req[r].next)
  BY <1>1 DEF StoreInv, StoreTypeOK, Request, Pending, Saving
<1>3. /\ versions' \in Seq(Lists) /\ Len(versions') = Len(versions) + 1
      /\ versions'[Len(versions')] = file'
      /\ \A i \in DOMAIN versions : i \in DOMAIN versions' /\ versions'[i] = versions[i]
  BY <1>1, <1>2, AppendProperties, LenProperties DEF StoreInv
<1>4. versions' \in Seq(Lists \cup {Torn})
  BY <1>1, <1>2, AppendProperties DEF StoreInv, StoreTypeOK
<1>5. StoreTypeOK'
  <2>1. req[r] \in Request /\ Len(versions) + 1 \in Nat
    BY LenProperties DEF StoreInv, StoreTypeOK
  <2>2. [req[r] EXCEPT !.phase = "done", !.made = Len(versions) + 1] \in Request
    BY <2>1 DEF Request
  <2>3. req' \in [Requests -> Request]
    BY <1>1, <2>1, <2>2 DEF StoreInv, StoreTypeOK
  <2> QED
    BY <1>1, <1>2, <1>4, <2>3 DEF StoreTypeOK
<1>6. Pending'
  <2>1. SUFFICES ASSUME NEW p \in Requests, Saving(p)'
                 PROVE  /\ req'[p].base \in DOMAIN versions'
                        /\ req'[p].next \in Catalogue!Edits(versions'[req'[p].base])
                        /\ Valid(req'[p].next)
    BY DEF Pending
  <2>2. p # r /\ req'[p] = req[p]
    BY <1>1, <2>1 DEF StoreInv, StoreTypeOK, Saving
  <2> QED
    BY <1>3, <2>1, <2>2 DEF StoreInv, Pending, Saving
<1> QED
  BY <1>1, <1>2, <1>3, <1>5, <1>6, LenProperties DEF StoreInv

\* Every step keeps the invariant.
LEMMA NextStoreInv == StoreInv /\ [StoreNext]_storeVars => StoreInv'
<1> SUFFICES ASSUME StoreInv, [StoreNext]_storeVars PROVE StoreInv'
  OBVIOUS
<1>1. ASSUME NEW r \in Requests, NEW op \in Ops, Read(r, op) PROVE StoreInv'
  BY <1>1, ReadStep
<1>2. ASSUME NEW r \in Requests, WriteTmp(r) PROVE StoreInv'
  BY <1>2, PhaseStep DEF WriteTmp, StoreInv, StoreTypeOK, Request, Saving
<1>3. ASSUME NEW r \in Requests, WriteFails(r) PROVE StoreInv'
  BY <1>3, PhaseStep DEF WriteFails, StoreInv, StoreTypeOK, Request, Saving
<1>4. ASSUME NEW r \in Requests, Rename(r) PROVE StoreInv'
  BY <1>4, RenameStep
<1>5. CASE Crash
  <2>1. /\ UNCHANGED <<file, versions>>
        /\ req' = [r \in Requests |->
             IF req[r].phase \in {"writing", "written"} THEN [req[r] EXCEPT !.phase = "lost"] ELSE req[r]]
    BY <1>5 DEF Crash
  <2>2. \A r \in Requests : req[r] \in Request
    BY DEF StoreInv, StoreTypeOK
  <2>3. \A r \in Requests : [req[r] EXCEPT !.phase = "lost"] \in Request
    BY <2>2 DEF Request
  <2>4. \A r \in Requests : /\ req'[r].next = req[r].next /\ req'[r].base = req[r].base
                            /\ Saving(r)' => Saving(r)
    BY <2>1, <2>2 DEF Saving, Request
  <2> QED
    BY <2>1, <2>2, <2>3, <2>4, PhaseStep
<1>6. CASE UNCHANGED storeVars
  BY <1>6 DEF storeVars, StoreInv, StoreTypeOK, Pending, Saving
<1> QED
  BY <1>1, <1>2, <1>3, <1>4, <1>5, <1>6 DEF StoreNext

\* The invariant is an invariant.
LEMMA StoreInvariance == StoreSpec => []StoreInv
<1> QED
  BY InitStoreInv, NextStoreInv, PTL DEF StoreSpec

-----------------------------------------------------------------------------
(* The theorems.                                                            *)

\* Every variable keeps its type: file, history and requests of the store.
THEOREM StoreTypeCorrect == StoreSpec => []StoreTypeOK
<1>1. StoreInv => StoreTypeOK
  BY DEF StoreInv
<1> QED
  BY <1>1, StoreInvariance, PTL

\* The file is a whole valid list, whatever overlaps, fails or crashes: the list a
\* request saves was valid on its own, and no other list is ever renamed into place.
THEOREM FileValid == StoreSpec => []FileAlwaysValid
<1>1. StoreInv => FileAlwaysValid
  BY SceneStoreAssumption DEF StoreInv, FileAlwaysValid
<1> QED
  BY <1>1, StoreInvariance, PTL

\* The store implements SceneCatalogue: it starts from a valid list, and each step
\* leaves the file alone or replaces it by one legal edit of a list it has held.
THEOREM Implementation == StoreSpec => KeepsPromise
<1> DEFINE Held == {versions[i] : i \in DOMAIN versions}
<1>1. StoreInit => Catalogue!Init
  BY SceneStoreAssumption DEF StoreInit, Catalogue!Init, Lists, Valid
<1>2. StoreInv /\ [StoreNext]_storeVars => [Catalogue!Next]_<<file, Held>>
  <2> SUFFICES ASSUME StoreInv, [StoreNext]_storeVars, ~UNCHANGED <<file, versions>>
               PROVE  Catalogue!Next
    OBVIOUS
  <2>1. PICK r \in Requests : Rename(r)
    BY DEF StoreNext, Read, WriteTmp, WriteFails, Crash, storeVars
  <2>2. /\ req[r].base \in DOMAIN versions
        /\ req[r].next \in Catalogue!Edits(versions[req[r].base])
        /\ Catalogue!Valid(req[r].next)
    BY <2>1 DEF Rename, StoreInv, Pending, Saving, Valid
  <2>3. file' = req[r].next /\ versions' = Append(versions, req[r].next) /\ versions \in Seq(Lists)
    BY <2>1 DEF Rename, StoreInv
  <2>4. Held' = Held \cup {req[r].next}
    <3>1. DOMAIN versions = 1 .. Len(versions) /\ DOMAIN versions' = 1 .. Len(versions) + 1
      BY <2>3, LenProperties, AppendProperties
    <3>2. /\ \A i \in 1 .. Len(versions) : versions'[i] = versions[i]
          /\ versions'[Len(versions) + 1] = req[r].next
      BY <2>3, AppendProperties
    <3> DEFINE n == Len(versions)
    <3>0. n \in Nat
      BY <2>3, LenProperties
    <3> HIDE DEF n
    <3>3. n + 1 \in DOMAIN versions' /\ n + 1 = Len(versions) + 1
      BY <3>0, <3>1 DEF n
    <3>4. \A i \in DOMAIN versions' : i \in DOMAIN versions \/ i = Len(versions) + 1
      BY <3>1, <3>3
    <3>5. DOMAIN versions \subseteq DOMAIN versions'
      BY <3>1, <3>3
    <3> QED
      BY <3>1, <3>2, <3>3, <3>4, <3>5
  <2> QED
    BY <2>2, <2>3, <2>4 DEF Catalogue!Next
<1> QED
  BY <1>1, <1>2, StoreInvariance, PTL DEF StoreSpec, KeepsPromise, Catalogue!Spec

-----------------------------------------------------------------------------
(* What becomes of a scene that was put.                                    *)

\* The list a request is saving is its own edit of the version it read.
Derived == \A r \in Requests : Saving(r) =>
  req[r].op \in Ops /\ req[r].next = Edited(versions[req[r].base], req[r].op)

\* Somebody removed the scene that q put, or saved an older list over it.
Taken(q) == \E p \in Requests \ {q} : Removes(p, req[q].op.id) \/ Overtook(p, q)

\* A scene that was put is in every list since, or it was taken.
Kept(q) == req[q].phase = "done" /\ req[q].op.kind # "delete" =>
  /\ req[q].made \in 1 .. Len(versions)
  /\ Taken(q) \/ \A i \in req[q].made .. Len(versions) : req[q].op.id \in DOMAIN versions[i]
History == Derived /\ \A q \in Requests : Kept(q)

\* A put leaves every scene of the list in it, and its own.
LEMMA PutKeeps ==
  ASSUME NEW list \in Lists, NEW op \in Ops, op.kind # "delete"
  PROVE  DOMAIN Edited(list, op) = DOMAIN list \cup {op.id}
BY DEF Edited, Catalogue!With

\* A step that renames nothing keeps the history: it puts nothing and takes nothing.
LEMMA HistoryStands ==
  ASSUME StoreInv, History, UNCHANGED <<file, versions>>,
         \A r \in Requests : /\ req[r].phase = "done" => req'[r] = req[r]
                             /\ req'[r].phase = "done" => req[r].phase = "done"
                             /\ Saving(r)' => \/ Saving(r) /\ /\ req'[r].next = req[r].next
                                                              /\ req'[r].base = req[r].base
                                                              /\ req'[r].op = req[r].op
                                              \/ /\ req'[r].op \in Ops
                                                 /\ req'[r].next = Edited(versions[req'[r].base], req'[r].op)
  PROVE  History'
<1>1. Derived'
  BY DEF History, Derived
<1>2. ASSUME NEW q \in Requests  PROVE Kept(q)'
  <2>1. SUFFICES ASSUME req'[q].phase = "done", req'[q].op.kind # "delete"
                 PROVE  /\ req'[q].made \in 1 .. Len(versions)
                        /\ Taken(q)' \/ \A i \in req'[q].made .. Len(versions) : req'[q].op.id \in DOMAIN versions[i]
    BY DEF Kept
  <2>2. req'[q] = req[q] /\ Kept(q)
    BY <2>1 DEF History
  <2>3. Taken(q) => Taken(q)'
    BY <2>1, <2>2 DEF Taken, Removes, Overtook
  <2> QED
    BY <2>1, <2>2, <2>3 DEF Kept
<1> QED
  BY <1>1, <1>2 DEF History

\* A request that saves takes a scene only by removing it, or by having read before it.
LEMMA HistoryGrows ==
  ASSUME StoreInv, StoreInv', History, NEW r \in Requests, Rename(r)
  PROVE  History'
<1> DEFINE n == Len(versions) + 1
<1>1. /\ req[r].phase = "written" /\ file' = req[r].next /\ versions' = Append(versions, file')
      /\ req' = [req EXCEPT ![r].phase = "done", ![r].made = n]
  BY DEF Rename
<1>2. /\ versions \in Seq(Lists) /\ Len(versions) \in Nat /\ Len(versions') = n
      /\ versions'[n] = req[r].next
      /\ \A i \in 1 .. Len(versions) : versions'[i] = versions[i] /\ versions[i] \in Lists
  BY <1>1, AppendProperties, LenProperties, ElementOfSeq DEF StoreInv, StoreTypeOK, Request
<1>3. req \in [Requests -> Request] /\ \A q \in Requests : q # r => req'[q] = req[q]
  BY <1>1 DEF StoreInv, StoreTypeOK
<1>4. /\ req'[r].phase = "done" /\ req'[r].made = n /\ req'[r].op = req[r].op /\ req'[r].next = req[r].next
      /\ req'[r].base = req[r].base
  BY <1>1, <1>3 DEF Request
<1> DEFINE b == req[r].base
<1>5. b \in 1 .. Len(versions) /\ req[r].op \in Ops /\ req[r].next = Edited(versions[b], req[r].op)
  BY <1>1, <1>2, LenProperties DEF StoreInv, Pending, History, Derived, Saving
<1> HIDE DEF n, b
<1>6. n \in Nat /\ n = Len(versions) + 1
  BY <1>2 DEF n
<1>7. Derived'
  <2> SUFFICES ASSUME NEW p \in Requests, Saving(p)'
               PROVE  req'[p].op \in Ops /\ req'[p].next = Edited(versions'[req'[p].base], req'[p].op)
    BY DEF Derived
  <2>1. p # r /\ req'[p] = req[p] /\ Saving(p)
    BY <1>3, <1>4 DEF Saving
  <2>2. req[p].base \in 1 .. Len(versions)
    BY <1>2, <2>1, LenProperties DEF StoreInv, Pending
  <2> QED
    BY <1>2, <2>1, <2>2 DEF History, Derived
<1>8. ASSUME NEW q \in Requests  PROVE Kept(q)'
  <2> SUFFICES ASSUME req'[q].phase = "done", req'[q].op.kind # "delete"
               PROVE  /\ req'[q].made \in 1 .. n
                      /\ Taken(q)' \/ \A i \in req'[q].made .. n : req'[q].op.id \in DOMAIN versions'[i]
    BY <1>2 DEF Kept
  <2>1. CASE q = r
    <3>1. req[r].op.id \in DOMAIN versions'[n]
      BY <1>2, <1>4, <1>5, <2>1, PutKeeps
    <3> QED
      BY <1>4, <1>6, <2>1, <3>1
  <2>2. CASE q # r
    <3>1. req'[q] = req[q] /\ Kept(q) /\ req[q].made \in 1 .. Len(versions)
      BY <1>3, <2>2 DEF History, Kept
    <3>2. CASE Taken(q)
      <4>1. PICK p \in Requests \ {q} : Removes(p, req[q].op.id) \/ Overtook(p, q)
        BY <3>2 DEF Taken
      <4>2. p # r
        BY <1>1, <4>1 DEF Removes, Overtook
      <4>3. req'[p] = req[p]
        BY <1>3, <4>2
      <4>4. Taken(q)'
        BY <3>1, <4>1, <4>3 DEF Taken, Removes, Overtook
      <4> QED
        BY <1>6, <3>1, <4>4
    <3>3. CASE \A i \in req[q].made .. Len(versions) : req[q].op.id \in DOMAIN versions[i]
      <4>1. CASE req[q].op.id \in DOMAIN req[r].next
        <5>1. \A i \in req[q].made .. n : req[q].op.id \in DOMAIN versions'[i]
          BY <1>2, <1>6, <3>1, <3>3, <4>1
        <5> QED
          BY <1>6, <3>1, <5>1
      <4>2. CASE req[q].op.id \notin DOMAIN req[r].next /\ b < req[q].made
        <5>1. Overtook(r, q)'
          BY <1>4, <1>6, <3>1, <4>2 DEF Overtook, b
        <5>2. Taken(q)'
          BY <2>2, <5>1 DEF Taken
        <5> QED
          BY <1>6, <3>1, <5>2
      <4>3. CASE req[q].op.id \notin DOMAIN req[r].next /\ ~(b < req[q].made)
        <5>1. req[q].op.id \in DOMAIN versions[b] /\ versions[b] \in Lists
          BY <1>2, <1>5, <3>1, <3>3, <4>3
        <5>2. req[r].op.kind = "delete"
          BY <1>5, <4>3, <5>1, PutKeeps
        <5>3. Removes(r, req[q].op.id)'
          BY <1>4, <3>1, <4>3, <5>2 DEF Removes
        <5>4. Taken(q)'
          BY <2>2, <3>1, <5>3 DEF Taken
        <5> QED
          BY <1>6, <3>1, <5>4
      <4> QED
        BY <4>1, <4>2, <4>3
    <3> QED
      BY <2>2, <3>1, <3>2, <3>3 DEF Kept
  <2> QED
    BY <2>1, <2>2
<1> QED
  BY <1>7, <1>8 DEF History

\* Every step keeps the history.
LEMMA NextHistory == StoreInv /\ StoreInv' /\ History /\ [StoreNext]_storeVars => History'
<1> SUFFICES ASSUME StoreInv, StoreInv', History, [StoreNext]_storeVars PROVE History'
  OBVIOUS
<1>0. \A r \in Requests : req[r] \in Request
  BY DEF StoreInv, StoreTypeOK
<1>1. ASSUME NEW r \in Requests, NEW op \in Ops, Read(r, op) PROVE History'
  <2>1. UNCHANGED <<file, versions>> /\ req[r].phase = "idle" /\ versions[Len(versions)] = file
    BY <1>1 DEF Read, StoreInv
  <2>2. \A p \in Requests : p # r => req'[p] = req[p]
    BY <1>1 DEF Read, StoreInv, StoreTypeOK
  <2>3. \/ req'[r].phase = "refused"
        \/ /\ req'[r].phase = "writing" /\ req'[r].op = op
           /\ req'[r].next = Edited(file, op) /\ req'[r].base = Len(versions)
    BY <1>1 DEF Read, StoreInv, StoreTypeOK
  <2> QED
    BY <2>1, <2>2, <2>3, HistoryStands DEF Saving
<1>2. ASSUME NEW r \in Requests, WriteTmp(r) PROVE History'
  BY <1>0, <1>2, HistoryStands DEF WriteTmp, StoreInv, StoreTypeOK, Request, Saving
<1>3. ASSUME NEW r \in Requests, WriteFails(r) PROVE History'
  BY <1>0, <1>3, HistoryStands DEF WriteFails, StoreInv, StoreTypeOK, Request, Saving
<1>4. ASSUME NEW r \in Requests, Rename(r) PROVE History'
  BY <1>4, HistoryGrows
<1>5. CASE Crash
  <2>1. /\ UNCHANGED <<file, versions>>
        /\ \A r \in Requests : req'[r] =
             IF req[r].phase \in {"writing", "written"} THEN [req[r] EXCEPT !.phase = "lost"] ELSE req[r]
    BY <1>5 DEF Crash
  <2>2. \A r \in Requests : /\ req[r].phase = "done" => req'[r] = req[r]
                            /\ req'[r].phase = "done" => req[r].phase = "done"
                            /\ ~Saving(r)'
    BY <1>0, <2>1 DEF Saving, Request
  <2> QED
    BY <2>1, <2>2, HistoryStands
<1>6. CASE UNCHANGED storeVars
  <2>1. UNCHANGED <<file, versions>> /\ req' = req
    BY <1>6 DEF storeVars
  <2>2. \A r \in Requests : Saving(r)' => Saving(r)
    BY <2>1 DEF Saving
  <2> QED
    BY <2>1, <2>2, HistoryStands
<1> QED
  BY <1>1, <1>2, <1>3, <1>4, <1>5, <1>6 DEF StoreNext

\* scene-store.js:38-118: a scene that was put and acknowledged is gone only because a later
\* request removed it or an overlapping one saved its older list, for any number of requests.
THEOREM LostOnlyByOverlap == StoreSpec => []LostOnlyToOverlap
<1>1. StoreInit => History
  BY DEF StoreInit, Unasked, History, Derived, Kept, Saving
<1>2. StoreInv /\ History => LostOnlyToOverlap
  <2> SUFFICES ASSUME StoreInv, History, NEW q \in Requests, req[q].phase = "done", req[q].op.kind # "delete",
                      req[q].op.id \notin DOMAIN file
               PROVE  Taken(q)
    BY DEF LostOnlyToOverlap, Taken
  <2>1. Kept(q) /\ versions[Len(versions)] = file
    BY DEF History, StoreInv
  <2> QED
    BY <2>1 DEF Kept
<1> QED
  BY <1>1, <1>2, StoreInvariance, NextHistory, PTL DEF StoreSpec

-----------------------------------------------------------------------------
(* Expansion.  That the recursion of its definition has a solution is shown *)
(* for every list, by taking the least of those that fail at least as the   *)
(* recursion demands; in what way a valid list fails is shown of every      *)
(* solution, by looking at a scene whose references do better.              *)

Failures == {"cycle", "not_found", "not_expandable"}
Guesses == [SUBSET SceneIds -> [SceneIds -> SUBSET Failures]]

\* What the recursion makes of a guess, and when the guess allows for it.
FailsAt(list, f, seen, s) ==
  IF s \in seen THEN {"cycle"}
  ELSE IF s \notin DOMAIN list THEN {"not_found"}
  ELSE IF list[s].kind = "goals" THEN {"not_expandable"}
  ELSE UNION {f[seen \cup {s}][t] : t \in list[s].refs}
Unfolded(list, f) == [seen \in SUBSET SceneIds |-> [s \in SceneIds |-> FailsAt(list, f, seen, s)]]
Below(f, g) == \A seen \in SUBSET SceneIds, s \in SceneIds : f[seen][s] \subseteq g[seen][s]
Least(list) == [seen \in SUBSET SceneIds |-> [s \in SceneIds |->
  {e \in Failures : \A h \in Guesses : Below(Unfolded(list, h), h) => e \in h[seen][s]}]]

\* A guess that allows for more is made into one that does.
LEMMA UnfoldingGrows ==
  ASSUME NEW list \in Lists, NEW f, NEW g, Below(f, g)
  PROVE  Below(Unfolded(list, f), Unfolded(list, g))
<1>1. SUFFICES ASSUME NEW seen \in SUBSET SceneIds, NEW s \in SceneIds
               PROVE  FailsAt(list, f, seen, s) \subseteq FailsAt(list, g, seen, s)
  BY DEF Below, Unfolded
<1>2. s \in DOMAIN list => \A t \in list[s].refs : f[seen \cup {s}][t] \subseteq g[seen \cup {s}][t]
  BY ListFacts DEF Below
<1> QED
  BY <1>2 DEF FailsAt

LEMMA UnfoldedIsGuess ==
  ASSUME NEW list \in Lists, NEW f \in Guesses
  PROVE  Unfolded(list, f) \in Guesses
<1>1. SUFFICES ASSUME NEW seen \in SUBSET SceneIds, NEW s \in SceneIds
               PROVE  FailsAt(list, f, seen, s) \subseteq Failures
  BY DEF Unfolded, Guesses
<1>2. s \in DOMAIN list => \A t \in list[s].refs : f[seen \cup {s}][t] \subseteq Failures
  BY ListFacts DEF Guesses
<1> QED
  BY <1>2 DEF FailsAt, Failures

\* The recursion has a solution.
LEMMA LeastIsSolution ==
  ASSUME NEW list \in Lists
  PROVE  Least(list) = Unfolded(list, Least(list))
<1> DEFINE g == Least(list)
<1>1. g \in Guesses
  BY DEF Least, Guesses
<1>2. ASSUME NEW h \in Guesses, Below(Unfolded(list, h), h) PROVE Below(g, h)
  BY <1>2 DEF Below, Least
<1>3. ASSUME NEW h \in Guesses, \A k \in Guesses : Below(Unfolded(list, k), k) => Below(h, k)
      PROVE  Below(h, g)
  <2>1. SUFFICES ASSUME NEW seen \in SUBSET SceneIds, NEW s \in SceneIds, NEW e \in h[seen][s]
                 PROVE  e \in g[seen][s]
    BY DEF Below
  <2>2. e \in Failures
    BY DEF Guesses
  <2>3. \A k \in Guesses : Below(Unfolded(list, k), k) => e \in k[seen][s]
    BY <1>3 DEF Below
  <2> QED
    BY <2>2, <2>3 DEF Least
<1> HIDE DEF g
<1>4. Unfolded(list, g) \in Guesses
  BY <1>1, UnfoldedIsGuess
<1>5. \A k \in Guesses : Below(Unfolded(list, k), k) => Below(Unfolded(list, g), k)
  <2>1. SUFFICES ASSUME NEW k \in Guesses, Below(Unfolded(list, k), k) PROVE Below(Unfolded(list, g), k)
    OBVIOUS
  <2>2. Below(Unfolded(list, g), Unfolded(list, k))
    BY <1>2, <2>1, UnfoldingGrows
  <2> QED
    BY <2>1, <2>2 DEF Below
<1>6. Below(Unfolded(list, g), g)
  BY <1>3, <1>4, <1>5
<1>7. Below(g, Unfolded(list, g))
  BY <1>2, <1>4, <1>6, UnfoldingGrows
<1>8. ASSUME NEW seen \in SUBSET SceneIds, NEW s \in SceneIds
      PROVE  g[seen][s] = Unfolded(list, g)[seen][s]
  BY <1>6, <1>7 DEF Below
<1>9. ASSUME NEW seen \in SUBSET SceneIds PROVE g[seen] = Unfolded(list, g)[seen]
  BY <1>1, <1>4, <1>8 DEF Guesses
<1> QED
  BY <1>1, <1>4, <1>9 DEF g, Guesses

\* So Expansion is what its definition says.
LEMMA ExpansionUnfolds ==
  ASSUME NEW list \in Lists
  PROVE  \E f : f = Unfolded(list, f) /\ Expansion(list) = f[{}]
<1> DEFINE f == CHOOSE h : h = Unfolded(list, h)
<1>1. f = Unfolded(list, f)
  BY LeastIsSolution, Zenon
<1>2. Expansion(list) = f[{}]
  BY Zenon DEF Expansion, Unfolded, FailsAt
<1> HIDE DEF f
<1> QED
  BY <1>1, <1>2

\* The scenes that the expansion of s comes to, with s.
Downward(list, D) == \A t \in D : list[t].refs \subseteq D
Reached(list, s) ==
  {u \in DOMAIN list : \A D \in SUBSET DOMAIN list : s \in D /\ Downward(list, D) => u \in D}

\* What a reference of s comes to, s comes to.
LEMMA ReachedFacts ==
  ASSUME NEW list, NEW s \in DOMAIN list
  PROVE  /\ Reached(list, s) \subseteq DOMAIN list
         /\ s \in Reached(list, s)
         /\ \A t \in list[s].refs : Reached(list, t) \subseteq Reached(list, s)
  BY DEF Reached, Downward

\* What is reached refers to what is reached.
LEMMA ReferencesReached ==
  ASSUME NEW list, Catalogue!NoMissing(list), NEW s \in DOMAIN list, NEW u \in Reached(list, s)
  PROVE  list[u].refs \subseteq Reached(list, s)
<1>1. u \in DOMAIN list /\ list[u].refs \subseteq DOMAIN list
  BY DEF Reached, Catalogue!NoMissing
<1> QED
  BY <1>1 DEF Reached, Downward

\* What is reached from s is s or is reached from one of its references.
LEMMA ReachedByReference ==
  ASSUME NEW list, Catalogue!NoMissing(list), NEW s \in DOMAIN list, NEW u \in Reached(list, s), u # s
  PROVE  \E t \in list[s].refs : u \in Reached(list, t)
<1> DEFINE D == {s} \cup UNION {Reached(list, t) : t \in list[s].refs}
<1>1. \A t \in list[s].refs : t \in DOMAIN list
  BY DEF Catalogue!NoMissing
<1>2. D \in SUBSET DOMAIN list
  BY DEF Reached
<1>3. ASSUME NEW v \in D PROVE list[v].refs \subseteq D
  <2>1. CASE v = s
    BY <1>1, <2>1, ReachedFacts
  <2>2. CASE v # s
    <3>1. PICK t \in list[s].refs : v \in Reached(list, t)
      BY <1>3, <2>2
    <3> QED
      BY <1>1, <3>1, ReferencesReached
  <2> QED
    BY <2>1, <2>2
<1>4. u \in D
  BY <1>2, <1>3 DEF Reached, Downward
<1> QED
  BY <1>4

\* In a valid list no reference of a scene comes back to it: the scenes on the way
\* would each name one of them.
LEMMA NoWayBack ==
  ASSUME NEW list, Valid(list), NEW s \in DOMAIN list, NEW t \in list[s].refs
  PROVE  s \notin Reached(list, t)
<1> SUFFICES ASSUME s \in Reached(list, t) PROVE FALSE
  OBVIOUS
<1> DEFINE C == {u \in Reached(list, t) : s \in Reached(list, u)}
<1>1. Catalogue!NoMissing(list) /\ Catalogue!NoCycle(list)
  BY DEF Valid, Catalogue!Valid
<1>2. t \in DOMAIN list
  BY <1>1 DEF Catalogue!NoMissing
<1>3. t \in C
  BY <1>2, ReachedFacts
<1>4. PICK u \in C : list[u].refs \cap C = {}
  <2>1. C \in (SUBSET DOMAIN list) \ {{}}
    BY <1>3 DEF Reached
  <2> QED
    BY <1>1, <2>1 DEF Catalogue!NoCycle
<1>5. u \in DOMAIN list
  BY <1>4 DEF Reached
<1>6. list[u].refs \subseteq Reached(list, t)
  BY <1>1, <1>2, <1>4, ReferencesReached
<1>7. PICK w \in list[u].refs : s \in Reached(list, w)
  <2>1. CASE u = s
    BY <2>1
  <2>2. CASE u # s
    BY <1>1, <1>5, <2>2, ReachedByReference
  <2> QED
    BY <2>1, <2>2
<1> QED
  BY <1>4, <1>6, <1>7

\* No solution expands a scene of a valid list in any way that fails worse, as long
\* as no scene that it comes to is being expanded.
LEMMA NothingWorse ==
  ASSUME NEW list \in Lists, Valid(list), NEW f, f = Unfolded(list, f)
  PROVE  \A s \in DOMAIN list : f[{}][s] \subseteq {"not_expandable"}
<1> DEFINE Bad == {s \in DOMAIN list : \E seen \in SUBSET SceneIds :
                     seen \cap Reached(list, s) = {} /\ ~(f[seen][s] \subseteq {"not_expandable"})}
<1>1. Catalogue!NoMissing(list) /\ Catalogue!NoCycle(list)
  BY DEF Valid, Catalogue!Valid
<1>2. Bad = {}
  <2> SUFFICES ASSUME Bad # {} PROVE FALSE
    OBVIOUS
  <2>1. PICK s \in Bad : list[s].refs \cap Bad = {}
    <3>1. Bad \in (SUBSET DOMAIN list) \ {{}}
      OBVIOUS
    <3> HIDE DEF Bad
    <3> QED
      BY <1>1, <3>1 DEF Catalogue!NoCycle
  <2>2. PICK seen \in SUBSET SceneIds :
          seen \cap Reached(list, s) = {} /\ ~(f[seen][s] \subseteq {"not_expandable"})
    BY <2>1
  <2>3. s \in DOMAIN list /\ s \in SceneIds /\ s \notin seen
    BY <2>1, <2>2, ListFacts, ReachedFacts
  <2>4. f[seen][s] = FailsAt(list, f, seen, s)
    <3>1. Unfolded(list, f)[seen][s] = FailsAt(list, f, seen, s)
      BY <2>3 DEF Unfolded
    <3> QED
      BY <3>1
  <2>5. \A t \in list[s].refs : f[seen \cup {s}][t] \subseteq {"not_expandable"}
    <3> SUFFICES ASSUME NEW t \in list[s].refs PROVE f[seen \cup {s}][t] \subseteq {"not_expandable"}
      OBVIOUS
    <3>1. t \in DOMAIN list /\ t \notin Bad
      BY <1>1, <2>1, <2>3 DEF Catalogue!NoMissing
    <3>2. (seen \cup {s}) \cap Reached(list, t) = {}
      BY <2>2, <2>3, NoWayBack, ReachedFacts
    <3>3. seen \cup {s} \in SUBSET SceneIds
      BY <2>3
    <3> QED
      BY <3>1, <3>2, <3>3
  <2>6. FailsAt(list, f, seen, s) \subseteq {"not_expandable"}
    <3> HIDE DEF Bad
    <3> QED
      BY <2>3, <2>5 DEF FailsAt
  <2> QED
    BY <2>2, <2>4, <2>6
<1>3. {} \in SUBSET SceneIds
  OBVIOUS
<1> QED
  BY <1>2, <1>3

\* A nonempty set of sets within a finite set has a least one.
LEMMA LeastSet ==
  ASSUME NEW S, IsFiniteSet(S), NEW T \in SUBSET SUBSET S, T # {}
  PROVE  \E D \in T : \A E \in T : ~(E \subseteq D /\ E # D)
<1>1. T \subseteq FiniteSubsetsOf(S)
  BY FS_Subset DEF FiniteSubsetsOf
<1>2. PICK D \in T : \A E \in T : ~(<<E, D>> \in StrictSubsetOrdering(S))
  BY <1>1, FS_StrictSubsetOrderingWellFounded, WFMin
<1> QED
  BY <1>2 DEF StrictSubsetOrdering

\* Every solution finds a cycle, from each scene on it: the expansion goes round
\* until all scenes of the cycle are being expanded.
LEMMA CycleFound ==
  ASSUME NEW list \in Lists, NEW f, f = Unfolded(list, f),
         NEW C \in SUBSET DOMAIN list, IsFiniteSet(C), \A s \in C : list[s].refs \cap C # {}
  PROVE  \A s \in C : "cycle" \in f[{}][s]
<1> DEFINE Missed == {D \in SUBSET C : \E s \in C : "cycle" \notin f[C \ D][s]}
<1>1. Missed = {}
  <2> SUFFICES ASSUME Missed # {} PROVE FALSE
    OBVIOUS
  <2>1. PICK D \in Missed : \A E \in Missed : ~(E \subseteq D /\ E # D)
    <3>1. Missed \in SUBSET SUBSET C
      OBVIOUS
    <3> HIDE DEF Missed
    <3> QED
      BY <3>1, LeastSet
  <2>2. PICK s \in C : "cycle" \notin f[C \ D][s]
    BY <2>1
  <2> DEFINE seen == C \ D
  <2>3. s \in DOMAIN list /\ s \in SceneIds /\ seen \in SUBSET SceneIds
    BY <2>2, ListFacts
  <2>4. f[seen][s] = FailsAt(list, f, seen, s)
    <3>1. Unfolded(list, f)[seen][s] = FailsAt(list, f, seen, s)
      BY <2>3 DEF Unfolded
    <3> QED
      BY <3>1
  <2>5. s \notin seen
    BY <2>2, <2>4 DEF FailsAt
  <2>6. PICK t \in list[s].refs : t \in C
    BY <2>2
  <2>7. list[s].kind # "goals"
    BY <2>3, <2>6, ListFacts DEF Scene, Catalogue!Scene
  <2>8. "cycle" \in f[seen \cup {s}][t]
    <3>1. D \ {s} \in SUBSET C /\ D \ {s} \notin Missed
      BY <2>1, <2>2, <2>5
    <3>2. "cycle" \in f[C \ (D \ {s})][t]
      BY <2>6, <3>1
    <3>3. C \ (D \ {s}) = seen \cup {s}
      BY <2>2
    <3> QED
      BY <3>2, <3>3
  <2>9. "cycle" \in FailsAt(list, f, seen, s)
    <3> HIDE DEF Missed, seen
    <3> QED
      BY <2>3, <2>5, <2>6, <2>7, <2>8 DEF FailsAt
  <2> QED
    BY <2>2, <2>4, <2>9
<1>2. C \notin Missed /\ C \ C = {}
  BY <1>1
<1> QED
  BY <1>2

\* Every solution finds a reference to a scene that is not there.
LEMMA MissingFound ==
  ASSUME NEW list \in Lists, NEW f, f = Unfolded(list, f),
         NEW s \in DOMAIN list, NEW t \in list[s].refs, t \notin DOMAIN list
  PROVE  "not_found" \in f[{}][s]
<1>1. s \in SceneIds /\ t \in SceneIds /\ t # s /\ {} \in SUBSET SceneIds /\ {s} \in SUBSET SceneIds
  BY ListFacts
<1>2. list[s].kind # "goals"
  BY ListFacts DEF Scene, Catalogue!Scene
<1>3. Unfolded(list, f)[{s}][t] = {"not_found"}
  BY <1>1 DEF Unfolded, FailsAt
<1>4. Unfolded(list, f)[{}][s] = UNION {f[{} \cup {s}][u] : u \in list[s].refs}
  BY <1>1, <1>2 DEF Unfolded, FailsAt
<1>5. {} \cup {s} = {s}
  OBVIOUS
<1> QED
  BY <1>3, <1>4, <1>5

\* scene-store.js:424-489: validation and expansion agree: a finite list is valid if and only if the
\* expansion of none of its scenes runs into a missing scene or into itself.
THEOREM ValidIffExpandable ==
  ASSUME NEW list \in Lists, IsFiniteSet(DOMAIN list)
  PROVE  Valid(list) <=> \A s \in DOMAIN list : Expansion(list)[s] \subseteq {"not_expandable"}
<1>1. PICK f : f = Unfolded(list, f) /\ Expansion(list) = f[{}]
  BY ExpansionUnfolds
<1>2. Valid(list) => \A s \in DOMAIN list : f[{}][s] \subseteq {"not_expandable"}
  BY <1>1, NothingWorse
<1>3. ~Valid(list) => \E s \in DOMAIN list : ~(f[{}][s] \subseteq {"not_expandable"})
  <2>1. CASE ~Catalogue!NoMissing(list)
    <3>1. PICK s \in DOMAIN list : \E t \in list[s].refs : t \notin DOMAIN list
      BY <2>1 DEF Catalogue!NoMissing
    <3>2. "not_found" \in f[{}][s]
      BY <1>1, <3>1, MissingFound
    <3> QED
      BY <3>2
  <2>2. CASE ~Catalogue!NoCycle(list)
    <3>1. PICK C \in (SUBSET DOMAIN list) \ {{}} : \A s \in C : list[s].refs \cap C # {}
      BY <2>2 DEF Catalogue!NoCycle
    <3>2. \A s \in C : "cycle" \in f[{}][s]
      BY <1>1, <3>1, FS_Subset, CycleFound
    <3> QED
      BY <3>1, <3>2
  <2> QED
    BY <2>1, <2>2 DEF Valid, Catalogue!Valid
<1> QED
  BY <1>1, <1>2, <1>3

\* scene-store.js:424-455: expanding a stored scene never meets a missing scene or the
\* scene itself, for any number of scenes, whatever overlaps, fails or crashes.
THEOREM ScenesExpand == StoreSpec => []ExpansionTerminates
<1>1. StoreInv => ExpansionTerminates
  <2> SUFFICES ASSUME StoreInv PROVE \A s \in DOMAIN file : Expansion(file)[s] \subseteq {"not_expandable"}
    BY DEF ExpansionTerminates
  <2>1. file \in Lists /\ Valid(file)
    BY DEF StoreInv
  <2>2. PICK f : f = Unfolded(file, f) /\ Expansion(file) = f[{}]
    BY <2>1, ExpansionUnfolds
  <2> QED
    BY <2>1, <2>2, NothingWorse
<1> QED
  BY <1>1, StoreInvariance, PTL

-----------------------------------------------------------------------------
(* The mirror in Home Assistant: what a run has before it.                  *)

Position(stage) ==
  CASE stage = "connect" -> 0 [] stage = "floors" -> 1 [] stage = "areas" -> 2 [] stage = "devices" -> 3
    [] stage = "files" -> 4 [] stage = "boards" -> 5 [] stage = "reload" -> 6

Todo(rn) == [n \in 1 .. 6 |->
  IF Position(rn.stage) < n THEN Due(Stages[n], rn.snap, rn.seen)
  ELSE IF Position(rn.stage) = n THEN rn.left ELSE {}]

Without(todo, n, x) == [todo EXCEPT ![n] = @ \ {x}]
NothingToDo == [n \in 1 .. 6 |-> {}]

\* The entities of a device are all in one place, or in none.
Agrees(l, d) == \A e, f \in EntitiesOf(d) : l.at[e] = l.at[f]

\* A device is where it should be, or in the area of a room that is to go.
PlacedRight(h, l, e) ==
  LET now == h.area[DeviceOf[e]] IN
  IF l.at[e] = None THEN now \in Plans => l.rooms[now] = None ELSE now = WantedPlace(l, e)

TitleRight(h, l, p) == IF h.boards[p] = None THEN l.plans[p] = None ELSE h.boards[p].title = l.plans[p]
ShowsRight(h, l, p) == h.boards[p] # None => h.boards[p].shows = Shows(l, p)

\* What is not to do is right.
FloorsRight(h, l, todo) == \A p \in Plans : p \notin todo[1] => h.floors[p] = l.plans[p]
AreasRight(h, l, todo) == \A p \in Plans : p \notin todo[2] => h.areas[p] = WantedArea(l, p)
DevicesRight(h, l, todo) ==
  \A e \in Entities : e \notin todo[3] /\ Agrees(l, DeviceOf[e]) => PlacedRight(h, l, e)
FilesRight(h, l, todo) == \A k \in Kinds : k \notin todo[4] => h.files[k] = WantedFile(l, k)
BoardsRight(h, l, todo) == \A p \in Plans :
  /\ <<p, "title">> \notin todo[5] => TitleRight(h, l, p)
  /\ <<p, "config">> \notin todo[5] /\ l.plans[p] # None => <<p, "title">> \notin todo[5] /\ ShowsRight(h, l, p)
LoadsRight(h, l, todo) ==
  /\ \A k \in Kinds : k \notin todo[6] => h.loaded[k] = h.files[k]
  /\ todo[6] = Kinds \/ todo[4] = {}
Right(h, l, todo) ==
  /\ FloorsRight(h, l, todo) /\ AreasRight(h, l, todo) /\ DevicesRight(h, l, todo)
  /\ FilesRight(h, l, todo) /\ BoardsRight(h, l, todo) /\ LoadsRight(h, l, todo)

\* Areas of people's own were there when the run listed them.
OwnSeen(h, seen) == \A d \in HaDevices : h.area[d] = "own" => seen.area[d] = "own"

Listed == run \in Running /\ run.stage # "connect"
LeftIsDue(rn) == rn.left \subseteq Due(rn.stage, rn.snap, rn.seen)

Progress ==
  /\ run \in Running => run.snap \in Locals
  /\ Listed => LeftIsDue(run)
  /\ Listed /\ ~run.edited => Right(ha, run.snap, Todo(run)) /\ OwnSeen(ha, run.seen)

MirrorInv == TypeOK /\ local \in Locals /\ Progress

-----------------------------------------------------------------------------
(* Stages.                                                                  *)

\* The stage of a run that has listed is one of the six, and names its position.
LEMMA StageFacts ==
  /\ \A n \in 1 .. 6 : Position(Stages[n]) = n /\ Stages[n] # "connect" /\ Stages[n] \notin {"idle", "hung"}
  /\ \A rn \in Running : rn.stage = "connect" \/ \E n \in 1 .. 6 : rn.stage = Stages[n]
<1>1. \A n \in 1 .. 6 : n = 1 \/ n = 2 \/ n = 3 \/ n = 4 \/ n = 5 \/ n = 6
  OBVIOUS
<1>2. \A n \in 1 .. 6 : Position(Stages[n]) = n /\ Stages[n] # "connect" /\ Stages[n] \notin {"idle", "hung"}
  BY <1>1 DEF Position, Stages
<1> QED
  BY <1>2 DEF Running

\* What is due is among the items.
LEMMA DueTypes ==
  ASSUME NEW l, NEW h, NEW n \in 1 .. 6
  PROVE  Due(Stages[n], l, h) \in SUBSET Items
<1>1. n = 1 \/ n = 2 \/ n = 3 \/ n = 4 \/ n = 5 \/ n = 6
  OBVIOUS
<1>2. FloorsDue(l, h) \subseteq Plans /\ AreasDue(l, h) \subseteq Plans /\ DevicesDue(l, h) \subseteq Entities
  BY DEF FloorsDue, AreasDue, DevicesDue
<1>3. BoardsDue(l, h) \subseteq Plans \X Parts
  BY DEF BoardsDue, Parts
<1> QED
  BY <1>1, <1>2, <1>3 DEF Due, Stages, Items

\* A set of stages that is not empty has a first.
LEMMA FirstStage ==
  ASSUME NEW S \in SUBSET (1 .. 6), S # {}
  PROVE  \E m \in S : \A k \in S : m <= k
<1>1. CASE 1 \in S
  BY <1>1
<1>2. CASE 1 \notin S /\ 2 \in S
  BY <1>2
<1>3. CASE 1 \notin S /\ 2 \notin S /\ 3 \in S
  BY <1>3
<1>4. CASE 1 \notin S /\ 2 \notin S /\ 3 \notin S /\ 4 \in S
  BY <1>4
<1>5. CASE 1 \notin S /\ 2 \notin S /\ 3 \notin S /\ 4 \notin S /\ 5 \in S
  BY <1>5
<1>6. CASE 1 \notin S /\ 2 \notin S /\ 3 \notin S /\ 4 \notin S /\ 5 \notin S
  <2>1. \A k \in 1 .. 6 : k \notin {1, 2, 3, 4, 5} => k = 6
    OBVIOUS
  <2>2. \A k \in S : k = 6
    BY <1>6, <2>1
  <2>3. \A k, m \in S : m <= k
    BY <2>2
  <2> QED
    BY <2>3
<1> QED
  BY <1>1, <1>2, <1>3, <1>4, <1>5, <1>6

\* A run that passes to stage m with all that is due there.
LEMMA EntersStage ==
  ASSUME NEW rn \in Running, NEW m \in 1 .. 6
  PROVE  LET new == [rn EXCEPT !.stage = Stages[m], !.left = Due(Stages[m], rn.snap, rn.seen)] IN
         /\ new \in Running /\ new.stage = Stages[m] /\ new.snap = rn.snap /\ new.seen = rn.seen
         /\ new.edited = rn.edited /\ LeftIsDue(new)
         /\ \A k \in 1 .. 6 : Todo(new)[k] = IF m <= k THEN Due(Stages[k], rn.snap, rn.seen) ELSE {}
<1> DEFINE new == [rn EXCEPT !.stage = Stages[m], !.left = Due(Stages[m], rn.snap, rn.seen)]
<1>1. Due(Stages[m], rn.snap, rn.seen) \in SUBSET Items
  BY DueTypes
<1>2. Stages[m] \in {Stages[n] : n \in 1 .. 6}
  OBVIOUS
<1>3. /\ new \in Running /\ new.stage = Stages[m] /\ new.snap = rn.snap /\ new.seen = rn.seen
      /\ new.edited = rn.edited /\ new.left = Due(Stages[m], rn.snap, rn.seen)
  BY <1>1, <1>2 DEF Running
<1> HIDE DEF new
<1>4. LeftIsDue(new)
  BY <1>3 DEF LeftIsDue
<1>5. Position(new.stage) = m
  BY <1>3, StageFacts
<1>6. \A k \in 1 .. 6 : Todo(new)[k] = IF m <= k THEN Due(Stages[k], rn.snap, rn.seen) ELSE {}
  BY <1>3, <1>5 DEF Todo
<1> QED
  BY <1>3, <1>4, <1>6 DEF new

\* The listing is done: everything due is to do.
LEMMA ListTodo ==
  ASSUME TypeOK, run \in Running, List
  PROVE  /\ run' \in Running /\ run'.stage # "connect" /\ run'.snap = run.snap /\ run'.seen = ha /\ ~run'.edited
         /\ LeftIsDue(run')
         /\ \A k \in 1 .. 6 : Todo(run')[k] = Due(Stages[k], run.snap, ha)
<1> DEFINE r == [run EXCEPT !.seen = ha, !.edited = FALSE]
           due == {m \in 1 .. 6 : Due(Stages[m], r.snap, r.seen) # {}}
           m == CHOOSE m \in due : \A k \in due : m <= k
<1>1. run' = [r EXCEPT !.stage = Stages[m], !.left = Due(Stages[m], r.snap, r.seen)]
  BY DEF List
<1>2. r \in Running /\ r.snap = run.snap /\ r.seen = ha /\ ~r.edited
  BY DEF TypeOK, Running
<1>3. 4 \in due
  BY DEF Due, Stages, Kinds
<1>4. \E k \in due : \A j \in due : k <= j
  <2> HIDE DEF r
  <2> due \in SUBSET (1 .. 6)
    OBVIOUS
  <2> HIDE DEF due
  <2> QED
    BY <1>3, FirstStage
<1> HIDE DEF r
<1>5. m \in due /\ \A k \in due : m <= k
  <2> HIDE DEF due
  <2> QED
    BY <1>4
<1>6. m \in 1 .. 6 /\ \A k \in 1 .. 6 : ~(m <= k) => Due(Stages[k], r.snap, r.seen) = {}
  BY <1>5
<1> HIDE DEF due, m
<1>7. /\ run' \in Running /\ run'.stage = Stages[m] /\ run'.snap = r.snap /\ run'.seen = r.seen
      /\ run'.edited = r.edited /\ LeftIsDue(run')
      /\ \A k \in 1 .. 6 : Todo(run')[k] = IF m <= k THEN Due(Stages[k], r.snap, r.seen) ELSE {}
  BY <1>1, <1>2, <1>6, EntersStage
<1>8. \A k \in 1 .. 6 : Todo(run')[k] = Due(Stages[k], r.snap, r.seen)
  BY <1>6, <1>7
<1> QED
  BY <1>2, <1>6, <1>7, <1>8, StageFacts

\* A call has been answered: it is no longer to do, and the run goes on or is over.
LEMMA AfterTodo ==
  ASSUME run \in Running, NEW n \in 1 .. 6, run.stage = Stages[n], NEW x \in run.left, LeftIsDue(run)
  PROVE  LET new == After(n, x) IN
         \/ new = Idle /\ Without(Todo(run), n, x) = NothingToDo
         \/ /\ new \in Running /\ new.stage # "connect" /\ new.snap = run.snap /\ new.seen = run.seen
            /\ new.edited = run.edited /\ LeftIsDue(new)
            /\ Todo(new) = Without(Todo(run), n, x)
<1> DEFINE next == Without(Todo(run), n, x)
           Later(k) == Due(Stages[k], run.snap, run.seen)
<1>1. Position(run.stage) = n
  BY StageFacts
<1>2. \A k \in 1 .. 6 : Todo(run)[k] = IF n < k THEN Later(k) ELSE IF n = k THEN run.left ELSE {}
  BY <1>1 DEF Todo
<1>3. \A k \in 1 .. 6 : next[k] = IF n < k THEN Later(k) ELSE IF n = k THEN run.left \ {x} ELSE {}
  BY <1>2 DEF Without, Todo
<1>4. next = [k \in 1 .. 6 |-> next[k]]
  BY DEF Without, Todo
<1>5. CASE run.left # {x}
  <2> DEFINE new == [run EXCEPT !.left = @ \ {x}]
  <2>1. After(n, x) = new
    BY <1>5 DEF After
  <2>2. /\ new \in Running /\ new.stage = run.stage /\ new.snap = run.snap /\ new.seen = run.seen
        /\ new.edited = run.edited /\ new.left = run.left \ {x}
    BY DEF Running
  <2> HIDE DEF new
  <2>3. \A k \in 1 .. 6 : Todo(new)[k] = next[k]
    BY <1>1, <1>3, <2>2 DEF Todo
  <2>4. Todo(new) = [k \in 1 .. 6 |-> Todo(new)[k]]
    BY DEF Todo
  <2>5. Todo(new) = next
    BY <1>4, <2>3, <2>4
  <2>6. LeftIsDue(new) /\ new.stage # "connect"
    BY <2>2, StageFacts DEF LeftIsDue
  <2> QED
    BY <2>1, <2>2, <2>5, <2>6
<1>6. CASE run.left = {x}
  <2> DEFINE due == {m \in n + 1 .. 6 : Later(m) # {}}
  <2>1. After(n, x) = StageAfter(n)
    BY <1>6 DEF After
  <2>2. CASE due = {}
    <3>1. \A k \in 1 .. 6 : next[k] = {}
      BY <1>3, <1>6, <2>2
    <3>2. next = NothingToDo
      BY <1>4, <3>1 DEF NothingToDo
    <3>3. After(n, x) = Idle
      BY <2>1, <2>2 DEF StageAfter
    <3> QED
      BY <3>2, <3>3
  <2>3. CASE due # {}
    <3> DEFINE m == CHOOSE m \in due : \A k \in due : m <= k
    <3>1. StageAfter(n) = [run EXCEPT !.stage = Stages[m], !.left = Later(m)]
      BY <2>3 DEF StageAfter
    <3>2. due \in SUBSET (1 .. 6)
      OBVIOUS
    <3>3. m \in due /\ \A k \in due : m <= k
      <4> HIDE DEF due
      <4>1. \E k \in due : \A j \in due : k <= j
        BY <2>3, <3>2, FirstStage
      <4> QED
        BY <4>1
    <3>4. m \in 1 .. 6 /\ n < m /\ \A k \in 1 .. 6 : n < k /\ ~(m <= k) => Later(k) = {}
      <4> HIDE DEF m, Later
      <4>1. \A k \in 1 .. 6 : n < k /\ Later(k) # {} => k \in due
        OBVIOUS
      <4>2. \A k \in due : k \in 1 .. 6 /\ n < k
        OBVIOUS
      <4> HIDE DEF due
      <4> QED
        BY <3>3, <4>1, <4>2
    <3> HIDE DEF m, due
    <3> DEFINE new == After(n, x)
    <3>a. new = [run EXCEPT !.stage = Stages[m], !.left = Due(Stages[m], run.snap, run.seen)]
      BY <2>1, <3>1
    <3> HIDE DEF new
    <3>5. /\ new \in Running /\ new.stage = Stages[m] /\ new.snap = run.snap /\ new.seen = run.seen
          /\ new.edited = run.edited /\ LeftIsDue(new)
          /\ \A k \in 1 .. 6 : Todo(new)[k] = IF m <= k THEN Later(k) ELSE {}
      BY <3>a, <3>4, EntersStage
    <3>6. \A k \in 1 .. 6 : Todo(new)[k] = next[k]
      BY <1>3, <1>6, <3>4, <3>5
    <3>7. Todo(new) = [k \in 1 .. 6 |-> Todo(new)[k]]
      BY DEF Todo
    <3>8. Todo(new) = next
      BY <1>4, <3>6, <3>7
    <3>9. new.stage # "connect"
      BY <3>4, <3>5, StageFacts
    <3> QED
      BY <3>5, <3>8, <3>9 DEF new
  <2> QED
    BY <2>2, <2>3
<1> QED
  BY <1>5, <1>6
-----------------------------------------------------------------------------
(* Right: from the lists, and when nothing is left to do.                   *)

\* What the lists show to be due is all that is not right.
LEMMA ListedRight ==
  ASSUME NEW l \in Local, NEW h \in Ha, NEW todo, \A k \in 1 .. 6 : todo[k] = Due(Stages[k], l, h)
  PROVE  Right(h, l, todo)
<1>1. /\ todo[1] = FloorsDue(l, h) /\ todo[2] = AreasDue(l, h) /\ todo[3] = DevicesDue(l, h)
      /\ todo[4] = Kinds /\ todo[5] = BoardsDue(l, h) /\ todo[6] = Kinds
  BY DEF Stages, Due
<1>2. FloorsRight(h, l, todo) /\ AreasRight(h, l, todo)
  BY <1>1 DEF FloorsRight, AreasRight, FloorsDue, AreasDue
<1>3. DevicesRight(h, l, todo)
  BY <1>1 DEF DevicesRight, DevicesDue, PlacedRight
<1>4. FilesRight(h, l, todo) /\ LoadsRight(h, l, todo)
  BY <1>1 DEF FilesRight, LoadsRight
<1>5. BoardsRight(h, l, todo)
  <2>1. ASSUME NEW p \in Plans, <<p, "title">> \notin BoardsDue(l, h)  PROVE TitleRight(h, l, p)
    BY <2>1 DEF BoardsDue, TitleRight
  <2>2. ASSUME NEW p \in Plans, <<p, "config">> \notin BoardsDue(l, h)  PROVE l.plans[p] = None
    BY <2>2 DEF BoardsDue
  <2> QED
    BY <1>1, <2>1, <2>2 DEF BoardsRight
<1> QED
  BY <1>2, <1>3, <1>4, <1>5 DEF Right

\* When nothing is left to do, Home Assistant is what was wanted.
LEMMA NothingToDoMirrors ==
  ASSUME NEW l \in Local, NEW h \in Ha, Right(h, l, NothingToDo)
  PROVE  Mirrors(h, l)
<1>1. \A k \in 1 .. 6 : NothingToDo[k] = {}
  BY DEF NothingToDo
<1>2. \A p \in Plans : h.floors[p] = l.plans[p] /\ h.areas[p] = WantedArea(l, p)
  BY <1>1 DEF Right, FloorsRight, AreasRight
<1>3. ASSUME NEW p \in Plans  PROVE h.boards[p] = WantedBoard(l, p)
  <2>1. TitleRight(h, l, p) /\ (l.plans[p] # None => ShowsRight(h, l, p))
    <3>1. <<p, "title">> \notin NothingToDo[5] /\ <<p, "config">> \notin NothingToDo[5]
      BY <1>1
    <3> QED
      BY <3>1 DEF Right, BoardsRight
  <2>2. h.boards[p] \in Board \cup {None}
    BY DEF Ha
  <2>3. CASE h.boards[p] = None
    BY <2>1, <2>3 DEF TitleRight, WantedBoard
  <2>4. CASE h.boards[p] # None
    <3>1. l.plans[p] # None
      <4>1. h.boards[p].title \in Names
        BY <2>2, <2>4 DEF Board
      <4> QED
        BY <2>1, <2>4, <4>1, HaMirrorAssumption DEF TitleRight
    <3>2. h.boards[p].title = l.plans[p] /\ h.boards[p].shows = Shows(l, p)
      BY <2>1, <2>4, <3>1 DEF TitleRight, ShowsRight
    <3>3. h.boards[p] = [title |-> h.boards[p].title, shows |-> h.boards[p].shows]
      BY <2>2, <2>4 DEF Board
    <3> QED
      BY <3>1, <3>2, <3>3 DEF WantedBoard
  <2> QED
    BY <2>3, <2>4
<1>4. ASSUME NEW k \in Kinds  PROVE h.files[k] = WantedFile(l, k) /\ h.loaded[k] = h.files[k]
  BY <1>1 DEF Right, FilesRight, LoadsRight
<1>5. ASSUME NEW d \in HaDevices  PROVE DevicePlaced(l, h, d)
  <2>1. CASE ~Agrees(l, d)
    BY <2>1 DEF Agrees, DevicePlaced
  <2>2. CASE Agrees(l, d)
    <3> SUFFICES ASSUME NEW e \in EntitiesOf(d)
                 PROVE  IF l.at[e] = None THEN AreaOf(h, d) \in {"own", None} ELSE AreaOf(h, d) = WantedPlace(l, e)
      BY DEF DevicePlaced
    <3>1. e \in Entities /\ DeviceOf[e] = d
      BY DEF EntitiesOf
    <3>2. PlacedRight(h, l, e)
      BY <1>1, <2>2, <3>1 DEF Right, DevicesRight
    <3>3. h.area[d] \in Plans \cup {"own", None} /\ l.at[e] \in Plans \cup {None}
      BY <3>1 DEF Ha, Local
    <3>4. \A p \in Plans : h.areas[p] = None <=> l.rooms[p] = None
      <4> SUFFICES ASSUME NEW p \in Plans, l.rooms[p] # None  PROVE h.areas[p] # None
        BY <1>2 DEF WantedArea
      <4>1. l.rooms[p] \in Names
        BY DEF Local
      <4>2. WantedArea(l, p) \in Area
        BY <4>1 DEF WantedArea, Area
      <4> QED
        BY <1>2, <4>2, HaMirrorAssumption
    <3>5. CASE l.at[e] = None
      BY <3>1, <3>2, <3>3, <3>4, <3>5 DEF PlacedRight, AreaOf
    <3>6. CASE l.at[e] # None
      <4>1. h.area[d] = WantedPlace(l, e)
        BY <3>1, <3>2, <3>6 DEF PlacedRight
      <4> QED
        BY <3>3, <3>4, <3>6, <4>1, HaMirrorAssumption DEF WantedPlace, AreaOf
    <3> QED
      BY <3>5, <3>6
  <2> QED
    BY <2>1, <2>2
<1> QED
  BY <1>2, <1>3, <1>4, <1>5 DEF Mirrors

-----------------------------------------------------------------------------
(* Every call makes one thing right and leaves right what was.              *)

\* What is without a call is what it was, less the call.
LEMMA WithoutFacts ==
  ASSUME NEW rn, NEW n \in 1 .. 6, NEW x
  PROVE  \A k \in 1 .. 6 : Without(Todo(rn), n, x)[k] = IF k = n THEN Todo(rn)[k] \ {x} ELSE Todo(rn)[k]
BY DEF Without, Todo

\* Where a run stands: the stages before are done, its own holds what is left.
LEMMA TodoFacts ==
  ASSUME NEW rn, NEW n \in 1 .. 6, rn.stage = Stages[n]
  PROVE  Todo(rn)[n] = rn.left /\ \A k \in 1 .. 6 : k < n => Todo(rn)[k] = {}
<1>1. Position(rn.stage) = n
  BY StageFacts
<1> QED
  BY <1>1 DEF Todo

\* A wanted area, board or content is of its type.
LEMMA WantedTypes ==
  ASSUME NEW l \in Local, NEW p \in Plans
  PROVE  /\ WantedArea(l, p) \in Area \cup {None}
         /\ Shows(l, p) \in Shown
         /\ \A e \in Entities : WantedPlace(l, e) \in Plans \cup {None} \/ l.at[e] = None
<1>1. WantedArea(l, p) \in Area \cup {None}
  <2>1. l.rooms[p] \in Names \cup {None}
    BY DEF Local
  <2> QED
    BY <2>1 DEF WantedArea, Area
<1>2. Shows(l, p) \in Shown
  BY DEF Shows, Shown, Local
<1>3. \A e \in Entities : WantedPlace(l, e) \in Plans \cup {None} \/ l.at[e] = None
  BY DEF WantedPlace, Local
<1> QED
  BY <1>1, <1>2, <1>3

\* A part of Home Assistant that a call leaves alone stays right.
LEMMA PartsKept ==
  ASSUME NEW h, NEW g, NEW l, NEW old, NEW new
  PROVE  /\ g.floors = h.floors /\ new[1] = old[1] /\ FloorsRight(h, l, old) => FloorsRight(g, l, new)
         /\ g.areas = h.areas /\ new[2] = old[2] /\ AreasRight(h, l, old) => AreasRight(g, l, new)
         /\ g.area = h.area /\ new[3] = old[3] /\ DevicesRight(h, l, old) => DevicesRight(g, l, new)
         /\ g.files = h.files /\ new[4] = old[4] /\ FilesRight(h, l, old) => FilesRight(g, l, new)
         /\ g.boards = h.boards /\ new[5] = old[5] /\ BoardsRight(h, l, old) => BoardsRight(g, l, new)
         /\ g.files = h.files /\ g.loaded = h.loaded /\ new[4] = old[4] /\ new[6] = old[6] /\ LoadsRight(h, l, old)
            => LoadsRight(g, l, new)
<1>1. g.floors = h.floors /\ new[1] = old[1] /\ FloorsRight(h, l, old) => FloorsRight(g, l, new)
  BY DEF FloorsRight
<1>2. g.areas = h.areas /\ new[2] = old[2] /\ AreasRight(h, l, old) => AreasRight(g, l, new)
  BY DEF AreasRight
<1>3. g.area = h.area /\ new[3] = old[3] /\ DevicesRight(h, l, old) => DevicesRight(g, l, new)
  BY DEF DevicesRight, PlacedRight
<1>4. g.files = h.files /\ new[4] = old[4] /\ FilesRight(h, l, old) => FilesRight(g, l, new)
  BY DEF FilesRight
<1>5. ASSUME g.boards = h.boards, new[5] = old[5], BoardsRight(h, l, old)  PROVE BoardsRight(g, l, new)
  <2>1. \A p : TitleRight(g, l, p) <=> TitleRight(h, l, p)
    BY <1>5 DEF TitleRight
  <2>2. \A p : ShowsRight(g, l, p) <=> ShowsRight(h, l, p)
    BY <1>5 DEF ShowsRight
  <2> QED
    BY <1>5, <2>1, <2>2 DEF BoardsRight
<1>6. g.files = h.files /\ g.loaded = h.loaded /\ new[4] = old[4] /\ new[6] = old[6] /\ LoadsRight(h, l, old)
      => LoadsRight(g, l, new)
  BY DEF LoadsRight
<1> QED
  BY <1>1, <1>2, <1>3, <1>4, <1>5, <1>6

\* A floor is created, renamed or deleted; a deleted one leaves areas that are to do.
LEMMA FloorStep ==
  ASSUME TypeOK, run \in Running, NEW p \in Plans, SyncFloor(p)
  PROVE  /\ ha' \in Ha /\ (OwnSeen(ha, run.seen) => OwnSeen(ha', run.seen))
         /\ run.snap \in Locals /\ Right(ha, run.snap, Todo(run)) => Right(ha', run.snap, Without(Todo(run), 1, p))
<1> DEFINE l == run.snap
           old == Todo(run)
           new == Without(old, 1, p)
<1>1. l \in Local /\ ha \in Ha
  BY DEF TypeOK, Running
<1>2. \A k \in 1 .. 6 : new[k] = IF k = 1 THEN old[k] \ {p} ELSE old[k]
  BY DEF Without, Todo
<1> HIDE DEF old, new
<1> DEFINE fl == [ha.floors EXCEPT ![p] = l.plans[p]]
           ar == [ha.areas EXCEPT ![p] = IF Wanted(p) \/ @ = None THEN @ ELSE [@ EXCEPT !.floor = FALSE]]
<1>3. ha' = [ha EXCEPT !.floors = fl, !.areas = ar]
  BY <1>1 DEF SyncFloor, Ha
<1>4. fl \in [Plans -> Names \cup {None}]
  BY <1>1 DEF Ha, Local
<1>5. ar \in [Plans -> Area \cup {None}]
  <2>1. ha.areas \in [Plans -> Area \cup {None}]
    BY <1>1 DEF Ha
  <2>2. \A a \in Area : [a EXCEPT !.floor = FALSE] \in Area
    BY DEF Area
  <2> QED
    BY <2>1, <2>2
<1> HIDE DEF fl, ar
<1>6. /\ ha' \in Ha /\ ha'.floors = fl /\ ha'.areas = ar /\ ha'.area = ha.area /\ ha'.boards = ha.boards
      /\ ha'.files = ha.files /\ ha'.loaded = ha.loaded
  BY <1>1, <1>3, <1>4, <1>5 DEF Ha
<1>7. OwnSeen(ha, run.seen) => OwnSeen(ha', run.seen)
  BY <1>6 DEF OwnSeen
<1>8. ASSUME l \in Locals, Right(ha, l, old)  PROVE Right(ha', l, new)
  <2>1. FloorsRight(ha', l, new)
    BY <1>1, <1>2, <1>6, <1>8 DEF Right, FloorsRight, fl, Ha
  <2>2. AreasRight(ha', l, new)
    <3> SUFFICES ASSUME NEW q \in Plans, q \notin old[2]  PROVE ha'.areas[q] = WantedArea(l, q)
      BY <1>2 DEF AreasRight
    <3>1. ha.areas[q] = WantedArea(l, q)
      BY <1>8 DEF Right, AreasRight
    <3>2. CASE q # p \/ Wanted(p) \/ ha.areas[p] = None
      BY <1>1, <1>6, <3>1, <3>2 DEF ar, Ha
    <3>3. CASE q = p /\ ~Wanted(p)
      BY <1>1, <1>6, <1>8, <3>1, <3>3, HaMirrorAssumption DEF ar, Ha, Wanted, WantedArea
    <3> QED
      BY <3>2, <3>3
  <2>3. /\ DevicesRight(ha', l, new) /\ FilesRight(ha', l, new) /\ BoardsRight(ha', l, new)
        /\ LoadsRight(ha', l, new)
    BY <1>2, <1>6, <1>8, PartsKept DEF Right
  <2> QED
    BY <2>1, <2>2, <2>3 DEF Right
<1> QED
  BY <1>6, <1>7, <1>8 DEF old, new
\* An area is created, changed or deleted; a deleted one leaves its devices in none.
LEMMA AreaStep ==
  ASSUME TypeOK, run \in Running, NEW p \in Plans, SyncArea(p)
  PROVE  /\ ha' \in Ha /\ (OwnSeen(ha, run.seen) => OwnSeen(ha', run.seen))
         /\ Right(ha, run.snap, Todo(run)) => Right(ha', run.snap, Without(Todo(run), 2, p))
<1> DEFINE l == run.snap
           old == Todo(run)
           new == Without(old, 2, p)
           ar == [ha.areas EXCEPT ![p] = WantedArea(l, p)]
           of == [d \in HaDevices |-> IF ha.area[d] = p /\ l.rooms[p] = None THEN None ELSE ha.area[d]]
<1>1. l \in Local /\ ha \in Ha
  BY DEF TypeOK, Running
<1>2. \A k \in 1 .. 6 : new[k] = IF k = 2 THEN old[k] \ {p} ELSE old[k]
  BY DEF Without, Todo
<1> HIDE DEF old, new
<1>3. ha' = [ha EXCEPT !.areas = ar, !.area = of]
  BY <1>1 DEF SyncArea, Ha
<1>4. ar \in [Plans -> Area \cup {None}]
  <2>1. ha.areas \in [Plans -> Area \cup {None}]
    BY <1>1 DEF Ha
  <2>2. WantedArea(l, p) \in Area \cup {None}
    BY <1>1, WantedTypes
  <2> QED
    BY <2>1, <2>2
<1>5. of \in [HaDevices -> Plans \cup {"own", None}]
  BY <1>1 DEF Ha
<1> HIDE DEF ar, of, l
<1>6. /\ ha' \in Ha /\ ha'.floors = ha.floors /\ ha'.areas = ar /\ ha'.area = of /\ ha'.boards = ha.boards
      /\ ha'.files = ha.files /\ ha'.loaded = ha.loaded
  BY <1>1, <1>3, <1>4, <1>5 DEF Ha
<1>7. \A d \in HaDevices : of[d] = IF ha.area[d] = p /\ l.rooms[p] = None THEN None ELSE ha.area[d]
  BY DEF of
<1>8. OwnSeen(ha, run.seen) => OwnSeen(ha', run.seen)
  BY <1>6, <1>7, HaMirrorAssumption DEF OwnSeen, Board
<1>9. ASSUME Right(ha, l, old)  PROVE Right(ha', l, new)
  <2>1. AreasRight(ha', l, new)
    BY <1>1, <1>2, <1>6, <1>9 DEF Right, AreasRight, ar, Ha
  <2>2. DevicesRight(ha', l, new)
    <3> SUFFICES ASSUME NEW e \in Entities, e \notin old[3], Agrees(l, DeviceOf[e])
                 PROVE  PlacedRight(ha', l, e)
      BY <1>2 DEF DevicesRight
    <3>1. PlacedRight(ha, l, e)
      BY <1>9 DEF Right, DevicesRight
    <3>2. DeviceOf[e] \in HaDevices /\ l.at[e] \in Plans \cup {None}
      BY <1>1, HaMirrorAssumption DEF Local
    <3>3. CASE l.at[e] = None
      BY <1>6, <1>7, <3>1, <3>2, <3>3, HaMirrorAssumption DEF PlacedRight
    <3>4. CASE l.at[e] # None
      BY <1>6, <1>7, <3>1, <3>2, <3>4, HaMirrorAssumption DEF PlacedRight, WantedPlace
    <3> QED
      BY <3>3, <3>4
  <2>3. /\ FloorsRight(ha', l, new) /\ FilesRight(ha', l, new) /\ BoardsRight(ha', l, new)
        /\ LoadsRight(ha', l, new)
    BY <1>2, <1>6, <1>9, PartsKept DEF Right
  <2> QED
    BY <2>1, <2>2, <2>3 DEF Right
<1> QED
  BY <1>6, <1>8, <1>9 DEF old, new, l

\* The area of a device is set or cleared, for all its entities at once.
LEMMA DeviceStep ==
  ASSUME TypeOK, run \in Running, NEW e \in Entities, SyncDevice(e)
  PROVE  /\ ha' \in Ha /\ (OwnSeen(ha, run.seen) => OwnSeen(ha', run.seen))
         /\ \A d \in HaDevices : ha'.area[d] # ha.area[d] => d = DeviceOf[e]
         /\ Right(ha, run.snap, Todo(run)) => Right(ha', run.snap, Without(Todo(run), 3, e))
<1> DEFINE l == run.snap
           old == Todo(run)
           new == Without(old, 3, e)
           place == IF l.at[e] = None THEN None ELSE WantedPlace(l, e)
           of == [ha.area EXCEPT ![DeviceOf[e]] = place]
<1>1. l \in Local /\ ha \in Ha
  BY DEF TypeOK, Running
<1>2. \A k \in 1 .. 6 : new[k] = IF k = 3 THEN old[k] \ {e} ELSE old[k]
  BY DEF Without, Todo
<1> HIDE DEF old, new
<1>3. ha' = [ha EXCEPT !.area = of]
  BY <1>1 DEF SyncDevice, Ha
<1>4. place \in Plans \cup {None}
  BY <1>1 DEF WantedPlace, Local
<1> HIDE DEF place, l
<1>5. of \in [HaDevices -> Plans \cup {"own", None}]
  BY <1>1, <1>4, HaMirrorAssumption DEF Ha
<1>6. \A d \in HaDevices : of[d] = IF d = DeviceOf[e] THEN place ELSE ha.area[d]
  BY <1>1, HaMirrorAssumption DEF Ha
<1> HIDE DEF of
<1>7. /\ ha' \in Ha /\ ha'.floors = ha.floors /\ ha'.areas = ha.areas /\ ha'.area = of /\ ha'.boards = ha.boards
      /\ ha'.files = ha.files /\ ha'.loaded = ha.loaded
  BY <1>1, <1>3, <1>5 DEF Ha
<1>8. OwnSeen(ha, run.seen) => OwnSeen(ha', run.seen)
  BY <1>4, <1>6, <1>7, HaMirrorAssumption DEF OwnSeen
<1>9. ASSUME Right(ha, l, old)  PROVE Right(ha', l, new)
  <2>1. DevicesRight(ha', l, new)
    <3> SUFFICES ASSUME NEW f \in Entities, f \in old[3] => f = e, Agrees(l, DeviceOf[f])
                 PROVE  PlacedRight(ha', l, f)
      BY <1>2 DEF DevicesRight
    <3>1. DeviceOf[f] \in HaDevices
      BY HaMirrorAssumption
    <3>2. CASE DeviceOf[f] = DeviceOf[e]
      <4>1. l.at[f] = l.at[e]
        BY <3>2 DEF Agrees, EntitiesOf
      <4>2. ha'.area[DeviceOf[f]] = place
        BY <1>6, <1>7, <3>1, <3>2
      <4> QED
        BY <4>1, <4>2, HaMirrorAssumption DEF PlacedRight, WantedPlace, place
    <3>3. CASE DeviceOf[f] # DeviceOf[e]
      <4>1. PlacedRight(ha, l, f)
        BY <1>9, <3>3 DEF Right, DevicesRight
      <4>2. ha'.area[DeviceOf[f]] = ha.area[DeviceOf[f]]
        BY <1>6, <1>7, <3>1, <3>3
      <4> QED
        BY <4>1, <4>2 DEF PlacedRight
    <3> QED
      BY <3>2, <3>3
  <2>2. /\ FloorsRight(ha', l, new) /\ AreasRight(ha', l, new) /\ FilesRight(ha', l, new)
        /\ BoardsRight(ha', l, new) /\ LoadsRight(ha', l, new)
    BY <1>2, <1>7, <1>9, PartsKept DEF Right
  <2> QED
    BY <2>1, <2>2 DEF Right
<1> QED
  BY <1>6, <1>7, <1>8, <1>9 DEF old, new, l

\* A generated file is written, before both are reloaded.
LEMMA FileStep ==
  ASSUME TypeOK, run \in Running, NEW k \in Kinds, WriteFile(k)
  PROVE  /\ ha' \in Ha /\ (OwnSeen(ha, run.seen) => OwnSeen(ha', run.seen))
         /\ Right(ha, run.snap, Todo(run)) => Right(ha', run.snap, Without(Todo(run), 4, k))
<1> DEFINE l == run.snap
           old == Todo(run)
           new == Without(old, 4, k)
           fi == [ha.files EXCEPT ![k] = WantedFile(l, k)]
<1>1. l \in Local /\ ha \in Ha
  BY DEF TypeOK, Running
<1>2. \A n \in 1 .. 6 : new[n] = IF n = 4 THEN old[n] \ {k} ELSE old[n]
  BY DEF Without, Todo
<1>a. k \in old[4]
  <2>1. run.stage = Stages[4] /\ k \in run.left
    BY DEF WriteFile, Calls
  <2> QED
    BY <2>1, TodoFacts
<1> HIDE DEF old, new
<1>3. ha' = [ha EXCEPT !.files = fi]
  BY <1>1 DEF WriteFile, Ha
<1>4. fi \in [Kinds -> SUBSET Scenes]
  BY <1>1 DEF Ha, Local, WantedFile
<1>5. \A j \in Kinds : fi[j] = IF j = k THEN WantedFile(l, k) ELSE ha.files[j]
  BY <1>1 DEF Ha
<1> HIDE DEF fi, l
<1>6. /\ ha' \in Ha /\ ha'.floors = ha.floors /\ ha'.areas = ha.areas /\ ha'.area = ha.area /\ ha'.boards = ha.boards
      /\ ha'.files = fi /\ ha'.loaded = ha.loaded
  BY <1>1, <1>3, <1>4 DEF Ha
<1>7. OwnSeen(ha, run.seen) => OwnSeen(ha', run.seen)
  BY <1>6 DEF OwnSeen
<1>8. ASSUME Right(ha, l, old)  PROVE Right(ha', l, new)
  <2>1. FilesRight(ha', l, new)
    BY <1>2, <1>5, <1>6, <1>8 DEF Right, FilesRight
  <2>2. LoadsRight(ha', l, new)
    BY <1>2, <1>a, <1>8 DEF Right, LoadsRight
  <2>3. /\ FloorsRight(ha', l, new) /\ AreasRight(ha', l, new) /\ DevicesRight(ha', l, new)
        /\ BoardsRight(ha', l, new)
    BY <1>2, <1>6, <1>8, PartsKept DEF Right
  <2> QED
    BY <2>1, <2>2, <2>3 DEF Right
<1> QED
  BY <1>6, <1>7, <1>8 DEF old, new, l

\* Home Assistant reads a file, when both are written.
LEMMA ReloadStep ==
  ASSUME TypeOK, run \in Running, NEW k \in Kinds, Reload(k)
  PROVE  /\ ha' \in Ha /\ (OwnSeen(ha, run.seen) => OwnSeen(ha', run.seen))
         /\ Right(ha, run.snap, Todo(run)) => Right(ha', run.snap, Without(Todo(run), 6, k))
<1> DEFINE l == run.snap
           old == Todo(run)
           new == Without(old, 6, k)
           lo == [ha.loaded EXCEPT ![k] = ha.files[k]]
<1>1. l \in Local /\ ha \in Ha
  BY DEF TypeOK, Running
<1>2. \A n \in 1 .. 6 : new[n] = IF n = 6 THEN old[n] \ {k} ELSE old[n]
  BY DEF Without, Todo
<1>a. old[4] = {}
  <2>1. run.stage = Stages[6]
    BY DEF Reload, Calls
  <2> QED
    BY <2>1, TodoFacts
<1> HIDE DEF old, new
<1>3. ha' = [ha EXCEPT !.loaded = lo]
  BY <1>1 DEF Reload, Ha
<1>4. lo \in [Kinds -> SUBSET Scenes]
  BY <1>1 DEF Ha
<1>5. \A j \in Kinds : lo[j] = IF j = k THEN ha.files[k] ELSE ha.loaded[j]
  BY <1>1 DEF Ha
<1> HIDE DEF lo, l
<1>6. /\ ha' \in Ha /\ ha'.floors = ha.floors /\ ha'.areas = ha.areas /\ ha'.area = ha.area /\ ha'.boards = ha.boards
      /\ ha'.files = ha.files /\ ha'.loaded = lo
  BY <1>1, <1>3, <1>4 DEF Ha
<1>7. OwnSeen(ha, run.seen) => OwnSeen(ha', run.seen)
  BY <1>6 DEF OwnSeen
<1>8. ASSUME Right(ha, l, old)  PROVE Right(ha', l, new)
  <2>1. LoadsRight(ha', l, new)
    BY <1>2, <1>5, <1>6, <1>a, <1>8 DEF Right, LoadsRight
  <2>2. /\ FloorsRight(ha', l, new) /\ AreasRight(ha', l, new) /\ DevicesRight(ha', l, new)
        /\ FilesRight(ha', l, new) /\ BoardsRight(ha', l, new)
    BY <1>2, <1>6, <1>8, PartsKept DEF Right
  <2> QED
    BY <2>1, <2>2 DEF Right
<1> QED
  BY <1>6, <1>7, <1>8 DEF old, new, l

\* The entry of a dashboard is created, changed or deleted, before its content.
LEMMA BoardStep ==
  ASSUME TypeOK, run \in Running, NEW p \in Plans, SyncBoard(p)
  PROVE  /\ ha' \in Ha /\ (OwnSeen(ha, run.seen) => OwnSeen(ha', run.seen))
         /\ Right(ha, run.snap, Todo(run)) => Right(ha', run.snap, Without(Todo(run), 5, <<p, "title">>))
<1> DEFINE l == run.snap
           old == Todo(run)
           new == Without(old, 5, <<p, "title">>)
           b == IF ~Wanted(p) THEN None
                ELSE [title |-> l.plans[p], shows |-> IF ha.boards[p] = None THEN None ELSE ha.boards[p].shows]
           bo == [ha.boards EXCEPT ![p] = b]
<1>1. l \in Local /\ ha \in Ha
  BY DEF TypeOK, Running
<1>2. \A n \in 1 .. 6 : new[n] = IF n = 5 THEN old[n] \ {<<p, "title">>} ELSE old[n]
  BY DEF Without, Todo
<1>a. <<p, "title">> \in old[5]
  <2>1. run.stage = Stages[5] /\ <<p, "title">> \in run.left
    BY DEF SyncBoard, Calls
  <2> QED
    BY <2>1, TodoFacts
<1> HIDE DEF old, new
<1>3. ha' = [ha EXCEPT !.boards = bo]
  BY <1>1 DEF SyncBoard, Ha
<1>b. l.plans[p] \in Names \cup {None} /\ ha.boards[p] \in Board \cup {None}
  BY <1>1 DEF Local, Ha
<1>c. b \in Board \cup {None} /\ (b = None <=> l.plans[p] = None) /\ (b # None => b.title = l.plans[p])
  <2>1. CASE ~Wanted(p)
    BY <2>1 DEF Wanted
  <2>2. CASE Wanted(p)
    <3>1. b = [title |-> l.plans[p], shows |-> IF ha.boards[p] = None THEN None ELSE ha.boards[p].shows]
      BY <2>2
    <3>2. l.plans[p] \in Names /\ l.plans[p] # None
      BY <1>b, <2>2 DEF Wanted
    <3>3. (IF ha.boards[p] = None THEN None ELSE ha.boards[p].shows) \in Shown \cup {None}
      BY <1>b DEF Board
    <3>4. b \in Board
      BY <3>1, <3>2, <3>3 DEF Board
    <3>5. b.title = l.plans[p]
      BY <3>1
    <3> QED
      BY <3>2, <3>4, <3>5, HaMirrorAssumption
  <2> QED
    BY <2>1, <2>2
<1> HIDE DEF b, l
<1>4. bo \in [Plans -> Board \cup {None}]
  BY <1>1, <1>c DEF Ha
<1>5. \A q \in Plans : bo[q] = IF q = p THEN b ELSE ha.boards[q]
  BY <1>1 DEF Ha
<1> HIDE DEF bo
<1>6. /\ ha' \in Ha /\ ha'.floors = ha.floors /\ ha'.areas = ha.areas /\ ha'.area = ha.area /\ ha'.boards = bo
      /\ ha'.files = ha.files /\ ha'.loaded = ha.loaded
  BY <1>1, <1>3, <1>4 DEF Ha
<1>7. OwnSeen(ha, run.seen) => OwnSeen(ha', run.seen)
  BY <1>6 DEF OwnSeen
<1>8. ASSUME Right(ha, l, old)  PROVE Right(ha', l, new)
  <2>1. BoardsRight(ha', l, new)
    <3> SUFFICES ASSUME NEW q \in Plans
                 PROVE  /\ <<q, "title">> \notin new[5] => TitleRight(ha', l, q)
                        /\ <<q, "config">> \notin new[5] /\ l.plans[q] # None
                           => <<q, "title">> \notin new[5] /\ ShowsRight(ha', l, q)
      BY DEF BoardsRight
    <3>1. /\ <<q, "title">> \notin old[5] => TitleRight(ha, l, q)
          /\ <<q, "config">> \notin old[5] /\ l.plans[q] # None
             => <<q, "title">> \notin old[5] /\ ShowsRight(ha, l, q)
      BY <1>8 DEF Right, BoardsRight
    <3>2. <<q, "config">> \in new[5] <=> <<q, "config">> \in old[5]
      BY <1>2
    <3>3. q # p => (<<q, "title">> \in new[5] <=> <<q, "title">> \in old[5])
      BY <1>2
    <3>4. CASE q = p
      <4>1. TitleRight(ha', l, q)
        BY <1>5, <1>6, <1>c, <3>4 DEF TitleRight
      <4> QED
        BY <4>1, <1>a, <3>1, <3>2, <3>4
    <3>5. CASE q # p
      <4>1. ha'.boards[q] = ha.boards[q]
        BY <1>5, <1>6, <3>5
      <4>2. (TitleRight(ha', l, q) <=> TitleRight(ha, l, q)) /\ (ShowsRight(ha', l, q) <=> ShowsRight(ha, l, q))
        BY <4>1 DEF TitleRight, ShowsRight
      <4> QED
        BY <3>1, <3>2, <3>3, <3>5, <4>2
    <3> QED
      BY <3>4, <3>5
  <2>2. /\ FloorsRight(ha', l, new) /\ AreasRight(ha', l, new) /\ DevicesRight(ha', l, new)
        /\ FilesRight(ha', l, new) /\ LoadsRight(ha', l, new)
    BY <1>2, <1>6, <1>8, PartsKept DEF Right
  <2> QED
    BY <2>1, <2>2 DEF Right
<1> QED
  BY <1>6, <1>7, <1>8 DEF old, new, l

\* The content of a dashboard is saved, after its entry.
LEMMA ContentStep ==
  ASSUME TypeOK, run \in Running, NEW p \in Plans, SaveBoard(p)
  PROVE  /\ ha' \in Ha /\ (OwnSeen(ha, run.seen) => OwnSeen(ha', run.seen))
         /\ Right(ha, run.snap, Todo(run)) => Right(ha', run.snap, Without(Todo(run), 5, <<p, "config">>))
<1> DEFINE l == run.snap
           old == Todo(run)
           new == Without(old, 5, <<p, "config">>)
           b == [ha.boards[p] EXCEPT !.shows = Shows(l, p)]
           bo == [ha.boards EXCEPT ![p] = b]
<1>1. l \in Local /\ ha \in Ha
  BY DEF TypeOK, Running
<1>2. \A n \in 1 .. 6 : new[n] = IF n = 5 THEN old[n] \ {<<p, "config">>} ELSE old[n]
  BY DEF Without, Todo
<1>a. <<p, "title">> \notin old[5]
  <2>1. run.stage = Stages[5] /\ <<p, "title">> \notin run.left
    BY DEF SaveBoard, Calls
  <2> QED
    BY <2>1, TodoFacts
<1> HIDE DEF old, new
<1>3. ha' = [ha EXCEPT !.boards = bo]
  BY <1>1 DEF SaveBoard, Ha
<1>b. ha.boards[p] \in Board
  BY <1>1 DEF SaveBoard, Ha
<1>c. b \in Board /\ b.title = ha.boards[p].title /\ b.shows = Shows(l, p)
  <2>1. Shows(l, p) \in Shown
    BY <1>1, WantedTypes
  <2> QED
    BY <1>b, <2>1 DEF Board
<1> HIDE DEF b, l
<1>4. bo \in [Plans -> Board \cup {None}]
  BY <1>1, <1>c DEF Ha
<1>5. \A q \in Plans : bo[q] = IF q = p THEN b ELSE ha.boards[q]
  BY <1>1 DEF Ha
<1> HIDE DEF bo
<1>6. /\ ha' \in Ha /\ ha'.floors = ha.floors /\ ha'.areas = ha.areas /\ ha'.area = ha.area /\ ha'.boards = bo
      /\ ha'.files = ha.files /\ ha'.loaded = ha.loaded
  BY <1>1, <1>3, <1>4 DEF Ha
<1>7. OwnSeen(ha, run.seen) => OwnSeen(ha', run.seen)
  BY <1>6 DEF OwnSeen
<1>8. ASSUME Right(ha, l, old)  PROVE Right(ha', l, new)
  <2>1. BoardsRight(ha', l, new)
    <3> SUFFICES ASSUME NEW q \in Plans
                 PROVE  /\ <<q, "title">> \notin new[5] => TitleRight(ha', l, q)
                        /\ <<q, "config">> \notin new[5] /\ l.plans[q] # None
                           => <<q, "title">> \notin new[5] /\ ShowsRight(ha', l, q)
      BY DEF BoardsRight
    <3>1. /\ <<q, "title">> \notin old[5] => TitleRight(ha, l, q)
          /\ <<q, "config">> \notin old[5] /\ l.plans[q] # None
             => <<q, "title">> \notin old[5] /\ ShowsRight(ha, l, q)
      BY <1>8 DEF Right, BoardsRight
    <3>2. <<q, "title">> \in new[5] <=> <<q, "title">> \in old[5]
      BY <1>2
    <3>3. q # p => (<<q, "config">> \in new[5] <=> <<q, "config">> \in old[5])
      BY <1>2
    <3>4. CASE q = p
      <4>1. ha'.boards[q] = b
        BY <1>5, <1>6, <3>4
      <4>2. TitleRight(ha', l, q) /\ ShowsRight(ha', l, q)
        BY <1>a, <1>b, <1>c, <3>1, <3>4, <4>1, HaMirrorAssumption DEF TitleRight, ShowsRight
      <4> QED
        BY <4>2, <1>a, <3>2, <3>4
    <3>5. CASE q # p
      <4>1. ha'.boards[q] = ha.boards[q]
        BY <1>5, <1>6, <3>5
      <4>2. (TitleRight(ha', l, q) <=> TitleRight(ha, l, q)) /\ (ShowsRight(ha', l, q) <=> ShowsRight(ha, l, q))
        BY <4>1 DEF TitleRight, ShowsRight
      <4> QED
        BY <3>1, <3>2, <3>3, <3>5, <4>2
    <3> QED
      BY <3>4, <3>5
  <2>2. /\ FloorsRight(ha', l, new) /\ AreasRight(ha', l, new) /\ DevicesRight(ha', l, new)
        /\ FilesRight(ha', l, new) /\ LoadsRight(ha', l, new)
    BY <1>2, <1>6, <1>8, PartsKept DEF Right
  <2> QED
    BY <2>1, <2>2 DEF Right
<1> QED
  BY <1>6, <1>7, <1>8 DEF old, new, l

-----------------------------------------------------------------------------
(* The invariant.                                                           *)

\* A run that is idle, hung or connecting promises nothing yet.
LEMMA NoPromise ==
  ASSUME run' \in {Idle, Hung} \/ (run' \in Running /\ run'.stage = "connect" /\ run'.snap \in Locals)
  PROVE  Progress'
<1>1. run' \in {Idle, Hung} => run' \notin Running
  BY DEF Idle, Hung, Running, Stages
<1> QED
  BY <1>1 DEF Progress, Listed

\* A call that has been made and answered, or whose answer was lost.
LEMMA CallKeeps ==
  ASSUME MirrorInv, NEW n \in 1 .. 6, NEW x \in Items, Calls(n, x), ha' \in Ha,
         OwnSeen(ha, run.seen) => OwnSeen(ha', run.seen),
         run.snap \in Locals /\ Right(ha, run.snap, Todo(run))
           => Right(ha', run.snap, Without(Todo(run), n, x))
  PROVE  /\ MirrorInv'
         /\ run' = Idle /\ faults' = faults /\ ~run.edited => Mirrors(ha', run.snap)
<1>1. run \in Running /\ run.stage # "connect"
  BY StageFacts DEF MirrorInv, TypeOK, Calls, Idle, Hung
<1>2. run.snap \in Locals /\ LeftIsDue(run) /\ run.stage = Stages[n] /\ x \in run.left
  BY <1>1 DEF MirrorInv, Progress, Listed, Calls
<1>3. run.snap \in Local
  BY <1>1 DEF Running
<1>4. ~run.edited => /\ Right(ha', run.snap, Without(Todo(run), n, x))
                     /\ OwnSeen(ha', run.seen)
  BY <1>1, <1>2 DEF MirrorInv, Progress, Listed
<1>5. local' = local /\ debounce' = debounce /\ changes' = changes /\ edits' = edits
  BY DEF Calls
<1>6. faults' \in 0 .. MaxFaults
  BY HaMirrorAssumption DEF MirrorInv, TypeOK, Calls, Fault
<1>7. TypeOK' /\ local' \in Locals
      <=> run' \in {Idle, Hung} \/ run' \in Running
  BY <1>5, <1>6 DEF MirrorInv, TypeOK
<1>8. CASE run' = Idle /\ Fault
  <2>1. faults' # faults
    BY <1>8 DEF Fault, MirrorInv, TypeOK
  <2> QED
    BY <1>7, <1>8, <2>1, NoPromise DEF MirrorInv
<1>9. CASE run' = After(n, x) /\ UNCHANGED faults
  <2>1. CASE run' = Idle /\ Without(Todo(run), n, x) = NothingToDo
    <3>1. ~run.edited => Mirrors(ha', run.snap)
      BY <1>3, <1>4, <2>1, NothingToDoMirrors
    <3> QED
      BY <1>7, <2>1, <3>1, NoPromise DEF MirrorInv
  <2>2. CASE /\ run' \in Running /\ run'.stage # "connect" /\ run'.snap = run.snap /\ run'.seen = run.seen
             /\ run'.edited = run.edited /\ LeftIsDue(run')
             /\ Todo(run') = Without(Todo(run), n, x)
    <3>1. Progress'
      BY <1>2, <1>4, <2>2 DEF Progress, Listed
    <3>2. run' # Idle
      BY <2>2 DEF Idle, Running, Stages
    <3> QED
      BY <1>7, <2>2, <3>1, <3>2 DEF MirrorInv
  <2> QED
    BY <1>1, <1>2, <1>9, <2>1, <2>2, AfterTodo
<1> QED
  BY <1>8, <1>9 DEF Calls

\* A step of a run keeps the invariant, and one that ends it without a failure leaves
\* what was wanted.
LEMMA RunStepKeeps ==
  ASSUME MirrorInv, RunStep
  PROVE  /\ MirrorInv'
         /\ run.stage = "reload" /\ run' = Idle /\ faults' = faults /\ ~run.edited => Mirrors(ha', run.snap)
<1>1. TypeOK
  BY DEF MirrorInv
<1>2. ASSUME NEW n \in 1 .. 6, NEW x, Calls(n, x)  PROVE run \in Running
  BY <1>1, <1>2, StageFacts DEF TypeOK, Calls, Idle, Hung
<1>3. Plans \subseteq Items /\ Entities \subseteq Items /\ Kinds \subseteq Items
      /\ \A p \in Plans : <<p, "title">> \in Items /\ <<p, "config">> \in Items
  BY DEF Items, Parts
<1>4. CASE List
  <2>1. run \in Running
    BY <1>1, <1>4 DEF TypeOK, List, Idle, Hung
  <2>2. run.snap \in Locals /\ run.snap \in Local /\ ha \in Ha
    BY <1>1, <2>1 DEF MirrorInv, Progress, Running, TypeOK
  <2>3. /\ run' \in Running /\ run'.stage # "connect" /\ run'.snap = run.snap /\ run'.seen = ha /\ ~run'.edited
        /\ LeftIsDue(run')
        /\ \A k \in 1 .. 6 : Todo(run')[k] = Due(Stages[k], run.snap, ha)
    BY <1>1, <1>4, <2>1, ListTodo
  <2>4. ha' = ha /\ UNCHANGED <<local, debounce, changes, faults, edits>>
    BY <1>4 DEF List
  <2>5. Right(ha', run'.snap, Todo(run')) /\ OwnSeen(ha', run'.seen)
    BY <2>2, <2>3, <2>4, ListedRight DEF OwnSeen
  <2>6. Progress'
    BY <2>2, <2>3, <2>5 DEF Progress, Listed
  <2>7. TypeOK' /\ local' \in Locals
    BY <1>1, <2>3, <2>4 DEF TypeOK, MirrorInv
  <2>8. run.stage # "reload"
    BY <1>4 DEF List
  <2> QED
    BY <2>6, <2>7, <2>8 DEF MirrorInv
<1>5. CASE Refused
  <2>1. run' = Idle /\ UNCHANGED <<local, ha, debounce, changes, faults, edits>>
    BY <1>5 DEF Refused
  <2>2. MirrorInv'
    BY <1>1, <2>1, NoPromise DEF TypeOK, MirrorInv
  <2>3. run.stage # "reload"
    BY <1>5 DEF Refused
  <2> QED
    BY <2>2, <2>3
<1>6. ASSUME NEW p \in Plans, SyncFloor(p)
      PROVE  MirrorInv' /\ (run.stage = "reload" /\ run' = Idle /\ faults' = faults /\ ~run.edited => Mirrors(ha', run.snap))
  <2>1. Calls(1, p)
    BY <1>6 DEF SyncFloor
  <2> QED
    BY <1>1, <1>2, <1>3, <1>6, <2>1, FloorStep, CallKeeps
<1>7. ASSUME NEW p \in Plans, SyncArea(p)
      PROVE  MirrorInv' /\ (run.stage = "reload" /\ run' = Idle /\ faults' = faults /\ ~run.edited => Mirrors(ha', run.snap))
  <2>1. Calls(2, p)
    BY <1>7 DEF SyncArea
  <2> QED
    BY <1>1, <1>2, <1>3, <1>7, <2>1, AreaStep, CallKeeps
<1>8. ASSUME NEW p \in Plans, SyncBoard(p)
      PROVE  MirrorInv' /\ (run.stage = "reload" /\ run' = Idle /\ faults' = faults /\ ~run.edited => Mirrors(ha', run.snap))
  <2>1. Calls(5, <<p, "title">>)
    BY <1>8 DEF SyncBoard
  <2>2. /\ ha' \in Ha /\ (OwnSeen(ha, run.seen) => OwnSeen(ha', run.seen))
        /\ Right(ha, run.snap, Todo(run)) => Right(ha', run.snap, Without(Todo(run), 5, <<p, "title">>))
    BY <1>1, <1>2, <1>8, <2>1, BoardStep
  <2>3. <<p, "title">> \in Items
    BY <1>3
  <2> QED
    BY <2>1, <2>2, <2>3, CallKeeps
<1>9. ASSUME NEW p \in Plans, SaveBoard(p)
      PROVE  MirrorInv' /\ (run.stage = "reload" /\ run' = Idle /\ faults' = faults /\ ~run.edited => Mirrors(ha', run.snap))
  <2>1. Calls(5, <<p, "config">>)
    BY <1>9 DEF SaveBoard
  <2>2. /\ ha' \in Ha /\ (OwnSeen(ha, run.seen) => OwnSeen(ha', run.seen))
        /\ Right(ha, run.snap, Todo(run)) => Right(ha', run.snap, Without(Todo(run), 5, <<p, "config">>))
    BY <1>1, <1>2, <1>9, <2>1, ContentStep
  <2>3. <<p, "config">> \in Items
    BY <1>3
  <2> QED
    BY <2>1, <2>2, <2>3, CallKeeps
<1>10. ASSUME NEW e \in Entities, SyncDevice(e)
       PROVE  MirrorInv' /\ (run.stage = "reload" /\ run' = Idle /\ faults' = faults /\ ~run.edited => Mirrors(ha', run.snap))
  <2>1. Calls(3, e)
    BY <1>10 DEF SyncDevice
  <2> QED
    BY <1>1, <1>2, <1>3, <1>10, <2>1, DeviceStep, CallKeeps
<1>11. ASSUME NEW k \in Kinds, WriteFile(k)
       PROVE  MirrorInv' /\ (run.stage = "reload" /\ run' = Idle /\ faults' = faults /\ ~run.edited => Mirrors(ha', run.snap))
  <2>1. Calls(4, k)
    BY <1>11 DEF WriteFile
  <2> QED
    BY <1>1, <1>2, <1>3, <1>11, <2>1, FileStep, CallKeeps
<1>12. ASSUME NEW k \in Kinds, Reload(k)
       PROVE  MirrorInv' /\ (run.stage = "reload" /\ run' = Idle /\ faults' = faults /\ ~run.edited => Mirrors(ha', run.snap))
  <2>1. Calls(6, k)
    BY <1>12 DEF Reload
  <2> QED
    BY <1>1, <1>2, <1>3, <1>12, <2>1, ReloadStep, CallKeeps
<1> QED
  BY <1>4, <1>5, <1>6, <1>7, <1>8, <1>9, <1>10, <1>11, <1>12 DEF RunStep

\* What people do in Home Assistant keeps its type, and is known of a run under way.
LEMMA EditKeeps == ASSUME MirrorInv, Edit PROVE MirrorInv'
<1>1. ha \in Ha /\ TypeOK
  BY DEF MirrorInv, TypeOK
<1>2. /\ edits' \in 0 .. MaxEdits /\ UNCHANGED <<local, debounce, changes, faults>>
      /\ run' = IF run.stage \in {"idle", "hung"} THEN run ELSE [run EXCEPT !.edited = TRUE]
  <2>1. edits < MaxEdits /\ edits' = edits + 1
    BY DEF Edit
  <2>2. edits' \in 0 .. MaxEdits
    BY <1>1, <2>1, HaMirrorAssumption DEF TypeOK
  <2> QED
    BY <2>2 DEF Edit
<1>3. ha' \in Ha
  <2>1. ASSUME NEW d \in HaDevices, ha' = [ha EXCEPT !.area[d] = "own"]  PROVE ha' \in Ha
    <3>1. ha.area \in [HaDevices -> Plans \cup {"own", None}]
      BY <1>1 DEF Ha
    <3>2. [ha.area EXCEPT ![d] = "own"] \in [HaDevices -> Plans \cup {"own", None}]
      BY <3>1
    <3> QED
      BY <1>1, <2>1, <3>2 DEF Ha
  <2>2. ASSUME NEW p \in Plans,
               ha' = [ha EXCEPT !.floors[p] = None, !.areas[p] = IF @ = None THEN None ELSE [@ EXCEPT !.floor = FALSE]]
        PROVE  ha' \in Ha
    <3> DEFINE fl == [ha.floors EXCEPT ![p] = None]
               ar == [ha.areas EXCEPT ![p] = IF @ = None THEN None ELSE [@ EXCEPT !.floor = FALSE]]
    <3>1. ha' = [ha EXCEPT !.floors = fl, !.areas = ar]
      BY <1>1, <2>2 DEF Ha
    <3>2. fl \in [Plans -> Names \cup {None}]
      BY <1>1 DEF Ha
    <3>3. ha.areas \in [Plans -> Area \cup {None}] /\ \A a \in Area : [a EXCEPT !.floor = FALSE] \in Area
      BY <1>1 DEF Ha, Area
    <3>4. ar \in [Plans -> Area \cup {None}]
      BY <3>3
    <3> HIDE DEF fl, ar
    <3> QED
      BY <1>1, <3>1, <3>2, <3>4 DEF Ha
  <2>3. ASSUME NEW p \in Plans,
               ha' = [ha EXCEPT !.areas[p] = None, !.area = [d \in HaDevices |-> IF @[d] = p THEN None ELSE @[d]]]
        PROVE  ha' \in Ha
    <3> DEFINE ar == [ha.areas EXCEPT ![p] = None]
               of == [d \in HaDevices |-> IF ha.area[d] = p THEN None ELSE ha.area[d]]
    <3>1. ha' = [ha EXCEPT !.areas = ar, !.area = of]
      BY <1>1, <2>3 DEF Ha
    <3>2. ar \in [Plans -> Area \cup {None}] /\ of \in [HaDevices -> Plans \cup {"own", None}]
      BY <1>1 DEF Ha
    <3> HIDE DEF ar, of
    <3> QED
      BY <1>1, <3>1, <3>2 DEF Ha
  <2>4. ASSUME NEW p \in Plans, ha' = [ha EXCEPT !.boards[p] = None]  PROVE ha' \in Ha
    <3>1. [ha.boards EXCEPT ![p] = None] \in [Plans -> Board \cup {None}]
      BY <1>1 DEF Ha
    <3> QED
      BY <1>1, <2>4, <3>1 DEF Ha
  <2> QED
    BY <2>1, <2>2, <2>3, <2>4 DEF Edit
<1>4. CASE run \in {Idle, Hung}
  <2>1. run' = run
    BY <1>2, <1>4 DEF Idle, Hung
  <2> QED
    BY <1>1, <1>2, <1>3, <1>4, <2>1, NoPromise DEF MirrorInv, TypeOK
<1>5. CASE run \in Running
  <2>1. run' = [run EXCEPT !.edited = TRUE]
    BY <1>2, <1>5 DEF Running, Stages
  <2>2. run' \in Running /\ run'.edited /\ run'.snap = run.snap /\ run'.seen = run.seen /\ run'.stage = run.stage
        /\ run'.left = run.left
    BY <1>5, <2>1 DEF Running
  <2>3. LeftIsDue(run) => LeftIsDue(run')
    BY <2>2 DEF LeftIsDue
  <2>4. Progress'
    BY <1>5, <2>2, <2>3 DEF MirrorInv, Progress, Listed
  <2> QED
    BY <1>1, <1>2, <1>3, <2>2, <2>4 DEF MirrorInv, TypeOK
<1> QED
  BY <1>1, <1>4, <1>5 DEF TypeOK

\* A run starts with what the files hold.
LEMMA StartKeeps ==
  ASSUME MirrorInv, Start, UNCHANGED <<local, ha, changes, faults, edits>>, debounce' \in BOOLEAN
  PROVE  MirrorInv'
<1>1. run' \in Running /\ run'.stage = "connect" /\ run'.snap = local
  BY DEF MirrorInv, TypeOK, Start, Running
<1>2. Progress'
  BY <1>1, NoPromise DEF MirrorInv
<1> QED
  BY <1>1, <1>2 DEF MirrorInv, TypeOK

\* Every step keeps the invariant.
LEMMA StepKeeps == ASSUME MirrorInv, [Next]_vars PROVE MirrorInv'
<1> USE DEF MirrorInv
<1>1. CASE RunStep
  BY <1>1, RunStepKeeps
<1>2. CASE RunFails \/ HaSilent \/ Restart
  <2>1. run' \in {Idle, Hung} /\ UNCHANGED <<local, ha, changes, edits>> /\ debounce' \in BOOLEAN
    BY <1>2 DEF RunFails, HaSilent, Restart, TypeOK
  <2>2. faults' \in 0 .. MaxFaults
    BY <1>2, HaMirrorAssumption DEF RunFails, HaSilent, Restart, Fault, TypeOK
  <2> QED
    BY <2>1, <2>2, NoPromise DEF TypeOK
<1>3. ASSUME NEW l \in Locals, Change(l)  PROVE MirrorInv'
  <2>1. TypeOK' /\ local' \in Locals
    BY <1>3, HaMirrorAssumption DEF Change, TypeOK
  <2>2. run' = run /\ ha' = ha
    BY <1>3 DEF Change
  <2>3. Progress'
    BY <2>2 DEF Progress, Listed
  <2> QED
    BY <2>1, <2>3
<1>4. CASE DebounceFires
  <2>1. UNCHANGED <<local, ha, changes, faults, edits>> /\ debounce' \in BOOLEAN
    BY <1>4 DEF DebounceFires
  <2>2. CASE run' = run
    <3>1. Progress'
      BY <2>1, <2>2 DEF Progress, Listed
    <3> QED
      BY <2>1, <2>2, <3>1 DEF TypeOK
  <2>3. CASE Start
    BY <2>1, <2>3, StartKeeps
  <2> QED
    BY <1>4, <2>2, <2>3 DEF DebounceFires
<1>5. CASE SyncNow \/ IntervalFires
  <2>1. Start /\ UNCHANGED <<local, ha, changes, faults, edits>> /\ debounce' \in BOOLEAN
    BY <1>5 DEF SyncNow, IntervalFires, TypeOK
  <2> QED
    BY <2>1, StartKeeps
<1>6. CASE Edit
  BY <1>6, EditKeeps
<1>7. CASE UNCHANGED vars
  <2>1. Progress' /\ TypeOK' /\ local' = local
    BY <1>7 DEF vars, Progress, Listed, TypeOK
  <2> QED
    BY <2>1
<1> QED
  BY <1>1, <1>2, <1>3, <1>4, <1>5, <1>6, <1>7 DEF Next

\* ha-sync.js:110-236: at any time what a run that nobody interfered with has not before it
\* is right, for any floorplans, devices and scenes and however earlier runs ended.
THEOREM MirrorInvariant == Spec => []MirrorInv
<1>1. Init => MirrorInv
  <2> SUFFICES ASSUME Init PROVE MirrorInv
    OBVIOUS
  <2>1. Nothing \in Ha
    BY DEF Nothing, Ha
  <2>2. TypeOK /\ local \in Locals
    BY <2>1, HaMirrorAssumption DEF Init, TypeOK
  <2>3. Progress
    BY DEF Init, Progress, Listed, Idle, Running, Stages
  <2> QED
    BY <2>2, <2>3 DEF MirrorInv
<1>2. MirrorInv /\ [Next]_vars => MirrorInv'
  BY StepKeeps
<1> QED
  BY <1>1, <1>2, PTL DEF Spec
\* Everything keeps its type.
THEOREM MirrorTypeCorrect == Spec => []TypeOK
<1>1. MirrorInv => TypeOK
  BY DEF MirrorInv
<1> QED
  BY <1>1, MirrorInvariant, PTL

\* ha-sync.js:110-236: whatever earlier runs left behind, a run that comes to its end
\* without a failure has made Home Assistant what its snapshot says, unless people changed
\* it meanwhile.
THEOREM RunsMirror == Spec => RunMirrors
<1>1. ASSUME MirrorInv, [Next]_vars, run.stage = "reload", run' = Idle, faults' = faults, ~run.edited
      PROVE  Mirrors(ha', run.snap)
  <2>1. run' # run /\ run # Idle
    BY <1>1 DEF Idle
  <2>2. faults \in Nat
    BY <1>1 DEF MirrorInv, TypeOK
  <2>3. ~Edit /\ ~RunFails /\ ~HaSilent /\ ~Restart
    <3>1. ~RunFails /\ ~HaSilent /\ ~Restart
      BY <1>1, <2>2 DEF RunFails, HaSilent, Restart, Fault
    <3>2. CASE Edit
      <4>1. run' = [run EXCEPT !.edited = TRUE]
        BY <1>1, <2>1, <3>2 DEF Edit
      <4>2. run \in Running
        BY <1>1, <2>1 DEF MirrorInv, TypeOK, Hung
      <4>3. run'.stage = "reload"
        BY <1>1, <4>1, <4>2 DEF Running
      <4> QED
        BY <1>1, <4>3 DEF Idle
    <3> QED
      BY <3>1, <3>2
  <2>4. ~DebounceFires /\ ~SyncNow /\ ~IntervalFires /\ ~\E l \in Locals : Change(l)
    BY <1>1, <2>1 DEF DebounceFires, SyncNow, IntervalFires, Change
  <2>5. ~UNCHANGED vars
    BY <2>1 DEF vars
  <2>6. RunStep
    BY <1>1, <2>3, <2>4, <2>5 DEF Next
  <2> QED
    BY <1>1, <2>6, RunStepKeeps
<1>2. MirrorInv /\ [Next]_vars =>
        [run.stage = "reload" /\ run' = Idle /\ faults' = faults /\ ~run.edited => Mirrors(ha', run.snap)]_vars
  BY <1>1
<1> QED
  BY <1>2, MirrorInvariant, PTL DEF Spec, RunMirrors

\* ha-sync.js:573-629: an area that people gave a device is taken from it only when the
\* gateway places one of its entities, or when they gave it during the run.
THEOREM OwnAreasKept == Spec => OwnAreaKept
<1>1. ASSUME MirrorInv, [Next]_vars, NEW d \in HaDevices, ha.area[d] = "own", ha'.area[d] # "own", ~run.edited
      PROVE  \E e \in EntitiesOf(d) : run.snap.at[e] # None
  <2>1. ha \in Ha /\ TypeOK
    BY <1>1 DEF MirrorInv, TypeOK
  <2>2. ASSUME NEW e \in Entities, SyncDevice(e)
        PROVE  \E f \in EntitiesOf(d) : run.snap.at[f] # None
    <3>1. run.stage = Stages[3] /\ e \in run.left
      BY <2>2 DEF SyncDevice, Calls
    <3>2. run \in Running /\ Listed
      BY <2>1, <3>1, StageFacts DEF TypeOK, Idle, Hung, Listed
    <3>3. d = DeviceOf[e]
      BY <1>1, <2>1, <2>2, <3>2, DeviceStep
    <3>4. e \in DevicesDue(run.snap, run.seen)
      BY <1>1, <3>1, <3>2 DEF MirrorInv, Progress, LeftIsDue, Due, Stages
    <3>5. run.seen.area[d] = "own"
      BY <1>1, <3>2 DEF MirrorInv, Progress, OwnSeen
    <3>6. run.snap.at[e] # None
      BY <3>3, <3>4, <3>5, HaMirrorAssumption DEF DevicesDue
    <3> QED
      BY <3>3, <3>6 DEF EntitiesOf
  <2>3. ASSUME NEW p \in Plans, SyncArea(p)  PROVE FALSE
    <3>1. ha'.area[d] = IF ha.area[d] = p /\ run.snap.rooms[p] = None THEN None ELSE ha.area[d]
      BY <1>1, <2>1, <2>3 DEF SyncArea, Ha
    <3> QED
      BY <1>1, <3>1, HaMirrorAssumption
  <2>4. ASSUME NEW p \in Plans, SyncFloor(p) \/ SyncBoard(p) \/ SaveBoard(p)  PROVE FALSE
    <3>1. ha'.area = ha.area
      BY <2>1, <2>4 DEF SyncFloor, SyncBoard, SaveBoard, Ha
    <3> QED
      BY <1>1, <3>1
  <2>5. ASSUME NEW k \in Kinds, WriteFile(k) \/ Reload(k)  PROVE FALSE
    <3>1. ha'.area = ha.area
      BY <2>1, <2>5 DEF WriteFile, Reload, Ha
    <3> QED
      BY <1>1, <3>1
  <2>6. ~List /\ ~Refused /\ ~RunFails /\ ~HaSilent /\ ~Restart /\ ~DebounceFires /\ ~SyncNow /\ ~IntervalFires
        /\ (~\E l \in Locals : Change(l)) /\ ~UNCHANGED vars
    BY <1>1 DEF List, Refused, RunFails, HaSilent, Restart, DebounceFires, SyncNow, IntervalFires, Change, vars
  <2>7. CASE Edit
    <3>1. ASSUME NEW e \in HaDevices, ha' = [ha EXCEPT !.area[e] = "own"]  PROVE ha'.area[d] = "own"
      BY <1>1, <2>1, <3>1 DEF Ha
    <3>2. ASSUME NEW p \in Plans,
                 ha' = [ha EXCEPT !.floors[p] = None, !.areas[p] = IF @ = None THEN None ELSE [@ EXCEPT !.floor = FALSE]]
          PROVE  ha'.area[d] = "own"
      BY <1>1, <2>1, <3>2 DEF Ha
    <3>3. ASSUME NEW p \in Plans,
                 ha' = [ha EXCEPT !.areas[p] = None, !.area = [f \in HaDevices |-> IF @[f] = p THEN None ELSE @[f]]]
          PROVE  ha'.area[d] = "own"
      <4>1. p # "own"
        BY HaMirrorAssumption
      <4> QED
        BY <1>1, <2>1, <3>3, <4>1 DEF Ha
    <3>4. ASSUME NEW p \in Plans, ha' = [ha EXCEPT !.boards[p] = None]  PROVE ha'.area[d] = "own"
      BY <1>1, <2>1, <3>4 DEF Ha
    <3> QED
      BY <1>1, <2>7, <3>1, <3>2, <3>3, <3>4 DEF Edit
  <2> QED
    BY <1>1, <2>2, <2>3, <2>4, <2>5, <2>6, <2>7 DEF Next, RunStep
<1>2. MirrorInv /\ [Next]_vars =>
        [\A d \in HaDevices : ha.area[d] = "own" /\ ha'.area[d] # "own" =>
           run.edited \/ \E e \in EntitiesOf(d) : run.snap.at[e] # None]_vars
  BY <1>1
<1> QED
  BY <1>2, MirrorInvariant, PTL DEF Spec, OwnAreaKept

-----------------------------------------------------------------------------
(* Towards BecomesMirrored: runs get to an end, and what is mirrored stays. *)

\* Every step of a run that has its lists makes one of the calls that were to do, and
\* no other step adds to them.
RunsDwindle ==
  [][Listed => \/ run' = Idle
               \/ Todo(run') = Todo(run) /\ ~RunStep
               \/ \E n \in 1 .. 6 : \E x \in Todo(run)[n] : Todo(run') = Without(Todo(run), n, x)]_vars

\* ha-sync.js:110-236: a run that has its lists has ever fewer calls to make: it makes
\* each once, and neither answers nor changes of files nor people give it another one.
THEOREM CallsDwindle == Spec => RunsDwindle
<1>1. ASSUME MirrorInv, [Next]_vars, Listed
      PROVE  \/ run' = Idle
             \/ Todo(run') = Todo(run) /\ ~RunStep
             \/ \E n \in 1 .. 6 : \E x \in Todo(run)[n] : Todo(run') = Without(Todo(run), n, x)
  <2>1. run \in Running /\ run.stage # "connect" /\ LeftIsDue(run) /\ run # Idle /\ run.stage \notin {"idle", "hung"}
    BY <1>1 DEF Listed, MirrorInv, Progress, Idle, Running, Stages
  <2>2. ASSUME NEW n \in 1 .. 6, NEW x, Calls(n, x), run' # Idle
        PROVE  \E y \in Todo(run)[n] : Todo(run') = Without(Todo(run), n, y)
    <3>1. run.stage = Stages[n] /\ x \in run.left /\ run' = After(n, x)
      BY <2>2 DEF Calls
    <3>2. x \in Todo(run)[n]
      BY <3>1, TodoFacts
    <3> QED
      BY <2>1, <2>2, <3>1, <3>2, AfterTodo
  <2>3. CASE RunStep
    <3>1. ~List /\ (Refused => run' = Idle)
      BY <2>1 DEF List, Refused
    <3>2. ASSUME NEW p \in Plans, SyncFloor(p) \/ SyncArea(p) \/ SyncBoard(p) \/ SaveBoard(p)
          PROVE  \E n \in 1 .. 6 : \E x : Calls(n, x)
      BY <3>2 DEF SyncFloor, SyncArea, SyncBoard, SaveBoard
    <3>3. ASSUME NEW e \in Entities, SyncDevice(e)  PROVE \E n \in 1 .. 6 : \E x : Calls(n, x)
      BY <3>3 DEF SyncDevice
    <3>4. ASSUME NEW k \in Kinds, WriteFile(k) \/ Reload(k)  PROVE \E n \in 1 .. 6 : \E x : Calls(n, x)
      BY <3>4 DEF WriteFile, Reload
    <3>5. run' = Idle \/ \E n \in 1 .. 6 : \E x : Calls(n, x)
      BY <2>3, <3>1, <3>2, <3>3, <3>4 DEF RunStep
    <3> QED
      BY <2>2, <3>5
  <2>4. CASE ~RunStep
    <3>1. CASE Edit
      <4>1. run' = [run EXCEPT !.edited = TRUE]
        BY <2>1, <3>1 DEF Edit
      <4>2. run'.stage = run.stage /\ run'.left = run.left /\ run'.snap = run.snap /\ run'.seen = run.seen
        BY <2>1, <4>1 DEF Running
      <4> QED
        BY <2>4, <4>2 DEF Todo
    <3>2. CASE ~Edit
      <4>1. run' \in {run, Idle}
        BY <1>1, <2>1, <2>4, <3>2
           DEF Next, RunFails, HaSilent, Change, DebounceFires, SyncNow, IntervalFires, Restart, vars
      <4> QED
        BY <2>4, <4>1
    <3> QED
      BY <3>1, <3>2
  <2> QED
    BY <2>3, <2>4
<1>2. MirrorInv /\ [Next]_vars =>
        [Listed => \/ run' = Idle
                   \/ Todo(run') = Todo(run) /\ ~RunStep
                   \/ \E n \in 1 .. 6 : \E x \in Todo(run)[n] : Todo(run') = Without(Todo(run), n, x)]_vars
  BY <1>1
<1> QED
  BY <1>2, MirrorInvariant, PTL DEF Spec, RunsDwindle

\* The parts of Home Assistant as the files want them.
LEMMA MirroredParts ==
  ASSUME NEW h, NEW l, Mirrors(h, l), NEW g,
         \A p \in Plans : g.floors[p] = h.floors[p] /\ g.areas[p] = h.areas[p] /\ g.boards[p] = h.boards[p],
         \A k \in Kinds : g.files[k] = h.files[k] /\ g.loaded[k] = h.loaded[k],
         \A d \in HaDevices : DevicePlaced(l, g, d)
  PROVE  Mirrors(g, l)
  BY DEF Mirrors

\* Devices that stay where they are, or go nowhere from an area that is not, are placed.
LEMMA PlacesStay ==
  ASSUME NEW h, NEW l, NEW g, NEW d \in HaDevices, DevicePlaced(l, h, d),
         AreaOf(g, d) = AreaOf(h, d)
  PROVE  DevicePlaced(l, g, d)
  BY DEF DevicePlaced

\* A call for a floor changes nothing in a Home Assistant that mirrors the files.
LEMMA FloorStays ==
  ASSUME ha \in Ha, run.snap \in Locals, NEW p \in Plans, SyncFloor(p), Mirrors(ha, run.snap)
  PROVE  Mirrors(ha', run.snap)
<1> DEFINE l == run.snap
<1>1. l \in Local /\ (l.plans[p] = None => l.rooms[p] = None)
  BY HaMirrorAssumption
<1>2. ha.areas[p] = WantedArea(l, p) /\ ha.floors[p] = l.plans[p]
  BY DEF Mirrors
<1>3. ~Wanted(p) => ha.areas[p] = None
  BY <1>1, <1>2 DEF Wanted, WantedArea
<1>4. /\ ha'.floors = [ha.floors EXCEPT ![p] = l.plans[p]]
      /\ ha'.areas = [ha.areas EXCEPT ![p] = ha.areas[p]]
      /\ ha'.area = ha.area /\ ha'.boards = ha.boards /\ ha'.files = ha.files /\ ha'.loaded = ha.loaded
  BY <1>3 DEF SyncFloor, Ha
<1>5. \A q \in Plans : ha'.floors[q] = ha.floors[q] /\ ha'.areas[q] = ha.areas[q]
  BY <1>2, <1>4 DEF Ha
<1>6. \A d \in HaDevices : AreaOf(ha', d) = AreaOf(ha, d)
  BY <1>4, <1>5 DEF AreaOf
<1>7. \A d \in HaDevices : DevicePlaced(l, ha', d)
  BY <1>6, PlacesStay DEF Mirrors
<1> QED
  BY <1>4, <1>5, <1>7, MirroredParts

\* Nor does a call for an area: what it takes devices from is no area any more.
LEMMA AreaStays ==
  ASSUME ha \in Ha, run.snap \in Locals, NEW p \in Plans, SyncArea(p), Mirrors(ha, run.snap)
  PROVE  Mirrors(ha', run.snap)
<1> DEFINE l == run.snap
<1>1. ha.areas[p] = WantedArea(l, p)
  BY DEF Mirrors
<1>2. /\ ha'.areas = [ha.areas EXCEPT ![p] = WantedArea(l, p)]
      /\ ha'.area = [d \in HaDevices |-> IF ha.area[d] = p /\ l.rooms[p] = None THEN None ELSE ha.area[d]]
      /\ ha'.floors = ha.floors /\ ha'.boards = ha.boards /\ ha'.files = ha.files /\ ha'.loaded = ha.loaded
  BY DEF SyncArea, Ha
<1>3. \A q \in Plans : ha'.areas[q] = ha.areas[q]
  BY <1>1, <1>2 DEF Ha
<1>4. l.rooms[p] = None => ha.areas[p] = None
  BY <1>1 DEF WantedArea
<1>5. ASSUME NEW d \in HaDevices PROVE AreaOf(ha', d) = AreaOf(ha, d)
  <2>1. ha'.area[d] = IF ha.area[d] = p /\ l.rooms[p] = None THEN None ELSE ha.area[d]
    BY <1>2
  <2>2. None \notin Plans
    BY HaMirrorAssumption
  <2> QED
    BY <1>3, <1>4, <2>1, <2>2 DEF AreaOf
<1>6. \A d \in HaDevices : DevicePlaced(l, ha', d)
  BY <1>5, PlacesStay DEF Mirrors
<1> QED
  BY <1>2, <1>3, <1>6, MirroredParts

\* Nor does placing a device, whatever its other entities are.
LEMMA DeviceStays ==
  ASSUME ha \in Ha, run.snap \in Locals, NEW e \in Entities, SyncDevice(e), Mirrors(ha, run.snap)
  PROVE  Mirrors(ha', run.snap)
<1> DEFINE l == run.snap
           place == IF l.at[e] = None THEN None ELSE WantedPlace(l, e)
<1>1. l \in Local /\ DeviceOf[e] \in HaDevices /\ None \notin Plans
  BY HaMirrorAssumption
<1>2. /\ ha'.area = [ha.area EXCEPT ![DeviceOf[e]] = place]
      /\ ha'.areas = ha.areas
      /\ ha'.floors = ha.floors /\ ha'.boards = ha.boards /\ ha'.files = ha.files /\ ha'.loaded = ha.loaded
  BY DEF SyncDevice, Ha
<1>3. ASSUME NEW d \in HaDevices, d # DeviceOf[e] PROVE DevicePlaced(l, ha', d)
  <2>1. ha'.area[d] = ha.area[d]
    BY <1>1, <1>2, <1>3 DEF Ha
  <2>2. AreaOf(ha', d) = AreaOf(ha, d)
    BY <1>2, <2>1 DEF AreaOf
  <2> QED
    BY <2>2, PlacesStay DEF Mirrors
<1>4. AreaOf(ha', DeviceOf[e]) = place
  <2>1. ha'.area[DeviceOf[e]] = place
    BY <1>1, <1>2 DEF Ha
  <2>2. place \in Plans => ha.areas[place] # None
    <3>1. SUFFICES ASSUME place \in Plans PROVE ha.areas[place] # None
      OBVIOUS
    <3>2. l.rooms[place] # None
      BY <1>1, <3>1 DEF WantedPlace
    <3>3. ha.areas[place] = [name |-> l.rooms[place], floor |-> TRUE]
      BY <3>1, <3>2 DEF Mirrors, WantedArea
    <3>4. [name |-> l.rooms[place], floor |-> TRUE] \in Area
      BY <1>1, <3>1, <3>2 DEF Area, Local
    <3> QED
      BY <3>3, <3>4, HaMirrorAssumption
  <2> HIDE DEF place
  <2> QED
    BY <1>2, <2>1, <2>2 DEF AreaOf
<1>5. DevicePlaced(l, ha', DeviceOf[e])
  <2>1. SUFFICES ASSUME \A f, g \in EntitiesOf(DeviceOf[e]) : l.at[f] = l.at[g],
                        NEW f \in EntitiesOf(DeviceOf[e])
                 PROVE  IF l.at[f] = None THEN AreaOf(ha', DeviceOf[e]) \in {"own", None}
                        ELSE AreaOf(ha', DeviceOf[e]) = WantedPlace(l, f)
    BY DEF DevicePlaced
  <2>2. l.at[f] = l.at[e]
    BY <2>1 DEF EntitiesOf
  <2>3. WantedPlace(l, f) = WantedPlace(l, e)
    BY <2>2 DEF WantedPlace
  <2> QED
    BY <1>4, <2>2, <2>3
<1>6. \A d \in HaDevices : DevicePlaced(l, ha', d)
  BY <1>3, <1>5
<1> QED
  BY <1>2, <1>6, MirroredParts

\* Nor does writing a file or loading it.
LEMMA FilesStay ==
  ASSUME ha \in Ha, run.snap \in Locals, NEW k \in Kinds, WriteFile(k) \/ Reload(k), Mirrors(ha, run.snap)
  PROVE  Mirrors(ha', run.snap)
<1>1. ha.files[k] = WantedFile(run.snap, k) /\ ha.loaded[k] = ha.files[k]
  BY DEF Mirrors
<1>2. /\ ha'.areas = ha.areas /\ ha'.area = ha.area /\ ha'.floors = ha.floors /\ ha'.boards = ha.boards
      /\ ha'.files \in {ha.files, [ha.files EXCEPT ![k] = ha.files[k]]}
      /\ ha'.loaded \in {ha.loaded, [ha.loaded EXCEPT ![k] = ha.loaded[k]]}
  BY <1>1 DEF WriteFile, Reload, Ha
<1>3. \A j \in Kinds : ha'.files[j] = ha.files[j] /\ ha'.loaded[j] = ha.loaded[j]
  BY <1>2 DEF Ha
<1>4. \A d \in HaDevices : DevicePlaced(run.snap, ha', d)
  BY <1>2, PlacesStay DEF Mirrors, AreaOf
<1> QED
  BY <1>2, <1>3, <1>4, MirroredParts

\* Nor does an entry or the content of a dashboard.
LEMMA BoardsStay ==
  ASSUME ha \in Ha, run.snap \in Locals, NEW p \in Plans, SyncBoard(p) \/ SaveBoard(p), Mirrors(ha, run.snap)
  PROVE  Mirrors(ha', run.snap)
<1> DEFINE l == run.snap
<1>1. ha.boards[p] = WantedBoard(l, p)
  BY DEF Mirrors
<1>2. /\ ha'.areas = ha.areas /\ ha'.area = ha.area /\ ha'.floors = ha.floors
      /\ ha'.files = ha.files /\ ha'.loaded = ha.loaded
  BY DEF SyncBoard, SaveBoard, Ha
<1>3. \A q \in Plans : ha'.boards[q] = ha.boards[q]
  <2>1. ha.boards \in [Plans -> Board \cup {None}]
    BY DEF Ha
  <2>2. l.plans[p] # None => ha.boards[p] = [title |-> l.plans[p], shows |-> Shows(l, p)] /\ ha.boards[p] # None
    <3>1. SUFFICES ASSUME l.plans[p] # None
                   PROVE  [title |-> l.plans[p], shows |-> Shows(l, p)] # None
      BY <1>1 DEF WantedBoard
    <3>2. l \in Local
      BY HaMirrorAssumption
    <3>3. [title |-> l.plans[p], shows |-> Shows(l, p)] \in Board
      BY <3>1, <3>2, WantedTypes DEF Board, Local
    <3> QED
      BY <3>3, HaMirrorAssumption
  <2>3. l.plans[p] = None => ha.boards[p] = None
    BY <1>1 DEF WantedBoard
  <2>4. CASE SyncBoard(p)
    <3>1. ha'.boards = [ha.boards EXCEPT ![p] = ha.boards[p]]
      BY <2>1, <2>2, <2>3, <2>4 DEF SyncBoard, Ha, Wanted
    <3> QED
      BY <2>1, <3>1
  <2>5. CASE SaveBoard(p)
    <3>1. ha.boards[p] = [title |-> l.plans[p], shows |-> Shows(l, p)]
      BY <2>2, <2>3, <2>5 DEF SaveBoard
    <3>2. ha'.boards = [ha.boards EXCEPT ![p] = [@ EXCEPT !.shows = Shows(l, p)]]
      BY <2>5 DEF SaveBoard, Ha
    <3>3. [ha.boards[p] EXCEPT !.shows = Shows(l, p)] = ha.boards[p]
      BY <3>1
    <3> QED
      BY <2>1, <3>2, <3>3
  <2> QED
    BY <2>4, <2>5
<1>4. \A d \in HaDevices : DevicePlaced(l, ha', d)
  BY <1>2, PlacesStay DEF Mirrors, AreaOf
<1> QED
  BY <1>2, <1>3, <1>4, MirroredParts

\* Home Assistant is what the files say, and a run under way was started by these files.
AtRest == Mirrors(ha, local) /\ (run \in Running => run.snap = local)

\* Only a change of the files or an edit by people ends that.
MirroredStays == [][AtRest /\ UNCHANGED <<local, edits>> => AtRest']_vars

\* ha-sync.js:74-236: once Home Assistant is what the files say and no run for older
\* files is under way, it stays so through all further runs, failures and restarts, until
\* the files change or people edit it: calls that are repeated change nothing.
THEOREM MirrorLasts == Spec => MirroredStays
<1>1. ASSUME MirrorInv, [Next]_vars, AtRest, UNCHANGED <<local, edits>>
      PROVE  AtRest'
  <2>1. TypeOK /\ ha \in Ha /\ local \in Locals
    BY <1>1 DEF MirrorInv, TypeOK
  <2>2. ASSUME ha' = ha, run' \in {run, Idle, Hung} \/ run'.snap = local PROVE AtRest'
    <3>1. run' \in Running => run'.snap = local
      BY <1>1, <2>2 DEF AtRest, Idle, Hung, Running, Stages
    <3> QED
      BY <1>1, <2>2, <3>1 DEF AtRest
  <2>3. ASSUME NEW n \in 1 .. 6, NEW x, Calls(n, x)
        PROVE  run.snap = local /\ (run' \in Running => run'.snap = local)
    <3>1. run \in Running /\ run.stage # "connect" /\ run.stage = Stages[n] /\ x \in run.left
      BY <2>1, <2>3, StageFacts DEF TypeOK, Calls, Idle, Hung
    <3>2. LeftIsDue(run) /\ run.snap = local
      BY <1>1, <3>1 DEF MirrorInv, Progress, Listed, AtRest
    <3>3. run' = Idle \/ run'.snap = run.snap
      BY <2>3, <3>1, <3>2, AfterTodo DEF Calls
    <3> QED
      BY <3>2, <3>3 DEF Idle, Running, Stages
  <2>4. CASE RunStep
    <3>1. CASE List
      <4>1. run \in Running /\ ha' = ha
        BY <2>1, <3>1 DEF List, TypeOK, Idle, Hung
      <4>2. run'.snap = local
        BY <1>1, <2>1, <3>1, <4>1, ListTodo DEF AtRest
      <4> QED
        BY <2>2, <4>1, <4>2
    <3>2. CASE Refused
      BY <2>2, <3>2 DEF Refused
    <3>3. ASSUME NEW p \in Plans, SyncFloor(p) PROVE AtRest'
      <4>1. Calls(1, p)
        BY <3>3 DEF SyncFloor
      <4> QED
        BY <1>1, <2>1, <2>3, <3>3, <4>1, FloorStays DEF AtRest
    <3>4. ASSUME NEW p \in Plans, SyncArea(p) PROVE AtRest'
      <4>1. Calls(2, p)
        BY <3>4 DEF SyncArea
      <4> QED
        BY <1>1, <2>1, <2>3, <3>4, <4>1, AreaStays DEF AtRest
    <3>5. ASSUME NEW p \in Plans, SyncBoard(p) \/ SaveBoard(p) PROVE AtRest'
      <4>1. \E x : Calls(5, x)
        BY <3>5 DEF SyncBoard, SaveBoard
      <4> QED
        BY <1>1, <2>1, <2>3, <3>5, <4>1, BoardsStay DEF AtRest
    <3>6. ASSUME NEW e \in Entities, SyncDevice(e) PROVE AtRest'
      <4>1. Calls(3, e)
        BY <3>6 DEF SyncDevice
      <4> QED
        BY <1>1, <2>1, <2>3, <3>6, <4>1, DeviceStays DEF AtRest
    <3>7. ASSUME NEW k \in Kinds, WriteFile(k) \/ Reload(k) PROVE AtRest'
      <4>1. \E n \in 1 .. 6 : Calls(n, k)
        BY <3>7 DEF WriteFile, Reload
      <4> QED
        BY <1>1, <2>1, <2>3, <3>7, <4>1, FilesStay DEF AtRest
    <3> QED
      BY <2>4, <3>1, <3>2, <3>3, <3>4, <3>5, <3>6, <3>7 DEF RunStep
  <2>5. CASE ~RunStep
    <3>1. ~Edit /\ ~\E l \in Locals : Change(l)
      <4>1. edits' = edits /\ edits \in Int /\ local' = local
        BY <1>1, <2>1, HaMirrorAssumption DEF TypeOK
      <4>2. ~Edit
        <5>1. Edit => edits' = edits + 1
          BY DEF Edit
        <5> QED
          BY <4>1, <5>1
      <4> QED
        BY <4>1, <4>2 DEF Change
    <3>2. ha' = ha /\ (run' \in {run, Idle, Hung} \/ run'.snap = local)
      BY <1>1, <2>5, <3>1
         DEF Next, RunFails, HaSilent, DebounceFires, SyncNow, IntervalFires, Restart, Start, vars
    <3> QED
      BY <2>2, <3>2
  <2> QED
    BY <2>4, <2>5
<1>2. MirrorInv /\ [Next]_vars => [AtRest /\ UNCHANGED <<local, edits>> => AtRest']_vars
  BY <1>1
<1> QED
  BY <1>2, MirrorInvariant, PTL DEF Spec, MirroredStays
=============================================================================
