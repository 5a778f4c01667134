----------------------------- MODULE SceneStore -----------------------------
(***************************************************************************)
(* The scene store of the gateway (backend/services/api-gateway/src/       *)
(* scene-store.js and the /scenes routes of server.js).                    *)
(*                                                                         *)
(* A request reads scenes.json, checks the edit against the list it read,  *)
(* writes the new list to a temporary file of its own and renames it over  *)
(* scenes.json.  Each of these awaits, nothing is locked: requests overlap *)
(* and the gateway may crash between any two steps.                        *)
(***************************************************************************)
EXTENDS Integers, Sequences

CONSTANTS
  SceneIds, Torn,
  Requests,   \* calls of the routes that change scenes
  Stored      \* lists the file may hold when the gateway starts

VARIABLES
  file,       \* content of scenes.json
  versions,   \* history: the lists it has held
  req         \* the requests

storeVars == <<file, versions, req>>

Catalogue == INSTANCE SceneCatalogue WITH current <- file, held <- {versions[i] : i \in DOMAIN versions}

Scene == Catalogue!Scene
Lists == Catalogue!Lists
Valid(list) == Catalogue!Valid(list)

ASSUME SceneStoreAssumption ==
  /\ Stored \subseteq {list \in Lists : Valid(list)}
  /\ Torn \notin Lists

Ops == [kind : {"create", "update"}, id : SceneIds, scene : Scene]
         \cup [kind : {"delete"}, id : SceneIds, cascade : BOOLEAN]

\* next is the list a request is about to save; it read version base and its own
\* list became version made.
Request == [phase : {"idle", "writing", "written", "done", "refused", "lost"},
            op : Ops \cup {Torn}, next : Lists, base : Nat, made : Nat]

NoList == [s \in {} |-> Torn]
Unasked == [phase |-> "idle", op |-> Torn, next |-> NoList, base |-> 0, made |-> 0]

StoreTypeOK ==
  /\ file \in Lists \cup {Torn}
  /\ versions \in Seq(Lists \cup {Torn})
  /\ req \in [Requests -> Request]

-----------------------------------------------------------------------------
(* The edits.                                                               *)

DirectDependents(list, s) == {t \in DOMAIN list : s \in list[t].refs}

RemovedAlone(list, op) == {op.id}   \* variant: cascade leaves the dependents

Removed(list, op) == IF op.cascade THEN Catalogue!Dependents(list, op.id) ELSE {op.id}

Edited(list, op) ==
  IF op.kind = "delete" THEN Catalogue!Without(list, Removed(list, op))
  ELSE Catalogue!With(list, op.id, op.scene)

AllowedUnvalidated(list, op) ==   \* variant: the edited list is not validated
  CASE op.kind = "create" -> op.id \notin DOMAIN list
    [] op.kind = "update" -> op.id \in DOMAIN list
    [] op.kind = "delete" -> op.id \in DOMAIN list /\ (DirectDependents(list, op.id) = {} \/ op.cascade)

\* What a request demands of the list it read.  A delete does not validate what
\* it leaves behind.
Allowed(list, op) ==
  CASE op.kind = "create" -> op.id \notin DOMAIN list /\ Valid(Edited(list, op))
    [] op.kind = "update" -> op.id \in DOMAIN list /\ Valid(Edited(list, op))
    [] op.kind = "delete" -> op.id \in DOMAIN list /\ (DirectDependents(list, op.id) = {} \/ op.cascade)

\* The ways the expansion of each scene can fail; seen are the scenes being expanded.
Expansion(list) ==
  LET failures[seen \in SUBSET SceneIds] ==
        [s \in SceneIds |->
           IF s \in seen THEN {"cycle"}
           ELSE IF s \notin DOMAIN list THEN {"not_found"}
           ELSE IF list[s].kind = "goals" THEN {"not_expandable"}
           ELSE UNION {failures[seen \cup {s}][t] : t \in list[s].refs}]
  IN failures[{}]

-----------------------------------------------------------------------------
(* The steps of a request.                                                  *)

Readable == file # Torn /\ Valid(file)

ReadFirst(r, op) ==   \* variant: the list is read once and kept in memory
  /\ req[r].phase = "idle"
  /\ LET list == versions[1] IN
       req' = [req EXCEPT ![r] =
         IF Allowed(list, op)
         THEN [phase |-> "writing", op |-> op, next |-> Edited(list, op), base |-> Len(versions), made |-> 0]
         ELSE [phase |-> "refused", op |-> op, next |-> NoList, base |-> Len(versions), made |-> 0]]
  /\ UNCHANGED <<file, versions>>

\* list() has read and validated the file; the edit is checked and the writing of
\* the temporary file begins.
Read(r, op) ==
  /\ req[r].phase = "idle"
  /\ req' = [req EXCEPT ![r] =
       IF Readable /\ Allowed(file, op)
       THEN [phase |-> "writing", op |-> op, next |-> Edited(file, op), base |-> Len(versions), made |-> 0]
       ELSE [phase |-> "refused", op |-> op, next |-> NoList, base |-> Len(versions), made |-> 0]]
  /\ UNCHANGED <<file, versions>>

\* The temporary file is complete.
WriteTmp(r) ==
  /\ req[r].phase = "writing"
  /\ req' = [req EXCEPT ![r].phase = "written"]
  /\ UNCHANGED <<file, versions>>

\* mkdir, writeFile or rename failed: the request is answered with an error.
WriteFails(r) ==
  /\ req[r].phase \in {"writing", "written"}
  /\ req' = [req EXCEPT ![r].phase = "refused"]
  /\ UNCHANGED <<file, versions>>

RenameEarly(r) ==   \* variant: the writing of the temporary file is not awaited
  /\ req[r].phase \in {"writing", "written"}
  /\ file' = IF req[r].phase = "written" THEN req[r].next ELSE Torn
  /\ versions' = Append(versions, file')
  /\ req' = [req EXCEPT ![r].phase = "done", ![r].made = Len(versions) + 1]

\* The temporary file takes the place of scenes.json; the request is answered.
Rename(r) ==
  /\ req[r].phase = "written"
  /\ file' = req[r].next
  /\ versions' = Append(versions, file')
  /\ req' = [req EXCEPT ![r].phase = "done", ![r].made = Len(versions) + 1]

\* The gateway stops and starts: requests in progress are lost, their temporary
\* files stay behind under names nobody reads.
Crash ==
  /\ \E r \in Requests : req[r].phase \in {"writing", "written"}
  /\ req' = [r \in Requests |->
       IF req[r].phase \in {"writing", "written"} THEN [req[r] EXCEPT !.phase = "lost"] ELSE req[r]]
  /\ UNCHANGED <<file, versions>>

StoreInit ==
  /\ file \in Stored
  /\ versions = <<file>>
  /\ req = [r \in Requests |-> Unasked]

StoreNext ==
  \/ \E r \in Requests :
       \/ \E op \in Ops : Read(r, op)
       \/ WriteTmp(r)
       \/ WriteFails(r)
       \/ Rename(r)
  \/ Crash

StoreSpec == StoreInit /\ [][StoreNext]_storeVars

-----------------------------------------------------------------------------
(* Properties.                                                              *)

\* Whatever overlaps, fails or crashes, the file holds a whole list in which every
\* reference names a scene and no scene contains itself.
FileAlwaysValid == file # Torn /\ Valid(file)

\* Expanding a stored scene never runs into a missing scene or into itself; it can
\* only fail on a scene that states goals instead of steps.
ExpansionTerminates ==
  file # Torn => \A s \in DOMAIN file : Expansion(file)[s] \subseteq {"not_expandable"}

\* p read the file before q's list was in it and saved after it.
Overtook(p, q) == req[p].phase = "done" /\ req[p].base < req[q].made /\ req[q].made < req[p].made

Removes(p, s) ==
  /\ req[p].phase = "done" /\ req[p].op.kind = "delete"
  /\ s \notin DOMAIN req[p].next

\* A scene that was put and acknowledged is gone only because a later request
\* removed it, or because a request that overlapped with the put saved its own
\* older list over it.
LostOnlyToOverlap ==
  \A q \in Requests :
    (req[q].phase = "done" /\ req[q].op.kind # "delete" /\ req[q].op.id \notin DOMAIN file) =>
      \E p \in Requests \ {q} : Removes(p, req[q].op.id) \/ Overtook(p, q)

\* The store keeps the promise of the catalogue.
KeepsPromise == Catalogue!Spec
=============================================================================
