----------------------------- MODULE FloorplanPage -----------------------------
(***************************************************************************)
(* The floorplan editor of the frontend (frontend/web/pages/floorplan.tsx) *)
(* and floorplans.json as it sees it through the routes of floorplan-store *)
(* .js: a plan is opened into a draft, edited there and saved as a whole.  *)
(*                                                                         *)
(* The page waits for no answer: while a call is under way the user edits, *)
(* goes back to the list or opens another plan, and the answer is applied  *)
(* to whatever the page shows when it arrives.                             *)
(*                                                                         *)
(* Of a plan there are its rooms, its placed devices with the room each    *)
(* fell into, whether it has a scale, and one value for the rest of its    *)
(* looks (names, outlines, heights).  Where a point falls is any room of   *)
(* the plan or none.  Plans, Devices, Rooms and None are DeviceConfig's.   *)
(***************************************************************************)
EXTENDS DeviceConfig

CONSTANTS
  Simulated,   \* the virtual devices, which are saved from this page
  Looks,
  Calls,       \* calls under way at a time
  PlanFiles,   \* what floorplans.json may hold at first
  Foreign,     \* what another client may make of a plan
  MaxCalls,    \* bound: calls of the page and changes of other clients in a behaviour
  MaxEdits     \* bound: edits in a behaviour

VARIABLES
  stored,      \* floorplans.json
  page,        \* what the page holds; id is the plan of the draft, None when there is none
  calls,       \* the calls under way and their answers
  edits, sent, \* edits and calls so far
  doubt,       \* history: since a plan was opened undisturbed, calls overlapped, one
               \* failed halfway or got lost, or another client changed the plans
  hasty        \* history: since then, the draft was edited while a call was under way

pageVars == <<stored, page, calls, edits, sent, doubt, hasty>>

\* The rooms are counted by id, which is made of the name; nth tells apart the
\* entries for one device, as the number of the edit that made it.
Placement == [dev : Devices, room : Named, nth : Nat]
Plan == [rooms : [Rooms -> Nat], devices : SUBSET Placement, scaled : BOOLEAN, look : Looks]

Bare(look) == [rooms |-> [r \in Rooms |-> 0], devices |-> {}, scaled |-> FALSE, look |-> look]
AnyLook == CHOOSE look \in Looks : TRUE

RoomsOf(plan) == {r \in Rooms : plan.rooms[r] > 0}
RoomsAt(plan) == RoomsOf(plan) \cup {""}   \* where a point may fall
Placed(plan) == {x.dev : x \in plan.devices}
RoomsExist(plan) == \A x \in plan.devices : x.room \in RoomsAt(plan)
EachOnce(plan) == \A x, y \in plan.devices : x.dev = y.dev => x = y

\* The plan itself can be in the file; a plan of old may lack the scale.
Sound(plan) == EachOnce(plan) /\ RoomsExist(plan) /\ \A r \in Rooms : plan.rooms[r] <= 1
SoundFile(file) ==
  /\ \A p \in Plans : file[p] # None => Sound(file[p])
  /\ \A p, q \in Plans : p # q /\ file[p] # None /\ file[q] # None => Placed(file[p]) \cap Placed(file[q]) = {}

ASSUME FloorplanAssumption ==
  /\ Simulated \subseteq Devices /\ Looks # {} /\ None \notin Plan \cup Devices
  /\ PlanFiles \subseteq [Plans -> Plan \cup {None}] /\ \A file \in PlanFiles : SoundFile(file)
  /\ Foreign \subseteq Plan
  /\ MaxCalls \in Nat /\ MaxEdits \in Nat

CallKinds == {"none", "load", "save", "create", "delete", "virtual", "image"}
Call == [kind : CallKinds, at : {"sent", "ok", "refused"}, id : Plans \cup {None}, body : Plan,
         dev : Devices \cup {None}, placed : BOOLEAN]
Page == [stage : {"browse", "editor"}, active : Plans \cup {None}, mode : {"view", "rooms", "devices"},
         id : Plans \cup {None}, draft : Plan, saved : Plan, placing : Devices \cup {None}]

PageTypeOK ==
  /\ stored \in [Plans -> Plan \cup {None}] /\ page \in Page /\ calls \in [Calls -> Call]
  /\ edits \in 0 .. MaxEdits /\ sent \in 0 .. MaxCalls /\ doubt \in BOOLEAN /\ hasty \in BOOLEAN

-----------------------------------------------------------------------------
(* Calls.                                                                   *)

NoCall == [kind |-> "none", at |-> "sent", id |-> None, body |-> Bare(AnyLook), dev |-> None, placed |-> FALSE]
NewCall(kind, id) == [NoCall EXCEPT !.kind = kind, !.id = id]

Busy(c) == calls[c].kind # "none"
Alone(c) == \A k \in Calls \ {c} : ~Busy(k)

Send(c, q) ==
  /\ ~Busy(c) /\ sent < MaxCalls /\ sent' = sent + 1
  /\ calls' = [calls EXCEPT ![c] = q]
  /\ doubt' = (doubt \/ ~Alone(c))
  /\ UNCHANGED <<stored, edits, hasty>>

\* isDirty: the draft is not what was last read from or written to the server.
Dirty == page.id # None /\ page.draft # page.saved

-----------------------------------------------------------------------------
(* The list of plans and the editor.                                        *)

\* A plan of the list is opened; until it is loaded the previous draft is shown, if any.
EnterEditor(c, p) ==
  /\ page.stage = "browse"
  /\ page' = [page EXCEPT !.stage = "editor", !.active = p, !.mode = "view", !.placing = None]
  /\ Send(c, NewCall("load", p))

Cleared == [page EXCEPT !.stage = "browse", !.active = None, !.mode = "view", !.id = None,
                        !.draft = Bare(AnyLook), !.saved = Bare(AnyLook), !.placing = None]

\* Unsaved edits are given up, with a confirmation.
ReturnToBrowse ==
  /\ page.stage = "editor"
  /\ page' = Cleared
  /\ UNCHANGED <<stored, calls, edits, sent, doubt, hasty>>

SetMode(m) ==
  /\ page.stage = "editor" /\ page.mode # m
  /\ page' = [page EXCEPT !.mode = m, !.placing = IF m = "devices" THEN @ ELSE None]
  /\ UNCHANGED <<stored, calls, edits, sent, doubt, hasty>>

-----------------------------------------------------------------------------
(* Edits of the draft.                                                      *)

Edit(plan, placing) ==
  /\ page.stage = "editor" /\ page.id # None
  /\ edits < MaxEdits /\ edits' = edits + 1
  /\ page' = [page EXCEPT !.draft = plan, !.placing = placing]
  /\ hasty' = (hasty \/ \E c \in Calls : Busy(c))
  /\ UNCHANGED <<stored, calls, sent, doubt>>

\* A room is renamed or its outline changed, a device moved within a room or its height set.
EditLook(look) ==
  /\ page.mode # "view"
  /\ Edit([page.draft EXCEPT !.look = look], page.placing)

\* A room is drawn; two of one name get one id.
FinishRoom(r) ==
  /\ page.mode = "rooms"
  /\ Edit([page.draft EXCEPT !.rooms[r] = @ + 1], page.placing)

RemoveRoomAlone(r) ==   \* variant: its devices stay in it
  /\ page.mode = "rooms" /\ r \in RoomsOf(page.draft)
  /\ Edit([page.draft EXCEPT !.rooms[r] = 0], page.placing)

\* Devices of the room are left in none.
Emptied(x, r) == IF x.room = r THEN [x EXCEPT !.room = ""] ELSE x
WithoutRoom(plan, r) ==
  [plan EXCEPT !.rooms = [plan.rooms EXCEPT ![r] = 0], !.devices = {Emptied(x, r) : x \in plan.devices}]
RemoveRoom(r) ==
  /\ page.mode = "rooms" /\ r \in RoomsOf(page.draft)
  /\ Edit(WithoutRoom(page.draft, r), page.placing)

\* Only a plan with a scale takes devices, each once.
StartPlacing(d) ==
  /\ page.stage = "editor" /\ page.mode = "devices"
  /\ page' = [page EXCEPT !.placing = IF page.draft.scaled /\ d \notin Placed(page.draft) THEN d ELSE None]
  /\ UNCHANGED <<stored, calls, edits, sent, doubt, hasty>>

CancelPlacing ==
  /\ page.stage = "editor" /\ page.mode = "devices" /\ page.placing # None
  /\ page' = [page EXCEPT !.placing = None]
  /\ UNCHANGED <<stored, calls, edits, sent, doubt, hasty>>

\* The click that places it looks at neither again.
Added(plan, x) == [plan EXCEPT !.devices = @ \cup {x}]
PlaceDevice(room) ==
  /\ page.mode = "devices" /\ page.placing # None
  /\ Edit(Added(page.draft, [dev |-> page.placing, room |-> room, nth |-> edits + 1]), None)

\* Every entry of a dragged device moves along.
Moved(x, d, room) == IF x.dev = d THEN [x EXCEPT !.room = room] ELSE x
Rearranged(plan, d, room) == [plan EXCEPT !.devices = {Moved(x, d, room) : x \in plan.devices}]
MoveDevice(d, room) ==
  /\ page.mode = "devices" /\ d \in Placed(page.draft)
  /\ Edit(Rearranged(page.draft, d, room), page.placing)

RemoveDevice(d) ==
  /\ page.mode = "devices" /\ d \in Placed(page.draft)
  /\ Edit([page.draft EXCEPT !.devices = {x \in @ : x.dev # d}], page.placing)

SaveImageScale ==
  /\ page.mode = "view"
  /\ Edit([page.draft EXCEPT !.scaled = TRUE], page.placing)

ClearImageScale ==
  /\ page.mode = "view" /\ page.draft.devices = {}
  /\ Edit([page.draft EXCEPT !.scaled = FALSE], page.placing)

-----------------------------------------------------------------------------
(* Calls of the page.                                                       *)

SaveFloorplan(c) ==
  /\ page.stage = "editor" /\ Dirty
  /\ page.draft.devices = {} \/ page.draft.scaled
  /\ Send(c, [NewCall("save", page.id) EXCEPT !.body = page.draft])
  /\ UNCHANGED page

CreateFloorplan(c, p, look) ==
  /\ page.stage = "browse"
  /\ Send(c, [NewCall("create", p) EXCEPT !.body = Bare(look)])
  /\ UNCHANGED page

DeleteFloorplan(c) ==
  /\ page.stage = "editor" /\ page.id # None
  /\ Send(c, NewCall("delete", page.id))
  /\ UNCHANGED page

\* Save a virtual device and place it; whether it is placed is looked up before.
SaveVirtualDevice(c, d) ==
  /\ page.stage = "editor" /\ page.mode = "devices" /\ page.id # None
  /\ \A k \in Calls : calls[k].kind # "virtual"
  /\ Send(c, [NewCall("virtual", None) EXCEPT !.dev = d, !.placed = d \in Placed(page.draft)])
  /\ UNCHANGED page

ReplaceImage(c, look) ==
  /\ page.stage = "editor" /\ page.id # None
  /\ Send(c, [NewCall("image", None) EXCEPT !.body = Bare(look)])
  /\ UNCHANGED page

-----------------------------------------------------------------------------
(* The server.  The gap between its read and its write is DeviceConfig's.   *)

Changes == {"save", "create", "delete"}

Storable(q) ==
  /\ Sound(q.body) /\ (q.body.devices = {} \/ q.body.scaled)
  /\ \A p \in Plans \ {q.id} : stored[p] # None => Placed(stored[p]) \cap Placed(q.body) = {}

Accepts(q) ==
  /\ q.kind \in {"load", "save", "delete"} => stored[q.id] # None
  /\ q.kind = "create" => stored[q.id] = None
  /\ q.kind \in {"save", "create"} => Storable(q)

After(q) == IF q.kind \notin Changes THEN stored
            ELSE [stored EXCEPT ![q.id] = IF q.kind = "delete" THEN None ELSE q.body]

Serve(c) ==
  LET q == calls[c] IN
  /\ Busy(c) /\ q.at = "sent" /\ Accepts(q)
  /\ stored' = After(q)
  /\ calls' = [calls EXCEPT ![c].at = "ok", ![c].body = IF q.kind = "load" THEN stored[q.id] ELSE @]
  /\ UNCHANGED <<page, edits, sent, doubt, hasty>>

\* Not accepted, or the file cannot be read or written.
Refuse(c) ==
  /\ Busy(c) /\ calls[c].at = "sent"
  /\ calls' = [calls EXCEPT ![c].at = "refused"]
  /\ UNCHANGED <<stored, page, edits, sent, doubt, hasty>>

\* The plan is stored, but reconciling the placements fails: the answer is an error.
StoreAndRefuse(c) ==
  LET q == calls[c] IN
  /\ q.kind \in Changes /\ q.at = "sent" /\ Accepts(q)
  /\ stored' = After(q)
  /\ calls' = [calls EXCEPT ![c].at = "refused"]
  /\ doubt' = TRUE
  /\ UNCHANGED <<page, edits, sent, hasty>>

\* Another client saves or deletes a plan.
Elsewhere(p, plan) ==
  /\ sent < MaxCalls /\ sent' = sent + 1
  /\ stored' = [stored EXCEPT ![p] = plan] /\ SoundFile(stored')
  /\ doubt' = TRUE
  /\ UNCHANGED <<page, calls, edits, hasty>>

-----------------------------------------------------------------------------
(* Answers, applied to whatever the page shows by now.                      *)

Answers(c, kind) == calls[c].kind = kind /\ calls[c].at = "ok"
Finished(c) == calls' = [calls EXCEPT ![c] = NoCall] /\ UNCHANGED <<stored, edits, sent>>

Shows(id, plan) == [page EXCEPT !.id = id, !.draft = plan, !.saved = plan]

\* The plan becomes the draft, whichever plan has been opened since.
Loaded(c) ==
  LET q == calls[c]
      undisturbed == Alone(c) /\ stored[q.id] = q.body /\ page.stage = "editor" /\ page.active = q.id
  IN /\ Answers(c, "load")
     /\ page' = [Shows(q.id, q.body) EXCEPT !.placing = None]
     /\ doubt' = (doubt /\ ~undisturbed) /\ hasty' = (hasty /\ ~undisturbed)
     /\ Finished(c)

SavedAsShown(c) ==   \* variant: the draft of now is taken for what was saved
  /\ Answers(c, "save")
  /\ page' = [page EXCEPT !.saved = page.draft]
  /\ Finished(c) /\ UNCHANGED <<doubt, hasty>>

\* What was saved becomes the draft, in place of what was edited meanwhile.
Saved(c) ==
  /\ Answers(c, "save")
  /\ page' = Shows(calls[c].id, calls[c].body)
  /\ Finished(c) /\ UNCHANGED <<doubt, hasty>>

\* The new plan is opened, which loads it unless it is open already.
Created(c) ==
  LET p == calls[c].id IN
  /\ Answers(c, "create")
  /\ page' = [page EXCEPT !.stage = "editor", !.active = p, !.mode = "view", !.placing = None]
  /\ calls' = [calls EXCEPT ![c] = IF page.stage = "editor" /\ page.active = p THEN NoCall ELSE NewCall("load", p)]
  /\ UNCHANGED <<stored, edits, sent, doubt, hasty>>

\* Back to the list, whatever is being edited.
Deleted(c) ==
  /\ Answers(c, "delete")
  /\ page' = Cleared
  /\ Finished(c) /\ UNCHANGED <<doubt, hasty>>

\* The saved device is to be placed, with or without a scale.
VirtualSaved(c) ==
  /\ Answers(c, "virtual")
  /\ page' = [page EXCEPT !.placing = IF calls[c].placed THEN None ELSE calls[c].dev]
  /\ Finished(c) /\ UNCHANGED <<doubt, hasty>>

\* The scale goes with the image.
ImageReplaced(c) ==
  /\ Answers(c, "image")
  /\ page' = IF page.id = None THEN page ELSE [page EXCEPT !.draft.look = calls[c].body.look, !.draft.scaled = FALSE]
  /\ Finished(c) /\ UNCHANGED <<doubt, hasty>>

RefusalShown(c) ==
  /\ Busy(c) /\ calls[c].at = "refused"
  /\ doubt' = (doubt \/ calls[c].kind = "load")
  /\ Finished(c) /\ UNCHANGED <<page, hasty>>

\* The connection fails, before or after the call was served.
Lost(c) ==
  /\ Busy(c)
  /\ doubt' = TRUE
  /\ Finished(c) /\ UNCHANGED <<page, hasty>>

-----------------------------------------------------------------------------

PageInit ==
  /\ stored \in PlanFiles
  /\ page = [stage |-> "browse", active |-> None, mode |-> "view", id |-> None,
             draft |-> Bare(AnyLook), saved |-> Bare(AnyLook), placing |-> None]
  /\ calls = [c \in Calls |-> NoCall]
  /\ edits = 0 /\ sent = 0 /\ doubt = FALSE /\ hasty = FALSE

Editing ==
  \/ \E look \in Looks : EditLook(look)
  \/ \E r \in Rooms : FinishRoom(r) \/ RemoveRoom(r)
  \/ \E d \in Devices : StartPlacing(d) \/ RemoveDevice(d)
  \/ \E room \in RoomsAt(page.draft) :
       \/ PlaceDevice(room)
       \/ \E d \in Devices : MoveDevice(d, room)
  \/ CancelPlacing \/ SaveImageScale \/ ClearImageScale

PageNext ==
  \/ ReturnToBrowse
  \/ \E m \in {"view", "rooms", "devices"} : SetMode(m)
  \/ Editing
  \/ \E p \in Plans, plan \in Foreign \cup {None} : Elsewhere(p, plan)
  \/ \E c \in Calls :
       \/ \E p \in Plans : EnterEditor(c, p) \/ \E look \in Looks : CreateFloorplan(c, p, look)
       \/ SaveFloorplan(c) \/ DeleteFloorplan(c)
       \/ \E d \in Simulated : SaveVirtualDevice(c, d)
       \/ \E look \in Looks : ReplaceImage(c, look)
       \/ Serve(c) \/ Refuse(c) \/ StoreAndRefuse(c)
       \/ Loaded(c) \/ Saved(c) \/ Created(c) \/ Deleted(c) \/ VirtualSaved(c) \/ ImageReplaced(c)
       \/ RefusalShown(c) \/ Lost(c)

PageSpec == PageInit /\ [][PageNext]_pageVars

-----------------------------------------------------------------------------
(* Properties.                                                              *)

\* The draft never has a device in a room that the plan does not have: neither after
\* rooms were removed nor with the room a device had in the plan that was saved before.
\* And as long as it is left alone while calls are under way, and calls do not overlap,
\* no device gets into it twice: what is about to be placed is still not on it when the
\* click comes.
DraftInOrder == RoomsExist(page.draft) /\ (~doubt /\ ~hasty => EachOnce(page.draft))

\* When nothing is under way, no calls overlapped or were lost and no other client
\* wrote: the editor shows the plan that was opened, and a draft without unsaved
\* changes is what the file holds, also when it was edited while it was being saved.
ShowsWhatIsStored ==
  ~doubt /\ (\A c \in Calls : ~Busy(c)) /\ page.id # None =>
    /\ page.stage = "editor" => page.active = page.id
    /\ ~Dirty => stored[page.id] = page.draft
=============================================================================
