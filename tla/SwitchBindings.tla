---------------------------- MODULE SwitchBindings ----------------------------
(***************************************************************************)
(* automations.json as the gateway writes it                               *)
(* (backend/services/api-gateway/src/{switch-binding-store,automation-     *)
(* store}.js, the routes /switch-bindings and /automations of server.js).  *)
(*                                                                         *)
(* A switch binding is an automation of kind switch_binding.  Its routes   *)
(* check a binding against the list as they read it; the automation store  *)
(* reads the list once more, changes one element and replaces the file.    *)
(* The page of the automations opens any automation, bindings included,    *)
(* and saves its draft with the ordinary route, which knows no bindings.   *)
(* A trigger edited by hand, devices and scenes that go away and the order *)
(* of the list are left out.                                               *)
(***************************************************************************)
EXTENDS Integers, FiniteSets

CONSTANTS
  Ids,
  Channels,    \* relay channels of the wall panels
  Sources,     \* what a binding may start from: a button or a state of a channel
  Targets,     \* what an automation may act on: channels, other devices, scenes
  Wanted,      \* the automations users save from scratch
  FirstFiles,  \* what automations.json may hold at first
  Slots,       \* requests in progress at a time
  MaxRequests, \* bound: requests in a behaviour
  None

VARIABLES
  file,        \* automations.json: the automation of each id
  mtime,       \* its modification time; every write makes a new one
  req,         \* the requests in progress
  count,       \* requests so far
  raced,       \* history: a write replaced a list other than the one its request was decided on
  unchecked    \* history: a binding was written by the ordinary route

bindingVars == <<file, mtime, req, count, raced, unchecked>>

\* A source of kind None makes an ordinary automation.
Source == [type : {"button", "state"}, channel : Channels, value : {"single", "double", "on", "off"}]
Automation == [source : Sources \cup {None}, target : Targets]
File == [Ids -> Automation \cup {None}]

ASSUME SwitchBindingsAssumption ==
  /\ Sources \subseteq Source /\ Channels \subseteq Targets
  /\ Wanted \subseteq Automation /\ FirstFiles \subseteq File
  /\ MaxRequests \in Nat /\ IsFiniteSet(Channels)
  /\ "new" \notin Ids /\ None \notin Source \cup Automation \cup Nat

Routes == {"create", "update", "delete", "page", "new"}
Request == [route : Routes, phase : {"checked", "writing"}, id : Ids, to : Automation \cup {None},
            checked : 0 .. MaxRequests, list : File]
Nothing == [i \in Ids |-> None]
Idle == [phase |-> "idle"]

BindingsTypeOK ==
  /\ file \in File
  /\ mtime \in 0 .. MaxRequests /\ count \in 0 .. MaxRequests
  /\ \A r \in Slots : req[r] = Idle \/ req[r] \in Request
  /\ raced \in BOOLEAN /\ unchecked \in BOOLEAN

-----------------------------------------------------------------------------
(* What the checks of a binding look at.                                    *)

IsBinding(a) == a # None /\ a.source # None
StateOf(a, c) == IsBinding(a) /\ a.source.type = "state" /\ a.source.channel = c

\* A loop of state bindings: channels each of which acts on one of them.
Loop(list, ids) ==
  \E cs \in (SUBSET Channels) \ {{}} :
    \A c \in cs : \E i \in ids : StateOf(list[i], c) /\ list[i].target \in cs

\* What a list should be.
SourcesOnce(list) == \A i, j \in Ids :
  i # j /\ IsBinding(list[i]) /\ IsBinding(list[j]) => list[i].source # list[j].source

LoopFree(list) == ~Loop(list, Ids)

\* The bindings a new one is compared with: all but the one it replaces.
Compared(route, id) == IF route = "update" THEN Ids \ {id} ELSE Ids

AllowedSelf(route, id, a) ==   \* variant: only a binding that acts on its own channel is refused
  /\ ~StateOf(a, a.target)
  /\ \A i \in Compared(route, id) : IsBinding(file[i]) => file[i].source # a.source

Allowed(route, id, a) ==
  /\ ~StateOf(a, a.target)
  /\ \A i \in Compared(route, id) : IsBinding(file[i]) => file[i].source # a.source
  /\ LET with == [i \in Ids \cup {"new"} |-> IF i = "new" THEN a ELSE file[i]]
     IN ~Loop(with, Compared(route, id) \cup {"new"})

-----------------------------------------------------------------------------
(* Requests.                                                                *)

Begin(r, route, id, a) ==
  /\ req[r].phase = "idle" /\ count < MaxRequests
  /\ count' = count + 1
  /\ req' = [req EXCEPT ![r] =
       [route |-> route, phase |-> "checked", id |-> id, to |-> a, checked |-> mtime, list |-> Nothing]]
  /\ UNCHANGED <<file, mtime, raced, unchecked>>

CheckSelf(r, route, id, a) ==   \* variant: an updated binding is compared with the id of the request alone
  /\ route \in {"create", "update"} /\ IsBinding(a)
  /\ \A i \in {id} : IsBinding(file[i]) => file[i].source # a.source
  /\ Begin(r, route, id, a)

\* POST and PUT /switch-bindings: validateAndCompile() has read the list.
Check(r, route, id, a) ==
  /\ route \in {"create", "update"} /\ IsBinding(a)
  /\ Allowed(route, id, a)
  /\ Begin(r, route, id, a)

\* DELETE /switch-bindings/:id looks for the binding; DELETE /automations/:id does not.
CheckDelete(r, id) ==
  /\ file[id] # None
  /\ Begin(r, "delete", id, None)

\* The page loads an automation and edits it, or starts a new ordinary one.
PageOpen(r, id, target) ==
  /\ file[id] # None
  /\ Begin(r, "page", id, [file[id] EXCEPT !.target = target])

PageNew(r, id, a) ==
  /\ file[id] = None /\ ~IsBinding(a)
  /\ Begin(r, "new", id, a)

\* create, update and delete of the automation store read the list: the id must be
\* new, or there.
ReadList(r) ==
  LET q == req[r]
      new == q.route \in {"create", "new"}
  IN /\ q.phase = "checked"
     /\ new <=> file[q.id] = None
     /\ req' = [req EXCEPT ![r].phase = "writing", ![r].list = [file EXCEPT ![q.id] = q.to]]
     /\ UNCHANGED <<file, mtime, count, raced, unchecked>>

\* save(): the temporary file takes the place of the list.
Write(r) ==
  LET q == req[r] IN
  /\ q.phase = "writing"
  /\ file' = q.list
  /\ mtime' = mtime + 1
  /\ req' = [req EXCEPT ![r] = Idle]
  /\ raced' = (raced \/ q.checked # mtime)
  /\ unchecked' = (unchecked \/ (q.route = "page" /\ IsBinding(q.to)))
  /\ UNCHANGED count

\* The id is taken or gone, a read or write fails, the gateway stops, or the draft
\* of the page is given up.
Fails(r) ==
  /\ req[r].phase # "idle"
  /\ req' = [req EXCEPT ![r] = Idle]
  /\ UNCHANGED <<file, mtime, count, raced, unchecked>>

\* The file holds at first what the routes would have allowed.
ASSUME FirstFilesAssumption == \A f \in FirstFiles : SourcesOnce(f) /\ LoopFree(f)

BindingsInit ==
  /\ file \in FirstFiles /\ mtime = 0
  /\ req = [r \in Slots |-> Idle]
  /\ count = 0 /\ raced = FALSE /\ unchecked = FALSE

BindingsNext == \E r \in Slots :
  \/ \E id \in Ids :
       \/ \E a \in Wanted :
            \/ Check(r, "create", id, a) \/ Check(r, "update", id, a)
            \/ PageNew(r, id, a)
       \/ CheckDelete(r, id)
       \/ \E t \in Targets : PageOpen(r, id, t)
  \/ ReadList(r) \/ Write(r) \/ Fails(r)
=============================================================================
