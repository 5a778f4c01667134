------------------------------ MODULE MCAgentTurn ------------------------------
(* Three turns; two plans with one id, of which one has a scene that opens a lock and    *)
(* the other sets a dimmer twice, once with a risk; and a plan of two binding writes.    *)
(* The standby of the agent, with two clients, shares no variable with the turns: each   *)
(* half is explored while the other has not begun.  Two turns are under way at a time.    *)
EXTENDS AgentTurn, AgentStandby, TLC

CONSTANTS lock, dim20, dim80, bindA, bindB

MCItems == {lock, dim20, dim80, bindA, bindB}
MCKeyOf == [i \in MCItems |-> IF i = dim80 THEN dim20 ELSE i]
Plan(id, kind, type, items) == [id |-> id, kind |-> kind, type |-> type, items |-> items]
MCPlans == {Plan("p1", "actions", "execute", <<lock, dim20>>), Plan("p1", "actions", "execute", <<dim20, dim80>>),
            Plan("p3", "writes", "propose", <<bindA, bindB>>)}
Symmetry == Permutations(Turns) \cup Permutations(Clients)

AtATime == 2   \* bound: turns under way

VARIABLE half

MCInit == Init /\ StandbyInit /\ half \in {"turns", "standby"}
MCNext ==
  /\ UNCHANGED half
  /\ \/ half = "turns" /\ Next /\ Cardinality({r \in Turns : Busy(r)'}) <= AtATime /\ UNCHANGED standbyVars
     \/ half = "standby" /\ StandbyNext /\ UNCHANGED vars
MCSpec == MCInit /\ [][MCNext]_<<vars, standbyVars, half>>
=============================================================================
