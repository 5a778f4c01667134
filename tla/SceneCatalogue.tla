--------------------------- MODULE SceneCatalogue ---------------------------
(***************************************************************************)
(* What the scene store of the gateway promises (docs/feature/             *)
(* scene_integration): the file always holds a complete, valid list of     *)
(* scenes, and every new list is one legal edit of a list the file once    *)
(* held.  The store takes no lock, so that list need not be the last one.  *)
(***************************************************************************)
CONSTANT SceneIds   \* ids of scenes

\* A scene lists steps or states goals; refs are the scenes its steps name.
Scene == [kind : {"steps"}, refs : SUBSET SceneIds] \cup [kind : {"goals"}, refs : {{}}]

\* The lists of scenes by id, valid or not.
Lists == UNION {[D -> Scene] : D \in SUBSET SceneIds}

NoMissing(list) == \A s \in DOMAIN list : list[s].refs \subseteq DOMAIN list

\* A cycle is a set of scenes each of which names one of the set.
NoCycle(list) ==
  \A C \in (SUBSET DOMAIN list) \ {{}} : \E s \in C : list[s].refs \cap C = {}

ValidNoCycleOnly(list) == NoCycle(list)   \* variant: missing references pass

Valid(list) == NoMissing(list) /\ NoCycle(list)

\* The dependents of s, with s: the least set closed under "is named by".
Closed(list, C) == \A t \in DOMAIN list : list[t].refs \cap C # {} => t \in C
Dependents(list, s) ==
  {t \in DOMAIN list : \A C \in SUBSET DOMAIN list : s \in C /\ Closed(list, C) => t \in C}

With(list, s, scene) == [t \in DOMAIN list \cup {s} |-> IF t = s THEN scene ELSE list[t]]
Without(list, R) == [t \in DOMAIN list \ R |-> list[t]]

\* One edit: a scene is put, or it is removed with everything that names it.
Edits(list) ==
  {With(list, s, scene) : s \in SceneIds, scene \in Scene}
    \cup {Without(list, Dependents(list, s)) : s \in DOMAIN list}

VARIABLES
  current,    \* the list in force
  held        \* all lists that were

Init ==
  /\ current \in {list \in Lists : Valid(list)}
  /\ held = {current}

Next == \E old \in held : \E list \in Edits(old) :
  /\ Valid(list)
  /\ current' = list
  /\ held' = held \cup {list}

Spec == Init /\ [][Next]_<<current, held>>
=============================================================================
