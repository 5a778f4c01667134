---------------------------- MODULE MCSceneStore ----------------------------
(***************************************************************************)
(* Three scenes, so that references can form a chain, a shared target and  *)
(* cycles of length one to three; two requests that overlap.               *)
(***************************************************************************)
EXTENDS SceneStore, TLC

Steps(R) == [kind |-> "steps", refs |-> R]
Goals == [kind |-> "goals", refs |-> {}]

\* Nothing stored, a chain of three, and a scene named by two others, one of
\* which could also name the other.
MCStored ==
  {NoList,
   "a" :> Steps({"b"}) @@ "b" :> Steps({"c"}) @@ "c" :> Steps({}),
   "a" :> Steps({"c"}) @@ "b" :> Steps({"c"}) @@ "c" :> Goals}

Interchangeable == Permutations(Requests)
=============================================================================
