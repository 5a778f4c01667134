---------------------------- MODULE MCRulesProcess ----------------------------
(***************************************************************************)
(* Two channels of a panel, two ids, two requests and two refreshes at a   *)
(* time.                                                                   *)
(***************************************************************************)
EXTENDS RulesProcess

When(type, channel, value) == [type |-> type, channel |-> channel, value |-> value]
MCSources == {When("state", "left", "on"), When("state", "right", "on"), When("button", "left", "single")}

MCWanted == {[source |-> When("state", "left", "on"), target |-> "right"],
             [source |-> When("state", "right", "on"), target |-> "left"],
             [source |-> None, target |-> "left"]}

MCFirstFiles == {Nothing, [Nothing EXCEPT !["b1"] = [source |-> When("state", "left", "on"), target |-> "right"]]}
=============================================================================
