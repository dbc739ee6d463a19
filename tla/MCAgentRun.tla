----------------------------- MODULE MCAgentRun -----------------------------
(***************************************************************************)
(* Small instances of AgentRun: teams of one to three reviewers, two files *)
(* and three answers of the orchestrator: no files, files for one of the   *)
(* reviewers, and files of which one is not in the diff.                   *)
(***************************************************************************)
EXTENDS AgentRun

CONSTANTS a1, a2, a3, f1, f2, elsewhere

SmallTeams == {<<a1>>, <<a1, a2>>, <<a1, a2, a3>>}
TwoFiles == {f1, f2}
DiffOrder == <<f1, f2>>

NoFiles == [given |-> FALSE, files |-> <<>>]
ForFirst == [given |-> TRUE, files |-> (a1 :> {f1})]
Stray == [given |-> TRUE, files |-> (a1 :> {elsewhere} @@ a2 :> {f1, f2})]
SomeAnswers == {NoFiles, ForFirst, Stray}
=============================================================================
