---------------------------- MODULE PriorFinding ----------------------------
(***************************************************************************)
(* What Revue promises about a finding it has already commented on, seen   *)
(* from outside: for every hunk fingerprint, the latest answer that is     *)
(* readable on the pull request.                                           *)
(*                                                                         *)
(*    unposted  no live comment carries the fingerprint                    *)
(*    open      one does, and Revue has not answered it                    *)
(*    follow_up Revue's latest answer is "not yet fully resolved"          *)
(*    auto      Revue's latest answer is "resolved"                        *)
(*                                                                         *)
(* While nothing is deleted an answer only moves forward and "auto" is     *)
(* final; deleting comments never invents an answer.                       *)
(***************************************************************************)
EXTENDS Integers

CONSTANTS Fps,         \* the hunk fingerprints
          Comments     \* the identities of comments and of replies

VARIABLES answer,      \* answer[k]: the latest answer readable for k
          comments     \* the comments and the answers now on the pull request

Answers == {"unposted", "open", "follow_up", "auto"}

Rank == [a \in Answers |-> CASE a = "unposted"  -> 0
                             [] a = "open"      -> 1
                             [] a = "follow_up" -> 2
                             [] a = "auto"      -> 3]

Init ==
  /\ answer = [k \in Fps |-> "unposted"]
  /\ comments = {}

\* A comment is posted; a second one with the same fingerprint changes nothing.
Post(k) ==
  /\ \E c \in Comments \ comments : comments' = comments \cup {c}
  /\ answer' = [answer EXCEPT ![k] = IF @ = "unposted" THEN "open" ELSE @]

FollowUp(k) ==
  /\ answer[k] \in {"open", "follow_up"}
  /\ comments \subseteq comments'
  /\ answer' = [answer EXCEPT ![k] = "follow_up"]

Resolve(k) ==
  /\ answer[k] \in {"open", "follow_up"}
  /\ comments \subseteq comments'
  /\ answer' = [answer EXCEPT ![k] = "auto"]

Evict ==
  /\ comments' \subseteq comments
  /\ comments' # comments
  /\ answer' \in [Fps -> Answers]
  /\ \A k \in Fps : Rank[answer'[k]] <= Rank[answer[k]]

Next ==
  \/ \E k \in Fps : Post(k) \/ FollowUp(k) \/ Resolve(k)
  \/ Evict

vars == <<answer, comments>>

Spec == Init /\ [][Next]_vars
=============================================================================
