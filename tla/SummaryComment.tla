--------------------------- MODULE SummaryComment ---------------------------
(***************************************************************************)
(* The summary comment of a pull request: every review updates the one it  *)
(* knows of, from the summary store or from a scan of the pull request,    *)
(* and posts a new one if there is none or the update fails                *)
(* (comments/poster.py, comments/file_store.py and the adapters).          *)
(*                                                                         *)
(* On GitHub a review writes its summary twice, before and after its       *)
(* inline comments; those are the subject of PrReview.  Of a summary's     *)
(* text only the review it tells of, its revision and whether it is the    *)
(* final one are kept.                                                     *)
(***************************************************************************)
EXTENDS Integers, SequencesExt

CONSTANTS
  Jobs,        \* CI jobs that can be active at the same time
  Platforms,   \* "github", "gitlab", "bitbucket"
  Styles,      \* comment_style: "per-issue", "summary"
  Env,         \* what the environment may do, a subset of EnvEvents
  Page,        \* comments an unpaginated listing returns (GitHub, GitLab)
  MaxRuns,     \* bound: jobs started
  MaxRemarks,  \* bound: comments of people
  MaxFlaws     \* bound: calls that fail and jobs that die

EnvEvents ==
  {"scan", "update", "post", "lost", "crash", "delete", "cache", "overlap", "remark"}

ASSUME JobsAssumption == Jobs # {}
ASSUME PlatformsAssumption ==
  Platforms \subseteq {"github", "gitlab", "bitbucket"} /\ Styles \subseteq {"per-issue", "summary"}
ASSUME EnvAssumption == Env \subseteq EnvEvents
ASSUME BoundsAssumption ==
  Page \in Nat /\ MaxRuns \in Nat /\ MaxFlaws \in Nat /\ MaxRemarks \in Nat

VARIABLES
  platform, style,
  board,      \* the summary comments, in the order in which they are listed
  remarks,    \* other comments: for each, how many summaries were posted before it
  cache,      \* what the CI keeps of the summary store from job to job
  run,        \* run[j]: the Poster of job j
  runs,       \* the number of jobs started
  flaws,      \* how many calls failed or lost their response
  deaths,     \* how many jobs died
  overlaps,   \* how many jobs started while another was at work
  missed      \* how many scans did not reach the summaries that there are

setting == <<platform, style>>
vars == <<setting, remarks, missed, board, cache, run, runs, flaws, deaths, overlaps>>

(* A summary comment; "of" is the number of the review it tells of.         *)
Summaries == [live : BOOLEAN, of : Nat, rev : Nat, final : BOOLEAN]

(* What the store or a scan knows of it; id 0 is None.                      *)
Known == [id : Nat, rev : Nat]
None == [id |-> 0, rev |-> 0]

(* Existing is existing_summary; warned, that the run gave up or died.      *)
Runs ==
  [pc : {"idle", "update", "post", "end"}, phase : {"preliminary", "final"}, n : Nat,
   store : Known, existing : Known, scanned : Known, rev : Nat, warned : BOOLEAN]

Idle(n, warned) ==
  [pc |-> "idle", phase |-> "final", n |-> n, store |-> None, existing |-> None,
   scanned |-> None, rev |-> 0, warned |-> warned]

TypeOK ==
  /\ platform \in Platforms /\ style \in Styles
  /\ board \in Seq(Summaries)
  /\ remarks \in Seq(Nat) /\ Len(remarks) <= MaxRemarks
  /\ cache \in Known /\ cache.id \in 0..Len(board)
  /\ run \in [Jobs -> Runs]
  /\ \A j \in Jobs : \A known \in {run[j].store, run[j].existing, run[j].scanned} :
       known.id \in 0..Len(board)
  /\ runs \in 0..MaxRuns
  /\ flaws \in Nat /\ deaths \in Nat /\ flaws + deaths <= MaxFlaws
  /\ overlaps \in 0..runs /\ missed \in 0..runs

Init ==
  /\ platform \in Platforms /\ style \in Styles
  /\ board = << >> /\ remarks = << >> /\ cache = None
  /\ run = [j \in Jobs |-> Idle(0, FALSE)]
  /\ runs = 0 /\ flaws = 0 /\ deaths = 0 /\ overlaps = 0 /\ missed = 0

May(event) == event \in Env /\ flaws + deaths < MaxFlaws

----------------------------------------------------------------------------
(* A job starts: what it knows of the summary                               *)

Live == {c \in DOMAIN board : board[c].live}

(* get_issue_comments of GitHub and get_existing_comments of GitLab return  *)
(* the first page, oldest first; Bitbucket's listing is read to its end.    *)
Ahead(c) ==
  Cardinality({d \in Live : d < c}) + Cardinality({m \in DOMAIN remarks : remarks[m] < c})

Listed == {c \in Live : platform = "bitbucket" \/ Ahead(c) < Page}

(* _scan_for_existing_summary: the first comment listed with the marker.    *)
Scan ==
  IF Listed = {} THEN {None}
  ELSE {[id |-> c, rev |-> board[c].rev] : c \in {d \in Listed : \A e \in Listed : d <= e}}

\* Fault: the revision of a scanned summary is not taken up.
RevisionOfStore(existing, scanned) == IF existing.id # 0 THEN existing.rev + 1 ELSE 1

Revision(existing, scanned) ==
  IF existing.id # 0 THEN existing.rev + 1
  ELSE IF scanned.id # 0 THEN scanned.rev + 1 ELSE 1

Begin(j, existing, scanned) ==
  /\ run' = [run EXCEPT ![j] =
       [pc |-> "update",
        phase |-> IF platform = "github" /\ style = "per-issue" THEN "preliminary" ELSE "final",
        n |-> runs + 1, store |-> existing, existing |-> existing, scanned |-> scanned,
        rev |-> Revision(existing, scanned), warned |-> FALSE]]
  /\ runs' = runs + 1
  /\ overlaps' = IF \E i \in Jobs : run[i].pc # "idle" THEN overlaps + 1 ELSE overlaps
  /\ UNCHANGED <<setting, remarks, board, cache, deaths>>

Ready(j) ==
  /\ run[j].pc = "idle" /\ runs < MaxRuns
  /\ "overlap" \in Env \/ \A i \in Jobs : run[i].pc = "idle"

StartFromStore(j) ==
  /\ Ready(j) /\ "cache" \in Env /\ cache.id # 0
  /\ Begin(j, cache, None)
  /\ UNCHANGED <<flaws, missed>>

StartFromScan(j) ==
  /\ Ready(j)
  /\ \E scanned \in Scan : Begin(j, None, scanned)
  /\ missed' = IF Listed = {} /\ Live # {} THEN missed + 1 ELSE missed
  /\ UNCHANGED flaws

(* The adapter returns no comments when its call fails.                     *)
StartBlind(j) ==
  /\ Ready(j) /\ May("scan")
  /\ Begin(j, None, None)
  /\ flaws' = flaws + 1
  /\ UNCHANGED missed

----------------------------------------------------------------------------
(* _post_or_update_summary                                                  *)

Target(r) == IF r.existing.id # 0 THEN r.existing.id ELSE r.scanned.id

Content(r) == [live |-> TRUE, of |-> r.n, rev |-> r.rev, final |-> r.phase = "final"]

\* Fault: existing_summary is not fetched again after the preliminary summary.
DoneUnfetched(j, store, warned) ==
  run' = [run EXCEPT ![j] =
    IF run[j].phase = "preliminary"
    THEN [@ EXCEPT !.pc = "update", !.phase = "final", !.store = store]
    ELSE [@ EXCEPT !.pc = "end", !.store = store, !.warned = warned]]

(* The summary is written, or not; after a preliminary one the store is     *)
(* read again.                                                              *)
Done(j, store, warned) ==
  run' = [run EXCEPT ![j] =
    IF run[j].phase = "preliminary"
    THEN [@ EXCEPT !.pc = "update", !.phase = "final", !.store = store, !.existing = store]
    ELSE [@ EXCEPT !.pc = "end", !.store = store, !.warned = warned]]

Updating(j) == run[j].pc = "update" /\ Target(run[j]) # 0

Update(j) ==
  LET t == Target(run[j]) IN
  /\ Updating(j) /\ board[t].live
  /\ board' = [board EXCEPT ![t] = Content(run[j])]
  /\ Done(j, [id |-> t, rev |-> run[j].rev], FALSE)
  /\ UNCHANGED <<setting, remarks, missed, cache, runs, flaws, deaths, overlaps>>

\* Fault: an update that finds no comment is taken for done.
UpdateDeletedEnds(j) ==
  /\ Updating(j) /\ ~ board[Target(run[j])].live
  /\ Done(j, run[j].store, FALSE)
  /\ UNCHANGED <<setting, remarks, missed, board, cache, runs, flaws, deaths, overlaps>>

UpdateDeleted(j) ==
  /\ Updating(j) /\ ~ board[Target(run[j])].live
  /\ run' = [run EXCEPT ![j].pc = "post"]
  /\ UNCHANGED <<setting, remarks, missed, board, cache, runs, flaws, deaths, overlaps>>

UpdateFails(j) ==
  LET t == Target(run[j]) IN
  /\ Updating(j)
  /\ \/ May("update") /\ UNCHANGED board
     \/ /\ May("lost") /\ board[t].live
        /\ board' = [board EXCEPT ![t] = Content(run[j])]
  /\ run' = [run EXCEPT ![j].pc = "post"]
  /\ flaws' = flaws + 1
  /\ UNCHANGED <<setting, remarks, missed, cache, runs, deaths, overlaps>>

Posting(j) == run[j].pc = "post" \/ (run[j].pc = "update" /\ Target(run[j]) = 0)

(* After a failed update the store gets a revision that the text has not.   *)
Post(j) ==
  /\ Posting(j)
  /\ board' = Append(board, Content(run[j]))
  /\ Done(j, [id |-> Len(board) + 1,
              rev |-> IF run[j].pc = "post" THEN run[j].rev + 1 ELSE run[j].rev], FALSE)
  /\ UNCHANGED <<setting, remarks, missed, cache, runs, flaws, deaths, overlaps>>

\* Fault: a summary is stored whether it was posted or not.
PostFailsStored(j) ==
  /\ Posting(j)
  /\ \/ May("post") /\ UNCHANGED board
     \/ May("lost") /\ board' = Append(board, Content(run[j]))
  /\ Done(j, [id |-> Len(board) + 1, rev |-> run[j].rev], TRUE)
  /\ flaws' = flaws + 1
  /\ UNCHANGED <<setting, remarks, missed, cache, runs, deaths, overlaps>>

PostFails(j) ==
  /\ Posting(j)
  /\ \/ May("post") /\ UNCHANGED board
     \/ May("lost") /\ board' = Append(board, Content(run[j]))
  /\ Done(j, run[j].store, TRUE)
  /\ flaws' = flaws + 1
  /\ UNCHANGED <<setting, remarks, missed, cache, runs, deaths, overlaps>>

(* The job ends and the CI saves its checkout's store.                      *)
Finish(j) ==
  /\ run[j].pc = "end"
  /\ run' = [run EXCEPT ![j] = Idle(@.n, @.warned)]
  /\ cache' = run[j].store
  /\ UNCHANGED <<setting, remarks, missed, board, runs, flaws, deaths, overlaps>>

Crash(j) ==
  /\ May("crash") /\ run[j].pc # "idle"
  /\ run' = [run EXCEPT ![j] = Idle(@.n, TRUE)]
  /\ deaths' = deaths + 1
  /\ UNCHANGED <<setting, remarks, missed, board, cache, runs, flaws, overlaps>>

(* A person deletes a summary.                                              *)
Delete(c) ==
  /\ "delete" \in Env /\ board[c].live
  /\ board' = [board EXCEPT ![c].live = FALSE]
  /\ UNCHANGED <<setting, remarks, missed, cache, run, runs, flaws, deaths, overlaps>>

(* A person, or another tool, comments on the pull request.                 *)
Remark ==
  /\ "remark" \in Env /\ Len(remarks) < MaxRemarks
  /\ remarks' = Append(remarks, Len(board))
  /\ UNCHANGED <<setting, board, cache, run, runs, flaws, deaths, overlaps, missed>>

JobStep(j) ==
  \/ StartFromStore(j) \/ StartFromScan(j) \/ StartBlind(j)
  \/ Update(j) \/ UpdateDeleted(j) \/ UpdateFails(j)
  \/ Post(j) \/ PostFails(j)
  \/ Finish(j) \/ Crash(j)

Next == (\E j \in Jobs : JobStep(j)) \/ (\E c \in DOMAIN board : Delete(c)) \/ Remark

Spec == Init /\ [][Next]_vars

----------------------------------------------------------------------------
(* Properties                                                               *)

(* "re-reviews never post a duplicate summary" (cli.py:1236) is what the    *)
(* scan is for.  A second summary is on the pull request only because a     *)
(* call failed, a job died before its store was saved, two jobs overlapped, *)
(* or a scan did not reach the page that the summary is on; each of these   *)
(* adds one at most, however reviews find the summary, people delete it and *)
(* others comment.                                                          *)
DuplicatesHaveCause == Cardinality(Live) <= 1 + flaws + deaths + overlaps + missed

(* When all jobs have ended and none overlapped, the final summary of the   *)
(* last review was on the pull request, unless the job warned of failing;   *)
(* and if nothing ever failed and no scan missed a summary, no other one is *)
(* left beside it (_post_per_issue's two summaries, the fall-through of the *)
(* update).                                                                 *)
SummaryIsLatest ==
  \A j \in Jobs :
    /\ \A i \in Jobs : run[i].pc = "idle"
    /\ overlaps = 0 /\ runs > 0 /\ run[j].n = runs /\ ~ run[j].warned
    => \E c \in DOMAIN board :
         /\ board[c].of = runs /\ board[c].final
         /\ flaws + deaths + missed = 0 => Live \subseteq {c}

(* The revision that a summary shows never goes back, whichever of the      *)
(* store and the scan a review takes it from, unless jobs overlap or die    *)
(* without their store being saved.                                         *)
RevisionsGrow ==
  [][overlaps' = 0 /\ deaths' = 0 =>
       \A c \in DOMAIN board : board'[c].rev >= board[c].rev]_vars
=============================================================================
