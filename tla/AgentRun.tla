------------------------------ MODULE AgentRun ------------------------------
(***************************************************************************)
(* One run of the reviewers over a diff, from ReviewPipeline to the exit   *)
(* status of the CI command.  run_agents_parallel starts a pool of threads *)
(* and waits for their answers until a time-out shared by all of them.     *)
(* With max_parallel_agents above 1 it is called once for the whole team;  *)
(* with 1, once per agent, and an agent that meets a rate limit is called  *)
(* once more with less context (the fallback cascade).  What came back     *)
(* decides what is posted, the verdict of the run and the exit status.     *)
(***************************************************************************)
EXTENDS Naturals, Sequences, FiniteSets, SequencesExt

CONSTANTS
  Teams,         \* the sequences of reviewers that routing may select
  Files,         \* the files of the diff
  Order,         \* the files as a sequence, in the order of the diff
  CleoAnswers,   \* what the orchestrator may answer about who reviews what
  ParallelLimits \* the values max_parallel_agents may have

Agents == UNION {ToSet(team) : team \in Teams}

\* How analyse can end: a review with findings; one that says "findings" with a
\* list that is empty or has no item that can be read; a clean one; an error
\* verdict (also of a response that cannot be read) or exception with a text;
\* one without; a rate limit.
Responses == {"findings", "no_items", "clean", "error", "bare_error", "rate_limit"}

ASSUME TeamsAssumption ==
  \A team \in Teams : team \in Seq(Agents) /\ team # <<>> /\ IsInjective(team)
ASSUME FilesAssumption == Order \in Seq(Files) /\ ToSet(Order) = Files
\* The files it names for an agent need not be files of the diff.
ASSUME CleoAssumption ==
  \A answer \in CleoAnswers :
    /\ answer.given \in BOOLEAN
    /\ DOMAIN answer.files \subseteq Agents
    /\ \A a \in DOMAIN answer.files : answer.files[a] # {}
ASSUME LimitsAssumption == ParallelLimits \subseteq 1..10

VARIABLES
  team,     \* reviewer_agents
  limit,    \* max_parallel_agents
  cleo,     \* the orchestrator's answer: whether it names files, and for whom
  phase,    \* where the run is
  batch,    \* the agents of the current call of run_agents_parallel
  thread,   \* thread[a]: the future of an agent, a response once it is done
  results,  \* the list run_agents_parallel builds
  kept,     \* parallel_result.agent_results
  mode,     \* fallback_mode
  retried,  \* the agent's second call is under way
  launches, \* calls of run_agents_parallel, counted up to MaxLaunches
  findings, \* the agents whose findings go into consolidation
  verdict,  \* last_run_verdict
  exit      \* the exit status

vars == <<team, limit, cleo, phase, batch, thread, results, kept, mode,
          retried, launches, findings, verdict, exit>>

Parallel == limit > 1
Members == ToSet(team)
MaxLaunches == Len(team) + 3

-----------------------------------------------------------------------------
(* What an agent is given.  In the modes of the cascade it sees in full    *)
(* only the files assigned to it; context-lite adds a line on the others.  *)

FallbackSequence == <<"normal", "file_assigned", "context_lite">>

\* Fault: the deepest mode is its own successor.
NextFallbackStays(m) ==
  IF m = "normal" THEN "file_assigned" ELSE "context_lite"

NextFallback(m) ==
  CASE m = "normal" -> "file_assigned"
    [] m = "file_assigned" -> "context_lite"
    [] OTHER -> "none"

\* Fault: the last file is left out.
RoundRobinShort(a) ==
  {Order[i] : i \in {j \in DOMAIN Order \ {Len(Order)} :
                       team[((j - 1) % Len(team)) + 1] = a}}

RoundRobin(a) ==
  {Order[i] : i \in {j \in DOMAIN Order : team[((j - 1) % Len(team)) + 1] = a}}

Assigned(a) ==
  IF ~cleo.given THEN RoundRobin(a)
  ELSE IF a \in DOMAIN cleo.files THEN cleo.files[a] ELSE {}

FullFiles(a, m) ==
  IF m = "normal" \/ Assigned(a) = {} THEN Files ELSE Assigned(a) \cap Files

-----------------------------------------------------------------------------
(* Results.                                                                *)

Status(response) ==
  CASE response \in {"findings", "no_items"} -> "findings"
    [] response = "clean" -> "clean"
    [] OTHER -> "error"

ErrorText(response) ==
  IF response \in {"error", "rate_limit"} THEN response ELSE ""

\* items: the list of findings is not empty.
Result(a) ==
  [agent |-> a, status |-> Status(thread[a]), error |-> ErrorText(thread[a]),
   items |-> thread[a] = "findings", timed_out |-> FALSE, files |-> FullFiles(a, mode)]

TimedOut(a) ==
  [agent |-> a, status |-> "findings", error |-> "", items |-> FALSE,
   timed_out |-> TRUE, files |-> FullFiles(a, mode)]

\* Fault: success is read off the status, which a time-out leaves at findings.
SuccessByStatus(r) == r.status # "error"

Success(r) == ~r.timed_out /\ r.error = ""
IsRateLimit(r) == r.error = "rate_limit"

\* Fault: the status of an agent that timed out is taken as it is.
AgentStatusAsIs(r) == r.status

AgentStatus(r) == IF r.timed_out THEN "error" ELSE r.status

Names(list) == {list[i].agent : i \in DOMAIN list}
AgentsAt(indices) == {kept[i].agent : i \in indices}
AgentsUsed == AgentsAt({i \in DOMAIN kept : Success(kept[i])})
FailedAgents == AgentsAt({i \in DOMAIN kept : ~Success(kept[i])})

CountStatus(s) == Cardinality({i \in DOMAIN kept : AgentStatus(kept[i]) = s})

Degraded(errors, total) == 2 * errors >= total

ComputeRunVerdict ==
  LET total == Len(kept)
      errors == CountStatus("error")
  IN  CASE errors = total -> "failed"
        [] errors # total /\ Degraded(errors, total) -> "degraded"
        [] ~Degraded(errors, total) /\ CountStatus("findings") > 0 -> "findings"
        [] CountStatus("clean") = total /\ total > 0 -> "clean"
        [] OTHER -> "failed"

-----------------------------------------------------------------------------
Init ==
  /\ team \in Teams /\ limit \in ParallelLimits /\ cleo \in CleoAnswers
  /\ phase = "next" /\ batch = <<>> /\ thread = [a \in Agents |-> "idle"]
  /\ results = <<>> /\ kept = <<>>
  /\ mode = "normal" /\ retried = FALSE /\ launches = 0
  /\ findings = {} /\ verdict = "none" /\ exit = "none"

config == <<team, limit, cleo>>
outcome == <<findings, verdict, exit>>
cascade == <<kept, mode, retried, launches>>

(* run_agents_parallel *)

Launch ==
  /\ phase = "next"
  /\ phase' = "collect"
  /\ batch' = IF Parallel THEN team ELSE <<team[Len(kept) + 1]>>
  /\ thread' = [a \in Agents |->
                  IF a \in ToSet(batch') THEN "queued" ELSE "idle"]
  /\ results' = <<>>
  /\ launches' = IF launches < MaxLaunches THEN launches + 1 ELSE launches
  /\ UNCHANGED <<config, kept, mode, retried, outcome>>

ThreadsAt(s) == {a \in Agents : thread[a] = s}

\* The thread at position i of the pool's queue is the next to start.
Foremost(i) ==
  /\ thread[batch[i]] = "queued"
  /\ \A j \in 1..(i - 1) : thread[batch[j]] # "queued"

\* The pool goes on with its queue after the time-out as well.
StartThread ==
  /\ Cardinality(ThreadsAt("running")) < limit
  /\ \E i \in DOMAIN batch :
       Foremost(i) /\ thread' = [thread EXCEPT ![batch[i]] = "running"]
  /\ UNCHANGED <<config, phase, batch, results, cascade, outcome>>

Analyse(a) ==
  /\ thread[a] = "running"
  /\ \E response \in Responses : thread' = [thread EXCEPT ![a] = response]
  /\ UNCHANGED <<config, phase, batch, results, cascade, outcome>>

Collect(a) ==
  /\ phase = "collect"
  /\ thread[a] \in Responses /\ a \notin Names(results)
  /\ results' = Append(results, Result(a))
  /\ phase' = IF Names(results') = ToSet(batch) THEN "shutdown" ELSE "collect"
  /\ UNCHANGED <<config, batch, thread, cascade, outcome>>

\* The agents without a result, in some order.
Unrecorded ==
  LET missing == ToSet(batch) \ Names(results)
  IN  {late \in SeqOf(missing, Len(batch)) :
         IsInjective(late) /\ ToSet(late) = missing}

\* Fault: agents that have a result are marked as timed out as well.
ExpireTwice ==
  /\ phase = "collect"
  /\ results' = results \o [i \in DOMAIN batch |-> TimedOut(batch[i])]
  /\ phase' = "shutdown"
  /\ UNCHANGED <<config, batch, thread, cascade, outcome>>

\* as_completed gives up; an answer that is in but not collected is dropped.
Expire ==
  /\ phase = "collect"
  /\ \E late \in Unrecorded :
       results' = results \o [i \in DOMAIN late |-> TimedOut(late[i])]
  /\ phase' = "shutdown"
  /\ UNCHANGED <<config, batch, thread, cascade, outcome>>

\* Leaving the executor's block waits for every thread, queued ones included.
ShutDown ==
  phase = "shutdown" /\ ThreadsAt("queued") = {} /\ ThreadsAt("running") = {}

(* ReviewPipeline._run_orchestration *)

ParallelDone ==
  /\ ShutDown /\ Parallel
  /\ kept' = results
  /\ phase' = "assess"
  /\ UNCHANGED <<config, batch, thread, results, mode, retried, launches>>
  /\ UNCHANGED outcome

\* Fault: the agent is called again while it meets the rate limit.
MayRetryForEver(r) == IsRateLimit(r)

MayRetry(r) == IsRateLimit(r) /\ ~retried /\ NextFallback(mode) # "none"

Retry ==
  /\ ShutDown /\ ~Parallel
  /\ MayRetry(results[1])
  /\ mode' = NextFallback(mode)
  /\ retried' = TRUE
  /\ phase' = "next"
  /\ UNCHANGED <<config, batch, thread, results, kept, launches, outcome>>

Keep ==
  /\ ShutDown /\ ~Parallel
  /\ ~MayRetry(results[1])
  /\ kept' = Append(kept, results[1])
  /\ retried' = FALSE
  /\ phase' = IF Len(kept') = Len(team) THEN "assess" ELSE "next"
  /\ UNCHANGED <<config, batch, thread, results, mode, launches, outcome>>

\* AllAgentsFailedError, which the command turns into status 1.
AllFailed ==
  /\ phase = "assess" /\ AgentsUsed = {}
  /\ exit' = "1"
  /\ phase' = "done"
  /\ UNCHANGED <<config, batch, thread, results, cascade, findings, verdict>>

\* raw_findings takes the findings of the agents that succeeded.
Reviewed(r) == Success(r) /\ r.items

Consolidate ==
  /\ phase = "assess" /\ AgentsUsed # {}
  /\ findings' = AgentsAt({i \in DOMAIN kept : Reviewed(kept[i])})
  /\ phase' = "report"
  /\ UNCHANGED <<config, batch, thread, results, cascade, verdict, exit>>

\* The verdict, then cmd_review: comments first, then the exit status.
Report ==
  /\ phase = "report"
  /\ verdict' = ComputeRunVerdict
  /\ \E posted \in BOOLEAN :
       exit' = IF FailedAgents # {} \/ ~posted THEN "1" ELSE "0"
  /\ phase' = "done"
  /\ UNCHANGED <<config, batch, thread, results, cascade, findings>>

Terminated == phase = "done" /\ UNCHANGED vars

Runner ==
  \/ Launch \/ \E a \in ToSet(batch) : Collect(a)
  \/ ParallelDone \/ Retry \/ Keep \/ AllFailed \/ Consolidate \/ Report

Next ==
  \/ Runner \/ StartThread \/ (\E a \in Agents : Analyse(a)) \/ Expire
  \/ Terminated

\* The runner and the pool go on by themselves, and each call of the AI client
\* ends: its HTTP client has time-outs.  The shared time-out may never fire.
Fairness ==
  /\ WF_vars(Runner) /\ WF_vars(StartThread)
  /\ \A a \in Agents : WF_vars(Analyse(a))

Spec == Init /\ [][Next]_vars /\ Fairness

-----------------------------------------------------------------------------
(* Properties.                                                             *)

Results ==
  [agent : Agents, status : {"findings", "clean", "error"},
   error : {"", "error", "rate_limit"}, items : BOOLEAN, timed_out : BOOLEAN,
   files : SUBSET Files]

\* The range of every variable (the fields of AgentRunResult, the modes of the
\* cascade, the verdicts of run_verdict.py).
TypeOK ==
  /\ team \in Teams /\ limit \in ParallelLimits /\ cleo \in CleoAnswers
  /\ phase \in {"next", "collect", "shutdown", "assess", "report", "done"}
  /\ batch \in Seq(Agents)
  /\ thread \in [Agents -> {"idle", "queued", "running"} \cup Responses]
  /\ results \in Seq(Results) /\ kept \in Seq(Results)
  /\ mode \in ToSet(FallbackSequence) /\ retried \in BOOLEAN
  /\ launches \in 0..MaxLaunches
  /\ findings \subseteq Agents
  /\ verdict \in {"none", "clean", "findings", "degraded", "failed"}
  /\ exit \in {"none", "0", "1"}

\* Whatever order threads finish in, and whether the time-out finds an answer
\* collected, waiting to be collected or not there yet, the run ends with
\* exactly one result of each reviewer (run_agents_parallel, and the loop of
\* the sequential mode with its retries).
OneResultEach ==
  phase \in {"assess", "report", "done"} =>
    /\ Names(kept) = Members
    /\ \A i, j \in DOMAIN kept : kept[i].agent = kept[j].agent => i = j

\* The exit status is 0 only if no reviewer timed out, raised with a message or
\* gave up with one: a review that is known to be incomplete fails the job,
\* even though what the others found has been posted (cmd_review).
IncompleteIsRed ==
  exit = "0" =>
    \A i \in DOMAIN kept : ~kept[i].timed_out /\ kept[i].error = ""

\* The verdict of a run agrees with what it posts: clean and findings need more
\* than half of the reviewers to have answered in time, and a run in which some
\* reviewer's findings go into consolidation says so, or "degraded" if half of the
\* reviewers are missing; it is never clean or failed.  The reverse is not promised:
\* a reviewer may say "findings" and list none (compute_run_verdict against the
\* selection of raw_findings).
Missing == {i \in DOMAIN kept : kept[i].timed_out \/ kept[i].status = "error"}
MostAnswered == 2 * Cardinality(Missing) < Len(kept)

VerdictCountsAnswers ==
  verdict # "none" =>
    /\ verdict \in {"clean", "findings"} => MostAnswered
    /\ findings # {} => verdict = IF MostAnswered THEN "findings" ELSE "degraded"

\* However many agents meet the rate limit, the whole cascade costs at most two
\* more calls than there are agents, since the mode it has reached is kept for
\* the agents that follow (_run_orchestration).
CascadeBounded == launches <= Len(team) + 2

\* A run that ends with status 0 has shown each file in full to a reviewer it
\* counts, also if the cascade cut the context of some of them; where Cleo says
\* who reviews what, each file that it names for a reviewer
\* (_build_agent_changes, _extract_cleo_file_assignments).
NothingSkipped ==
  exit = "0" =>
    \A f \in Files :
      ~cleo.given \/ (\E a \in Members : f \in Assigned(a)) =>
        \E i \in DOMAIN kept : Success(kept[i]) /\ f \in kept[i].files

\* The run comes to its end: no retry without end, no thread left waiting
\* for a place in the pool (run_agents_parallel, _run_orchestration).
RunsEnd == <>(phase = "done")
=============================================================================
