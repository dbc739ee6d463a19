# Revue, specified

Revue reviews pull requests with a team of AI agents.  A CI job reviews the
diff of a push, posts each finding as an inline comment, and answers the
comments of earlier jobs that the push dealt with.  This directory holds TLA+
models of the code in `src/`, the TLC configurations that check them on small
instances, and TLAPS proofs of what holds for every size.

Paths below are relative to `src/`; `core/` and `comments/` stand for
`packaging/revue_core/src/revue_core/{core,comments}/`.

## Inventory

| Component | State it keeps | Operations | Hard behaviour | Correct when | Module |
|---|---|---|---|---|---|
| Hunk tracker (`comments/hunk_tracker.py`, `fingerprint.py`) | none of its own: sentinels in replies on the platform | `build_prior`, `resolution_status` | state is rebuilt by every job from replies that may be missing, shared or stale | an answer is never taken back; resolved is final | PrReview |
| Poster (`comments/poster.py`) | eviction flag, set of reported fingerprints, what it knows of the summary | `post`, dedup, post/evict/retry, the AC5 loop, the summary | each call may fail or lose its response; the comment limit | one comment per finding; every prior finding is dealt with; one current summary | PrReview, SummaryComment, Consolidation |
| Dedup store (`comments/json_store.py`) | one JSON file per pull request | `save_finding`, `mark_resolved`, unresolved view | the file may or may not survive to the next job | never ahead of the platform | PrReview |
| Comment files (`comments/file_store.py`, `state_store.py`) | one TOML file per pull request, ids local to a file | `create_comment`, `transition_state`, summary | the file may or may not survive | the summary it names is the one to update | SummaryComment (its summaries) |
| Resolution service (`comments/service.py`, `resolve.py`) | through the comment files | `process_pr_scan`, `process_new_review` | reply, resolve and transition are three calls | the file says resolved only after the thread does | - |
| Won't-fix replies (`comments/service.py`, `core/reply_tracking/`) | sentinels, `.revue.yml`, lessons PR | `classify`, `apply_state_updates`, `respond` | four effects per decision, any may fail; recovery by the next job | a decision is recorded once and answered | ReplyTracking |
| Platform adapters (`comments/platform_adapter.py`, `core/*_adapter.py`) | the platforms' threads | list, post, update, reply, resolve, delete, evict | pagination, limits, 403/404/409 as success or failure | failures are reported to the caller | PrReview, SummaryComment, ReplyTracking |
| Pipeline and agents (`core/pipeline.py`, `agent_runner.py`, `run_verdict.py`, `terminal_state.py`) | results of a run, fallback mode | run in parallel, time out, fall back, verdict | a shared deadline, late results, retries | each agent has one result; the verdict counts them | AgentRun |
| AI client, tool loop (`core/ai_client.py`, `tool_loop.py`) | messages, iterations, time left | iterate, retry, finalise | deadline and reserve, conversations that grow | every request is valid and bounded; the last word counts | ToolLoop |
| Consolidation, bodies (`comments/consolidator.py`, `_verifier.py`, `_orphan_line_guard.py`, `position_adapter.py`, `body_builder.py`) | groups and consolidated findings of a run | group, synthesise, verify, guard, place | answers of a model move lines and change spans; threads and calls fail | no finding is lost; groups stay within their bounds; a posted replacement ends its block | Consolidation |
| License, usage, keys (`core/license_validator.py`, `usage_tracker.py`) | a cache file | validate, retry, offline grace | stale or torn cache | nothing is granted beyond the grace period | - |
| CI command (`packaging/revue-ci`) | the workspace | `review` and helpers | overlapping jobs, caches | it ends with the review posted | PrReview, AgentRun, SummaryComment |
| Skill command (`packaging/revue`) | installed files | activate, validate, local run | network | - | - |
| Web service (`src/web`) | SQL tables | accounts, billing, rate limits | concurrent requests, webhooks | limits hold; a subscription's state is the latest | - |
| Review import (`src/db`, `src/reviews`) | SQL tables | batch import, scoring | - | - | - |

The parts interact as follows.  The CI command runs the pipeline, which runs
the agents through the AI client and consolidates what they report.  It then
builds an adapter, a dedup store, a hunk tracker and a poster, and the poster
drives the rest: tracker and adapter call the platform, and the threads there,
which people write to as well, are the only state that is sure to reach the
next job.  Hazards are listed at their lines in `PROJECT.json`.

## The modules

A review goes through the modules in this order:

1. **ReplyTracking** at the start of a job and again at its end: what
   developers replied to earlier findings.
2. **AgentRun**: the team of reviewers, their time-out and fallbacks, the
   verdict; **ToolLoop** is what one reviewer's thread does in it (`Analyse` of
   AgentRun is a whole turn of ToolLoop, and `Responses` its verdicts).
3. **Consolidation**: from the reviewers' findings to comments on lines.
4. **SummaryComment**: the summary, before and after the inline comments.
5. **PrReview**: the inline comments under repeated review, answered by later
   jobs; **PriorFinding** is what it promises seen from outside.

Each module has an `MC...` module with its instances, one or more `.cfg` files,
and one or more modules of proofs.  The modules meet only at what the code
hands from one to the next, so each leaves the parts before it open: PrReview
takes any set of findings, Consolidation any reports, AgentRun any answers.
Operators marked "Fault" are faults of the code that the properties must catch;
no specification uses them.

## PrReview

`PrReview.tla` follows one pull request.  The data is abstract: a *site* is a
line that a finding can name, a *fingerprint* is a model value, and two maps
say which fingerprint a site has: `LocFp` without a diff, and the hunk map of
the job (one of `Hunkings`) with one, as `fingerprint.fingerprint` does.

| Variable | Code |
|---|---|
| `thread[t]` | a top-level comment on the platform: its author, its line, the fingerprint in its body, the latest sentinel among its replies and its time, whether a reply has a check mark, whether it is resolved |
| `run[j]` | the locals of `Poster._post_per_issue` in job `j`: phase, diff, hunks, findings that can be anchored, `merged_prior`, `seen_hunk_fps`, what is left of the two loops, the call being made, `eviction_state`; `flaw` records that a call failed |
| `store[j]`, `cache` | the job's JSON file, and the copy the CI cache holds |
| `clock` | jobs started; the time a sentinel carries |

A job scans (`Scan` is `build_prior`), posts (`PostComment`, `PostFails`,
`PostLimited`, then `Evict` and `RetryPost`), checks every prior finding that
was not reported again (`PassOver`, `CatchUp`, `Decide`, `NovaFails`,
`DecideNull`: the branches of `resolution_status` up to the first call), makes
its calls (`Reply`, `ReplyFails`, `Resolve`, `ResolveFails`) and ends (`Finish`)
or dies (`Crash`).  Every call of the platform is a step of its own, so another
job, a person or a crash can come between any two.  "lost" makes a call
succeed while the job is told that it failed.  `Status` is the decision of
`resolution_status`; `LatestSentinel`, `FirstListed`, `ApiEntry`, `LocalEntry`
and `BuildPrior` are the scan and the merge.  `Env` names what the environment
may do in an instance.

The platforms differ in three facts: only Bitbucket's listing tells the line of
a comment and is read to its last page, only GitLab's tells that a thread was
resolved, and only Bitbucket limits the number of comments.

`PriorFinding.tla` is the abstract specification: per fingerprint, the latest
answer readable on the pull request goes from unposted to open to follow_up to
auto; only deleting comments takes one back.  `AnswersMoveForward` says that
`PrReview` implements it, with `answer` the latest sentinel among the live
threads of a fingerprint and `comments` the live comments and answers.

### Simplifications

- The scan is one step.  The listing and the replies are read in a few calls at
  the start of a job, and other jobs and people may write in between; a job
  that scans before or after such a write is covered.
- The platform lists comments in the order of their creation.
- Replies on Bitbucket carry no inline location, as in the repository's tests;
  a person's inline comments appear while no job runs.
- Sentinel times have one value per job, and overlapping jobs that share a
  second are not told apart by the code either.
- The comment limit may be met at any post.  Eviction leaves each thread
  deleted, without its replies, or untouched; some replies deleted and some
  left is not distinguished.
- A file of the diff has lines that are in it ("present") and lines that are
  not ("gone"); a file that is not in the diff has only "absent" ones.
- A job that ends with an error saves no cache, like one that dies.
- The summary comment is the subject of SummaryComment, and how findings come
  to their lines that of Consolidation.

### Runs

| Run | Instance | Shows |
|---|---|---|
| `bitbucket` | one job at a time, empty store, failing and lost calls, crashes, human comments; 3 threads, 3 jobs | answers only move forward, no finding gets two comments, removed code is answered |
| `eviction` | the comment limit, partial evictions and lost posts, three lines in two hunks; 3 threads, 4 jobs | both still hold when threads disappear whole or lose their replies |
| `gitlab` | one job at a time, store possibly restored from the cache, people closing and reopening threads; 2 threads, 3 jobs | the cached store is never ahead of the threads |
| `overlap` | two jobs at once on GitHub, no AI client, failing scans, a listing of one thread, crashes; 4 threads, 2 jobs | what a clean job reported can be read |
| `resolve_fails` | violation | a failed resolve leaves `auto_resolved` on an open thread |
| `human_closes` | violation | a thread closed by a person is answered |

The instances have two lines in one hunk.  The first line starts the hunk, so
its two fingerprints agree; the second line's differ.  This is the smallest
instance in which two findings share a fingerprint, one finding has two, and
an entry found under one is reported under the other.  Run `eviction` adds a
line in a file of its own, because a hunk that has a comment gets no second
one: only a finding of another hunk can meet the limit after an answer was
given.  Three jobs are enough to post, to answer and to meet the answer again;
the fourth job of `eviction` works from what the third one's eviction left.
The third thread on Bitbucket is there for a person's comment.
`StartRun` begins a job only if every finding it may post still has a thread,
so the bound on threads never blocks a job half-way.  `MaxRuns` bounds the
jobs; at the bound nothing may be left to do, which is why deadlock is not
checked.

No fairness is assumed and no liveness is stated here.  On GitHub `_request` and
`_graphql` call `urlopen` without a timeout (`core/github_adapter.py:70` and
`:335`), so a platform call may never return and a job never end.

### What the two violations show

*A resolve that fails.*  `resolve_inline_comment` first posts the reply, which
carries the sentinel `auto_resolved`, and then resolves the thread.  If the
second call fails the method reports failure, the tracker ends in
`REPLY_FAILED`, and the architecture note says "No sentinel. Retried next run."
But the sentinel is on the thread, and the next job stops at `AUTO_RESOLVED`.

*A thread closed by a person.*  The note lets `PLATFORM_RESOLVED` end the
machine.  The scan learns of it from `_discussion_resolved`, a field only the
GitLab adapter sets.  On Bitbucket the job replies to the closed thread.

### Proofs

`PrReviewProofs.tla`, `PrReviewAnswers.tla` and `PrReviewThreads.tla` hold
proofs for every value of the constants; tlapm checks them with Z3, Zenon and
LS4.

- **TypeCorrect**: `Spec => []TypeOK`, from the assumptions on the constants.
- **SnapshotsStayTrue**: under `SoundScan` the invariant `IInv` holds.
  `SoundScan` says that one job works at a time, that scans do not fail and
  that a listing covers all threads.  `AnswersMoveForward` is not inductive: a
  job acts on a snapshot, and needs to know that the snapshot still tells the
  truth about the finding it acts on.  `IInv` adds that at most one job is
  active (`OneJob`), that no sentinel is newer than the running job
  (`SentinelTimes`), that the final answer is the last of its thread
  (`AutoIsLast`), that entries of the store and of the snapshot point at
  threads of their fingerprint (`StorePoints`, `PriorPoints`), that for the
  keys still to be handled a snapshot without "auto" means a pull request
  without it (`SnapshotHolds`), and what holds of the call being made
  (`Replying`).
- **AnswersImplement**: `SoundScan => (Spec => AnswersMoveForward)`, the
  refinement: the initial states agree, and under `IInv` every step of
  `PrReview` is a step of `PriorFinding` or a stutter.
- **OneThread**: with `StableHunks` (a line keeps its hunk's fingerprint) no
  finding has two comments.  The invariant `OInv` says that whatever is still
  to be posted has no comment yet.  Without `StableHunks` it is false: a hunk
  that starts elsewhere gives the finding another fingerprint.
- **RemovedAnswered** and **StoreFollows**: with `SoundScan`, and an AI client
  (`UseNova`), `RemovedCodeIsAnswered` holds, and with `NoEviction` (the
  platform has no comment limit, or it is never met) `StoreNotAhead` does.  Both read `KeyAnswer`, which a job
  only believes to know, so `AInv` adds to `IInv` what makes the belief true
  (`Sound`, for each job): a sentinel that the scan read is still on a live
  thread of its hunk, unless the job has evicted; so is the one a job has just
  written, between its reply and the resolution; a finding whose code is gone is
  among those to be checked until it is settled; a follow-up is never said of
  such a finding.  `StoresSay` carries this to the entries that
  `MarkResolved` writes.  The step that
  matters is the reply: on a hunk with several threads it must not take back a
  "resolved" that another thread says (`SaidAtReply`).  Eviction takes answers
  away, which is why a job that evicted is not relied upon, and why the store
  needs `NoEviction`.
- **ReportedCanBeRead**: `ReportedIsVisible` for overlapping jobs, failing and
  unpaginated scans, lost calls, crashes and carried-over stores.  It needs
  nothing of the above, only types and `TInv`: the threads that the store of an
  active job points at are live (`Vouched`), and each finding that it reported
  is still to be posted or has a live comment (`Truthful`).  Live threads stay
  (`LiveNext`), except for eviction.  The assumption `Undisturbed` therefore
  says that nothing is evicted, or that there is neither another job nor a
  store of an earlier one.  Without it the theorem is false: eviction does not
  touch the store, so a job that gets an older job's store from the cache takes
  a deleted comment for present and never posts the finding again.
- **NothingAnswered**: on GitHub and GitLab, with Nova and without the store of
  an earlier job, no job ever comes to a reply.  The scan takes a comment's file
  and line from Bitbucket's `inline` field, and a prior finding without a line is
  `UNTOUCHED` for good (`hunk_tracker.py:188`).  Recognising fixed findings there
  rests on the store that CI carries over, and this is its limit, not a promise of
  the code (`Unlocated`; invariant `HInv`: no entry of a snapshot has a location).
- **SentinelsAreTrue** shows what is missing in the first of the two violations.
  A sentinel "resolved" is on a resolved thread if no resolve fails, no response
  is lost and no job dies (`ResolvesSurely`; invariant `CInv`: where the thread is
  open, a job is about to resolve it).  Overlaps, evictions and every other failure
  are allowed.  For the second violation there is no such theorem: Bitbucket never
  shows a closed thread as closed, the entries of a carried-over store hide it on
  GitLab too, and without them nothing is answered at all.

With overlapping jobs, with failing scans or beyond an unpaginated listing the
theorems that assume `SoundScan` do not hold: two jobs post the same finding, and
one follows up on what the other has resolved.  This is why they are assumptions,
and not a simplification of the model, which has these behaviours (run
`overlap`).

What overlapping jobs say of each other's findings is modelled, but no property
of it is stated: the code makes no promise there.

## AgentRun

`AgentRun.tla` follows one run of the reviewers, from the team that routing
selected to the exit status of the CI command.

| Variable | Code |
|---|---|
| `team`, `limit`, `cleo` | `reviewer_agents`, `max_parallel_agents`, and the files the orchestrator's response names per reviewer; chosen once |
| `phase` | before a call of `run_agents_parallel`, in `as_completed`, leaving the executor's block, and after the last call |
| `batch`, `thread`, `results` | the agents of the present call, their futures, and the list the call returns |
| `kept`, `mode`, `retried`, `launches` | `parallel_result.agent_results`, `fallback_mode`, whether the present call is an agent's second, and how many calls there were |
| `findings`, `verdict`, `exit` | the agents whose findings are consolidated, the run's verdict, the exit status |

`Launch`, `Collect` and `Expire` are `run_agents_parallel`; `StartThread` and
`Analyse` are the pool's threads, which work beside it and go on after the
time-out has fired; `ShutDown` is the end of the `with` block, which waits for
them.  `Retry` and `Keep` are the body of the sequential loop, `ParallelDone`
the one call of the parallel mode.  `AllFailed`, `Consolidate` and `Report` are
what follows in the pipeline and in `cmd_review`.

An answer of an agent is one of six `Responses`: the three statuses of a
verdict, with findings told apart by whether there are any, since
`_handle_findings` accepts an empty list and `_build_findings_verdict` drops the
items that it cannot read, and errors by whether they have a text and whether the
text is that of a rate limit, since the code reads both off the text.  Exceptions
are among the errors: `_run_one` turns them into results of the same form.

Simplifications: a time-out may fire whenever something is still outstanding,
since the time that calls take is not modelled; the order in which `Expire`
records agents is left open; consolidation does not fail; the comments are
posted or not, as a whole (how is `PrReview`); a team is never empty.

| Run | Instance | Shows |
|---|---|---|
| `agent_run` | teams of 1 to 3 reviewers, one or two at a time, two files, three answers of the orchestrator | each reviewer has one result; an incomplete run is red; the verdict fits what is posted; the cascade is bounded; no file is skipped; the run ends |

Three reviewers with two threads are the smallest team in which one waits in
the pool's queue while another is late and a third is done, in which errors can
be under half without findings, and in which the cascade reaches its last mode
and meets the rate limit once more.  With two files round-robin leaves one of
three reviewers without a file.  `launches` is counted up to two calls beyond
what the cascade may use (`MaxLaunches`).

Fairness: the runner, the pool and every agent's thread are weakly fair.  A
thread ends because the AI clients' HTTP calls have time-outs and the tool loop
a maximum of iterations.  The shared time-out is not forced, and does not end a
run by itself: the `with` block still waits for each thread, so that a run may
last as long as its slowest call.

*Few errors.*  `_rule_clean` wants all agents to be clean, so one error of
three, the others clean, is neither degraded nor findings nor clean, and the
default stands, which is "failed"; the docstring of `run_verdict.py` promises
findings or clean.  No run is kept for it, the rules being a handful of lines
(`Verdict` has them).  `VerdictCountsAnswers` states what the code does keep: clean and findings need most reviewers to have answered, and
a run that has findings to consolidate is called findings, or degraded, and never
clean or failed.  It does not say that a "findings" run has something to post:
a reviewer may say "findings" and list nothing that can be read.

*All failed.*  Another divergence:
`AgentRunResult.success` looks at the error's text, and a model may declare an
error without a message.  Such an agent has status "error" but counts as used; if
all are like this, the error that should stop the job is not raised and the job
ends with status 0, while the verdict says "failed".  `IncompleteIsRed` therefore
speaks of time-outs and of errors with a text.

### Proofs

`AgentRunProofs.tla` proves, for teams, file sets and limits of any size,
**RunTypeCorrect**, **EachHasOneResult**, **CascadeCost**,
**GreenMeansComplete**, **VerdictIsRight** and **EveryFileShown**.  None is inductive by itself.  `Flow` adds: which
agents the present call is for (`BatchIsNext`); that its results are of
different agents of the batch, and of all of them once it shuts down
(`ResultsOfBatch`, where `Expire` is the hard step); that sequential results
stand in the order of the team and parallel ones arrive at once (`KeptInOrder`,
`KeptAtOnce`); and that each call so far belongs to an agent that is done, to a
step down the cascade, or is the present one (`LaunchesCounted`).  The
assumptions are those of the module: a team is a nonempty sequence without
repetitions, which the loader's dictionary of names provides.

The last two look at what the results say.  `VInv` adds that each result, also
one that the time-out or the cascade made, comes from one answer to one set of
files, and has items only under the status of findings (`ResultsSound`), and that the verdict and what is posted were both
computed from the results that are kept (`OutcomeOfKept`).  From these follow
the counts of `ComputeRunVerdict` (`StatusCount`, on cardinalities of index
sets) and, with `EachHasOneResult` and the round-robin's arithmetic
(`RoundRobinCovers`), that each file had a reviewer.

Only model-checked: `RunsEnd`.

## ToolLoop

`ToolLoop.tla` is one turn of a reviewer: `_with_retry` around one of the two
tool loops, and the classification of the text that comes out of it.

| Variable | Code |
|---|---|
| `api` | which of `run_anthropic_tool_loop` and `run_openai_tool_loop` |
| `history` | `current_messages`: per message its role, how many tool calls it makes or answers, its cache breakpoints, the bytes of its results |
| `iter`, `stop`, `hitCap`, `lastRemain`, `text` | `iter_idx`, `last_stop_reason`, `hit_cap_in_tool_use`, `_last_remain`, `last_text` |
| `attempt` | the attempt of `_with_retry` |
| `now`, `timeout`, `tries` | the clock, the time-out given to the finalize call, and how often the SDK has sent that again |
| `phase`, `verdict` | where the turn is, its result |
| `response`, `began` | for the properties: the model's last response, and when the finalize call was made |

`Request` is the top of an iteration with its reserve check, `Answer` and
`CallTools` are the responses, `RunTools` runs the tools, strips earlier
breakpoints and measures what was read, `Finalize`, `Resend` and `Finalized` are
the forced last call, `Return` the end of a loop, `Limit`, `Retry`, `GiveUp` and `Fail` the
errors, `Classify` the verdict.  Only Anthropic's loop has a cap on what was
read, and only OpenAI's has a deadline.

*Time.*  Calls, tools and waits take time, and nothing else does.  The OpenAI
clients are built without `max_retries` (`core/ai_client.py:510`), so the SDK
repeats a request that timed out or was refused, twice by its default and after
a wait; the SDK is not part of the repository, and `SdkRetries` and `Backoffs`
are what is assumed of it.  For the calls of the loop, whose time-out is that of
the client, one duration stands for the request and what the SDK repeats of it;
the finalize call has a time-out of its own, and `Resend` is one repetition of
it.  That an attempt ends within its time-out (`InTime`) is what the comment at
`core/tool_loop.py:772` says of the SDK; its HTTP library applies the number to
each read, so that an answer that trickles in may last longer, which the bound
below does not count.

Run `tool_loop`: both loops, four iterations, two attempts, one or two tool
calls a response whose results are small or large, calls of 1 or 6 seconds,
tools of none or 2, two repetitions after 2 seconds each, 12
seconds for the run with 3 in reserve, and turns that start early, late or after
the deadline.  Four iterations let a conversation pass its first two breakpoints
and the cap of 6 be met by small results or by large ones; calls of 6 seconds
are longer than the reserve, so the finalize call can be late.  The run shows
that every request is well formed and bounded, that a turn returns the model's
last word, how late it may be, and that it ends.  Fairness: weak, of the turn's
steps; calls end by the HTTP client's time-out.

Divergences without a run of their own:

- *A late finalize.*  The finalize call's time-out is `_last_remain`, the time
  that was left before the last iteration.  A comment (`core/tool_loop.py:774`)
  and a test (`packaging/revue-ci/tests/core/test_tool_loop_deadline.py:168`)
  say that it cannot outlast the deadline; it can, by as long as that iteration's
  call and tools took, and by another time-out and wait for each time the SDK
  repeats it.  `FinalizeOverrun` states, and the theorem proves, that this is
  all; a finalize call that begins after the deadline has one second an attempt.
- The wait after a rate limit (`core/ai_client.py:318`) does not look at the
  deadline.
- `CompletionResult` carries neither the stop reason nor the iterations, so the
  branches of `agent_loader.py:566` for refusals and for a run out of
  iterations cannot be taken.

`ToolLoopProofs.tla` proves all but `TurnEnds`, for every number of iterations
and attempts, every finite set of sizes, every positive cap
(`CapAssumption`; `DEFAULT_TOOL_RESULT_BYTES_CAP` is 80000) and all times.  The invariants
are `TalkInv` (each call in the history is followed by its answers, except a last
one that is being answered), `MarkInv` (breakpoints only in the last tool
results), `WordInv` (in each phase, whether the last response is a text) and
`TimeInv` (how old `lastRemain` is, and what the attempts of the finalize call
have used up), and `ReadInv` (while the loop goes on the
history is below the cap, and what leaves it is one response's results above it
at most).  `ReadInv` speaks of `Bytes`, a recursive function over the history.
That the recursion has one solution, and what appending a message and removing
breakpoints do to the sum, is proved by induction without the library's
theorems, whose predicate parameter no installed prover can instantiate: a set
of numbers that lacks its least member contradicts the well-foundedness of
inclusion on finite sets (`Least`, `SetInduction`).

## ReplyTracking

`ReplyTracking.tla` is `WontFixReplyService` over many jobs: a job classifies
the replies in Revue's threads (`Classify`), runs its agents, fetches the threads
again (`Fetch`) and answers each thread it decided about (`Recover`, `Record`,
`MarkFixed`, `Converse`, then `Reply` and `Resolve`), one call a step.  This job
is followed through all its steps; jobs of other pushes, on other machines, read
a thread at some time (`OtherReads`), may commit their `.revue.yml` to the lessons
branch (`OtherRecords`) and reply to the thread whatever has been posted in it
since (`OtherAnswers`); their resolve calls are among `Toggled`.

| Variable | Code |
|---|---|
| `last[t]`, `closed[t]` | the last reply of a thread, which is all the service reads, and whether the thread is resolved |
| `branch`, `config` | patterns in `.revue.yml` of the lessons branch and of the checkout |
| `store[t]` | the thread's entry in the per-PR store |
| `phase`, `decision`, `key`, `todo`, `cur`, `link` | the job: what was decided, under which key, what is left, the thread at hand, whether its reply links the lessons PR |
| `twice` | the threads that the AI's list names a second time: the loop at `comments/service.py:573` acts on each entry, with the replies fetched before the first |
| `theirs` | the threads that other jobs have read and are about to answer |
| `outdated`, `answered`, `excused`, `faults` | for the properties: the threads answered since they were fetched, what this job replied, the threads of which nothing can be asked, and the faults so far |

People reply, close and reopen at any step, the hunk tracker adds its notes, the
lessons PR is merged, calls fail, phases are skipped and jobs die.  `MaxFaults`
is one budget for failures, for lists with repetitions and for threads that
other jobs answer, and only the threads in `Contended` can be answered by others
or named twice.  A decision is the AI's and left open; two entries for a thread
are taken to carry the same decision, and other jobs to have no part in this
machine's store.

*Answering itself.*  `classify` filters the threads that end with a sentinel of
ours and `respond` looks again before it replies (`comments/service.py:601`), but
both look at replies fetched earlier.  Two windows remain, and in both the
service answers its own answer: another job replies after `respond` has fetched
the threads (`comments/service.py:557`), and the AI names one thread twice.
`outdated` holds the threads that are in one of them, and
`NeverAnswersItself` says that there is no other: whatever other jobs answer
between `classify` and the fetch is seen in time.

Run `reply_tracking`: two threads on Bitbucket, one with an entry in the store,
the other open to other jobs, and one fault.  Two threads are needed for two
patterns of a job to meet in one lessons PR; one fault is enough to leave any of
the four effects of a decision undone, and one other job to answer at any step
of this one.  On Bitbucket resolved threads are left out of the listing, which
makes recovery harder than elsewhere; the theorems hold on all platforms.
Fairness: weak, of the job's steps, jobs being started again and again.  It needs
the adapter's calls to end: the run's platform is Bitbucket, whose client has the
default time-outs of `httpx`, and GitLab's asks for 30 seconds; GitHub's `urlopen`
has none (`core/github_adapter.py:70`), so there a job may hang and
`FinalAnswerGetsClosed` is not claimed.

What the code does and no property forbids:

- `apply_state_updates` marks the store between the two fetches, so that
  `respond` no longer finds the fingerprint of a *pattern* decision: nobody is
  answered and no lesson is recorded (`AnsweredUnlessMarked` excepts these).
- A later job's checkout starts from `main`, and its commit to the lessons
  branch drops what an earlier job recorded there (`comments/service.py:650`);
  `LinkedLessonsKept` holds within a job.
- The hunk tracker's `revue:state` sentinel is unknown to `_SENTINEL_MAP`: the AI
  is asked about threads in which no developer spoke.

`ReplyTrackingProofs.tla` proves the four invariants and the types for all
threads, stores, platforms, other jobs and numbers of faults.  `AnswerInv` ties
each thread of the list, and the one at hand, to the guard it passed, unless it
is outdated; `LessonInv` says that the lessons branch has what
was linked and that the checkout has what this job recorded; `CloseInv` lets
an open thread with a final answer stand only where `respond` has yet to come or
a call failed; `AnsweredInv` does the same for decisions.  Only model-checked:
`FinalAnswerGetsClosed`.

## Consolidation

`Consolidation.tla` goes from the reviewers' findings to comments on lines.

| Variable | Code |
|---|---|
| `input`, `readable` | `raw_findings`, the files `read_file` returns |
| `order`, `next`, `groups` | `sorted_findings`, the place in it, the groups of `ProximityAndCountGroupingStrategy` |
| `items[g]` | the `ConsolidatedFinding` of group `g`: by Nova or by the fallback, its line, whether it has a replacement, `replacement_line_count`, whether it has a text, whether Vex rejected it |
| `phase`, `todo` | the stage, and the groups it has still to work on |
| `comments`, `sink` | what the poster posts, and what the summary lists instead |

`Sort`, `Gather` and `Submit` are the grouping; `Synthesise` and `FallBack` what
a thread of the synthesis ends with, in any order; `DropNoOps`, then `PassOver`,
`Approve`, `Strip` and `Reject` (Vex, again in threads), then `Guard` are the
post-processors in the order of `build_consolidation_postprocessors`; `Post` is
`_post_per_issue` on a pull request without comments, when every post succeeds.
Nova may name any line and span, Vex any correction; what the code accepts of it
is `Corrections`.  A file is its lines' indents, its diff the lines it adds.

Left out: severities and the order they impose, `group_type`, how Vex's calls
are put in batches (their results do not depend on it), texts, and which lines a
platform replaces at a click on a suggestion.

Run `consolidation`: six reports, among them the empty one, one of two findings
whose surer one has its own replacement, one with a majority of two in three,
and one of four findings on a line, which make two groups that share a comment;
a file with a block in it and one of a single line; proximity 1, groups of at
most 3, corrections of at most 2 lines.  Spans of 1 to 3 reach
into, to and past the end of the block.  Fairness: weak, of the steps: threads
and calls end by the client's time-outs.

*What `attribution` shows.*  The poster reads the agents of a finding under the
key `synthesised_from`, which the pipeline never writes; it writes `attribution`
and the first agent's name.  A finding that Nova made of several agents'
findings names the first of them.  The docstring of `ConsolidatedFinding` calls
attribution a structural guarantee.

Met on the way, without a run of its own:

- `docs/architecture/comment-posting.md:117` (Decision 2) says that findings
  beyond a threshold "become separate singleton groups".  The code opens a new
  group with them, which the next findings may join: of four findings on a line
  three make a group, and a fifth would share one with the fourth.
  `GroupsSound` states what the code does.
- Nova's replacement is written for the line she names, the fallback's for the
  line of the agent it takes it from; `_reconcile_anchor_line`, or the first line
  of the group, then moves the finding (`consolidator.py:489-495` and `:540-573`)
  and the replacement with it.  The majority overrides a line of Nova's that the
  docstring calls authoritative.  Only Vex could notice, and Vex's failures let
  the finding pass.  The code keeps no record of the lines a replacement was
  written for, so no property compares them with the lines it is posted on:
  `PatchesEndTheirBlock` is about what the posted span cuts, and nothing more.
- On GitHub a suggestion of several lines in a comment that several findings
  share replaces one line; nothing checks that a span ends inside its hunk.
- `NoOpSuggestionDropper` leaves the span of a dropped replacement, where
  `consolidator.py:496` says it is 1; the findings of agents carry no snippet, so
  the dropper sees only one kind of no-op of those in Decision 5.
- The fallback names an agent once, Nova's path once per finding.

`ConsolidationProofs.tla` proves the four safety invariants and the types, for
reports and files of any size and any bounds.  `GInv` adds to `GroupsSound` that
the order is sorted and that the last group ends with the finding before `next`:
a gap to the last member is then a gap to all.  `KInv` adds that what has been
gathered is in exactly one group (`Placed`), that what is not synthesised yet
is pending (`Written`), and that what is shown is in a comment or the sink
(`Told`).  `SInv` adds that Vex sees a finding on the line synthesis gave it
(`Unmoved`).  `PInv` follows from the types and the guard's step.  Only model-checked: `GetsDone`; only refuted: `AttributionKept`.

## SummaryComment

`SummaryComment.tla` is the one summary of a pull request, over many jobs.

| Variable | Code |
|---|---|
| `board` | the summaries on the platform, in the order of the listing: whether each is still there, the review it tells of, its revision, whether it is the preliminary one |
| `cache` | the TOML summary entry that the CI carries to the next job; `None` if it was lost |
| `run[j]` | the poster of job `j`: `existing_summary`, what the scan found, the revision, the entry in its store, where it is, and whether it warned |
| `remarks` | the other comments of the pull request: for each, how many summaries were posted before it |
| `runs`, `flaws`, `deaths`, `overlaps` | the jobs started, the calls that failed, the jobs that died, the jobs that started while another was at work |
| `missed` | the scans that did not reach a summary although there is one |

A job knows the summary from its store, from a scan or, when listing fails, not
at all (`StartFromStore`, `StartFromScan`, `StartBlind`); it updates it
(`Update`, `UpdateDeleted`, `UpdateFails`) or posts a new one (`Post`,
`PostFails`); on GitHub in per-issue style it does so twice, with the store
read again in between (`Done`); and it ends with its store saved, or dies.
People delete summaries and comment (`Delete`, `Remark`).  "lost" lets a call
succeed whose response never arrives.

The scan reads one page.  GitHub's `get_issue_comments`
(`core/github_adapter.py:309`) and GitLab's `get_existing_comments`
(`core/gitlab_adapter.py:272`) send one request and return its first page,
oldest first; Bitbucket's follows `next` to the end
(`comments/platform_adapter.py:619`).  `Listed` therefore holds, except on
Bitbucket, the summaries with fewer than `Page` comments before them.  A summary
that was posted after that many comments is never found again: every review
without its store posts one more.  That contradicts the comment
"re-reviews never post a duplicate summary" (`cli.py:1236`), and
`DuplicatesHaveCause` counts it as a cause (`missed`) of its own.

Run `summary_comment`: three jobs, two at once, one flaw, one remark and a page
of one comment, on GitHub in both styles; the summary style is what GitLab does
too.  Three jobs are needed for a stale entry (made by the first, outdated by the
second) to be used, and for a second missed scan.  One flaw is enough for an
update to fail, and, when a person has deleted the summary, for the post that
replaces it.  One remark before the first summary puts it beyond the page, one
after it does not.  These are properties of safety alone, so no fairness is
assumed and a bound that stops the model is no deadlock.

Simplifications: a job's entry is saved when it ends, as CI caches are; the
marker is taken to be in summaries alone, although a person's quotation of one
would match as well (`marker in body`); a page is counted in comments, where
GitLab counts discussions; people delete summaries but not their other
comments.  What no property forbids: of two
overlapping jobs the older one may write last, and the summary then tells of
the older push; after a failed update the store's revision is one ahead of the
text (`comments/poster.py:747`).

`SummaryCommentProofs.tla` proves the properties for any number of jobs at once,
runs, flaws and remarks, and any size of a page.  `DuplicatesHaveCause` is not inductive: an active job may be
about to post.  `Accounted` splits the live summaries into those an active job
holds (`Held`: it will update them) and the `Spare` ones, and says that while some
job is active the spare ones and the active jobs together are at most one more
than the causes, and that at rest those beside the cached one are at most as
many as the causes; this holds with overlaps too.  `Told` says, without overlap,
that the one active job is the last one started and what it knows of its own
summary, and gives `SummaryIsLatest` with `Accounted`.  `Rising` says, without
overlaps and deaths, that no summary which the job at work will update shows
more than the revision it is about to write, and that the text of a stored
summary is at most one revision ahead of the store; it gives `RevisionsGrow`.

## What is proved and what is only checked

| Module | Proved for every size | Only model-checked |
|---|---|---|
| PrReview | types, `AnswersMoveForward` (refinement of PriorFinding), `OneThreadPerFinding`, `RemovedCodeIsAnswered`, `StoreNotAhead`, `ReportedIsVisible`, each under its assumptions above | none |
| AgentRun | types, `OneResultEach`, `CascadeBounded`, `IncompleteIsRed`, `VerdictCountsAnswers`, `NothingSkipped` | `RunsEnd` |
| ToolLoop | types, `WellFormedRequests`, `OneBreakpoint`, `RequestFits`, `ReturnsLastWord`, `FinalizeOverrun` | `TurnEnds` |
| ReplyTracking | types, `NeverAnswersItself`, `LinkedLessonsKept`, `FinalAnswerCloses`, `AnsweredUnlessMarked` | `FinalAnswerGetsClosed` |
| Consolidation | types, `GroupsSound`, `NothingLost`, `ShiftBounded`, `PatchesEndTheirBlock` | `GetsDone` |
| SummaryComment | types, `DuplicatesHaveCause`, `SummaryIsLatest`, `RevisionsGrow` | - |

Every invariant and action property of a passing run is proved.  The inductive
invariants behind them were model-checked on the same instances before.  What is
left is liveness: fairness and `ENABLED` are outside what the prover does, so
these properties stay with TLC.
The proofs rest on the assumptions that the modules declare, which TLC evaluates
on every run.

## Not modelled

- *The comment files' own comments and the resolution service.*
  `create_comment` has no caller outside the tests, so the service of
  `comments/resolve.py` finds nothing to work on; the hunk tracker does its job.
- *License, usage and keys*: a sequential check before the job, whose cache
  nothing else reads.
- *The skill command line* and `scripts/local_run.py`: installer, activation,
  and a local run of the same pipeline that posts nothing.  Most of their lines
  print, parse arguments and copy files.
- *The web service and the database scripts*: another program, with SQL as its
  state and no protocol with a review.
- *In the modelled parts*: argument parsing, prompts, wording and layout of
  comments, diff parsing, HTTP details, metrics and logging, the free tier's loop
  over files, and the older inline posting of `cli.py`.
- Directories `_bmad*`, `docs`, `scripts`, `build`, `ci-templates` hold no
  program logic of Revue's own.

The models follow the parts with state that outlives a call or with steps that
can interleave or fail, a small share of the repository's lines; the rest is
mostly input, output and text.
