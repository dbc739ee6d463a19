------------------------------ MODULE PrReview ------------------------------
(***************************************************************************)
(* One pull request under repeated review.  Every push starts a CI job     *)
(* that runs Poster._post_per_issue: scan what is on the pull request      *)
(* (HunkTracker.build_prior), post what is new, and answer the prior       *)
(* findings that the new review no longer reports (the "AC5" loop and      *)
(* HunkTracker.resolution_status).  The job keeps nothing but a JSON file  *)
(* (PerPRCommentStore); what must survive to the next job is written into  *)
(* the replies themselves as sentinels.                                    *)
(*                                                                         *)
(* A site is a line of the pull request that a finding can name.  Its      *)
(* fingerprint is that of the diff hunk around it, so several sites share  *)
(* one, and which hunk a line falls in can change from push to push.       *)
(***************************************************************************)
EXTENDS Integers, FiniteSets

CONSTANTS
  Jobs,         \* CI jobs that can be active at the same time
  Sites,        \* lines of the pull request
  Fps,          \* fingerprints: fingerprint.fingerprint
  FileOf,       \* FileOf[s]: the file a line belongs to
  LocFp,        \* LocFp[s]: the fingerprint of a line taken without a diff
  Hunkings,     \* the maps from lines to hunk fingerprints that occur
  Platform,     \* "bitbucket", "github" or "gitlab"
  UseNova,      \* FALSE when the CI has no AI client: NullHunkTracker
  Persist,      \* TRUE when CI may restore .revue/ from its cache
  Overlap,      \* TRUE when two jobs can work on the pull request at once
  Env,          \* what the environment may do, a subset of EnvEvents
  MaxThreads,   \* bound: comments with a thread on the pull request
  MaxRuns,      \* bound: jobs started
  Window        \* threads one unpaginated listing returns (GitHub, GitLab)

EnvEvents == {"scan", "post", "lost", "limit", "evict", "reply", "resolve",
              "nova", "crash", "close", "tick", "comment"}

Tids == 1..MaxThreads

ASSUME SitesAssumption == Sites # {} /\ Fps # {}
ASSUME FpAssumption ==
  /\ LocFp \in [Sites -> Fps]
  /\ Hunkings \subseteq [Sites -> Fps] /\ Hunkings # {}
ASSUME BoundsAssumption ==
  MaxThreads \in Nat /\ MaxRuns \in Nat /\ Window \in Nat
ASSUME SwitchAssumption ==
  /\ Platform \in {"bitbucket", "github", "gitlab"}
  /\ UseNova \in BOOLEAN /\ Persist \in BOOLEAN /\ Overlap \in BOOLEAN
  /\ Env \subseteq EnvEvents

VARIABLES
  clock,        \* number of jobs started; the time the sentinels carry
  thread,       \* thread[t]: a top-level comment and what its thread says
  run,          \* run[j]: the local state of a job
  store,        \* store[j]: the job's PerPRCommentStore file
  cache         \* the copy of that file kept by the CI cache

vars == <<clock, thread, run, store, cache>>

AnySite == CHOOSE s \in Sites : TRUE
AnyFp == CHOOSE k \in Fps : TRUE

-----------------------------------------------------------------------------
(* What the platforms show.  Only Bitbucket's listing carries the file and *)
(* line of a comment and is read to its last page; only GitLab's says that *)
(* a thread was resolved; only Bitbucket limits the number of comments.    *)

Located == Platform = "bitbucket"
SeesResolved == Platform = "gitlab"
Limited == Platform = "bitbucket"

Says == {"none", "follow_up", "auto"}
Closures == {"open", "revue", "human", "reopened"}

Threads ==
  [by : {"none", "revue", "human", "deleted"}, site : Sites, fp : Fps,
   sent : Says, ts : 0..MaxRuns, tick : BOOLEAN, closed : Closures]

NoThread ==
  [by |-> "none", site |-> AnySite, fp |-> AnyFp, sent |-> "none", ts |-> 0,
   tick |-> FALSE, closed |-> "open"]

NewThread(who, s, k) ==
  [NoThread EXCEPT !.by = who, !.site = s, !.fp = k]

Live(t) == thread[t].by \in {"revue", "human"}
Fresh(t) == thread[t].by = "none" /\ \A u \in Tids : u < t => thread[u].by # "none"
Closed(t) == thread[t].closed \in {"revue", "human"}

\* The threads get_existing_comments returns when it does not fail.
Listing == {t \in Tids : Live(t) /\ (Located \/ t <= Window)}

\* Eviction takes a thread of Revue's with a check mark in any reply for resolved.
Evictable == {t \in Tids : thread[t].by = "revue" /\ thread[t].tick}

-----------------------------------------------------------------------------
(* The dedup store.                                                        *)

StoreEntries ==
  [st : {"none", "unresolved", "auto_resolved"}, tid : 0..MaxThreads, site : Sites]

NoStoreEntry == [st |-> "none", tid |-> 0, site |-> AnySite]
EmptyStore == [k \in Fps |-> NoStoreEntry]

SaveFinding(st, k, t, s) ==
  [st EXCEPT ![k] = [st |-> "unresolved", tid |-> t, site |-> s]]

\* Without the file of the finding the entry is not found and nothing happens.
MarkResolved(st, e, k) ==
  IF e.loc /\ st[k].st # "none" THEN [st EXCEPT ![k].st = "auto_resolved"] ELSE st

-----------------------------------------------------------------------------
(* HunkTracker.build_prior.                                                *)

Entries ==
  [tid : 0..MaxThreads, loc : BOOLEAN, site : Sites, res : BOOLEAN,
   sent : Says, shut : Closures]

NoEntry ==
  [tid |-> 0, loc |-> FALSE, site |-> AnySite, res |-> FALSE, sent |-> "none",
   shut |-> "open"]

\* t's sentinel replaces u's when the threads are scanned in listing order.
Newer(t, u) ==
  \/ thread[t].ts > thread[u].ts
  \/ thread[t].ts = thread[u].ts /\ t > u

\* The latest sentinel for k among the threads whose replies could be read.
LatestSentinel(k, heard) ==
  LET said == {t \in heard : thread[t].fp = k /\ thread[t].ts > 0}
  IN  IF said = {} THEN "none"
      ELSE IF \E t \in said : /\ thread[t].sent = "auto"
                              /\ \A u \in said : ~ Newer(u, t)
           THEN "auto" ELSE "follow_up"

\* The first thread listed with each fingerprint is the one that is kept.
FirstListed(first, listed) ==
  \A k \in Fps :
    \/ /\ first[k] \in listed
       /\ thread[first[k]].fp = k
       /\ \A u \in listed : thread[u].fp = k => first[k] <= u
    \/ first[k] = 0 /\ \A u \in listed : thread[u].fp # k

ApiEntry(k, t, heard) ==
  [tid |-> t, loc |-> Located, site |-> thread[t].site,
   res |-> SeesResolved /\ Closed(t), sent |-> LatestSentinel(k, heard),
   shut |-> thread[t].closed]

\* A local entry replaces the scanned one, all but its sentinel.
LocalEntry(k, e, heard) ==
  [tid |-> e.tid, loc |-> TRUE, site |-> e.site, res |-> FALSE,
   sent |-> LatestSentinel(k, heard),
   shut |-> IF e.tid = 0 THEN "open" ELSE thread[e.tid].closed]

BuildPrior(st, first, heard) ==
  [k \in Fps |-> IF st[k].st = "unresolved" THEN LocalEntry(k, st[k], heard)
                 ELSE IF first[k] # 0 THEN ApiEntry(k, first[k], heard)
                 ELSE NoEntry]

-----------------------------------------------------------------------------
(* The jobs.                                                               *)

LineStates == {"absent", "gone", "present"}

\* The diff of a push: a file is in it with all its lines, or not at all.
Diffs ==
  {d \in [Sites -> LineStates] :
     \A s, u \in Sites : FileOf[s] = FileOf[u] => (d[s] = "absent" <=> d[u] = "absent")}

Phases == {"idle", "scan", "post", "evict", "retry", "check", "reply", "resolve"}

Runs ==
  [pc : Phases,
   diff : [Sites -> LineStates], hunk : [Sites -> Fps], found : SUBSET Sites,
   prior : [Fps -> Entries], seen : SUBSET Fps, todo : SUBSET Sites,
   checks : SUBSET Fps, site : Sites, key : Fps,
   say : {"plain", "follow_up", "auto"}, evicted : BOOLEAN, flaw : BOOLEAN]

IdleRun ==
  [pc |-> "idle", diff |-> [s \in Sites |-> "absent"], hunk |-> LocFp, found |-> {},
   prior |-> [k \in Fps |-> NoEntry], seen |-> {}, todo |-> {}, checks |-> {},
   site |-> AnySite, key |-> AnyFp, say |-> "plain", evicted |-> FALSE, flaw |-> FALSE]

Init ==
  /\ clock = 0
  /\ thread = [t \in Tids |-> NoThread]
  /\ run = [j \in Jobs |-> IdleRun]
  /\ store = [j \in Jobs |-> EmptyStore]
  /\ cache = EmptyStore

\* Bound: a job starts only if every finding it may post has a free thread.
Room(new) ==
  Cardinality({t \in Tids : thread[t].by = "none"}) >=
    Cardinality(new) + Cardinality(UNION {{j} \X run[j].found : j \in Jobs})

\* The job's local state becomes r.
Become(j, r) == run' = [run EXCEPT ![j] = r]

Started(d, h, reported, anchored) ==
  [IdleRun EXCEPT !.pc = "scan", !.diff = d, !.hunk = h, !.found = anchored,
                  !.seen = {h[s] : s \in reported}]

(* A push starts a job: the diff, the hunks it consists of, the lines the  *)
(* review reports, and those of them that can be anchored as a comment.    *)
Begin(j) ==
  \E d \in Diffs, h \in Hunkings, reported, anchored \in SUBSET Sites :
    /\ \A s \in reported : d[s] # "absent"
    /\ \A s \in anchored : s \in reported /\ d[s] = "present"
    /\ Room(anchored)
    /\ Become(j, Started(d, h, reported, anchored))

StartRun(j) ==
  /\ run[j].pc = "idle"
  /\ ~ Overlap => \A i \in Jobs : run[i].pc = "idle"
  /\ clock < MaxRuns
  /\ clock' = clock + 1
  /\ Begin(j)
  /\ \E st \in (IF Persist THEN {cache, EmptyStore} ELSE {EmptyStore}) :
       store' = [store EXCEPT ![j] = st]
  /\ UNCHANGED <<thread, cache>>

\* Fault: only the fingerprint taken without a diff is looked up.
MatchedByLineOnly(prior, h, s) == prior[LocFp[s]].tid # 0

\* A finding is not posted when its hunk or its line already has a comment.
Matched(prior, h, s) == prior[h[s]].tid # 0 \/ prior[LocFp[s]].tid # 0

WithPrior(r, prior) ==
  [r EXCEPT !.pc = "post", !.prior = prior,
            !.todo = {s \in r.found : ~ Matched(prior, r.hunk, s)},
            !.checks = {k \in Fps : prior[k].tid # 0} \ r.seen]

(* build_prior, once per job; both loops below work from its result.  The  *)
(* listing may fail as a whole, the replies of any thread on their own.    *)
Scan(j) ==
  /\ run[j].pc = "scan"
  /\ \E listed \in {Listing} \cup (IF "scan" \in Env THEN {{}} ELSE {}) :
       \E heard \in (IF "scan" \in Env THEN SUBSET listed ELSE {listed}) :
         \E first \in [Fps -> 0..MaxThreads] :
           /\ FirstListed(first, listed)
           /\ Become(j, WithPrior(run[j], BuildPrior(store[j], first, heard)))
  /\ UNCHANGED <<clock, thread, store, cache>>

-----------------------------------------------------------------------------
(* Posting.  A call may fail, or succeed with its response lost ("lost").  *)

Create(j, t, s) ==
  thread' = [thread EXCEPT ![t] = NewThread("revue", s, run[j].hunk[s])]

\* The comment is accepted and recorded: post_review_comment_with_params, save_finding.
Posted(j, s) ==
  \E t \in Tids :
    /\ Fresh(t)
    /\ Create(j, t, s)
    /\ store' = [store EXCEPT ![j] = SaveFinding(@, run[j].hunk[s], t, s)]

PostComment(j, s) ==
  /\ run[j].pc = "post" /\ s \in run[j].todo
  /\ Posted(j, s)
  /\ Become(j, [run[j] EXCEPT !.todo = @ \ {s}])
  /\ UNCHANGED <<clock, cache>>

PostFails(j, s) ==
  /\ run[j].pc = "post" /\ s \in run[j].todo
  /\ \/ "post" \in Env /\ UNCHANGED thread
     \/ "lost" \in Env /\ \E t \in Tids : Fresh(t) /\ Create(j, t, s)
  /\ Become(j, [run[j] EXCEPT !.todo = @ \ {s}, !.flaw = TRUE])
  /\ UNCHANGED <<clock, store, cache>>

\* The comment limit is hit: the first time in a job, make room and try once more.
PostLimited(j, s) ==
  /\ run[j].pc = "post" /\ s \in run[j].todo
  /\ Limited /\ "limit" \in Env
  /\ IF run[j].evicted
     THEN Become(j, [run[j] EXCEPT !.todo = @ \ {s}, !.flaw = TRUE])
     ELSE Become(j, [run[j] EXCEPT !.todo = @ \ {s}, !.pc = "evict", !.site = s,
                                   !.evicted = TRUE])
  /\ UNCHANGED <<clock, thread, store, cache>>

Silenced(c) == [c EXCEPT !.sent = "none", !.ts = 0, !.tick = FALSE]
Deleted(c) == [Silenced(c) EXCEPT !.by = "deleted"]

(* evict_resolved_revue_comments deletes the replies of a thread first and *)
(* its comment last; a deletion that fails ("evict") leaves what is left.  *)
Evict(j) ==
  /\ run[j].pc = "evict"
  /\ \E gone \in SUBSET Evictable : \E mute \in SUBSET (Evictable \ gone) :
       /\ "evict" \in Env \/ (gone = Evictable /\ mute = {})
       /\ thread' = [t \in Tids |-> IF t \in gone THEN Deleted(thread[t])
                                    ELSE IF t \in mute THEN Silenced(thread[t]) ELSE thread[t]]
       /\ IF gone = {} THEN Become(j, [run[j] EXCEPT !.pc = "post", !.flaw = TRUE])
          ELSE Become(j, [run[j] EXCEPT !.pc = "retry"])
  /\ UNCHANGED <<clock, store, cache>>

RetryPost(j) ==
  /\ run[j].pc = "retry"
  /\ \/ /\ Posted(j, run[j].site)
        /\ Become(j, [run[j] EXCEPT !.pc = "post"])
     \/ /\ \/ {"post", "limit"} \cap Env # {} /\ UNCHANGED thread
           \/ "lost" \in Env /\ \E t \in Tids : Fresh(t) /\ Create(j, t, run[j].site)
        /\ Become(j, [run[j] EXCEPT !.pc = "post", !.flaw = TRUE])
        /\ UNCHANGED store
  /\ UNCHANGED <<clock, cache>>

\* Fault: the posting loop is left early.
EndPostsEarly(j) ==
  /\ run[j].pc = "post"
  /\ Become(j, [run[j] EXCEPT !.pc = "check"])
  /\ UNCHANGED <<clock, thread, store, cache>>

EndPosts(j) ==
  /\ run[j].pc = "post" /\ run[j].todo = {}
  /\ Become(j, [run[j] EXCEPT !.pc = "check"])
  /\ UNCHANGED <<clock, thread, store, cache>>

-----------------------------------------------------------------------------
(* The AC5 loop over the prior findings that were not reported again.      *)

\* A located entry is passed over when its file is not part of the push.
Touched(e, d) == ~ e.loc \/ d[e.site] # "absent"

\* Fault: the sentinel of an earlier resolution is not consulted.
StatusWithoutSentinel(e, d) ==
  IF e.res THEN "platform_resolved"
  ELSE IF ~ e.loc \/ d[e.site] = "absent" THEN "untouched"
  ELSE IF d[e.site] = "gone" THEN "code_removed"
  ELSE "changed"

\* Fault: a follow-up is taken for a final answer.
StatusFollowUpFinal(e, d) ==
  IF e.res THEN "platform_resolved"
  ELSE IF e.sent = "auto" THEN "auto_resolved"
  ELSE IF ~ e.loc \/ d[e.site] = "absent" \/ e.sent = "follow_up" THEN "untouched"
  ELSE IF d[e.site] = "gone" THEN "code_removed"
  ELSE "changed"

\* HunkTracker.resolution_status up to the first call it makes.
Status(e, d) ==
  IF e.res THEN "platform_resolved"
  ELSE IF e.sent = "auto" THEN "auto_resolved"
  ELSE IF ~ e.loc \/ d[e.site] = "absent" THEN "untouched"
  ELSE IF d[e.site] = "gone" THEN "code_removed"
  ELSE "changed"

StatusOf(j, k) == Status(run[j].prior[k], run[j].diff)
Checking(j, k) == run[j].pc = "check" /\ k \in run[j].checks
Checked(j, k) == [run[j] EXCEPT !.checks = @ \ {k}]

Answering(j, k, what) ==
  Become(j, [run[j] EXCEPT !.checks = @ \ {k}, !.pc = "reply", !.key = k, !.say = what])

Mark(j, k) == store' = [store EXCEPT ![j] = MarkResolved(@, run[j].prior[k], k)]

\* The file was not touched, or nothing is to be done.
PassOver(j, k) ==
  /\ Checking(j, k)
  /\ \/ ~ Touched(run[j].prior[k], run[j].diff)
     \/ UseNova /\ StatusOf(j, k) \in {"platform_resolved", "untouched"}
  /\ Become(j, Checked(j, k))
  /\ UNCHANGED <<clock, thread, store, cache>>

\* AUTO_RESOLVED: an earlier job has answered; the store catches up.
CatchUp(j, k) ==
  /\ Checking(j, k) /\ Touched(run[j].prior[k], run[j].diff)
  /\ UseNova /\ StatusOf(j, k) = "auto_resolved"
  /\ Become(j, Checked(j, k))
  /\ Mark(j, k)
  /\ UNCHANGED <<clock, thread, cache>>

\* Fault: the store is marked before the reply is made.
DecideMarksFirst(j, k) ==
  /\ Checking(j, k) /\ Touched(run[j].prior[k], run[j].diff)
  /\ UseNova
  /\ \/ /\ StatusOf(j, k) \in {"code_removed", "changed"}
        /\ Answering(j, k, "auto")
        /\ Mark(j, k)
     \/ /\ StatusOf(j, k) = "changed"
        /\ Answering(j, k, "follow_up")
        /\ UNCHANGED store
  /\ UNCHANGED <<clock, thread, cache>>

\* CODE_REMOVED, or CHANGED with Nova's verdict: _auto_resolve and _call_nova.
Decide(j, k) ==
  /\ Checking(j, k) /\ Touched(run[j].prior[k], run[j].diff)
  /\ UseNova
  /\ \/ StatusOf(j, k) \in {"code_removed", "changed"} /\ Answering(j, k, "auto")
     \/ StatusOf(j, k) = "changed" /\ Answering(j, k, "follow_up")
  /\ UNCHANGED <<clock, thread, store, cache>>

NovaFails(j, k) ==
  /\ Checking(j, k) /\ Touched(run[j].prior[k], run[j].diff)
  /\ UseNova /\ "nova" \in Env /\ StatusOf(j, k) = "changed"
  /\ Become(j, [Checked(j, k) EXCEPT !.flaw = TRUE])
  /\ UNCHANGED <<clock, thread, store, cache>>

\* NullHunkTracker.resolution_status resolves whatever it is asked about.
DecideNull(j, k) ==
  /\ Checking(j, k) /\ Touched(run[j].prior[k], run[j].diff)
  /\ ~ UseNova
  /\ Answering(j, k, "plain")
  /\ UNCHANGED <<clock, thread, store, cache>>

Target(j) == run[j].prior[run[j].key].tid

\* Fault: the sentinel carries the time of the job to come.
AnsweredAhead(c, say) ==
  [c EXCEPT !.tick = @ \/ say # "follow_up",
            !.sent = IF say # "plain" THEN say ELSE @,
            !.ts = IF say # "plain" THEN clock + 1 ELSE @]

\* A thread after a reply.  A check mark goes with a resolution, a sentinel with Nova.
Answered(c, say) ==
  [c EXCEPT !.tick = @ \/ say # "follow_up",
            !.sent = IF say # "plain" /\ clock > c.ts THEN say ELSE @,
            !.ts = IF say # "plain" /\ clock > c.ts THEN clock ELSE @]

ReplyLands(j) ==
  /\ Live(Target(j))
  /\ thread' = [thread EXCEPT ![Target(j)] = Answered(@, run[j].say)]

Reply(j) ==
  /\ run[j].pc = "reply"
  /\ ReplyLands(j)
  /\ Become(j, [run[j] EXCEPT !.pc = IF run[j].say = "follow_up" THEN "check" ELSE "resolve"])
  /\ UNCHANGED <<clock, store, cache>>

\* REPLY_FAILED; a deleted thread cannot be replied to.
ReplyFails(j) ==
  /\ run[j].pc = "reply"
  /\ \/ ("reply" \in Env \/ ~ Live(Target(j))) /\ UNCHANGED thread
     \/ "lost" \in Env /\ ReplyLands(j)
  /\ Become(j, [run[j] EXCEPT !.pc = "check", !.flaw = TRUE])
  /\ UNCHANGED <<clock, store, cache>>

ShutBy(c, who) == [c EXCEPT !.closed = IF @ \in {"revue", "human"} THEN @ ELSE who]
Shut(t, who) == thread' = [thread EXCEPT ![t] = ShutBy(@, who)]

\* RESOLVE_REPLY_POSTED: resolving a thread that is already resolved is a success.
Resolve(j) ==
  /\ run[j].pc = "resolve"
  /\ Live(Target(j))
  /\ Shut(Target(j), "revue")
  /\ Mark(j, run[j].key)
  /\ Become(j, [run[j] EXCEPT !.pc = "check"])
  /\ UNCHANGED <<clock, cache>>

\* The reply stands, its thread may stay open, and the caller is told of a failure.
ResolveFails(j) ==
  /\ run[j].pc = "resolve"
  /\ \/ ("resolve" \in Env \/ ~ Live(Target(j))) /\ UNCHANGED thread
     \/ "lost" \in Env /\ Live(Target(j)) /\ Shut(Target(j), "revue")
  /\ Become(j, [run[j] EXCEPT !.pc = "check", !.flaw = TRUE])
  /\ UNCHANGED <<clock, store, cache>>

\* A job that ends well saves its workspace; one that dies saves nothing.
Finish(j) ==
  /\ run[j].pc = "check" /\ run[j].checks = {}
  /\ cache' = IF Persist THEN store[j] ELSE cache
  /\ Become(j, IdleRun)
  /\ store' = [store EXCEPT ![j] = EmptyStore]
  /\ UNCHANGED <<clock, thread>>

Crash(j) ==
  /\ run[j].pc # "idle" /\ "crash" \in Env
  /\ Become(j, IdleRun)
  /\ store' = [store EXCEPT ![j] = EmptyStore]
  /\ UNCHANGED <<clock, thread, cache>>

-----------------------------------------------------------------------------
(* People on the pull request.                                             *)

Reopened(c) == [c EXCEPT !.closed = "reopened"]
Ticked(c) == [c EXCEPT !.tick = TRUE]

HumanCloses(t) ==
  /\ "close" \in Env /\ Live(t) /\ ~ Closed(t)
  /\ Shut(t, "human")
  /\ UNCHANGED <<clock, run, store, cache>>

HumanReopens(t) ==
  /\ "close" \in Env /\ Live(t) /\ Closed(t)
  /\ thread' = [thread EXCEPT ![t] = Reopened(@)]
  /\ UNCHANGED <<clock, run, store, cache>>

\* A reply that happens to contain the mark eviction looks for.
HumanTicks(t) ==
  /\ "tick" \in Env /\ Live(t) /\ ~ thread[t].tick
  /\ thread' = [thread EXCEPT ![t] = Ticked(@)]
  /\ UNCHANGED <<clock, run, store, cache>>

\* An inline comment of a reviewer's; Strategy 2 gives it its line's fingerprint.
HumanComments(s) ==
  /\ "comment" \in Env /\ Located
  /\ \A j \in Jobs : run[j].pc = "idle"
  /\ \E t \in Tids :
       Fresh(t) /\ thread' = [thread EXCEPT ![t] = NewThread("human", s, LocFp[s])]
  /\ UNCHANGED <<clock, run, store, cache>>

-----------------------------------------------------------------------------
JobStep(j) ==
  \/ Scan(j)
  \/ \E s \in Sites : PostComment(j, s) \/ PostFails(j, s) \/ PostLimited(j, s)
  \/ Evict(j) \/ RetryPost(j) \/ EndPosts(j)
  \/ \E k \in Fps : \/ PassOver(j, k) \/ CatchUp(j, k) \/ Decide(j, k)
                    \/ NovaFails(j, k) \/ DecideNull(j, k)
  \/ Reply(j) \/ ReplyFails(j) \/ Resolve(j) \/ ResolveFails(j) \/ Finish(j)

Human ==
  \/ \E t \in Tids : HumanCloses(t) \/ HumanReopens(t) \/ HumanTicks(t)
  \/ \E s \in Sites : HumanComments(s)

Next ==
  \/ \E j \in Jobs : StartRun(j) \/ JobStep(j) \/ Crash(j)
  \/ Human

Spec == Init /\ [][Next]_vars

-----------------------------------------------------------------------------
(* Properties.                                                             *)

\* Every variable stays in its range.
TypeOK ==
  /\ clock \in 0..MaxRuns
  /\ thread \in [Tids -> Threads]
  /\ run \in [Jobs -> Runs]
  /\ store \in [Jobs -> [Fps -> StoreEntries]]
  /\ cache \in [Fps -> StoreEntries]

KeyAnswer(k) ==
  LET bearing == {t \in Tids : Live(t) /\ thread[t].fp = k}
  IN  IF bearing = {} THEN "unposted"
      ELSE IF LatestSentinel(k, bearing) = "none" THEN "open"
      ELSE LatestSentinel(k, bearing)

Visible ==
  {c \in {"finding", "answer"} \X Tids :
     Live(c[2]) /\ (c[1] = "answer" => thread[c[2]].ts > 0)}

PF == INSTANCE PriorFinding
        WITH answer <- [k \in Fps |-> KeyAnswer(k)], comments <- Visible,
             Comments <- {"finding", "answer"} \X Tids

\* The answers a reader of the pull request sees only move forward, and "resolved"
\* is final, through any sequence of jobs, lost responses, crashes, evictions and
\* human actions: HunkTracker.build_prior restores from the replies alone what
\* resolution_status needs to know ("Terminal forever", path 2 of the state machine).
AnswersMoveForward == PF!Spec

\* However many jobs report it, a finding has one comment of Revue's: the scan
\* recognises it again although the store is empty in every job.
OneThreadPerFinding ==
  \A t, u \in Tids :
    thread[t].by = "revue" /\ thread[u].by = "revue" /\ thread[t].site = thread[u].site
      => t = u

\* A job in which no call failed has answered "resolved" for every prior finding it
\* has looked at whose code the push removed: path 4, and path 11 after a follow-up.
RemovedCodeIsAnswered ==
  \A j \in Jobs : \A k \in Fps :
    LET r == run[j]  e == run[j].prior[k]
    IN  /\ r.pc \in {"check", "reply", "resolve"} /\ ~ r.flaw /\ ~ r.evicted
        /\ e.tid # 0 /\ k \notin r.seen \cup r.checks /\ ~ (r.pc = "reply" /\ r.key = k)
        /\ e.loc /\ ~ e.res /\ r.diff[e.site] = "gone"
        => KeyAnswer(k) = "auto"

\* When a job without failures has posted, every finding it reported can be read on
\* the pull request: what deduplication skipped really has a live comment on its
\* hunk or line, whatever the other job did and whatever the store remembered.
ReportedIsVisible ==
  \A j \in Jobs : \A s \in run[j].found :
    run[j].pc = "check" /\ ~ run[j].flaw /\ ~ run[j].evicted
      => \E t \in Tids : Live(t) /\ thread[t].fp \in {run[j].hunk[s], LocFp[s]}

\* The store CI carries over never says "auto_resolved" of a finding whose thread
\* does not say so too: a job that dies or fails half-way leaves it behind, not ahead.
StoreNotAhead ==
  \A k \in Fps : cache[k].st = "auto_resolved" => KeyAnswer(k) = "auto"

\* The state machine's paths 8 and 9 ("reply/resolve API fails ... No sentinel.
\* Retried next run"): a sentinel "auto_resolved" is only ever seen between jobs on
\* a thread that was resolved.
SentinelMeansResolved ==
  (\A j \in Jobs : run[j].pc = "idle")
    => \A t \in Tids : Live(t) /\ thread[t].sent = "auto" => thread[t].closed # "open"

\* "A human made a deliberate decision. Revue must not override it": no reply goes
\* to a thread that a human had already closed when the job looked at it.
HumanDecisionStands ==
  \A j \in Jobs : run[j].pc = "reply" => run[j].prior[run[j].key].shut # "human"
=============================================================================
