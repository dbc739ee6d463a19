--------------------------- MODULE PrReviewProofs ---------------------------
(***************************************************************************)
(* Proofs about PrReview, for any number of lines, fingerprints, threads   *)
(* and jobs.                                                               *)
(***************************************************************************)
EXTENDS PrReview, TLAPS

\* What the answers rest on: jobs do not overlap and a scan sees everything.
SoundScan ==
  /\ ~ Overlap
  /\ "scan" \notin Env
  /\ Located \/ Window >= MaxThreads

\* Posting never meets a limit that makes room by deleting comments.
NoEviction == ~ Limited \/ "limit" \notin Env

Bears(t, k) == Live(t) /\ thread[t].fp = k
Idle(j) == run[j].pc = "idle"
Scanned(j) == run[j].pc \notin {"idle", "scan"}

OneJob ==
  \A i, j \in Jobs : ~ Idle(i) => clock > 0 /\ (~ Idle(j) => i = j)

\* Only live comments carry sentinels, and no sentinel is from the future.
SentinelTimes ==
  \A t \in Tids :
    /\ thread[t].sent = "none" <=> thread[t].ts = 0
    /\ thread[t].ts > 0 => Live(t)
    /\ thread[t].ts <= clock

\* Within a hunk, nothing was said after, or at the time of, "resolved".
AutoIsLast ==
  \A t, u \in Tids :
    thread[t].sent = "auto" /\ t # u /\ thread[t].fp = thread[u].fp
      => thread[u].ts < thread[t].ts

\* Whatever refers to a thread by a fingerprint refers to one that carries it.
PointsTo(tid, k) == tid \in Tids /\ thread[tid].by # "none" /\ thread[tid].fp = k
StorePoints ==
  \A k \in Fps :
    /\ cache[k].st # "none" => PointsTo(cache[k].tid, k)
    /\ \A j \in Jobs : store[j][k].st # "none" => PointsTo(store[j][k].tid, k)
PriorPoints ==
  \A j \in Jobs : \A k \in Fps :
    Scanned(j) /\ run[j].prior[k].tid # 0 => PointsTo(run[j].prior[k].tid, k)

\* The keys a job may still answer.
Pending(j) ==
  run[j].checks \cup
    (IF run[j].pc = "reply" /\ run[j].say # "plain" THEN {run[j].key} ELSE {})

Answerable(k) == \A t \in Tids : thread[t].fp = k => thread[t].sent # "auto" /\ thread[t].ts < clock

\* The snapshot of a job is still true of the keys it has not answered yet.
SnapshotHolds ==
  \A j \in Jobs :
    /\ run[j].pc = "scan" => \A t \in Tids : thread[t].ts < clock
    /\ Scanned(j) => \A k \in Pending(j) : run[j].prior[k].sent # "auto" => Answerable(k)

Replying ==
  \A j \in Jobs :
    /\ Scanned(j) => \A k \in run[j].checks : run[j].prior[k].tid # 0
    /\ run[j].pc \in {"reply", "resolve"} => run[j].prior[run[j].key].tid # 0
    /\ run[j].pc = "reply" => run[j].key \notin run[j].checks
    /\ run[j].pc = "reply" /\ run[j].say # "plain" => run[j].prior[run[j].key].sent # "auto"

IInv ==
  /\ TypeOK /\ OneJob /\ SentinelTimes /\ AutoIsLast /\ StorePoints
  /\ PriorPoints /\ SnapshotHolds /\ Replying

-----------------------------------------------------------------------------
LEMMA Constants ==
  /\ AnySite \in Sites /\ AnyFp \in Fps
  /\ NoThread \in Threads /\ NoEntry \in Entries /\ IdleRun \in Runs
  /\ EmptyStore \in [Fps -> StoreEntries]
<1>1. AnySite \in Sites /\ AnyFp \in Fps
  BY SitesAssumption DEF AnySite, AnyFp
<1>2. NoThread \in Threads
  BY <1>1, BoundsAssumption DEF NoThread, Threads, Says, Closures
<1>3. NoEntry \in Entries
  BY <1>1, BoundsAssumption DEF NoEntry, Entries, Says, Closures
<1>4. NoStoreEntry \in StoreEntries
  BY <1>1, BoundsAssumption DEF NoStoreEntry, StoreEntries
<1>5. IdleRun \in Runs
  BY <1>1, <1>3, FpAssumption DEF IdleRun, Runs, LineStates, Phases
<1>6. QED
  BY <1>1, <1>2, <1>3, <1>4, <1>5 DEF EmptyStore

LEMMA NewThreadType ==
  ASSUME NEW who \in {"revue", "human"}, NEW s \in Sites, NEW k \in Fps
  PROVE  NewThread(who, s, k) \in Threads
BY Constants DEF NewThread, Threads

LEMMA StoreTypes ==
  ASSUME NEW st \in [Fps -> StoreEntries], NEW k \in Fps
  PROVE  /\ \A t \in Tids, s \in Sites : SaveFinding(st, k, t, s) \in [Fps -> StoreEntries]
         /\ \A e \in Entries : MarkResolved(st, e, k) \in [Fps -> StoreEntries]
BY BoundsAssumption DEF SaveFinding, MarkResolved, StoreEntries, Tids

LEMMA PriorType ==
  ASSUME TypeOK, NEW st \in [Fps -> StoreEntries], NEW heard \in SUBSET Tids,
         NEW first \in [Fps -> 0..MaxThreads]
  PROVE  BuildPrior(st, first, heard) \in [Fps -> Entries]
<1>1. \A k \in Fps : LatestSentinel(k, heard) \in Says
  BY DEF LatestSentinel, Says
<1>2. \A t \in Tids : thread[t] \in Threads
  BY DEF TypeOK
<1>3. \A k \in Fps, e \in StoreEntries : LocalEntry(k, e, heard) \in Entries
  BY <1>1, <1>2, BoundsAssumption DEF LocalEntry, Entries, StoreEntries, Threads, Tids, Closures
<1>4. \A k \in Fps, t \in Tids : ApiEntry(k, t, heard) \in Entries
  BY <1>1, <1>2, BoundsAssumption
  DEF ApiEntry, Entries, Threads, Tids, Located, SeesResolved, Closed
<1>5. QED
  BY <1>3, <1>4, Constants, BoundsAssumption DEF BuildPrior, Tids

LEMMA RunTypes ==
  ASSUME TypeOK, NEW j \in Jobs
  PROVE  run[j] \in Runs
BY DEF TypeOK

\* Every update an action makes of a job's state keeps its type.
LEMMA RunUpdates ==
  ASSUME NEW r \in Runs
  PROVE  /\ \A p \in Phases : /\ [r EXCEPT !.pc = p] \in Runs
                              /\ [r EXCEPT !.pc = p, !.flaw = TRUE] \in Runs
         /\ \A s \in Sites :
              /\ [r EXCEPT !.todo = @ \ {s}] \in Runs
              /\ [r EXCEPT !.todo = @ \ {s}, !.flaw = TRUE] \in Runs
              /\ [r EXCEPT !.todo = @ \ {s}, !.pc = "evict", !.site = s, !.evicted = TRUE] \in Runs
         /\ \A k \in Fps :
              /\ [r EXCEPT !.checks = @ \ {k}] \in Runs
              /\ [[r EXCEPT !.checks = @ \ {k}] EXCEPT !.flaw = TRUE] \in Runs
              /\ \A w \in {"plain", "follow_up", "auto"} :
                   [r EXCEPT !.checks = @ \ {k}, !.pc = "reply", !.key = k, !.say = w] \in Runs
BY ZenonT(40) DEF Runs, Phases

LEMMA Becoming ==
  ASSUME TypeOK, NEW j \in Jobs, NEW r \in Runs, Become(j, r)
  PROVE  run' \in [Jobs -> Runs]
BY DEF TypeOK, Become

-----------------------------------------------------------------------------
LEMMA TypeInit == Init => TypeOK
BY Constants, BoundsAssumption DEF Init, TypeOK, Tids

LEMMA TypeStart ==
  ASSUME TypeOK, NEW j \in Jobs, StartRun(j)
  PROVE  TypeOK'
<1>b. Begin(j)
  BY DEF StartRun
<1>1. PICK d \in Diffs, h \in Hunkings, reported \in SUBSET Sites, anchored \in SUBSET Sites :
        /\ Room(anchored)
        /\ Become(j, Started(d, h, reported, anchored))
  BY <1>b, Zenon DEF Begin
<1>2. d \in [Sites -> LineStates] /\ h \in [Sites -> Fps]
  BY FpAssumption DEF Diffs
<1>3. Started(d, h, reported, anchored) \in Runs
  <2> DEFINE fps == {h[s] : s \in reported}
  <2>1. fps \in SUBSET Fps
    BY <1>2
  <2>2. Started(d, h, reported, anchored) =
          [IdleRun EXCEPT !.pc = "scan", !.diff = d, !.hunk = h, !.found = anchored, !.seen = fps]
    BY DEF Started
  <2> HIDE DEF fps
  <2>3. QED
    BY <1>2, <2>1, <2>2, Constants DEF Runs, Phases
<1>4. run' \in [Jobs -> Runs]
  BY <1>1, <1>3 DEF TypeOK, Become
<1>5. store' \in [Jobs -> [Fps -> StoreEntries]]
  BY Constants DEF StartRun, TypeOK
<1>6. clock' \in 0..MaxRuns
  BY BoundsAssumption DEF StartRun, TypeOK
<1>7. QED
  BY <1>4, <1>5, <1>6 DEF StartRun, TypeOK

LEMMA TypeScan ==
  ASSUME TypeOK, NEW j \in Jobs, Scan(j)
  PROVE  TypeOK'
<1>1. PICK heard \in SUBSET Tids, first \in [Fps -> 0..MaxThreads] :
        Become(j, WithPrior(run[j], BuildPrior(store[j], first, heard)))
  BY DEF Scan, Listing
<1>2. BuildPrior(store[j], first, heard) \in [Fps -> Entries]
  BY PriorType DEF TypeOK
<1>3. WithPrior(run[j], BuildPrior(store[j], first, heard)) \in Runs
  BY <1>2, RunTypes, ZenonT(40) DEF WithPrior, Runs, Phases
<1>4. run' \in [Jobs -> Runs]
  BY <1>1, <1>3 DEF TypeOK, Become
<1>5. QED
  BY <1>4 DEF Scan, TypeOK

\* A new comment of Revue's has the right type.
LEMMA TypeCreate ==
  ASSUME TypeOK, NEW j \in Jobs, NEW t \in Tids, NEW s \in Sites, Create(j, t, s)
  PROVE  thread' \in [Tids -> Threads]
<1>1. run[j].hunk[s] \in Fps
  BY DEF TypeOK, Runs
<1>2. QED
  BY <1>1, NewThreadType DEF Create, TypeOK

LEMMA TypePosted ==
  ASSUME TypeOK, NEW j \in Jobs, NEW s \in Sites, Posted(j, s)
  PROVE  /\ thread' \in [Tids -> Threads]
         /\ store' \in [Jobs -> [Fps -> StoreEntries]]
<1>1. PICK t \in Tids : Create(j, t, s) /\ store' = [store EXCEPT ![j] = SaveFinding(@, run[j].hunk[s], t, s)]
  BY DEF Posted
<1>2. run[j].hunk[s] \in Fps /\ store[j] \in [Fps -> StoreEntries]
  BY DEF TypeOK, Runs
<1>3. SaveFinding(store[j], run[j].hunk[s], t, s) \in [Fps -> StoreEntries]
  BY <1>2, StoreTypes
<1>4. QED
  BY <1>1, <1>3, TypeCreate DEF TypeOK

LEMMA TypePost ==
  ASSUME TypeOK, NEW j \in Jobs, NEW s \in Sites,
         PostComment(j, s) \/ PostFails(j, s) \/ PostLimited(j, s)
  PROVE  TypeOK'
<1>1. run' \in [Jobs -> Runs]
  BY RunTypes, RunUpdates, Becoming DEF PostComment, PostFails, PostLimited
<1>2. CASE PostComment(j, s)
  BY <1>1, <1>2, TypePosted DEF PostComment, TypeOK
<1>3. CASE PostFails(j, s)
  <2>1. thread' \in [Tids -> Threads]
    BY <1>3, TypeCreate DEF PostFails, TypeOK
  <2>2. QED
    BY <1>1, <1>3, <2>1 DEF PostFails, TypeOK
<1>4. CASE PostLimited(j, s)
  BY <1>1, <1>4 DEF PostLimited, TypeOK
<1>5. QED
  BY <1>2, <1>3, <1>4

LEMMA TypeEvict ==
  ASSUME TypeOK, NEW j \in Jobs, Evict(j)
  PROVE  TypeOK'
<1>1. 0 \in 0..MaxRuns /\ "none" \in Says
  BY BoundsAssumption DEF Says
<1>a. \A c \in Threads : Silenced(c) \in Threads
  BY <1>1 DEF Threads, Silenced
<1>b. \A c \in Threads : [c EXCEPT !.by = "deleted"] \in Threads
  BY DEF Threads
<1>2. thread' \in [Tids -> Threads]
  BY <1>a, <1>b DEF Evict, Deleted, TypeOK
<1>3. run' \in [Jobs -> Runs]
  BY RunTypes, RunUpdates, Becoming DEF Evict, Phases
<1>4. QED
  BY <1>2, <1>3 DEF Evict, TypeOK

LEMMA TypeRetry ==
  ASSUME TypeOK, NEW j \in Jobs, RetryPost(j)
  PROVE  TypeOK'
<1>1. run[j].site \in Sites
  BY DEF TypeOK, Runs
<1>2. run' \in [Jobs -> Runs]
  BY RunTypes, RunUpdates, Becoming DEF RetryPost, Phases
<1>3. thread' \in [Tids -> Threads] /\ store' \in [Jobs -> [Fps -> StoreEntries]]
  BY <1>1, TypePosted, TypeCreate DEF RetryPost, TypeOK
<1>4. QED
  BY <1>2, <1>3 DEF RetryPost, TypeOK

LEMMA TypeMark ==
  ASSUME TypeOK, NEW j \in Jobs, NEW k \in Fps, Mark(j, k)
  PROVE  store' \in [Jobs -> [Fps -> StoreEntries]]
<1>1. run[j].prior[k] \in Entries /\ store[j] \in [Fps -> StoreEntries]
  BY DEF TypeOK, Runs
<1>2. MarkResolved(store[j], run[j].prior[k], k) \in [Fps -> StoreEntries]
  BY <1>1, StoreTypes
<1>3. QED
  BY <1>2 DEF Mark, TypeOK

LEMMA TypeCheck ==
  ASSUME TypeOK, NEW j \in Jobs, NEW k \in Fps,
         \/ PassOver(j, k) \/ CatchUp(j, k) \/ Decide(j, k)
         \/ NovaFails(j, k) \/ DecideNull(j, k)
  PROVE  TypeOK'
<1>1. run' \in [Jobs -> Runs]
  BY RunTypes, RunUpdates, Becoming
  DEF PassOver, CatchUp, Decide, NovaFails, DecideNull, Checked, Answering
<1>2. store' \in [Jobs -> [Fps -> StoreEntries]]
  BY TypeMark DEF PassOver, CatchUp, Decide, NovaFails, DecideNull, TypeOK
<1>3. QED
  BY <1>1, <1>2 DEF PassOver, CatchUp, Decide, NovaFails, DecideNull, TypeOK

LEMMA AnsweredType ==
  ASSUME TypeOK, NEW c \in Threads, NEW w \in {"plain", "follow_up", "auto"}
  PROVE  Answered(c, w) \in Threads
BY BoundsAssumption DEF TypeOK, Threads, Answered, Says

LEMMA TypeReply ==
  ASSUME TypeOK, NEW j \in Jobs, Reply(j) \/ ReplyFails(j)
  PROVE  TypeOK'
<1>1. run[j].say \in {"plain", "follow_up", "auto"}
  BY DEF TypeOK, Runs
<1>2. ReplyLands(j) => thread' \in [Tids -> Threads]
  BY <1>1, AnsweredType, ZenonT(40) DEF ReplyLands, TypeOK
<1>3. run' \in [Jobs -> Runs]
  BY RunTypes, RunUpdates, Becoming DEF Reply, ReplyFails, Phases
<1>4. QED
  BY <1>2, <1>3 DEF Reply, ReplyFails, TypeOK

LEMMA TypeShut ==
  ASSUME TypeOK, NEW t, NEW who \in Closures, Shut(t, who)
  PROVE  thread' \in [Tids -> Threads]
<1>1. \A c \in Threads : ShutBy(c, who) \in Threads
  BY DEF Threads, ShutBy
<1>2. QED
  BY <1>1 DEF Shut, TypeOK

LEMMA TypeResolve ==
  ASSUME TypeOK, NEW j \in Jobs, Resolve(j) \/ ResolveFails(j)
  PROVE  TypeOK'
<1>1. thread' \in [Tids -> Threads]
  BY TypeShut DEF Resolve, ResolveFails, Closures, TypeOK
<1>2. run' \in [Jobs -> Runs]
  BY RunTypes, RunUpdates, Becoming DEF Resolve, ResolveFails, Phases
<1>3. run[j].key \in Fps
  BY DEF TypeOK, Runs
<1>4. store' \in [Jobs -> [Fps -> StoreEntries]]
  BY <1>3, TypeMark DEF Resolve, ResolveFails, TypeOK
<1>5. QED
  BY <1>1, <1>2, <1>4 DEF Resolve, ResolveFails, TypeOK

LEMMA TypeEnd ==
  ASSUME TypeOK, NEW j \in Jobs, EndPosts(j) \/ Finish(j) \/ Crash(j)
  PROVE  TypeOK'
<1>1. run' \in [Jobs -> Runs]
  BY RunTypes, RunUpdates, Becoming, Constants DEF EndPosts, Finish, Crash, Phases
<1>2. store' \in [Jobs -> [Fps -> StoreEntries]] /\ cache' \in [Fps -> StoreEntries]
  BY Constants DEF EndPosts, Finish, Crash, TypeOK
<1>3. QED
  BY <1>1, <1>2 DEF EndPosts, Finish, Crash, TypeOK

LEMMA TypeHuman ==
  ASSUME TypeOK, Human
  PROVE  TypeOK'
<1>1. ASSUME NEW t \in Tids, HumanCloses(t)
      PROVE  TypeOK'
  BY <1>1, TypeShut DEF HumanCloses, TypeOK, Closures
<1>2. ASSUME NEW t \in Tids, HumanReopens(t) \/ HumanTicks(t)
      PROVE  TypeOK'
  <2>1. Reopened(thread[t]) \in Threads /\ Ticked(thread[t]) \in Threads
    BY DEF TypeOK, Threads, Closures, Reopened, Ticked
  <2>2. QED
    BY <1>2, <2>1 DEF HumanReopens, HumanTicks, TypeOK
<1>3. ASSUME NEW s \in Sites, HumanComments(s)
      PROVE  TypeOK'
  <2>1. NewThread("human", s, LocFp[s]) \in Threads
    BY NewThreadType, FpAssumption
  <2>2. QED
    BY <1>3, <2>1 DEF HumanComments, TypeOK
<1>4. QED
  BY <1>1, <1>2, <1>3 DEF Human

LEMMA TypeNext == TypeOK /\ [Next]_vars => TypeOK'
<1> SUFFICES ASSUME TypeOK, [Next]_vars PROVE TypeOK'
  OBVIOUS
<1>1. ASSUME NEW j \in Jobs, JobStep(j) PROVE TypeOK'
  BY <1>1, TypeScan, TypePost, TypeEvict, TypeRetry, TypeCheck, TypeReply, TypeResolve, TypeEnd
  DEF JobStep
<1>2. CASE UNCHANGED vars
  BY <1>2 DEF vars, TypeOK
<1>3. QED
  BY <1>1, <1>2, TypeStart, TypeEnd, TypeHuman DEF Next

\* Type correctness of PrReview.
THEOREM TypeCorrect == Spec => []TypeOK
BY TypeInit, TypeNext, PTL DEF Spec

-----------------------------------------------------------------------------
(* The inductive invariant.  All actions but a reply are gentle: they add  *)
(* comments without sentinels, or take sentinels away.                     *)

Gentle ==
  \A t \in Tids :
    /\ thread[t].by # "none" => thread'[t].by # "none" /\ thread'[t].fp = thread[t].fp
    /\ \/ thread'[t].ts = thread[t].ts /\ thread'[t].sent = thread[t].sent
       \/ thread'[t].ts = 0 /\ thread'[t].sent = "none"
    /\ thread'[t].ts > 0 => thread'[t].by \in {"revue", "human"}

LEMMA InvInit == Init => IInv
<1> SUFFICES ASSUME Init PROVE IInv
  OBVIOUS
<1>1. TypeOK
  BY TypeInit
<1>2. \A t \in Tids : thread[t].sent = "none" /\ thread[t].ts = 0
  BY DEF Init, NoThread
<1>3. \A j \in Jobs : run[j].pc = "idle"
  BY DEF Init, IdleRun
<1>4. cache = EmptyStore /\ \A j \in Jobs : store[j] = EmptyStore
  BY DEF Init
<1>5. \A k \in Fps : EmptyStore[k].st = "none"
  BY DEF EmptyStore, NoStoreEntry
<1>6. StorePoints
  BY <1>4, <1>5 DEF StorePoints
<1>7. SentinelTimes
  BY <1>2 DEF SentinelTimes, Init
<1>8. QED
  BY <1>1, <1>2, <1>3, <1>6, <1>7
  DEF IInv, OneJob, AutoIsLast, PriorPoints, SnapshotHolds, Replying, Idle, Scanned

LEMMA GentleKeeps ==
  ASSUME TypeOK, TypeOK', SentinelTimes, AutoIsLast, Gentle, clock' = clock
  PROVE  /\ SentinelTimes' /\ AutoIsLast'
         /\ \A tid, k : PointsTo(tid, k) => PointsTo(tid, k)'
         /\ clock > 0 => \A k \in Fps : Answerable(k) => Answerable(k)'
<1>1. \A t \in Tids : thread[t] \in Threads /\ thread'[t] \in Threads
  BY DEF TypeOK
<1>2. \A t \in Tids : thread[t].ts \in Nat /\ thread'[t].ts \in Nat
  BY <1>1, BoundsAssumption DEF Threads
<1>3. SentinelTimes'
  BY <1>2, BoundsAssumption DEF SentinelTimes, Gentle, Live, TypeOK
<1>4. \A t \in Tids : thread'[t].ts > 0 =>
        /\ thread'[t].ts = thread[t].ts /\ thread'[t].sent = thread[t].sent
        /\ thread'[t].fp = thread[t].fp
  BY <1>2 DEF Gentle, SentinelTimes, Live
<1>5. AutoIsLast'
  <2> SUFFICES ASSUME NEW t \in Tids, NEW u \in Tids, thread'[t].sent = "auto", t # u,
                      thread'[t].fp = thread'[u].fp
               PROVE  thread'[u].ts < thread'[t].ts
    BY DEF AutoIsLast
  <2>1. thread'[t].ts > 0
    BY <1>2, <1>3 DEF SentinelTimes
  <2>2. CASE thread'[u].ts > 0
    BY <2>1, <2>2, <1>4 DEF AutoIsLast
  <2>3. CASE thread'[u].ts = 0
    BY <2>1, <2>3
  <2>4. QED
    BY <1>2, <2>2, <2>3
<1>6. \A tid, k : PointsTo(tid, k) => PointsTo(tid, k)'
  BY DEF PointsTo, Gentle
<1>7. ASSUME clock > 0, NEW k \in Fps, Answerable(k)
      PROVE  Answerable(k)'
  <2> SUFFICES ASSUME NEW t \in Tids, thread'[t].fp = k
               PROVE  thread'[t].sent # "auto" /\ thread'[t].ts < clock
    BY DEF Answerable
  <2>1. CASE thread'[t].ts > 0
    BY <2>1, <1>4, <1>7 DEF Answerable
  <2>2. CASE thread'[t].ts = 0
    BY <2>2, <1>3, <1>7 DEF SentinelTimes
  <2>3. QED
    BY <1>2, <2>1, <2>2
<1>8. QED
  BY <1>3, <1>5, <1>6, <1>7

\* A job past its scan keeps its snapshot and answers no more keys than it had to.
LEMMA JobKeeps ==
  ASSUME IInv, TypeOK', NEW j \in Jobs, Scanned(j), NEW r \in Runs, Become(j, r), Gentle,
         clock' = clock, StorePoints', r.prior = run[j].prior, r.pc \notin {"idle", "scan"},
         r.checks \subseteq run[j].checks,
         r.pc = "reply" => /\ r.key \in run[j].checks \ r.checks
                           /\ r.say # "plain" => r.prior[r.key].sent # "auto",
         r.pc = "resolve" => r.prior[r.key].tid # 0
  PROVE  IInv'
<1>1. run'[j] = r /\ \A i \in Jobs \ {j} : run'[i] = run[i]
  BY DEF Become, IInv, TypeOK
<1>2. clock > 0 /\ \A i \in Jobs \ {j} : run[i].pc = "idle"
  BY DEF IInv, OneJob, Idle, Scanned
<1>3. /\ SentinelTimes' /\ AutoIsLast'
      /\ \A tid, k : PointsTo(tid, k) => PointsTo(tid, k)'
      /\ \A k \in Fps : Answerable(k) => Answerable(k)'
  BY <1>2, GentleKeeps DEF IInv
<1>4. OneJob'
  BY <1>1, <1>2 DEF OneJob, Idle
<1>5. PriorPoints'
  <2> SUFFICES ASSUME NEW i \in Jobs, NEW k \in Fps, Scanned(i)', run'[i].prior[k].tid # 0
               PROVE  PointsTo(run[i].prior[k].tid, k)'
    BY DEF PriorPoints
  <2>1. i = j
    BY <1>1, <1>2 DEF Scanned
  <2>2. run'[i].prior[k].tid = run[j].prior[k].tid
    BY <2>1, <1>1
  <2>3. PointsTo(run[j].prior[k].tid, k)
    BY <2>2 DEF IInv, PriorPoints
  <2>4. QED
    BY <2>2, <2>3, <1>3 DEF PointsTo
<1>6. Pending(j)' \subseteq run[j].checks
  BY <1>1 DEF Pending
<1>7. SnapshotHolds'
  <2> SUFFICES ASSUME NEW i \in Jobs
               PROVE  /\ run'[i].pc # "scan"
                      /\ Scanned(i)' => \A k \in Pending(i)' :
                           run'[i].prior[k].sent # "auto" => Answerable(k)'
    BY DEF SnapshotHolds
  <2>1. CASE i # j
    BY <2>1, <1>1, <1>2 DEF Scanned
  <2>2. CASE i = j
    <3>1. \A k \in Pending(j)' : k \in Fps /\ k \in Pending(j)
      BY <1>6 DEF Pending, IInv, TypeOK, Runs
    <3>2. QED
      BY <2>2, <3>1, <1>1, <1>3 DEF IInv, SnapshotHolds
  <2>3. QED
    BY <2>1, <2>2
<1>8. Replying'
  BY <1>1, <1>2 DEF Replying, Scanned, IInv
<1>9. QED
  BY <1>3, <1>4, <1>5, <1>7, <1>8 DEF IInv

LEMMA SameStores ==
  ASSUME StorePoints, Gentle, UNCHANGED <<store, cache>>
  PROVE  StorePoints'
BY DEF StorePoints, PointsTo, Gentle

LEMMA MarkPoints ==
  ASSUME IInv, TypeOK', NEW j \in Jobs, NEW k \in Fps, Mark(j, k), Gentle, cache' = cache
  PROVE  StorePoints'
<1>1. \A i \in Jobs, l \in Fps : store'[i][l].tid = store[i][l].tid
                                 /\ (store'[i][l].st # "none" => store[i][l].st # "none")
  BY DEF Mark, MarkResolved, IInv, TypeOK, StoreEntries
<1>2. QED
  BY <1>1 DEF StorePoints, PointsTo, Gentle, IInv

LEMMA CreateGentle ==
  ASSUME IInv, NEW t \in Tids, Fresh(t), NEW who \in {"revue", "human"}, NEW s \in Sites, NEW k \in Fps,
         thread' = [thread EXCEPT ![t] = NewThread(who, s, k)]
  PROVE  Gentle /\ PointsTo(t, k)'
<1>1. thread'[t].by = who /\ thread'[t].fp = k /\ thread'[t].ts = 0 /\ thread'[t].sent = "none"
  BY DEF NewThread, NoThread, IInv, TypeOK
<1>2. \A u \in Tids \ {t} : thread'[u] = thread[u]
  BY DEF IInv, TypeOK
<1>3. QED
  BY <1>1, <1>2 DEF Gentle, PointsTo, Fresh, IInv, SentinelTimes, Live

LEMMA PostedKeeps ==
  ASSUME IInv, NEW j \in Jobs, NEW s \in Sites, Posted(j, s), cache' = cache
  PROVE  Gentle /\ StorePoints'
<1>1. PICK t \in Tids : /\ Fresh(t) /\ Create(j, t, s)
                        /\ store' = [store EXCEPT ![j] = SaveFinding(@, run[j].hunk[s], t, s)]
  BY Zenon DEF Posted
<1>2. PICK k \in Fps : k = run[j].hunk[s]
  BY DEF IInv, TypeOK, Runs
<1>3. Gentle /\ PointsTo(t, k)'
  BY <1>1, <1>2, CreateGentle DEF Create
<1>4. \A l \in Fps : LET st == SaveFinding(store[j], k, t, s)
                     IN  st[l] = store[j][l] \/ (l = k /\ st[l].tid = t)
  BY DEF SaveFinding, IInv, TypeOK
<1>5. store'[j] = SaveFinding(store[j], k, t, s)
      /\ \A i \in Jobs \ {j} : store'[i] = store[i]
  BY <1>1, <1>2 DEF IInv, TypeOK
<1>6. \A i \in Jobs, l \in Fps : store'[i][l] = store[i][l] \/ (l = k /\ store'[i][l].tid = t)
  BY <1>4, <1>5
<1>7. QED
  BY <1>3, <1>6 DEF StorePoints, PointsTo, Gentle, IInv

LEMMA EvictGentle ==
  ASSUME IInv, NEW j \in Jobs, Evict(j)
  PROVE  Gentle
<1>1. \A t \in Tids : \/ thread'[t] = thread[t]
                      \/ thread'[t] = Deleted(thread[t])
                      \/ thread'[t] = Silenced(thread[t])
  BY DEF Evict
<1>2. \A c \in Threads : /\ Silenced(c).by = c.by /\ Silenced(c).fp = c.fp
                         /\ Silenced(c).ts = 0 /\ Silenced(c).sent = "none"
                         /\ Deleted(c).by = "deleted" /\ Deleted(c).fp = c.fp
                         /\ Deleted(c).ts = 0 /\ Deleted(c).sent = "none"
  BY DEF Silenced, Deleted, Threads
<1>3. \A t \in Tids : thread[t] \in Threads
  BY DEF IInv, TypeOK
<1>4. QED
  BY <1>1, <1>2, <1>3 DEF Gentle, IInv, SentinelTimes, Live

LEMMA SpeechGentle ==
  ASSUME IInv,
         \A t \in Tids : /\ thread'[t].by = thread[t].by /\ thread'[t].fp = thread[t].fp
                         /\ thread'[t].ts = thread[t].ts /\ thread'[t].sent = thread[t].sent
  PROVE  Gentle
BY DEF Gentle, IInv, SentinelTimes, Live

\* Closing a thread changes nothing of what it says.
LEMMA ShutSame ==
  ASSUME IInv, NEW t, NEW who, Shut(t, who)
  PROVE  \A u \in Tids : /\ thread'[u].by = thread[u].by /\ thread'[u].fp = thread[u].fp
                         /\ thread'[u].ts = thread[u].ts /\ thread'[u].sent = thread[u].sent
<1>1. \A c \in Threads : /\ ShutBy(c, who).by = c.by /\ ShutBy(c, who).fp = c.fp
                         /\ ShutBy(c, who).ts = c.ts /\ ShutBy(c, who).sent = c.sent
  BY DEF ShutBy, Threads
<1>2. QED
  BY <1>1 DEF Shut, IInv, TypeOK

\* Nor do a reopening and a check mark.
LEMMA MarksSame ==
  ASSUME IInv, NEW t \in Tids, HumanReopens(t) \/ HumanTicks(t)
  PROVE  \A u \in Tids : /\ thread'[u].by = thread[u].by /\ thread'[u].fp = thread[u].fp
                         /\ thread'[u].ts = thread[u].ts /\ thread'[u].sent = thread[u].sent
<1>1. \A u \in Tids : thread'[u] \in {thread[u], Reopened(thread[u]), Ticked(thread[u])}
  BY DEF HumanReopens, HumanTicks, IInv, TypeOK
<1>2. \A c \in Threads :
        /\ Reopened(c).by = c.by /\ Reopened(c).fp = c.fp
        /\ Reopened(c).ts = c.ts /\ Reopened(c).sent = c.sent
        /\ Ticked(c).by = c.by /\ Ticked(c).fp = c.fp
        /\ Ticked(c).ts = c.ts /\ Ticked(c).sent = c.sent
  BY DEF Threads, Reopened, Ticked
<1>3. QED
  BY <1>1, <1>2 DEF IInv, TypeOK

-----------------------------------------------------------------------------
LEMMA InvPost ==
  ASSUME IInv, TypeOK', NEW j \in Jobs, NEW s \in Sites,
         PostComment(j, s) \/ PostFails(j, s) \/ PostLimited(j, s)
  PROVE  IInv'
<1>1. run[j] \in Runs /\ Scanned(j)
  BY DEF PostComment, PostFails, PostLimited, IInv, TypeOK, Scanned
<1>2. Gentle /\ StorePoints'
  <2>1. CASE PostComment(j, s)
    BY <2>1, PostedKeeps DEF PostComment
  <2>2. CASE thread' = thread /\ UNCHANGED <<store, cache>>
    BY <2>2, SpeechGentle, SameStores DEF IInv
  <2>3. ASSUME NEW t \in Tids, Fresh(t), Create(j, t, s), UNCHANGED <<store, cache>>
        PROVE  Gentle /\ StorePoints'
    <3>1. PICK k \in Fps : k = run[j].hunk[s]
      BY <1>1 DEF Runs
    <3>2. QED
      BY <2>3, <3>1, CreateGentle, SameStores DEF Create, IInv
  <2>4. QED
    BY <2>1, <2>2, <2>3 DEF PostFails, PostLimited
<1>3. \E r \in Runs : /\ Become(j, r) /\ r.prior = run[j].prior /\ r.checks = run[j].checks
                      /\ r.pc \in {"post", "evict"}
  <2>1. \A x \in Runs : x.pc = "post" =>
          LET r1 == [x EXCEPT !.todo = @ \ {s}]
              r2 == [x EXCEPT !.todo = @ \ {s}, !.flaw = TRUE]
              r3 == [x EXCEPT !.todo = @ \ {s}, !.pc = "evict", !.site = s, !.evicted = TRUE]
          IN  \A r \in {r1, r2, r3} :
                r.prior = x.prior /\ r.checks = x.checks /\ r.pc \in {"post", "evict"}
    BY ZenonT(40) DEF Runs
  <2>2. QED
    BY <1>1, <2>1, RunUpdates DEF PostComment, PostFails, PostLimited
<1>4. clock' = clock
  BY DEF PostComment, PostFails, PostLimited
<1>5. QED
  BY <1>1, <1>2, <1>3, <1>4, JobKeeps

\* A job past its scan that moves on to a phase without an answer in hand.
LEMMA MoveKeeps ==
  ASSUME IInv, TypeOK', NEW j \in Jobs, Scanned(j), NEW p \in {"post", "evict", "retry", "check"},
         \/ Become(j, [run[j] EXCEPT !.pc = p])
         \/ Become(j, [run[j] EXCEPT !.pc = p, !.flaw = TRUE]),
         Gentle, clock' = clock, StorePoints'
  PROVE  IInv'
<1>1. run[j] \in Runs /\ p \in Phases
  BY DEF IInv, TypeOK, Phases
<1>2. PICK r \in Runs : /\ Become(j, r)
                        /\ \/ r = [run[j] EXCEPT !.pc = p]
                           \/ r = [run[j] EXCEPT !.pc = p, !.flaw = TRUE]
  BY <1>1, RunUpdates
<1>3. r.pc = p /\ r.prior = run[j].prior /\ r.checks = run[j].checks
  BY <1>1, <1>2 DEF Runs
<1>4. QED
  BY <1>2, <1>3, JobKeeps

LEMMA InvEvict ==
  ASSUME IInv, TypeOK', NEW j \in Jobs, Evict(j)
  PROVE  IInv'
<1>1. Gentle
  BY EvictGentle
<1>2. StorePoints'
  BY <1>1, SameStores DEF Evict, IInv
<1>3. /\ Scanned(j) /\ clock' = clock
      /\ \/ Become(j, [run[j] EXCEPT !.pc = "post", !.flaw = TRUE])
         \/ Become(j, [run[j] EXCEPT !.pc = "retry"])
  BY Zenon DEF Evict, Scanned
<1>4. QED
  BY <1>1, <1>2, <1>3, MoveKeeps

LEMMA InvRetry ==
  ASSUME IInv, TypeOK', NEW j \in Jobs, RetryPost(j)
  PROVE  IInv'
<1>1. run[j].site \in Sites /\ run[j] \in Runs
  BY DEF IInv, TypeOK, Runs
<1>2. Gentle /\ StorePoints'
  <2>1. CASE Posted(j, run[j].site)
    BY <1>1, <2>1, PostedKeeps DEF RetryPost
  <2>2. CASE thread' = thread /\ UNCHANGED <<store, cache>>
    BY <2>2, SpeechGentle, SameStores DEF IInv
  <2>3. ASSUME NEW t \in Tids, Fresh(t), Create(j, t, run[j].site), UNCHANGED <<store, cache>>
        PROVE  Gentle /\ StorePoints'
    <3>1. PICK k \in Fps : k = run[j].hunk[run[j].site]
      BY <1>1 DEF Runs
    <3>2. QED
      BY <1>1, <2>3, <3>1, CreateGentle, SameStores DEF Create, IInv
  <2>4. QED
    BY <2>1, <2>2, <2>3, Zenon DEF RetryPost
<1>3. /\ Scanned(j) /\ clock' = clock
      /\ \/ Become(j, [run[j] EXCEPT !.pc = "post"])
         \/ Become(j, [run[j] EXCEPT !.pc = "post", !.flaw = TRUE])
  BY Zenon DEF RetryPost, Scanned
<1>4. QED
  BY <1>2, <1>3, MoveKeeps

LEMMA InvEndPosts ==
  ASSUME IInv, TypeOK', NEW j \in Jobs, EndPosts(j)
  PROVE  IInv'
<1>1. Gentle /\ StorePoints'
  BY SpeechGentle, SameStores DEF EndPosts, IInv
<1>2. QED
  BY <1>1, MoveKeeps DEF EndPosts, Scanned

LEMMA InvCheck ==
  ASSUME IInv, TypeOK', NEW j \in Jobs, NEW k \in Fps,
         \/ PassOver(j, k) \/ CatchUp(j, k) \/ Decide(j, k)
         \/ NovaFails(j, k) \/ DecideNull(j, k)
  PROVE  IInv'
<1>1. /\ Checking(j, k) /\ Scanned(j) /\ run[j] \in Runs /\ run[j].pc = "check"
      /\ k \in run[j].checks /\ clock' = clock
  BY DEF PassOver, CatchUp, Decide, NovaFails, DecideNull, Checking, Scanned, IInv, TypeOK
<1>2. Gentle
  BY SpeechGentle DEF PassOver, CatchUp, Decide, NovaFails, DecideNull
<1>3. StorePoints'
  BY <1>2, SameStores, MarkPoints DEF PassOver, CatchUp, Decide, NovaFails, DecideNull, IInv
<1>4. CASE Become(j, Checked(j, k)) \/ Become(j, [Checked(j, k) EXCEPT !.flaw = TRUE])
  <2>1. PICK r \in Runs : Become(j, r) /\ \/ r = [run[j] EXCEPT !.checks = @ \ {k}]
                                          \/ r = [[run[j] EXCEPT !.checks = @ \ {k}] EXCEPT !.flaw = TRUE]
    BY <1>1, <1>4, RunUpdates DEF Checked
  <2>2. r.pc = "check" /\ r.prior = run[j].prior /\ r.checks = run[j].checks \ {k}
    BY <1>1, <2>1 DEF Runs
  <2>3. QED
    BY <1>1, <1>2, <1>3, <2>1, <2>2, JobKeeps
<1>5. ASSUME NEW w \in {"plain", "follow_up", "auto"}, Answering(j, k, w),
             w # "plain" => run[j].prior[k].sent # "auto"
      PROVE  IInv'
  <2>1. PICK r \in Runs :
          /\ Become(j, r)
          /\ r = [run[j] EXCEPT !.checks = @ \ {k}, !.pc = "reply", !.key = k, !.say = w]
    BY <1>1, <1>5, RunUpdates DEF Answering
  <2>2. /\ r.pc = "reply" /\ r.prior = run[j].prior /\ r.checks = run[j].checks \ {k}
        /\ r.key = k /\ r.say = w
    BY <1>1, <2>1 DEF Runs
  <2>3. QED
    BY <1>1, <1>2, <1>3, <1>5, <2>1, <2>2, JobKeeps
<1>6. CASE Decide(j, k)
  <2>1. run[j].prior[k].sent # "auto"
    BY <1>6 DEF Decide, StatusOf, Status
  <2>2. QED
    BY <1>5, <1>6, <2>1 DEF Decide
<1>7. QED
  BY <1>4, <1>5, <1>6 DEF PassOver, CatchUp, NovaFails, DecideNull

LEMMA InvStart ==
  ASSUME IInv, TypeOK', ~ Overlap, NEW j \in Jobs, StartRun(j)
  PROVE  IInv'
<1>1. PICK r \in Runs : Become(j, r) /\ r.pc = "scan"
  <2>1. run'[j].pc = "scan" /\ run'[j] \in Runs /\ run' = [run EXCEPT ![j] = run'[j]]
    <3>1. Begin(j)
      BY DEF StartRun
    <3>2. PICK d \in Diffs, h \in Hunkings, reported \in SUBSET Sites, anchored \in SUBSET Sites :
            run' = [run EXCEPT ![j] = Started(d, h, reported, anchored)]
      BY <3>1, Zenon DEF Begin, Become
    <3>3. Started(d, h, reported, anchored).pc = "scan"
      <4> DEFINE fps == {h[s] : s \in reported}
      <4>1. Started(d, h, reported, anchored) =
              [IdleRun EXCEPT !.pc = "scan", !.diff = d, !.hunk = h, !.found = anchored, !.seen = fps]
        BY DEF Started
      <4> HIDE DEF fps
      <4>2. QED
        BY <4>1 DEF IdleRun
    <3>4. QED
      BY <3>2, <3>3 DEF IInv, TypeOK
  <2>2. QED
    BY <2>1 DEF Become
<1>2. run'[j].pc = "scan" /\ \A i \in Jobs \ {j} : run'[i].pc = "idle"
  BY <1>1 DEF Become, StartRun, IInv, TypeOK
<1>3. thread' = thread /\ cache' = cache /\ clock' = clock + 1 /\ clock \in Nat
  BY BoundsAssumption DEF StartRun, IInv, TypeOK
<1>4. \A t \in Tids : thread[t].ts \in Nat /\ thread[t].ts < clock'
  BY <1>3, BoundsAssumption DEF IInv, SentinelTimes, TypeOK, Threads
<1>5. StorePoints'
  <2>1. \A k \in Fps : EmptyStore[k].st = "none"
    BY DEF EmptyStore, NoStoreEntry
  <2>2. \A i \in Jobs : store'[i] \in {store[i], cache, EmptyStore}
    BY DEF StartRun, IInv, TypeOK
  <2>3. QED
    BY <1>3, <2>1, <2>2 DEF StorePoints, PointsTo, IInv
<1>6. SentinelTimes' /\ AutoIsLast'
  BY <1>3, <1>4 DEF IInv, SentinelTimes, AutoIsLast, Live
<1>7. OneJob' /\ PriorPoints' /\ SnapshotHolds' /\ Replying'
  BY <1>2, <1>3, <1>4 DEF OneJob, PriorPoints, SnapshotHolds, Replying, Idle, Scanned
<1>8. QED
  BY <1>5, <1>6, <1>7 DEF IInv

\* A scan that hears "resolved" on any thread of a hunk takes it for the latest answer.
LEMMA HearsAuto ==
  ASSUME TypeOK, SentinelTimes, AutoIsLast, NEW k \in Fps, NEW heard \in SUBSET Tids, NEW t \in heard,
         thread[t].fp = k, thread[t].sent = "auto"
  PROVE  LatestSentinel(k, heard) = "auto"
<1>1. \A u \in Tids : thread[u].ts \in Nat
  BY BoundsAssumption DEF TypeOK, Threads
<1>2. thread[t].ts > 0
  BY <1>1 DEF SentinelTimes
<1>3. \A u \in heard : thread[u].fp = k => ~ Newer(u, t)
  BY <1>1, BoundsAssumption DEF Newer, AutoIsLast, Tids
<1>4. QED
  BY <1>2, <1>3 DEF LatestSentinel

LEMMA InvScan ==
  ASSUME IInv, TypeOK', SoundScan, NEW j \in Jobs, Scan(j)
  PROVE  IInv'
<1>1. PICK first \in [Fps -> 0..MaxThreads] :
        /\ FirstListed(first, Listing)
        /\ Become(j, WithPrior(run[j], BuildPrior(store[j], first, Listing)))
  BY DEF Scan, SoundScan
<1>2. Listing = {t \in Tids : Live(t)}
  BY BoundsAssumption DEF Listing, SoundScan, Tids
<1>3. PICK prior \in [Fps -> Entries] : prior = BuildPrior(store[j], first, Listing)
  BY <1>2, PriorType DEF IInv, TypeOK
<1>4. \A k \in Fps : prior[k].tid # 0 =>
        /\ PointsTo(prior[k].tid, k)
        /\ prior[k].sent = LatestSentinel(k, Listing)
  <2> SUFFICES ASSUME NEW k \in Fps, prior[k].tid # 0
               PROVE  /\ PointsTo(prior[k].tid, k)
                      /\ prior[k].sent = LatestSentinel(k, Listing)
    OBVIOUS
  <2>1. CASE store[j][k].st = "unresolved"
    <3>1. prior[k].tid = store[j][k].tid /\ prior[k].sent = LatestSentinel(k, Listing)
      BY <1>3, <2>1 DEF BuildPrior, LocalEntry
    <3>2. QED
      BY <2>1, <3>1 DEF IInv, StorePoints
  <2>2. CASE store[j][k].st # "unresolved"
    <3>1. first[k] # 0
      BY <1>3, <2>2 DEF BuildPrior, NoEntry
    <3>2. prior[k].tid = first[k] /\ prior[k].sent = LatestSentinel(k, Listing)
      BY <1>3, <2>2, <3>1 DEF BuildPrior, ApiEntry
    <3>3. first[k] \in Tids /\ thread[first[k]].fp = k /\ Live(first[k])
      BY <1>1, <1>2, <3>1 DEF FirstListed
    <3>4. QED
      BY <3>2, <3>3 DEF PointsTo, Live
  <2>3. QED
    BY <2>1, <2>2
<1>5. /\ run'[j].pc = "post" /\ run'[j].prior = prior
      /\ \A k \in run'[j].checks : k \in Fps /\ prior[k].tid # 0
      /\ \A i \in Jobs \ {j} : run'[i] = run[i]
  <2> DEFINE r == WithPrior(run[j], prior)
  <2>1. r.pc = "post" /\ r.prior = prior /\ \A k \in r.checks : k \in Fps /\ prior[k].tid # 0
    BY DEF WithPrior, IInv, TypeOK, Runs
  <2>2. Become(j, r)
    BY <1>1, <1>3
  <2> HIDE DEF r
  <2>3. QED
    BY <2>1, <2>2 DEF Become, IInv, TypeOK
<1>6. thread' = thread /\ store' = store /\ cache' = cache /\ clock' = clock /\ run[j].pc = "scan"
  BY DEF Scan
<1>7. clock > 0 /\ \A i \in Jobs \ {j} : run'[i].pc = "idle"
  BY <1>5, <1>6 DEF IInv, OneJob, Idle
<1>8. \A k \in Fps : prior[k].tid # 0 /\ prior[k].sent # "auto" => Answerable(k)
  <2> SUFFICES ASSUME NEW k \in Fps, prior[k].tid # 0, prior[k].sent # "auto",
                      NEW t \in Tids, thread[t].fp = k
               PROVE  thread[t].sent # "auto" /\ thread[t].ts < clock
    BY DEF Answerable
  <2>1. thread[t].ts < clock
    BY <1>6 DEF IInv, SnapshotHolds
  <2>2. ASSUME thread[t].sent = "auto"
        PROVE  t \in Listing
    BY <1>2, <2>2, BoundsAssumption DEF IInv, SentinelTimes, TypeOK, Threads
  <2>3. Listing \in SUBSET Tids
    BY <1>2
  <2>4. QED
    BY <1>4, <2>1, <2>2, <2>3, HearsAuto DEF IInv
<1>9. SnapshotHolds'
  <2>1. Pending(j)' = run'[j].checks
    BY <1>5 DEF Pending
  <2>2. \A k \in Fps : Answerable(k) => Answerable(k)'
    BY <1>6 DEF Answerable
  <2>3. QED
    BY <1>5, <1>7, <1>8, <2>1, <2>2 DEF SnapshotHolds, Scanned
<1>10. SentinelTimes' /\ AutoIsLast' /\ StorePoints'
  BY <1>6 DEF IInv, SentinelTimes, AutoIsLast, StorePoints, PointsTo, Live
<1>11. PriorPoints'
  <2>1. \A k \in Fps : prior[k].tid # 0 => PointsTo(prior[k].tid, k)'
    BY <1>4, <1>6 DEF PointsTo
  <2>2. QED
    BY <1>5, <1>7, <2>1 DEF PriorPoints, Scanned, PointsTo
<1>12. OneJob' /\ Replying'
  BY <1>5, <1>6, <1>7 DEF OneJob, Replying, Idle, Scanned
<1>13. QED
  BY <1>9, <1>10, <1>11, <1>12 DEF IInv

LEMMA AnsweredFields ==
  ASSUME NEW c \in Threads, NEW w, c.ts \in Nat, clock \in Nat
  PROVE  /\ Answered(c, w).by = c.by /\ Answered(c, w).fp = c.fp
         /\ w = "plain" => Answered(c, w).ts = c.ts /\ Answered(c, w).sent = c.sent
         /\ w # "plain" /\ c.ts < clock => Answered(c, w).ts = clock /\ Answered(c, w).sent = w
BY DEF Answered, Threads

\* The one step that is not gentle: a sentinel is written, with the time of now, on a
\* thread of a key that can still be answered.
LEMMA ReplyKeeps ==
  ASSUME IInv, TypeOK', NEW j \in Jobs, run[j].pc = "reply", run[j].say # "plain", ReplyLands(j),
         NEW p \in {"check", "resolve"},
         \/ Become(j, [run[j] EXCEPT !.pc = p])
         \/ Become(j, [run[j] EXCEPT !.pc = p, !.flaw = TRUE]),
         UNCHANGED <<clock, store, cache>>
  PROVE  IInv'
<1>1. PICK r \in Runs : Become(j, r) /\ \/ r = [run[j] EXCEPT !.pc = p]
                                        \/ r = [run[j] EXCEPT !.pc = p, !.flaw = TRUE]
  BY RunUpdates DEF IInv, TypeOK, Phases
<1>2. /\ r.pc = p /\ r.prior = run[j].prior /\ r.checks = run[j].checks /\ r.key = run[j].key
  BY <1>1 DEF Runs, IInv, TypeOK
<1>3. run'[j] = r /\ \A i \in Jobs \ {j} : run'[i] = run[i] /\ run[i].pc = "idle"
  BY <1>1 DEF Become, IInv, TypeOK, OneJob, Idle
<1>4. PICK k \in Fps : k = run[j].key
  BY DEF IInv, TypeOK, Runs
<1>5. PICK tid \in Tids : tid = Target(j) /\ thread[tid].by # "none" /\ thread[tid].fp = k
  BY <1>4 DEF Target, IInv, Replying, PriorPoints, Scanned, PointsTo
<1>6. /\ Answerable(k) /\ k \notin run[j].checks
      /\ clock > 0 /\ clock \in Nat /\ \A t \in Tids : thread[t] \in Threads /\ thread[t].ts \in Nat
  <2>1. k \in Pending(j) /\ run[j].prior[k].sent # "auto" /\ k \notin run[j].checks
    BY <1>4 DEF Pending, IInv, Replying
  <2>2. QED
    BY <2>1, BoundsAssumption DEF IInv, SnapshotHolds, Scanned, OneJob, Idle, TypeOK, Threads
<1>7. /\ thread'[tid] = Answered(thread[tid], run[j].say)
      /\ \A t \in Tids \ {tid} : thread'[t] = thread[t]
      /\ Live(tid)
  BY <1>5 DEF ReplyLands, IInv, TypeOK
<1>8. /\ thread'[tid].by = thread[tid].by /\ thread'[tid].fp = k
      /\ thread'[tid].ts = clock /\ thread'[tid].sent = run[j].say
  BY <1>5, <1>6, <1>7, AnsweredFields DEF Answerable
<1>9. \A t, l : PointsTo(t, l) => PointsTo(t, l)'
  BY <1>5, <1>7, <1>8 DEF PointsTo
<1>10. SentinelTimes'
  <2>1. run[j].say # "none"
    BY DEF IInv, TypeOK, Runs
  <2>2. QED
    BY <2>1, <1>6, <1>7, <1>8 DEF IInv, SentinelTimes, Live
<1>11. AutoIsLast'
  <2> SUFFICES ASSUME NEW t \in Tids, NEW u \in Tids, thread'[t].sent = "auto", t # u,
                      thread'[t].fp = thread'[u].fp
               PROVE  thread'[u].ts < thread'[t].ts
    BY DEF AutoIsLast
  <2>1. CASE t = tid
    BY <2>1, <1>6, <1>7, <1>8 DEF Answerable
  <2>2. CASE t # tid
    BY <2>2, <1>6, <1>7, <1>8 DEF Answerable, IInv, AutoIsLast
  <2>3. QED
    BY <2>1, <2>2
<1>12. \A l \in Fps : l # k /\ Answerable(l) => Answerable(l)'
  BY <1>7, <1>8 DEF Answerable
<1>13. StorePoints'
  BY <1>9 DEF StorePoints, IInv, PointsTo
<1>14. PriorPoints'
  <2>1. \A l \in Fps : r.prior[l].tid # 0 => PointsTo(r.prior[l].tid, l)
    BY <1>2 DEF IInv, PriorPoints, Scanned
  <2>2. QED
    BY <2>1, <1>3, <1>9 DEF PriorPoints, Scanned, PointsTo
<1>15. SnapshotHolds'
  <2>1. \A l \in r.checks : l \in Fps /\ l # k /\ (r.prior[l].sent # "auto" => Answerable(l))
    BY <1>2, <1>6 DEF IInv, SnapshotHolds, Scanned, Pending, TypeOK, Runs
  <2>2. Pending(j)' = r.checks
    BY <1>2, <1>3 DEF Pending
  <2>3. QED
    BY <2>1, <2>2, <1>2, <1>3, <1>12 DEF SnapshotHolds, Scanned
<1>16. OneJob' /\ Replying'
  BY <1>2, <1>3, <1>6 DEF IInv, OneJob, Replying, Idle, Scanned
<1>17. QED
  BY <1>10, <1>11, <1>13, <1>14, <1>15, <1>16 DEF IInv

LEMMA InvReply ==
  ASSUME IInv, TypeOK', NEW j \in Jobs, Reply(j) \/ ReplyFails(j)
  PROVE  IInv'
<1>1. PICK p \in {"check", "resolve"} :
        \/ Become(j, [run[j] EXCEPT !.pc = p])
        \/ Become(j, [run[j] EXCEPT !.pc = p, !.flaw = TRUE])
  BY Zenon DEF Reply, ReplyFails
<1>2. /\ run[j].pc = "reply" /\ clock' = clock /\ store' = store /\ cache' = cache
      /\ thread' = thread \/ ReplyLands(j)
  BY DEF Reply, ReplyFails
<1>3. CASE ReplyLands(j) /\ run[j].say # "plain"
  BY <1>1, <1>2, <1>3, ReplyKeeps
<1>4. CASE thread' = thread \/ run[j].say = "plain"
  <2>1. \A t \in Tids : thread[t] \in Threads /\ thread[t].ts \in Nat /\ clock \in Nat
    BY BoundsAssumption DEF IInv, TypeOK, Threads
  <2>2. \A t \in Tids : /\ thread'[t].by = thread[t].by /\ thread'[t].fp = thread[t].fp
                        /\ thread'[t].ts = thread[t].ts /\ thread'[t].sent = thread[t].sent
    BY <1>2, <1>4, <2>1, AnsweredFields DEF ReplyLands, IInv, TypeOK
  <2>3. Gentle /\ StorePoints'
    BY <1>2, <2>2, SpeechGentle, SameStores DEF IInv
  <2>4. PICK r \in Runs : Become(j, r) /\ \/ r = [run[j] EXCEPT !.pc = p]
                                          \/ r = [run[j] EXCEPT !.pc = p, !.flaw = TRUE]
    BY <1>1, RunUpdates DEF IInv, TypeOK, Phases
  <2>5. /\ r.pc = p /\ r.prior = run[j].prior /\ r.checks = run[j].checks /\ r.key = run[j].key
    BY <2>4 DEF Runs, IInv, TypeOK
  <2>6. run[j].prior[run[j].key].tid # 0
    BY <1>2 DEF IInv, Replying
  <2>7. QED
    BY <1>2, <2>3, <2>4, <2>5, <2>6, JobKeeps DEF Scanned
<1>5. QED
  BY <1>2, <1>3, <1>4

LEMMA InvResolve ==
  ASSUME IInv, TypeOK', NEW j \in Jobs, Resolve(j) \/ ResolveFails(j)
  PROVE  IInv'
<1>1. Gentle
  BY ShutSame, SpeechGentle DEF Resolve, ResolveFails
<1>2. PICK k \in Fps : k = run[j].key
  BY DEF IInv, TypeOK, Runs
<1>3. StorePoints'
  BY <1>1, <1>2, MarkPoints, SameStores DEF Resolve, ResolveFails, IInv
<1>4. QED
  BY <1>1, <1>3, MoveKeeps DEF Resolve, ResolveFails, Scanned

LEMMA InvEnd ==
  ASSUME IInv, TypeOK', NEW j \in Jobs, Finish(j) \/ Crash(j)
  PROVE  IInv'
<1>1. run'[j].pc = "idle" /\ \A i \in Jobs \ {j} : run'[i] = run[i]
  BY DEF Finish, Crash, Become, IdleRun, IInv, TypeOK
<1>2. thread' = thread /\ clock' = clock
  BY DEF Finish, Crash
<1>3. StorePoints'
  <2>1. \A k \in Fps : EmptyStore[k].st = "none"
    BY DEF EmptyStore, NoStoreEntry
  <2>2. /\ cache' \in {cache, store[j]}
        /\ \A i \in Jobs : store'[i] \in {store[i], EmptyStore}
    BY DEF Finish, Crash, IInv, TypeOK
  <2>3. QED
    BY <1>2, <2>1, <2>2 DEF StorePoints, PointsTo, IInv
<1>4. SentinelTimes' /\ AutoIsLast' /\ OneJob' /\ Replying'
  BY <1>1, <1>2 DEF IInv, SentinelTimes, AutoIsLast, Live, OneJob, Replying, Idle, Scanned
<1>5. PriorPoints'
  BY <1>1, <1>2 DEF IInv, PriorPoints, PointsTo, Scanned
<1>6. SnapshotHolds'
  <2>1. \A i \in Jobs \ {j} : run'[i].pc = run[i].pc /\ Pending(i)' = Pending(i) /\ run'[i].prior = run[i].prior
    BY <1>1 DEF Pending
  <2>2. \A k \in Fps : Answerable(k)' <=> Answerable(k)
    BY <1>2 DEF Answerable
  <2>3. \A i \in Jobs : Pending(i) \subseteq Fps
    BY DEF Pending, IInv, TypeOK, Runs
  <2>4. QED
    BY <1>1, <1>2, <2>1, <2>2, <2>3 DEF IInv, SnapshotHolds, Scanned
<1>7. QED
  BY <1>3, <1>4, <1>5, <1>6 DEF IInv

\* What people do leaves the jobs and their files alone.
LEMMA RunsKeep ==
  ASSUME IInv, TypeOK', Gentle, UNCHANGED <<clock, run, store, cache>>
  PROVE  IInv'
<1>1. /\ SentinelTimes' /\ AutoIsLast'
      /\ \A tid, k : PointsTo(tid, k) => PointsTo(tid, k)'
      /\ clock > 0 => \A k \in Fps : Answerable(k) => Answerable(k)'
  BY GentleKeeps DEF IInv
<1>2. StorePoints'
  BY SameStores DEF IInv
<1>3. OneJob' /\ Replying'
  BY DEF IInv, OneJob, Replying, Idle, Scanned
<1>4. PriorPoints'
  BY <1>1 DEF IInv, PriorPoints, Scanned, PointsTo
<1>5. SnapshotHolds'
  <2> SUFFICES ASSUME NEW j \in Jobs
               PROVE  /\ run[j].pc = "scan" => \A t \in Tids : thread'[t].ts < clock
                      /\ Scanned(j) => \A k \in Pending(j) :
                           run[j].prior[k].sent # "auto" => Answerable(k)'
    BY DEF SnapshotHolds, Scanned, Pending
  <2>1. run[j].pc # "idle" => clock > 0
    BY DEF IInv, OneJob, Idle
  <2>2. Pending(j) \subseteq Fps
    BY DEF Pending, IInv, TypeOK, Runs
  <2>3. QED
    BY <1>1, <2>1, <2>2 DEF IInv, SnapshotHolds, Scanned, Gentle
<1>6. QED
  BY <1>1, <1>2, <1>3, <1>4, <1>5 DEF IInv

LEMMA InvHuman ==
  ASSUME IInv, TypeOK', Human
  PROVE  IInv'
<1>1. Gentle
  <2>1. ASSUME NEW t \in Tids, HumanCloses(t)
        PROVE  Gentle
    BY <2>1, ShutSame, SpeechGentle DEF HumanCloses
  <2>2. ASSUME NEW t \in Tids, HumanReopens(t) \/ HumanTicks(t)
        PROVE  Gentle
    BY <2>2, MarksSame, SpeechGentle
  <2>3. ASSUME NEW s \in Sites, HumanComments(s)
        PROVE  Gentle
    BY <2>3, CreateGentle, FpAssumption DEF HumanComments
  <2>4. QED
    BY <2>1, <2>2, <2>3 DEF Human
<1>2. UNCHANGED <<clock, run, store, cache>>
  BY DEF Human, HumanCloses, HumanReopens, HumanTicks, HumanComments
<1>3. QED
  BY <1>1, <1>2, RunsKeep

LEMMA InvNext == SoundScan /\ IInv /\ [Next]_vars => IInv'
<1> SUFFICES ASSUME SoundScan, IInv, [Next]_vars PROVE IInv'
  OBVIOUS
<1>1. TypeOK'
  BY TypeNext DEF IInv
<1>2. ASSUME NEW j \in Jobs, JobStep(j) PROVE IInv'
  BY <1>1, <1>2, InvScan, InvPost, InvEvict, InvRetry, InvEndPosts, InvCheck, InvReply, InvResolve, InvEnd
  DEF JobStep
<1>3. CASE UNCHANGED vars
  BY <1>1, <1>3, SpeechGentle, RunsKeep DEF vars
<1>4. QED
  BY <1>1, <1>2, <1>3, InvStart, InvEnd, InvHuman DEF Next, SoundScan

\* When jobs do not overlap and scans are complete, what a job remembers of the answers
\* stays true until it has used it, and no answer of a hunk comes after "resolved".
THEOREM SnapshotsStayTrue == SoundScan => (Spec => []IInv)
<1>1. ASSUME SoundScan PROVE IInv /\ [Next]_vars => IInv'
  BY <1>1, InvNext
<1>2. ASSUME SoundScan PROVE Spec => []IInv
  BY <1>1, <1>2, InvInit, PTL DEF Spec
<1>3. QED
  BY <1>2
=============================================================================
