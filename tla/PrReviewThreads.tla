-------------------------- MODULE PrReviewThreads --------------------------
(***************************************************************************)
(* The comments of a pull request.  However many jobs report it, a finding *)
(* has one comment, for scans that are complete, jobs that do not overlap, *)
(* and a line that stays in the same hunk.  What is not posted because it  *)
(* seems to be there can be read, also with overlapping jobs and scans     *)
(* that fail.  On GitHub and GitLab nothing is answered without a store;   *)
(* and only resolved threads say that they are, as long as the calls that  *)
(* resolve them do not fail, which the code does not promise otherwise.    *)
(***************************************************************************)
EXTENDS PrReviewProofs

\* The fingerprint of a line's hunk does not change from push to push.
StableHunks == \A g, h \in Hunkings : g = h

Revues(t) == thread[t].by = "revue"

\* The lines a job may still comment on.
Waiting(j) ==
  run[j].todo \cup (IF run[j].pc \in {"evict", "retry"} THEN {run[j].site} ELSE {})

FpOfHunk == \A t \in Tids : Revues(t) => \A h \in Hunkings : thread[t].fp = h[thread[t].site]

\* A job past its scan has the hunks of the push, and waits for lines without a comment.
WaitsForNew ==
  \A j \in Jobs :
    /\ ~ Idle(j) => run[j].hunk \in Hunkings
    /\ Scanned(j) => \A s \in Waiting(j), t \in Tids : Revues(t) => thread[t].site # s
    /\ run[j].pc \in {"evict", "retry"} => run[j].site \notin run[j].todo

OInv == IInv /\ OneThreadPerFinding /\ FpOfHunk /\ WaitsForNew

\* Nothing is posted by this step.
Quiet ==
  \A t \in Tids : Revues(t)' => /\ Revues(t) /\ thread'[t].site = thread[t].site
                                /\ thread'[t].fp = thread[t].fp

\* A step that posts nothing, and after which no job waits for more.
LEMMA QuietKeeps ==
  ASSUME OInv, Quiet,
         \A j \in Jobs :
           /\ ~ Idle(j)' => run'[j].hunk \in Hunkings
           /\ Scanned(j)' => \A s \in Waiting(j)' : (Scanned(j) /\ s \in Waiting(j))
                               \/ \A t \in Tids : Revues(t) => thread[t].site # s
           /\ run'[j].pc \in {"evict", "retry"} => run'[j].site \notin run'[j].todo
  PROVE  (OneThreadPerFinding /\ FpOfHunk /\ WaitsForNew)'
<1>1. OneThreadPerFinding' /\ FpOfHunk'
  BY DEF OInv, Quiet, OneThreadPerFinding, FpOfHunk, Revues
<1>2. \A j \in Jobs : Scanned(j)' => \A s \in Waiting(j)', t \in Tids : Revues(t)' => thread'[t].site # s
  BY DEF OInv, Quiet, WaitsForNew
<1>3. WaitsForNew'
  BY <1>2 DEF WaitsForNew, Revues
<1>4. QED
  BY <1>1, <1>3

\* A step that comments on a line the job was waiting for.
LEMMA CreateKeeps ==
  ASSUME OInv, StableHunks, NEW j \in Jobs, Scanned(j), NEW s \in Waiting(j), NEW t \in Tids, Create(j, t, s),
         NEW r \in Runs, Become(j, r), r.hunk = run[j].hunk, r.pc = "post",
         r.todo \subseteq Waiting(j) \ {s}
  PROVE  (OneThreadPerFinding /\ FpOfHunk /\ WaitsForNew)'
<1>1. run'[j] = r /\ \A i \in Jobs \ {j} : run'[i] = run[i] /\ run[i].pc = "idle"
  BY DEF Become, OInv, IInv, TypeOK, OneJob, Idle, Scanned
<1>2. s \in Sites /\ run[j].hunk \in Hunkings
  BY DEF OInv, WaitsForNew, Waiting, Idle, Scanned, IInv, TypeOK, Runs
<1>3. PICK k \in Fps : k = run[j].hunk[s]
  BY <1>2 DEF OInv, IInv, TypeOK, Runs
<1>4. /\ thread'[t].by = "revue" /\ thread'[t].site = s /\ thread'[t].fp = k
      /\ \A u \in Tids \ {t} : thread'[u] = thread[u]
  BY <1>3 DEF Create, NewThread, NoThread, OInv, IInv, TypeOK
<1>5. \A u \in Tids : Revues(u) => thread[u].site # s
  BY DEF OInv, WaitsForNew
<1>6. OneThreadPerFinding'
  BY <1>4, <1>5 DEF OInv, OneThreadPerFinding, Revues
<1>7. FpOfHunk'
  <2>1. \A h \in Hunkings : h[s] = k
    BY <1>2, <1>3 DEF StableHunks
  <2>2. QED
    BY <2>1, <1>4 DEF OInv, FpOfHunk, Revues
<1>8. Waiting(j)' \subseteq Waiting(j) \ {s}
  BY <1>1 DEF Waiting
<1>9. WaitsForNew'
  <2> SUFFICES ASSUME NEW i \in Jobs
               PROVE  /\ ~ Idle(i)' => run'[i].hunk \in Hunkings
                      /\ Scanned(i)' => \A u \in Waiting(i)', v \in Tids : Revues(v)' => thread'[v].site # u
                      /\ run'[i].pc \in {"evict", "retry"} => run'[i].site \notin run'[i].todo
    BY DEF WaitsForNew, Revues
  <2>1. CASE i # j
    BY <2>1, <1>1 DEF Idle, Scanned
  <2>2. CASE i = j
    <3>1. \A u \in Waiting(j), v \in Tids : Revues(v) => thread[v].site # u
      BY DEF OInv, WaitsForNew
    <3>2. QED
      BY <2>2, <3>1, <1>1, <1>2, <1>4, <1>8 DEF Revues
  <2>3. QED
    BY <2>1, <2>2
<1>10. QED
  BY <1>6, <1>7, <1>9

\* A job past its scan that posts nothing and waits for no more than before.
LEMMA JobQuiet ==
  ASSUME OInv, Quiet, NEW j \in Jobs, Scanned(j), NEW r \in Runs, Become(j, r),
         \/ r.pc = "idle"
         \/ /\ r.hunk = run[j].hunk
            /\ r.todo \subseteq run[j].todo
            /\ r.pc \in {"evict", "retry"} => r.site \in Waiting(j) /\ r.site \notin r.todo
  PROVE  (OneThreadPerFinding /\ FpOfHunk /\ WaitsForNew)'
<1>1. run'[j] = r /\ \A i \in Jobs \ {j} : run'[i] = run[i] /\ run[i].pc = "idle"
  BY DEF Become, OInv, IInv, TypeOK, OneJob, Idle, Scanned
<1>2. run[j].hunk \in Hunkings
  BY DEF OInv, WaitsForNew, Idle, Scanned
<1>3. r.pc # "idle" => Waiting(j)' \subseteq Waiting(j)
  BY <1>1 DEF Waiting
<1>4. QED
  BY <1>1, <1>2, <1>3, QuietKeeps DEF Idle, Scanned

LEMMA SameQuiet ==
  ASSUME \A t \in Tids : /\ thread'[t].by = thread[t].by /\ thread'[t].fp = thread[t].fp
                         /\ thread'[t].site = thread[t].site
  PROVE  Quiet
BY DEF Quiet, Revues

LEMMA OneInit == Init => OInv
<1> SUFFICES ASSUME Init PROVE OInv
  OBVIOUS
<1>1. (\A t \in Tids : thread[t].by = "none") /\ \A j \in Jobs : run[j].pc = "idle"
  BY DEF Init, NoThread, IdleRun
<1>2. QED
  BY <1>1, InvInit DEF OInv, OneThreadPerFinding, FpOfHunk, WaitsForNew, Revues, Idle, Scanned

LEMMA OneStart ==
  ASSUME OInv, NEW j \in Jobs, StartRun(j)
  PROVE  (OneThreadPerFinding /\ FpOfHunk /\ WaitsForNew)'
<1> Begin(j)
  BY DEF StartRun
<1>1. PICK d \in Diffs, h \in Hunkings, reported \in SUBSET Sites, anchored \in SUBSET Sites :
        run' = [run EXCEPT ![j] = Started(d, h, reported, anchored)]
  BY Zenon DEF Begin, Become
<1>2. Started(d, h, reported, anchored).pc = "scan" /\ Started(d, h, reported, anchored).hunk = h
  <2> DEFINE fps == {h[s] : s \in reported}
  <2>1. Started(d, h, reported, anchored) =
          [IdleRun EXCEPT !.pc = "scan", !.diff = d, !.hunk = h, !.found = anchored, !.seen = fps]
    BY DEF Started
  <2> HIDE DEF fps
  <2>2. QED
    BY <2>1 DEF IdleRun
<1>3. /\ run'[j].pc = "scan" /\ run'[j].hunk \in Hunkings
      /\ \A i \in Jobs \ {j} : run'[i] = run[i]
  BY <1>1, <1>2 DEF OInv, IInv, TypeOK
<1>4. Quiet
  BY SameQuiet DEF StartRun
<1>5. \A i \in Jobs \ {j} : Waiting(i)' = Waiting(i)
  BY <1>3 DEF Waiting
<1>6. QED
  BY <1>3, <1>4, <1>5, QuietKeeps DEF OInv, WaitsForNew, Idle, Scanned

\* A complete scan leaves to be posted only lines without a comment of Revue's.
LEMMA OneScan ==
  ASSUME OInv, SoundScan, NEW j \in Jobs, Scan(j)
  PROVE  (OneThreadPerFinding /\ FpOfHunk /\ WaitsForNew)'
<1>1. PICK first \in [Fps -> 0..MaxThreads] :
        /\ FirstListed(first, Listing)
        /\ Become(j, WithPrior(run[j], BuildPrior(store[j], first, Listing)))
  BY DEF Scan, SoundScan
<1>2. Listing = {t \in Tids : Live(t)}
  BY BoundsAssumption DEF Listing, SoundScan, Tids
<1>3. PICK prior \in [Fps -> Entries] : prior = BuildPrior(store[j], first, Listing)
  BY <1>2, PriorType DEF OInv, IInv, TypeOK
<1>4. run[j] \in Runs /\ run[j].pc = "scan" /\ run[j].hunk \in Hunkings
  BY DEF Scan, OInv, IInv, TypeOK, WaitsForNew, Idle
<1>5. \A t \in Tids, s \in Sites : Revues(t) /\ thread[t].site = s => prior[run[j].hunk[s]].tid # 0
  <2> SUFFICES ASSUME NEW t \in Tids, NEW s \in Sites, Revues(t), thread[t].site = s
               PROVE  prior[run[j].hunk[s]].tid # 0
    OBVIOUS
  <2>1. PICK k \in Fps : k = run[j].hunk[s]
    BY <1>4 DEF Runs
  <2>2. thread[t].fp = k /\ t \in Listing
    BY <1>2, <1>4, <2>1 DEF OInv, FpOfHunk, Revues, Live
  <2>3. CASE store[j][k].st = "unresolved"
    <3>1. prior[k].tid = store[j][k].tid
      BY <1>3, <2>3 DEF BuildPrior, LocalEntry
    <3>2. QED
      BY <2>1, <2>3, <3>1, BoundsAssumption DEF OInv, IInv, StorePoints, PointsTo, Tids
  <2>4. CASE store[j][k].st # "unresolved"
    <3>1. first[k] \in Tids
      BY <1>1, <1>2, <2>2 DEF FirstListed
    <3>2. prior[k].tid = first[k]
      BY <1>3, <2>4, <3>1, BoundsAssumption DEF BuildPrior, ApiEntry, Tids
    <3>3. QED
      BY <2>1, <3>1, <3>2, BoundsAssumption DEF Tids
  <2>5. QED
    BY <2>3, <2>4
<1>6. /\ run'[j].pc = "post" /\ run'[j].hunk = run[j].hunk
      /\ \A s \in run'[j].todo : s \in Sites /\ prior[run[j].hunk[s]].tid = 0
      /\ \A i \in Jobs \ {j} : run'[i] = run[i]
  <2> DEFINE r == WithPrior(run[j], prior)
  <2>1. r.pc = "post" /\ r.hunk = run[j].hunk /\ \A s \in r.todo : s \in Sites /\ prior[run[j].hunk[s]].tid = 0
    BY <1>4 DEF WithPrior, Runs, Matched
  <2>2. Become(j, r)
    BY <1>1, <1>3
  <2> HIDE DEF r
  <2>3. QED
    BY <2>1, <2>2 DEF Become, OInv, IInv, TypeOK
<1>7. Quiet
  BY SameQuiet DEF Scan
<1>8. Waiting(j)' = run'[j].todo /\ \A i \in Jobs \ {j} : Waiting(i)' = Waiting(i)
  BY <1>6 DEF Waiting
<1>9. QED
  BY <1>4, <1>5, <1>6, <1>7, <1>8, QuietKeeps DEF OInv, WaitsForNew, Idle, Scanned

LEMMA OnePost ==
  ASSUME OInv, StableHunks, NEW j \in Jobs, NEW s \in Sites,
         PostComment(j, s) \/ PostFails(j, s) \/ PostLimited(j, s)
  PROVE  (OneThreadPerFinding /\ FpOfHunk /\ WaitsForNew)'
<1>1. Scanned(j) /\ run[j].pc = "post" /\ run[j] \in Runs /\ s \in run[j].todo /\ s \in Waiting(j)
  BY DEF PostComment, PostFails, PostLimited, Scanned, Waiting, OInv, IInv, TypeOK
<1>2. PICK r \in Runs :
        /\ Become(j, r)
        /\ \/ r = [run[j] EXCEPT !.todo = @ \ {s}]
           \/ r = [run[j] EXCEPT !.todo = @ \ {s}, !.flaw = TRUE]
           \/ PostLimited(j, s) /\ r = [run[j] EXCEPT !.todo = @ \ {s}, !.pc = "evict", !.site = s, !.evicted = TRUE]
  BY <1>1, RunUpdates DEF PostComment, PostFails, PostLimited
<1>3. /\ r.hunk = run[j].hunk /\ r.todo = run[j].todo \ {s}
      /\ r.pc = "post" \/ (PostLimited(j, s) /\ r.pc = "evict" /\ r.site = s)
  BY <1>1, <1>2 DEF Runs
<1>4. CASE thread' = thread
  BY <1>1, <1>2, <1>3, <1>4, SameQuiet, JobQuiet
<1>5. ASSUME NEW t \in Tids, Create(j, t, s), r.pc = "post"
      PROVE  (OneThreadPerFinding /\ FpOfHunk /\ WaitsForNew)'
  BY <1>1, <1>2, <1>3, <1>5, CreateKeeps DEF Waiting
<1>6. CASE PostLimited(j, s)
  BY <1>4, <1>6 DEF PostLimited
<1>7. CASE ~ PostLimited(j, s)
  BY <1>3, <1>4, <1>5, <1>7 DEF PostComment, PostFails, Posted
<1>8. QED
  BY <1>6, <1>7

LEMMA OneRetry ==
  ASSUME OInv, StableHunks, NEW j \in Jobs, RetryPost(j)
  PROVE  (OneThreadPerFinding /\ FpOfHunk /\ WaitsForNew)'
<1>1. /\ Scanned(j) /\ run[j] \in Runs /\ run[j].site \in Waiting(j)
      /\ run[j].site \notin run[j].todo
  BY DEF RetryPost, Scanned, Waiting, OInv, IInv, TypeOK, WaitsForNew
<1>2. PICK s \in Sites : s = run[j].site
  BY <1>1 DEF Runs
<1>3. PICK r \in Runs : /\ Become(j, r)
                        /\ \/ r = [run[j] EXCEPT !.pc = "post"]
                           \/ r = [run[j] EXCEPT !.pc = "post", !.flaw = TRUE]
  BY <1>1, RunUpdates DEF RetryPost, Phases
<1>4. r.hunk = run[j].hunk /\ r.todo = run[j].todo /\ r.pc = "post"
  BY <1>1, <1>3 DEF Runs
<1>5. CASE thread' = thread
  BY <1>1, <1>3, <1>4, <1>5, SameQuiet, JobQuiet
<1>6. ASSUME NEW t \in Tids, Create(j, t, s)
      PROVE  (OneThreadPerFinding /\ FpOfHunk /\ WaitsForNew)'
  BY <1>1, <1>2, <1>3, <1>4, <1>6, CreateKeeps DEF Waiting
<1>7. QED
  BY <1>2, <1>5, <1>6 DEF RetryPost, Posted

\* A job's step over the prior findings, or its end: nothing is posted.
LEMMA OneMove ==
  ASSUME OInv, NEW j \in Jobs, Quiet, run[j] \in Runs, Scanned(j),
         \/ \E p \in {"post", "retry", "check", "reply", "resolve"} :
              /\ p = "retry" => run[j].pc = "evict"
              /\ \/ Become(j, [run[j] EXCEPT !.pc = p])
                 \/ Become(j, [run[j] EXCEPT !.pc = p, !.flaw = TRUE])
         \/ \E k \in Fps : \/ run[j].pc = "check" /\ Become(j, Checked(j, k))
                           \/ run[j].pc = "check" /\ Become(j, [Checked(j, k) EXCEPT !.flaw = TRUE])
                           \/ \E w \in {"plain", "follow_up", "auto"} : Answering(j, k, w)
         \/ Become(j, IdleRun)
  PROVE  (OneThreadPerFinding /\ FpOfHunk /\ WaitsForNew)'
<1>1. ASSUME NEW p \in {"post", "retry", "check", "reply", "resolve"},
             p = "retry" => run[j].pc = "evict",
             \/ Become(j, [run[j] EXCEPT !.pc = p])
             \/ Become(j, [run[j] EXCEPT !.pc = p, !.flaw = TRUE])
      PROVE  (OneThreadPerFinding /\ FpOfHunk /\ WaitsForNew)'
  <2>1. PICK r \in Runs : Become(j, r) /\ \/ r = [run[j] EXCEPT !.pc = p]
                                          \/ r = [run[j] EXCEPT !.pc = p, !.flaw = TRUE]
    BY <1>1, RunUpdates DEF Phases
  <2>2. r.pc = p /\ r.hunk = run[j].hunk /\ r.todo = run[j].todo /\ r.site = run[j].site
    BY <2>1 DEF Runs
  <2>3. p = "retry" => run[j].site \in Waiting(j) /\ run[j].site \notin run[j].todo
    BY <1>1 DEF Waiting, OInv, WaitsForNew
  <2>4. QED
    BY <2>1, <2>2, <2>3, JobQuiet
<1>2. ASSUME NEW k \in Fps, run[j].pc = "check",
             Become(j, Checked(j, k)) \/ Become(j, [Checked(j, k) EXCEPT !.flaw = TRUE])
      PROVE  (OneThreadPerFinding /\ FpOfHunk /\ WaitsForNew)'
  <2>1. PICK r \in Runs : Become(j, r) /\ \/ r = [run[j] EXCEPT !.checks = @ \ {k}]
                                          \/ r = [[run[j] EXCEPT !.checks = @ \ {k}] EXCEPT !.flaw = TRUE]
    BY <1>2, RunUpdates DEF Checked
  <2>2. r.pc = "check" /\ r.hunk = run[j].hunk /\ r.todo = run[j].todo
    BY <1>2, <2>1 DEF Runs
  <2>3. QED
    BY <2>1, <2>2, JobQuiet
<1>3. ASSUME NEW k \in Fps, NEW w \in {"plain", "follow_up", "auto"}, Answering(j, k, w)
      PROVE  (OneThreadPerFinding /\ FpOfHunk /\ WaitsForNew)'
  <2>1. PICK r \in Runs :
          /\ Become(j, r)
          /\ r = [run[j] EXCEPT !.checks = @ \ {k}, !.pc = "reply", !.key = k, !.say = w]
    BY <1>3, RunUpdates DEF Answering
  <2>2. r.pc = "reply" /\ r.hunk = run[j].hunk /\ r.todo = run[j].todo
    BY <2>1 DEF Runs
  <2>3. QED
    BY <2>1, <2>2, JobQuiet
<1>4. CASE Become(j, IdleRun)
  BY <1>4, Constants, JobQuiet DEF IdleRun
<1>5. QED
  BY <1>1, <1>2, <1>3, <1>4

LEMMA OneCheck ==
  ASSUME OInv, NEW j \in Jobs, NEW k \in Fps,
         \/ PassOver(j, k) \/ CatchUp(j, k) \/ Decide(j, k)
         \/ NovaFails(j, k) \/ DecideNull(j, k)
  PROVE  (OneThreadPerFinding /\ FpOfHunk /\ WaitsForNew)'
<1>1. thread' = thread /\ run[j].pc = "check" /\ Scanned(j) /\ run[j] \in Runs
  BY DEF PassOver, CatchUp, Decide, NovaFails, DecideNull, Checking, Scanned, OInv, IInv, TypeOK
<1>2. Quiet
  BY <1>1, SameQuiet
<1>3. \/ Become(j, Checked(j, k)) \/ Become(j, [Checked(j, k) EXCEPT !.flaw = TRUE])
      \/ \E w \in {"plain", "follow_up", "auto"} : Answering(j, k, w)
  BY Zenon DEF PassOver, CatchUp, Decide, NovaFails, DecideNull
<1>4. QED
  BY <1>1, <1>2, <1>3, OneMove

LEMMA OneAnswer ==
  ASSUME OInv, NEW j \in Jobs, Reply(j) \/ ReplyFails(j) \/ Resolve(j) \/ ResolveFails(j)
  PROVE  (OneThreadPerFinding /\ FpOfHunk /\ WaitsForNew)'
<1>1. Scanned(j) /\ run[j] \in Runs
  BY DEF Reply, ReplyFails, Resolve, ResolveFails, Scanned, OInv, IInv, TypeOK
<1>2. \A c \in Threads : \A w, who :
        /\ Answered(c, w).by = c.by /\ Answered(c, w).fp = c.fp /\ Answered(c, w).site = c.site
        /\ ShutBy(c, who).by = c.by /\ ShutBy(c, who).fp = c.fp /\ ShutBy(c, who).site = c.site
  BY DEF Threads, Answered, ShutBy
<1>3. thread' = thread \/ ReplyLands(j) \/ Shut(Target(j), "revue")
  BY DEF Reply, ReplyFails, Resolve, ResolveFails
<1>4. \A t \in Tids : \/ thread'[t] = thread[t]
                      \/ thread'[t] = Answered(thread[t], run[j].say)
                      \/ thread'[t] = ShutBy(thread[t], "revue")
  BY <1>3 DEF ReplyLands, Shut, OInv, IInv, TypeOK
<1>5. ASSUME NEW t \in Tids
      PROVE  /\ thread'[t].by = thread[t].by /\ thread'[t].fp = thread[t].fp
             /\ thread'[t].site = thread[t].site
  <2>1. thread[t] \in Threads
    BY DEF OInv, IInv, TypeOK
  <2>2. CASE thread'[t] = thread[t]
    BY <2>2
  <2>3. CASE thread'[t] = Answered(thread[t], run[j].say)
    BY <1>2, <2>1, <2>3
  <2>4. CASE thread'[t] = ShutBy(thread[t], "revue")
    BY <1>2, <2>1, <2>4
  <2>5. QED
    BY <1>4, <2>2, <2>3, <2>4
<1>6. Quiet
  BY <1>5, SameQuiet
<1>7. \E p \in {"check", "resolve"} : \/ Become(j, [run[j] EXCEPT !.pc = p])
                                      \/ Become(j, [run[j] EXCEPT !.pc = p, !.flaw = TRUE])
  BY Zenon DEF Reply, ReplyFails, Resolve, ResolveFails
<1>8. QED
  BY <1>1, <1>6, <1>7, OneMove

LEMMA OneEvict ==
  ASSUME OInv, NEW j \in Jobs, Evict(j)
  PROVE  (OneThreadPerFinding /\ FpOfHunk /\ WaitsForNew)'
<1>1. \A t \in Tids : \/ thread'[t] = thread[t]
                      \/ thread'[t] = Deleted(thread[t])
                      \/ thread'[t] = Silenced(thread[t])
  BY DEF Evict
<1>2. \A c \in Threads : /\ Silenced(c).by = c.by /\ Silenced(c).fp = c.fp /\ Silenced(c).site = c.site
                         /\ Deleted(c).by = "deleted"
  BY DEF Silenced, Deleted, Threads
<1>3. Quiet
  BY <1>1, <1>2 DEF Quiet, Revues, OInv, IInv, TypeOK
<1>4. /\ run[j].pc = "evict" /\ Scanned(j) /\ run[j] \in Runs
      /\ \/ Become(j, [run[j] EXCEPT !.pc = "post", !.flaw = TRUE])
         \/ Become(j, [run[j] EXCEPT !.pc = "retry"])
  BY Zenon DEF Evict, Scanned, OInv, IInv, TypeOK
<1>5. QED
  BY <1>3, <1>4, OneMove

LEMMA OneEnd ==
  ASSUME OInv, NEW j \in Jobs, EndPosts(j) \/ Finish(j) \/ Crash(j)
  PROVE  (OneThreadPerFinding /\ FpOfHunk /\ WaitsForNew)'
<1>1. Quiet
  BY SameQuiet DEF EndPosts, Finish, Crash
<1>2. run[j] \in Runs
  BY DEF OInv, IInv, TypeOK
<1>3. CASE Scanned(j)
  BY <1>1, <1>2, <1>3, OneMove DEF EndPosts, Finish, Crash
<1>4. CASE ~ Scanned(j)
  <2>1. run' = [run EXCEPT ![j] = IdleRun]
    BY <1>4 DEF EndPosts, Finish, Crash, Scanned, Become
  <2>2. run'[j].pc = "idle" /\ \A i \in Jobs \ {j} : run'[i] = run[i]
    BY <2>1 DEF IdleRun, OInv, IInv, TypeOK
  <2>3. \A i \in Jobs \ {j} : Waiting(i)' = Waiting(i)
    BY <2>2 DEF Waiting
  <2>4. QED
    BY <1>1, <2>2, <2>3, QuietKeeps DEF OInv, WaitsForNew, Idle, Scanned
<1>5. QED
  BY <1>3, <1>4

LEMMA OneHuman ==
  ASSUME OInv, Human
  PROVE  (OneThreadPerFinding /\ FpOfHunk /\ WaitsForNew)'
<1>1. \A c \in Threads : \A who :
        /\ ShutBy(c, who).by = c.by /\ ShutBy(c, who).fp = c.fp /\ ShutBy(c, who).site = c.site
        /\ Reopened(c).by = c.by /\ Reopened(c).fp = c.fp /\ Reopened(c).site = c.site
        /\ Ticked(c).by = c.by /\ Ticked(c).fp = c.fp /\ Ticked(c).site = c.site
  BY DEF Threads, ShutBy, Reopened, Ticked
<1>2. \A t \in Tids : \/ thread'[t] \in {thread[t], ShutBy(thread[t], "human"), Reopened(thread[t]), Ticked(thread[t])}
                      \/ \E s \in Sites : thread'[t] = NewThread("human", s, LocFp[s])
  BY DEF Human, HumanCloses, HumanReopens, HumanTicks, HumanComments, Shut, OInv, IInv, TypeOK
<1>3. \A s \in Sites : NewThread("human", s, LocFp[s]).by = "human"
  BY DEF NewThread, NoThread
<1>4. Quiet
  <2> SUFFICES ASSUME NEW t \in Tids, thread'[t].by = "revue"
               PROVE  /\ thread[t].by = "revue" /\ thread'[t].site = thread[t].site
                      /\ thread'[t].fp = thread[t].fp
    BY DEF Quiet, Revues
  <2>1. thread[t] \in Threads
    BY DEF OInv, IInv, TypeOK
  <2>2. thread'[t] \in {thread[t], ShutBy(thread[t], "human"), Reopened(thread[t]), Ticked(thread[t])}
    BY <1>2, <1>3
  <2>3. QED
    BY <1>1, <2>1, <2>2
<1>5. run' = run
  BY DEF Human, HumanCloses, HumanReopens, HumanTicks, HumanComments
<1>6. QED
  BY <1>4, <1>5, QuietKeeps DEF OInv, WaitsForNew, Idle, Scanned, Waiting

LEMMA OneNext == SoundScan /\ StableHunks /\ OInv /\ [Next]_vars => OInv'
<1> SUFFICES ASSUME SoundScan, StableHunks, OInv, [Next]_vars PROVE OInv'
  OBVIOUS
<1>1. IInv'
  BY InvNext DEF OInv
<1>2. ASSUME NEW j \in Jobs, JobStep(j)
      PROVE  (OneThreadPerFinding /\ FpOfHunk /\ WaitsForNew)'
  BY <1>2, OneScan, OnePost, OneEvict, OneRetry, OneCheck, OneAnswer, OneEnd DEF JobStep
<1>3. CASE UNCHANGED vars
  BY <1>1, <1>3 DEF vars, OInv, OneThreadPerFinding, FpOfHunk, WaitsForNew, Revues, Idle, Scanned, Waiting
<1>4. QED
  BY <1>1, <1>2, <1>3, OneStart, OneEnd, OneHuman DEF Next, OInv

\* However many jobs report it, and whatever is lost, fails, crashes or is evicted, a
\* finding whose line stays in its hunk never has a second comment of Revue's.
THEOREM OneThread == SoundScan /\ StableHunks => (Spec => []OneThreadPerFinding)
<1>1. ASSUME SoundScan, StableHunks PROVE OInv /\ [Next]_vars => OInv'
  BY <1>1, OneNext
<1>2. OInv => OneThreadPerFinding
  BY DEF OInv
<1>3. ASSUME SoundScan, StableHunks PROVE Spec => []OneThreadPerFinding
  BY <1>1, <1>2, <1>3, OneInit, PTL DEF Spec
<1>4. QED
  BY <1>3

-----------------------------------------------------------------------------
(* What deduplication skips is visible.  The comments a job matches its    *)
(* findings with stay as long as nothing is evicted behind its back; this  *)
(* holds of overlapping jobs and of incomplete scans as well.              *)

\* No job deletes comments that another job, or the store of a later one, relies upon.
Undisturbed == NoEviction \/ (~ Overlap /\ ~ Persist)

Alone == ~ Overlap => \A i, j \in Jobs : ~ Idle(i) /\ ~ Idle(j) => i = j

\* The threads a store knows can be read.
Vouched(st) == \A k \in Fps : st[k].st # "none" => st[k].tid \in Tids /\ Bears(st[k].tid, k)

\* A line of job r has a live comment on its hunk or on itself.
Covered(r, s) == \E t \in Tids : Live(t) /\ thread[t].fp \in {r.hunk[s], LocFp[s]}

\* A job that has not evicted, with its store: the comments the store knows are there, and
\* a finding that the job will not post any more is covered.
Truthful(r, st) ==
  /\ r.pc \in {"evict", "retry"} => r.evicted
  /\ NoEviction => ~ r.evicted
  /\ r.pc \in {"check", "reply", "resolve"} => r.todo = {}
  /\ r.pc # "idle" /\ ~ r.evicted =>
       /\ Vouched(st)
       /\ r.pc # "scan" /\ ~ r.flaw => \A s \in r.found : s \in r.todo \/ Covered(r, s)

TInv ==
  /\ TypeOK /\ Alone
  /\ \A j \in Jobs : Truthful(run[j], store[j])
  /\ NoEviction => Vouched(cache)
  /\ ~ Persist => cache = EmptyStore

\* No comment goes away, nor does what it is about change.
LiveKeeps == \A t \in Tids : Live(t) => Live(t)' /\ thread'[t].fp = thread[t].fp

LEMMA LiveNext ==
  ASSUME TypeOK, [Next]_vars, \A j \in Jobs : ~ Evict(j)
  PROVE  LiveKeeps
<1> USE DEF LiveKeeps, Live
<1>1. CASE thread' = thread
  BY <1>1
<1>2. ASSUME NEW t \in Tids, Fresh(t), NEW c, thread' = [thread EXCEPT ![t] = c]
      PROVE  LiveKeeps
  <2>1. \A u \in Tids \ {t} : thread'[u] = thread[u]
    BY <1>2 DEF TypeOK
  <2>2. QED
    BY <1>2, <2>1 DEF Fresh
<1>3. \A c \in Threads : \A w, who :
        /\ Answered(c, w).by = c.by /\ Answered(c, w).fp = c.fp
        /\ ShutBy(c, who).by = c.by /\ ShutBy(c, who).fp = c.fp
        /\ Reopened(c).by = c.by /\ Reopened(c).fp = c.fp
        /\ Ticked(c).by = c.by /\ Ticked(c).fp = c.fp
  BY DEF Threads, Answered, ShutBy, Reopened, Ticked
<1>4. ASSUME NEW t, NEW w, NEW who,
             \/ thread' = [thread EXCEPT ![t] = Answered(@, w)]
             \/ thread' = [thread EXCEPT ![t] = ShutBy(@, who)]
             \/ thread' = [thread EXCEPT ![t] = Reopened(@)]
             \/ thread' = [thread EXCEPT ![t] = Ticked(@)]
      PROVE  LiveKeeps
  <2> SUFFICES ASSUME NEW u \in Tids
               PROVE  thread'[u].by = thread[u].by /\ thread'[u].fp = thread[u].fp
    OBVIOUS
  <2>1. thread[u] \in Threads
    BY DEF TypeOK
  <2>2. thread'[u] \in {thread[u], Answered(thread[u], w), ShutBy(thread[u], who),
                        Reopened(thread[u]), Ticked(thread[u])}
    BY <1>4 DEF TypeOK
  <2>3. QED
    BY <1>3, <2>1, <2>2
<1>5. CASE Human
  <2>1. ASSUME NEW t \in Tids, HumanCloses(t) \/ HumanReopens(t) \/ HumanTicks(t)
        PROVE  LiveKeeps
    BY <1>4, <2>1 DEF HumanCloses, HumanReopens, HumanTicks, Shut
  <2>2. ASSUME NEW s \in Sites, HumanComments(s)
        PROVE  LiveKeeps
    BY <1>2, <2>2 DEF HumanComments
  <2>3. QED
    BY <1>5, <2>1, <2>2 DEF Human
<1>6. ASSUME NEW j \in Jobs, JobStep(j)
      PROVE  LiveKeeps
  <2>1. ASSUME NEW s, \/ thread' = thread
                      \/ \E t \in Tids : Fresh(t) /\ Create(j, t, s)
        PROVE  LiveKeeps
    BY <1>1, <1>2, <2>1 DEF Create
  <2>2. CASE \E s \in Sites : PostComment(j, s) \/ PostFails(j, s) \/ PostLimited(j, s)
    BY <2>1, <2>2 DEF PostComment, PostFails, PostLimited, Posted
  <2>3. CASE RetryPost(j)
    <3>1. \/ thread' = thread
          \/ \E t \in Tids : Fresh(t) /\ Create(j, t, run[j].site)
      BY <2>3, Zenon DEF RetryPost, Posted
    <3>2. QED
      BY <2>1, <3>1
  <2>4. CASE Reply(j) \/ ReplyFails(j)
    BY <1>1, <1>4, <2>4 DEF Reply, ReplyFails, ReplyLands
  <2>5. CASE Resolve(j) \/ ResolveFails(j)
    BY <1>1, <1>4, <2>5 DEF Resolve, ResolveFails, Shut
  <2>6. QED
    BY <1>1, <1>6, <2>2, <2>3, <2>4, <2>5
    DEF JobStep, Scan, EndPosts, PassOver, CatchUp, Decide, NovaFails, DecideNull, Finish
<1>7. QED
  BY <1>1, <1>5, <1>6 DEF Next, StartRun, Crash, vars

\* What is there stays there.
LEMMA KeptLive ==
  ASSUME LiveKeeps
  PROVE  /\ \A r, s : Covered(r, s) => Covered(r, s)'
         /\ \A st : Vouched(st) => Vouched(st)'
<1>1. \A r, s : Covered(r, s) => Covered(r, s)'
  BY DEF LiveKeeps, Covered
<1>2. \A st : Vouched(st) => Vouched(st)'
  BY DEF LiveKeeps, Vouched, Bears
<1>3. QED
  BY <1>1, <1>2

\* A job past its scan that goes on: what it drops from its list is covered.
LEMMA TrueMoves ==
  ASSUME NEW x \in Runs, NEW r \in Runs, NEW st, NEW su, Truthful(x, st),
         x.pc \notin {"idle", "scan"}, r.hunk = x.hunk, r.found = x.found,
         x.evicted => r.evicted, NoEviction => ~ r.evicted, x.flaw => r.flaw,
         r.evicted \/ LiveKeeps,
         r.pc \in {"evict", "retry"} => r.evicted,
         r.pc \in {"check", "reply", "resolve"} => r.todo = {},
         r.evicted \/ Vouched(su)',
         r.evicted \/ r.flaw \/ \A s \in x.todo : s \in r.todo \/ Covered(r, s)'
  PROVE  Truthful(r, su)'
<1>1. ASSUME ~ r.evicted, ~ r.flaw, NEW s \in r.found
      PROVE  s \in r.todo \/ Covered(r, s)'
  <2>1. s \in x.todo \/ Covered(x, s)
    BY <1>1 DEF Truthful
  <2>2. Covered(x, s) => Covered(r, s)
    BY DEF Covered
  <2>3. Covered(r, s) => Covered(r, s)'
    BY <1>1, KeptLive
  <2>4. QED
    BY <1>1, <2>1, <2>2, <2>3
<1>2. QED
  BY <1>1 DEF Truthful

\* The other jobs keep what they had: nothing went away, or they are not running.
LEMMA TrueAll ==
  ASSUME TInv, NEW j \in Jobs, ~ Idle(j), NEW r, NEW su, Become(j, r), Truthful(r, su)',
         store'[j] = su, \A i \in Jobs \ {j} : store'[i] = store[i],
         LiveKeeps \/ ~ Overlap
  PROVE  \A i \in Jobs : Truthful(run[i], store[i])'
<1>1. run'[j] = r /\ \A i \in Jobs \ {j} : run'[i] = run[i]
  BY DEF TInv, TypeOK, Become
<1>2. ASSUME NEW i \in Jobs \ {j} PROVE Truthful(run[i], store[i])'
  <2>1. PICK x, st : x = run[i] /\ st = store[i] /\ Truthful(x, st)
    BY DEF TInv
  <2>2. CASE LiveKeeps
    <3>1. Truthful(x, st)'
      BY <2>1, <2>2, KeptLive DEF Truthful
    <3>2. QED
      BY <1>1, <2>1, <3>1 DEF Truthful, Vouched, Bears, Covered, Live
  <2>3. CASE ~ Overlap
    <3>1. run[i].pc = "idle"
      BY <2>3 DEF TInv, Alone, Idle
    <3>2. QED
      BY <1>1, <2>1, <3>1 DEF Truthful
  <2>4. QED
    BY <2>2, <2>3
<1>3. QED
  BY <1>1, <1>2 DEF Truthful, Vouched, Bears, Covered, Live

\* A comment that is posted covers its line, and the store learns where it is.
LEMMA PostCovers ==
  ASSUME TInv, LiveKeeps, NEW j \in Jobs, NEW s \in Sites, Posted(j, s)
  PROVE  \E su : /\ store'[j] = su /\ \A i \in Jobs \ {j} : store'[i] = store[i]
                 /\ Vouched(store[j]) => Vouched(su)'
                 /\ \A r : r.hunk = run[j].hunk => Covered(r, s)'
<1>1. PICK k \in Fps : k = run[j].hunk[s]
  BY DEF TInv, TypeOK, Runs
<1>2. PICK t \in Tids : /\ Fresh(t) /\ Create(j, t, s)
                        /\ store' = [store EXCEPT ![j] = SaveFinding(@, k, t, s)]
  BY <1>1 DEF Posted
<1>3. thread'[t].by = "revue" /\ thread'[t].fp = k
  BY <1>1, <1>2 DEF Create, NewThread, NoThread, TInv, TypeOK
<1>4. PICK st \in [Fps -> StoreEntries] : st = store[j]
  BY DEF TInv, TypeOK
<1>5. PICK su : su = SaveFinding(st, k, t, s)
  OBVIOUS
<1>6. su[k].tid = t /\ \A l \in Fps \ {k} : su[l] = st[l]
  BY <1>4, <1>5 DEF SaveFinding
<1>7. Vouched(st) => Vouched(su)'
  <2>1. Vouched(st) => Vouched(st)'
    BY KeptLive
  <2>2. QED
    BY <1>3, <1>6, <2>1 DEF Vouched, Bears, Live
<1>8. \A r : r.hunk = run[j].hunk => Covered(r, s)'
  BY <1>1, <1>3 DEF Covered, Live
<1>9. store'[j] = su /\ \A i \in Jobs \ {j} : store'[i] = store[i]
  BY <1>2, <1>4, <1>5 DEF TInv, TypeOK
<1>10. QED
  BY <1>4, <1>7, <1>8, <1>9

LEMMA TruePosts ==
  ASSUME TInv, LiveKeeps, NEW j \in Jobs, NEW s \in Sites,
         PostComment(j, s) \/ PostFails(j, s) \/ PostLimited(j, s)
  PROVE  \A i \in Jobs : Truthful(run[i], store[i])'
<1>1. PICK x \in Runs : x = run[j] /\ x.pc = "post"
  BY DEF TInv, TypeOK, PostComment, PostFails, PostLimited
<1>2. PICK st : st = store[j] /\ Truthful(x, st)
  BY <1>1 DEF TInv
<1>3. Vouched(st) => Vouched(st)'
  BY KeptLive
<1>4. CASE PostComment(j, s)
  <2>1. PICK r \in Runs : Become(j, r) /\ r = [x EXCEPT !.todo = @ \ {s}]
    BY <1>1, <1>4, RunUpdates DEF PostComment
  <2>2. /\ r.pc = "post" /\ r.hunk = x.hunk /\ r.found = x.found /\ r.todo = x.todo \ {s}
        /\ r.evicted = x.evicted /\ r.flaw = x.flaw
    BY <1>1, <2>1 DEF Runs
  <2>3. PICK su : /\ store'[j] = su /\ \A i \in Jobs \ {j} : store'[i] = store[i]
                  /\ Vouched(st) => Vouched(su)'
                  /\ \A q : q.hunk = run[j].hunk => Covered(q, s)'
    BY <1>2, <1>4, PostCovers DEF PostComment
  <2>4. Covered(r, s)' /\ (NoEviction => ~ r.evicted) /\ (r.evicted \/ Vouched(su)')
    BY <1>1, <1>2, <2>2, <2>3 DEF Truthful
  <2>5. Truthful(r, su)'
    BY <1>1, <1>2, <2>2, <2>4, TrueMoves
  <2>6. QED
    BY <1>1, <2>1, <2>3, <2>5, TrueAll DEF Idle
<1>5. CASE PostFails(j, s) \/ PostLimited(j, s)
  <2>1. PICK r \in Runs :
          /\ Become(j, r)
          /\ \/ r = [x EXCEPT !.todo = @ \ {s}, !.flaw = TRUE]
             \/ /\ ~ NoEviction
                /\ r = [x EXCEPT !.todo = @ \ {s}, !.pc = "evict", !.site = s, !.evicted = TRUE]
    BY <1>1, <1>5, RunUpdates DEF PostFails, PostLimited, NoEviction
  <2>2. /\ r.hunk = x.hunk /\ r.found = x.found /\ (x.flaw => r.flaw)
        /\ \/ r.pc = "post" /\ r.evicted = x.evicted /\ r.flaw
           \/ ~ NoEviction /\ r.pc = "evict" /\ r.evicted
    BY <1>1, <2>1 DEF Runs
  <2>3. (NoEviction => ~ r.evicted) /\ (r.evicted \/ Vouched(st)')
    BY <1>1, <1>2, <1>3, <2>2 DEF Truthful
  <2>4. Truthful(r, st)'
    BY <1>1, <1>2, <2>2, <2>3, TrueMoves
  <2>5. store' = store
    BY <1>5 DEF PostFails, PostLimited
  <2>6. QED
    BY <1>1, <1>2, <2>1, <2>4, <2>5, TrueAll DEF Idle
<1>6. QED
  BY <1>4, <1>5

\* The scan: what the job matches is on a live comment of the listing or of its store.
LEMMA TrueScans ==
  ASSUME TInv, LiveKeeps, NEW j \in Jobs, Scan(j)
  PROVE  \A i \in Jobs : Truthful(run[i], store[i])'
<1>1. PICK x \in Runs : x = run[j] /\ x.pc = "scan"
  BY DEF TInv, TypeOK, Scan
<1>2. PICK st \in [Fps -> StoreEntries] : st = store[j] /\ Truthful(x, st)
  BY <1>1 DEF TInv, TypeOK
<1>3. PICK listed \in SUBSET Listing, heard \in SUBSET Tids, first \in [Fps -> 0..MaxThreads] :
        FirstListed(first, listed) /\ Become(j, WithPrior(x, BuildPrior(st, first, heard)))
  BY <1>1, <1>2 DEF Scan, Listing
<1>4. listed \subseteq Tids /\ 0 \notin Tids /\ \A t \in listed : Live(t)
  BY <1>3, BoundsAssumption DEF Listing, Tids
<1>5. PICK prior \in [Fps -> Entries] : prior = BuildPrior(st, first, heard)
  BY <1>3, <1>4, PriorType DEF TInv
<1>6. \A k \in Fps : prior[k].tid # 0 =>
        \/ st[k].st # "none" /\ prior[k].tid = st[k].tid
        \/ prior[k].tid = first[k]
  BY <1>5 DEF BuildPrior, LocalEntry, ApiEntry, NoEntry
<1>7. ASSUME Vouched(st), NEW k \in Fps, prior[k].tid # 0
      PROVE  prior[k].tid \in Tids /\ Bears(prior[k].tid, k)
  BY <1>3, <1>4, <1>6, <1>7 DEF Vouched, FirstListed, Bears
<1>8. PICK r : r = WithPrior(x, prior)
  OBVIOUS
<1>9. /\ Become(j, r) /\ r.pc = "post" /\ r.hunk = x.hunk /\ r.found = x.found
      /\ r.evicted = x.evicted
      /\ r.todo = {s \in x.found : ~ Matched(prior, x.hunk, s)}
  BY <1>1, <1>3, <1>5, <1>8 DEF WithPrior, Runs
<1>10. ASSUME Vouched(st), NEW s \in r.found, s \notin r.todo PROVE Covered(r, s)'
  <2>1. Matched(prior, x.hunk, s) /\ x.hunk[s] \in Fps /\ LocFp[s] \in Fps
    BY <1>9, <1>10, FpAssumption DEF Runs
  <2>2. Covered(r, s)
    BY <1>7, <1>9, <1>10, <2>1 DEF Matched, Covered, Bears
  <2>3. QED
    BY <2>2, KeptLive
<1>11. Vouched(st) => Vouched(st)'
  BY KeptLive
<1>12. Truthful(r, st)'
  BY <1>1, <1>2, <1>9, <1>10, <1>11 DEF Truthful
<1>13. store' = store
  BY DEF Scan
<1>14. QED
  BY <1>1, <1>2, <1>9, <1>12, <1>13, TrueAll DEF Idle

\* A job past its scan that posts nothing, and whose store keeps pointing where it did.
LEMMA TrueGoesOn ==
  ASSUME TInv, NEW j \in Jobs, Scanned(j), NEW r \in Runs, Become(j, r),
         r.hunk = run[j].hunk, r.found = run[j].found, r.todo = run[j].todo,
         r.evicted = run[j].evicted, run[j].flaw => r.flaw,
         r.pc \in {"evict", "retry"} => r.evicted,
         r.pc \in {"check", "reply", "resolve"} => r.todo = {},
         LiveKeeps \/ (run[j].evicted /\ ~ Overlap),
         \A i \in Jobs \ {j} : store'[i] = store[i],
         run[j].evicted \/ \A k \in Fps : store'[j][k].st # "none" =>
                             store[j][k].st # "none" /\ store'[j][k].tid = store[j][k].tid
  PROVE  \A i \in Jobs : Truthful(run[i], store[i])'
<1>1. PICK x \in Runs : x = run[j] /\ x.pc \notin {"idle", "scan"}
  BY DEF TInv, TypeOK, Scanned
<1>2. PICK st, su : st = store[j] /\ su = store'[j] /\ Truthful(x, st)
  BY <1>1 DEF TInv
<1>3. NoEviction => ~ r.evicted
  BY <1>1, <1>2 DEF Truthful
<1>4. ASSUME ~ r.evicted PROVE Vouched(su)'
  <2>1. Vouched(st)'
    BY <1>1, <1>2, <1>4, KeptLive DEF Truthful
  <2>2. QED
    BY <1>1, <1>2, <1>4, <2>1 DEF Vouched
<1>5. Truthful(r, su)'
  BY <1>1, <1>2, <1>3, <1>4, TrueMoves
<1>6. QED
  BY <1>1, <1>2, <1>5, TrueAll DEF Idle

\* The steps that only change what the job is doing, or which prior finding it is at.
LEMMA TrueJobs ==
  ASSUME TInv, LiveKeeps, NEW j \in Jobs,
         EndPosts(j) \/ ReplyFails(j) \/ Reply(j) \/ ResolveFails(j) \/
         \E k \in Fps : PassOver(j, k) \/ Decide(j, k) \/ NovaFails(j, k) \/ DecideNull(j, k)
  PROVE  \A i \in Jobs : Truthful(run[i], store[i])'
<1>1. PICK x \in Runs : x = run[j] /\ x.pc \in {"post", "check", "reply", "resolve"}
  BY DEF TInv, TypeOK, EndPosts, ReplyFails, Reply, ResolveFails, PassOver, Decide, NovaFails,
         DecideNull, Checking
<1>2. x.todo = {}
  BY <1>1 DEF EndPosts, ReplyFails, Reply, ResolveFails, PassOver, Decide, NovaFails, DecideNull,
              Checking, TInv, Truthful
<1>3. store' = store
  BY DEF EndPosts, ReplyFails, Reply, ResolveFails, PassOver, Decide, NovaFails, DecideNull
<1>4. ASSUME NEW r \in Runs, Become(j, r), r.hunk = x.hunk, r.found = x.found, r.todo = x.todo,
             r.evicted = x.evicted, x.flaw => r.flaw, r.pc \in {"check", "reply", "resolve"}
      PROVE  \A i \in Jobs : Truthful(run[i], store[i])'
  BY <1>1, <1>2, <1>3, <1>4, TrueGoesOn DEF Scanned
<1>5. ASSUME NEW p \in {"check", "resolve"},
             Become(j, [run[j] EXCEPT !.pc = p]) \/ Become(j, [run[j] EXCEPT !.pc = p, !.flaw = TRUE])
      PROVE  \A i \in Jobs : Truthful(run[i], store[i])'
  <2>1. PICK r \in Runs : /\ Become(j, r)
                          /\ \/ r = [x EXCEPT !.pc = p]
                             \/ r = [x EXCEPT !.pc = p, !.flaw = TRUE]
    BY <1>1, <1>5, RunUpdates DEF Phases
  <2>2. /\ r.hunk = x.hunk /\ r.found = x.found /\ r.todo = x.todo /\ r.evicted = x.evicted
        /\ (x.flaw => r.flaw) /\ r.pc = p
    BY <1>1, <2>1 DEF Runs
  <2>3. QED
    BY <1>4, <2>1, <2>2
<1>6. ASSUME NEW k \in Fps, PassOver(j, k) \/ NovaFails(j, k)
      PROVE  \A i \in Jobs : Truthful(run[i], store[i])'
  <2>1. PICK r \in Runs : /\ Become(j, r)
                          /\ \/ r = [x EXCEPT !.checks = @ \ {k}]
                             \/ r = [[x EXCEPT !.checks = @ \ {k}] EXCEPT !.flaw = TRUE]
    BY <1>1, <1>6, RunUpdates DEF PassOver, NovaFails, Checked
  <2>2. x.pc = "check"
    BY <1>1, <1>6 DEF PassOver, NovaFails, Checking
  <2>3. /\ r.hunk = x.hunk /\ r.found = x.found /\ r.todo = x.todo /\ r.evicted = x.evicted
        /\ (x.flaw => r.flaw) /\ r.pc = "check"
    BY <1>1, <2>1, <2>2 DEF Runs
  <2>4. QED
    BY <1>4, <2>1, <2>3
<1>7. ASSUME NEW k \in Fps, NEW w \in {"plain", "follow_up", "auto"}, Answering(j, k, w)
      PROVE  \A i \in Jobs : Truthful(run[i], store[i])'
  <2>1. PICK r \in Runs :
          Become(j, r) /\ r = [x EXCEPT !.checks = @ \ {k}, !.pc = "reply", !.key = k, !.say = w]
    BY <1>1, <1>7, RunUpdates DEF Answering
  <2>2. /\ r.hunk = x.hunk /\ r.found = x.found /\ r.todo = x.todo /\ r.evicted = x.evicted
        /\ r.flaw = x.flaw /\ r.pc = "reply"
    BY <1>1, <2>1 DEF Runs
  <2>3. QED
    BY <1>4, <2>1, <2>2
<1>8. CASE EndPosts(j) \/ ReplyFails(j) \/ ResolveFails(j)
  BY <1>5, <1>8 DEF EndPosts, ReplyFails, ResolveFails
<1>9. CASE Reply(j)
  BY <1>5, <1>9 DEF Reply
<1>10. ASSUME NEW k \in Fps, Decide(j, k) \/ DecideNull(j, k)
       PROVE  \A i \in Jobs : Truthful(run[i], store[i])'
  BY <1>7, <1>10 DEF Decide, DecideNull
<1>11. QED
  BY <1>6, <1>8, <1>9, <1>10

\* The steps that mark an entry of the store: it points where it did.
LEMMA TrueMarks ==
  ASSUME TInv, LiveKeeps, NEW j \in Jobs, Resolve(j) \/ \E k \in Fps : CatchUp(j, k)
  PROVE  \A i \in Jobs : Truthful(run[i], store[i])'
<1>1. PICK x \in Runs : x = run[j] /\ x.pc \in {"check", "resolve"}
  BY DEF TInv, TypeOK, Resolve, CatchUp, Checking
<1>2. x.todo = {}
  BY <1>1 DEF TInv, Truthful
<1>3. PICK k \in Fps : Mark(j, k)
  BY DEF Resolve, CatchUp, TInv, TypeOK, Runs
<1>4. PICK st \in [Fps -> StoreEntries] : st = store[j]
  BY DEF TInv, TypeOK
<1>5. PICK su : su = MarkResolved(st, x.prior[k], k)
  OBVIOUS
<1>6. \A l \in Fps : su[l].st # "none" => st[l].st # "none" /\ su[l].tid = st[l].tid
  BY <1>4, <1>5 DEF MarkResolved, StoreEntries
<1>7. store'[j] = su /\ \A i \in Jobs \ {j} : store'[i] = store[i]
  BY <1>1, <1>3, <1>4, <1>5 DEF Mark, TInv, TypeOK
<1>8. PICK r \in Runs : Become(j, r) /\ \/ r = [x EXCEPT !.pc = "check"]
                                        \/ \E l \in Fps : r = [x EXCEPT !.checks = @ \ {l}] /\ x.pc = "check"
  <2>1. CASE Resolve(j)
    BY <1>1, <2>1, RunUpdates DEF Resolve, Phases
  <2>2. ASSUME NEW l \in Fps, CatchUp(j, l)
        PROVE  x.pc = "check" /\ Become(j, [x EXCEPT !.checks = @ \ {l}])
    BY <1>1, <2>2 DEF CatchUp, Checking, Checked
  <2>3. QED
    BY <1>1, <2>1, <2>2, RunUpdates
<1>9. /\ r.hunk = x.hunk /\ r.found = x.found /\ r.todo = x.todo /\ r.evicted = x.evicted
      /\ (x.flaw => r.flaw) /\ r.pc = "check"
  BY <1>1, <1>8 DEF Runs
<1>10. Scanned(j) /\ Become(j, r)
  BY <1>1, <1>8 DEF Scanned
<1>11. /\ r.hunk = run[j].hunk /\ r.found = run[j].found /\ r.todo = run[j].todo
       /\ r.evicted = run[j].evicted /\ (run[j].flaw => r.flaw)
       /\ r.pc \notin {"evict", "retry"} /\ r.todo = {}
  BY <1>1, <1>2, <1>9
<1>12. \A l \in Fps : store'[j][l].st # "none" =>
         store[j][l].st # "none" /\ store'[j][l].tid = store[j][l].tid
  BY <1>4, <1>6, <1>7
<1>13. QED
  BY <1>7, <1>10, <1>11, <1>12, TrueGoesOn

\* A job that evicts deletes comments: it has evicted, and no other job is running.
LEMMA TrueEvicts ==
  ASSUME TInv, Undisturbed, NEW j \in Jobs, Evict(j)
  PROVE  \A i \in Jobs : Truthful(run[i], store[i])'
<1>1. PICK x \in Runs : x = run[j] /\ x.pc = "evict" /\ x.evicted
  BY DEF TInv, TypeOK, Evict, Truthful
<1>2. ~ Overlap
  BY <1>1 DEF TInv, Truthful, Undisturbed
<1>3. PICK p \in {"post", "retry"} : \/ Become(j, [x EXCEPT !.pc = p])
                                     \/ Become(j, [x EXCEPT !.pc = p, !.flaw = TRUE])
  BY <1>1, Zenon DEF Evict
<1>4. PICK r \in Runs : /\ Become(j, r)
                        /\ \/ r = [x EXCEPT !.pc = p]
                           \/ r = [x EXCEPT !.pc = p, !.flaw = TRUE]
  BY <1>1, <1>3, RunUpdates DEF Phases
<1>5. /\ r.hunk = x.hunk /\ r.found = x.found /\ r.todo = x.todo /\ r.evicted = x.evicted
      /\ (x.flaw => r.flaw) /\ r.pc = p
  BY <1>1, <1>4 DEF Runs
<1>6. store' = store /\ Scanned(j)
  BY <1>1 DEF Evict, Scanned
<1>7. QED
  BY <1>1, <1>2, <1>4, <1>5, <1>6, TrueGoesOn

LEMMA TrueRetries ==
  ASSUME TInv, LiveKeeps, NEW j \in Jobs, RetryPost(j)
  PROVE  \A i \in Jobs : Truthful(run[i], store[i])'
<1>1. PICK x \in Runs : x = run[j] /\ x.pc = "retry" /\ x.evicted
  BY DEF TInv, TypeOK, RetryPost, Truthful
<1>2. PICK r \in Runs : /\ Become(j, r)
                        /\ \/ r = [x EXCEPT !.pc = "post"]
                           \/ r = [x EXCEPT !.pc = "post", !.flaw = TRUE]
  <2>1. Become(j, [x EXCEPT !.pc = "post"]) \/ Become(j, [x EXCEPT !.pc = "post", !.flaw = TRUE])
    BY <1>1, Zenon DEF RetryPost
  <2>2. QED
    BY <1>1, <2>1, RunUpdates DEF Phases
<1>3. /\ r.hunk = x.hunk /\ r.found = x.found /\ r.todo = x.todo /\ r.evicted = x.evicted
      /\ (x.flaw => r.flaw) /\ r.pc = "post"
  BY <1>1, <1>2 DEF Runs
<1>4. x.site \in Sites
  BY DEF Runs
<1>5. \A i \in Jobs \ {j} : store'[i] = store[i]
  <2>1. Posted(j, x.site) \/ store' = store
    BY <1>1, Zenon DEF RetryPost
  <2>2. QED
    BY <1>4, <2>1, PostCovers
<1>6. Scanned(j)
  BY <1>1 DEF Scanned
<1>7. QED
  BY <1>1, <1>2, <1>3, <1>5, <1>6, TrueGoesOn

\* A job that starts takes over what the CI cache knows; one that ends is not asked any more.
LEMMA TrueEnds ==
  ASSUME TInv, Undisturbed, NEW j \in Jobs, StartRun(j) \/ Finish(j) \/ Crash(j)
  PROVE  \A i \in Jobs : Truthful(run[i], store[i])'
<1>1. thread' = thread
  BY DEF StartRun, Finish, Crash
<1>2. Vouched(EmptyStore)
  BY DEF Vouched, EmptyStore, NoStoreEntry
<1>3. PICK r, su : /\ Become(j, r) /\ r.pc \in {"idle", "scan"} /\ ~ r.evicted
                   /\ su = store'[j] /\ Vouched(su)
                   /\ r.pc = "scan" => r.todo = {}
                   /\ \A i \in Jobs \ {j} : store'[i] = store[i]
  <2>1. CASE StartRun(j)
    <3>1. PICK d \in Diffs, h \in Hunkings, reported \in SUBSET Sites, anchored \in SUBSET Sites :
            Become(j, Started(d, h, reported, anchored))
      BY <2>1, Zenon DEF StartRun, Begin
    <3>2. PICK r : r = Started(d, h, reported, anchored)
      OBVIOUS
    <3>3. r.pc = "scan" /\ ~ r.evicted /\ r.todo = {}
      <4> DEFINE fps == {h[s] : s \in reported}
      <4>1. r = [IdleRun EXCEPT !.pc = "scan", !.diff = d, !.hunk = h, !.found = anchored, !.seen = fps]
        BY <3>2 DEF Started
      <4> HIDE DEF fps
      <4>2. QED
        BY <4>1 DEF IdleRun
    <3>4. PICK su : /\ store' = [store EXCEPT ![j] = su]
                    /\ su = EmptyStore \/ (Persist /\ su = cache)
      BY <2>1 DEF StartRun
    <3>5. Vouched(su)
      BY <1>2, <3>4 DEF TInv, Undisturbed
    <3>6. store'[j] = su /\ \A i \in Jobs \ {j} : store'[i] = store[i]
      BY <3>4 DEF TInv, TypeOK
    <3>7. QED
      BY <3>1, <3>2, <3>3, <3>5, <3>6
  <2>2. CASE Finish(j) \/ Crash(j)
    BY <1>2, <2>2 DEF Finish, Crash, IdleRun, TInv, TypeOK
  <2>3. QED
    BY <2>1, <2>2
<1>4. run'[j] = r /\ \A i \in Jobs \ {j} : run'[i] = run[i]
  BY <1>3 DEF Become, TInv, TypeOK
<1>5. ASSUME NEW i \in Jobs \ {j} PROVE Truthful(run[i], store[i])'
  BY <1>1, <1>3, <1>4 DEF TInv, Truthful, Vouched, Bears, Covered, Live
<1>6. Truthful(run[j], store[j])'
  BY <1>1, <1>3, <1>4 DEF Truthful, Vouched, Bears, Live
<1>7. QED
  BY <1>5, <1>6

\* People only add to what is there.
LEMMA TrueRest ==
  ASSUME TInv, LiveKeeps, UNCHANGED <<run, store>>
  PROVE  \A i \in Jobs : Truthful(run[i], store[i])'
<1> SUFFICES ASSUME NEW i \in Jobs PROVE Truthful(run[i], store[i])'
  OBVIOUS
<1>1. PICK x, st : x = run[i] /\ st = store[i] /\ Truthful(x, st)
  BY DEF TInv
<1>2. Truthful(x, st)'
  BY <1>1, KeptLive DEF Truthful
<1>3. QED
  BY <1>1, <1>2 DEF Truthful, Vouched, Bears, Covered, Live

LEMMA AloneStays ==
  ASSUME TInv, [Next]_vars
  PROVE  Alone'
<1>1. CASE run' = run
  BY <1>1 DEF TInv, Alone, Idle
<1>2. ASSUME NEW j \in Jobs, NEW r, Become(j, r), ~ Overlap => \A i \in Jobs : ~ Idle(i) => i = j
      PROVE  Alone'
  BY <1>2 DEF Become, Alone, Idle, TInv, TypeOK
<1>3. ASSUME NEW j \in Jobs, ~ Idle(j), NEW r, Become(j, r)
      PROVE  Alone'
  BY <1>2, <1>3 DEF TInv, Alone
<1>4. ASSUME NEW j \in Jobs, StartRun(j)
      PROVE  Alone'
  BY <1>2, <1>4 DEF StartRun, Begin, Idle
<1>5. ASSUME NEW j \in Jobs, JobStep(j) \/ Crash(j)
      PROVE  Alone'
  <2>1. ~ Idle(j)
    BY <1>5 DEF Idle, JobStep, Scan, PostComment, PostFails, PostLimited, Evict, RetryPost, EndPosts,
                PassOver, CatchUp, Decide, NovaFails, DecideNull, Checking, Reply, ReplyFails,
                Resolve, ResolveFails, Finish, Crash
  <2>2. \E r : Become(j, r)
    BY <1>5, Zenon
    DEF JobStep, Scan, PostComment, PostFails, PostLimited, Evict, RetryPost, EndPosts, PassOver,
        CatchUp, Decide, NovaFails, DecideNull, Answering, Reply, ReplyFails, Resolve, ResolveFails,
        Finish, Crash
  <2>3. QED
    BY <1>3, <2>1, <2>2
<1>6. QED
  BY <1>1, <1>4, <1>5
  DEF Next, Human, HumanCloses, HumanReopens, HumanTicks, HumanComments, vars

\* Only a job that ends writes to the cache, and only if its store may be relied upon.
LEMMA CacheStays ==
  ASSUME TInv, [Next]_vars, NoEviction => LiveKeeps
  PROVE  (NoEviction => Vouched(cache)') /\ (~ Persist => cache' = EmptyStore)
<1>1. CASE cache' = cache
  BY <1>1, KeptLive DEF TInv, Vouched, Bears, Live
<1>2. ASSUME NEW j \in Jobs, Finish(j)
      PROVE  (NoEviction => Vouched(cache)') /\ (~ Persist => cache' = EmptyStore)
  <2>1. thread' = thread /\ cache' = IF Persist THEN store[j] ELSE cache
    BY <1>2 DEF Finish
  <2>2. NoEviction => Vouched(store[j]) /\ Vouched(cache)
    BY <1>2 DEF Finish, TInv, Truthful
  <2>3. QED
    BY <2>1, <2>2 DEF TInv, Vouched, Bears, Live
<1>3. ASSUME NEW j \in Jobs, JobStep(j)
      PROVE  (NoEviction => Vouched(cache)') /\ (~ Persist => cache' = EmptyStore)
  <2>1. CASE Finish(j)
    BY <1>2, <2>1
  <2>2. QED
    BY <1>1, <1>3, <2>1, Zenon
    DEF JobStep, Scan, PostComment, PostFails, PostLimited, Evict, RetryPost, EndPosts, PassOver,
        CatchUp, Decide, NovaFails, DecideNull, Reply, ReplyFails, Resolve, ResolveFails
<1>4. QED
  BY <1>1, <1>3
  DEF Next, StartRun, Crash, Human, HumanCloses, HumanReopens, HumanTicks, HumanComments, vars

LEMMA TInit == Init => TInv
<1> SUFFICES ASSUME Init PROVE TInv
  OBVIOUS
<1>1. \A j \in Jobs : run[j].pc = "idle" /\ ~ run[j].evicted
  BY DEF Init, IdleRun
<1>2. cache = EmptyStore /\ \A k \in Fps : EmptyStore[k].st = "none"
  BY DEF Init, EmptyStore, NoStoreEntry
<1>3. QED
  BY <1>1, <1>2, TypeInit DEF TInv, Alone, Idle, Truthful, Vouched

LEMMA TNext == Undisturbed /\ TInv /\ [Next]_vars => TInv'
<1> SUFFICES ASSUME Undisturbed, TInv, [Next]_vars PROVE TInv'
  OBVIOUS
<1>1. TypeOK' /\ Alone'
  BY TypeNext, AloneStays DEF TInv
<1>2. ASSUME NEW j \in Jobs, Evict(j)
      PROVE  ~ NoEviction
  BY <1>2 DEF Evict, TInv, Truthful
<1>3. (\A j \in Jobs : ~ Evict(j)) => LiveKeeps
  BY LiveNext DEF TInv
<1>4. (NoEviction => Vouched(cache)') /\ (~ Persist => cache' = EmptyStore)
  BY <1>2, <1>3, CacheStays
<1>5. \A i \in Jobs : Truthful(run[i], store[i])'
  <2>1. CASE \E j \in Jobs : Evict(j)
    BY <2>1, TrueEvicts
  <2>2. CASE LiveKeeps
    <3>1. ASSUME NEW j \in Jobs, JobStep(j)
          PROVE  \A i \in Jobs : Truthful(run[i], store[i])'
      BY <2>1, <2>2, <3>1, TrueScans, TruePosts, TrueRetries, TrueJobs, TrueMarks, TrueEnds
      DEF JobStep
    <3>2. CASE UNCHANGED <<run, store>>
      BY <2>2, <3>2, TrueRest
    <3>3. QED
      BY <3>1, <3>2, TrueEnds
      DEF Next, Human, HumanCloses, HumanReopens, HumanTicks, HumanComments, vars
  <2>3. QED
    BY <1>3, <2>1, <2>2
<1>6. QED
  BY <1>1, <1>4, <1>5 DEF TInv, Vouched, Bears, Live

\* Whatever jobs overlap, scans miss, calls lose and stores remember: when a job in which no
\* call failed has posted, each of its findings has a live comment on its hunk or line.
THEOREM ReportedCanBeRead == Undisturbed => (Spec => []ReportedIsVisible)
<1>1. ASSUME Undisturbed PROVE TInv /\ [Next]_vars => TInv'
  BY <1>1, TNext
<1>2. ASSUME TInv PROVE ReportedIsVisible
  <2> SUFFICES ASSUME NEW j \in Jobs, NEW s \in run[j].found, run[j].pc = "check",
                      ~ run[j].flaw, ~ run[j].evicted
               PROVE  \E t \in Tids : Live(t) /\ thread[t].fp \in {run[j].hunk[s], LocFp[s]}
    BY DEF ReportedIsVisible
  <2>1. run[j].todo = {} /\ (s \in run[j].todo \/ Covered(run[j], s))
    BY <1>2 DEF TInv, Truthful
  <2>2. QED
    BY <2>1 DEF Covered
<1>3. ASSUME Undisturbed PROVE Spec => []ReportedIsVisible
  BY <1>1, <1>2, <1>3, TInit, PTL DEF Spec
<1>4. QED
  BY <1>3

-----------------------------------------------------------------------------
(* What becomes of the answers on GitHub and GitLab: their listings do not *)
(* say where a comment stands, and only a store does.                      *)

\* The location of a comment can come from the store alone, and none is carried over.
Unlocated == ~ Located /\ UseNova /\ ~ Persist

\* Job r, with its store, knows no location of a prior finding, and answers none.
Mute(r, st) ==
  /\ r.pc = "scan" => \A k \in Fps : st[k].st = "none"
  /\ r.pc \notin {"idle", "scan"} => \A k \in Fps : ~ r.prior[k].loc
  /\ r.pc \notin {"reply", "resolve"}

HInv == TypeOK /\ \A j \in Jobs : Mute(run[j], store[j])

LEMMA MuteAll ==
  ASSUME HInv, NEW j \in Jobs, NEW r, Become(j, r), NEW su, store'[j] = su,
         \A i \in Jobs \ {j} : store'[i] = store[i], Mute(r, su)
  PROVE  \A i \in Jobs : Mute(run[i], store[i])'
<1>1. run'[j] = r /\ \A i \in Jobs \ {j} : run'[i] = run[i]
  BY DEF HInv, TypeOK, Become
<1>2. QED
  BY <1>1 DEF HInv, Mute

\* A job past its scan that answers nothing new.
LEMMA MuteGoesOn ==
  ASSUME HInv, NEW j \in Jobs, Scanned(j), NEW r, Become(j, r), r.prior = run[j].prior,
         r.pc \notin {"scan", "reply", "resolve"}, \A i \in Jobs \ {j} : store'[i] = store[i]
  PROVE  \A i \in Jobs : Mute(run[i], store[i])'
<1>1. PICK su : su = store'[j]
  OBVIOUS
<1>2. Mute(r, su)
  BY DEF HInv, Mute, Scanned
<1>3. QED
  BY <1>1, <1>2, MuteAll

LEMMA MuteScans ==
  ASSUME HInv, ~ Located, NEW j \in Jobs, Scan(j)
  PROVE  \A i \in Jobs : Mute(run[i], store[i])'
<1>1. PICK x \in Runs : x = run[j] /\ x.pc = "scan"
  BY DEF HInv, TypeOK, Scan
<1>2. PICK st \in [Fps -> StoreEntries] : st = store[j] /\ \A k \in Fps : st[k].st = "none"
  BY <1>1 DEF HInv, TypeOK, Mute
<1>3. PICK heard \in SUBSET Tids, first \in [Fps -> 0..MaxThreads] :
        Become(j, WithPrior(x, BuildPrior(st, first, heard)))
  BY <1>1, <1>2 DEF Scan, Listing
<1>4. PICK prior \in [Fps -> Entries] : prior = BuildPrior(st, first, heard)
  BY <1>3, PriorType DEF HInv
<1>5. \A k \in Fps : ~ prior[k].loc
  BY <1>2, <1>4 DEF BuildPrior, ApiEntry, NoEntry
<1>6. PICK r : r = WithPrior(x, prior)
  OBVIOUS
<1>7. Become(j, r) /\ r.pc = "post" /\ r.prior = prior
  BY <1>1, <1>3, <1>4, <1>6 DEF WithPrior, Runs
<1>8. PICK su : su = store'[j] /\ \A i \in Jobs : store'[i] = store[i]
  BY DEF Scan
<1>9. Mute(r, su)
  BY <1>5, <1>7 DEF Mute
<1>10. QED
  BY <1>7, <1>8, <1>9, MuteAll

\* A prior finding without a location is untouched, as far as the job can tell.
LEMMA MuteDecides ==
  ASSUME HInv, NEW j \in Jobs, NEW k \in Fps
  PROVE  ~ Decide(j, k)
<1> SUFFICES ASSUME Decide(j, k) PROVE FALSE
  OBVIOUS
<1>1. run[j].pc = "check"
  BY DEF Decide, Checking
<1>2. ~ run[j].prior[k].loc
  BY <1>1 DEF HInv, Mute
<1>3. StatusOf(j, k) \notin {"code_removed", "changed"}
  BY <1>2 DEF StatusOf, Status
<1>4. QED
  BY <1>3 DEF Decide

LEMMA MutePosts ==
  ASSUME HInv, NEW j \in Jobs,
         \/ \E s \in Sites : PostComment(j, s) \/ PostFails(j, s) \/ PostLimited(j, s)
         \/ Evict(j) \/ RetryPost(j) \/ EndPosts(j)
  PROVE  \A i \in Jobs : Mute(run[i], store[i])'
<1>1. PICK x \in Runs : x = run[j] /\ x.pc \in {"post", "evict", "retry"}
  BY DEF HInv, TypeOK, PostComment, PostFails, PostLimited, Evict, RetryPost, EndPosts
<1>2. \A i \in Jobs \ {j} : store'[i] = store[i]
  <2>1. store' = store \/ \E s : Posted(j, s)
    BY Zenon DEF PostComment, PostFails, PostLimited, Evict, RetryPost, EndPosts
  <2>2. QED
    BY <2>1 DEF Posted, HInv, TypeOK
<1>3. \E r : Become(j, r) /\ r.prior = x.prior /\ r.pc \in {"post", "evict", "retry", "check"}
  <2>1. ASSUME NEW s \in Sites, PostComment(j, s) \/ PostFails(j, s) \/ PostLimited(j, s)
        PROVE  \/ Become(j, [x EXCEPT !.todo = @ \ {s}])
               \/ Become(j, [x EXCEPT !.todo = @ \ {s}, !.flaw = TRUE])
               \/ Become(j, [x EXCEPT !.todo = @ \ {s}, !.pc = "evict", !.site = s, !.evicted = TRUE])
    BY <1>1, <2>1 DEF PostComment, PostFails, PostLimited
  <2>2. ASSUME Evict(j) \/ RetryPost(j) \/ EndPosts(j)
        PROVE  \E p \in {"post", "retry", "check"} :
                 \/ Become(j, [x EXCEPT !.pc = p])
                 \/ Become(j, [x EXCEPT !.pc = p, !.flaw = TRUE])
    BY <1>1, <2>2, Zenon DEF Evict, RetryPost, EndPosts
  <2>3. ASSUME NEW s \in Sites, NEW r,
               \/ r = [x EXCEPT !.todo = @ \ {s}]
               \/ r = [x EXCEPT !.todo = @ \ {s}, !.flaw = TRUE]
               \/ r = [x EXCEPT !.todo = @ \ {s}, !.pc = "evict", !.site = s, !.evicted = TRUE]
        PROVE  r.prior = x.prior /\ r.pc \in {"post", "evict", "retry"}
    BY <1>1, <2>3 DEF Runs
  <2>4. ASSUME NEW p \in {"post", "retry", "check"}, NEW r,
               r = [x EXCEPT !.pc = p] \/ r = [x EXCEPT !.pc = p, !.flaw = TRUE]
        PROVE  r.prior = x.prior /\ r.pc = p
    BY <1>1, <2>4 DEF Runs
  <2>5. QED
    BY <2>1, <2>2, <2>3, <2>4
<1>4. QED
  BY <1>1, <1>2, <1>3, MuteGoesOn DEF Scanned

LEMMA MuteAnswers ==
  ASSUME HInv, NEW j \in Jobs,
         \E k \in Fps : PassOver(j, k) \/ CatchUp(j, k) \/ NovaFails(j, k)
  PROVE  \A i \in Jobs : Mute(run[i], store[i])'
<1>1. PICK x \in Runs : x = run[j] /\ x.pc = "check"
  BY DEF HInv, TypeOK, PassOver, CatchUp, NovaFails, Checking
<1>2. \A i \in Jobs \ {j} : store'[i] = store[i]
  <2>1. store' = store \/ \E k : Mark(j, k)
    BY Zenon DEF PassOver, CatchUp, NovaFails
  <2>2. QED
    BY <2>1 DEF Mark, HInv, TypeOK
<1>3. PICK r : /\ Become(j, r)
               /\ \E k \in Fps : \/ r = [x EXCEPT !.checks = @ \ {k}]
                                 \/ r = [[x EXCEPT !.checks = @ \ {k}] EXCEPT !.flaw = TRUE]
  BY <1>1 DEF PassOver, CatchUp, NovaFails, Checking, Checked
<1>4. r.prior = x.prior /\ r.pc = "check"
  BY <1>1, <1>3 DEF Runs
<1>5. QED
  BY <1>1, <1>2, <1>3, <1>4, MuteGoesOn DEF Scanned

\* No job is about to reply or to resolve.
LEMMA MuteNeverAnswers ==
  ASSUME HInv, NEW j \in Jobs
  PROVE  ~ (Reply(j) \/ ReplyFails(j) \/ Resolve(j) \/ ResolveFails(j))
BY DEF HInv, Mute, Reply, ReplyFails, Resolve, ResolveFails

LEMMA MuteEnds ==
  ASSUME HInv, ~ Persist, NEW j \in Jobs, StartRun(j) \/ Finish(j) \/ Crash(j)
  PROVE  \A i \in Jobs : Mute(run[i], store[i])'
<1>1. store' = [store EXCEPT ![j] = EmptyStore]
  BY DEF StartRun, Finish, Crash
<1>2. PICK su : /\ su = EmptyStore /\ store'[j] = su
                /\ \A i \in Jobs \ {j} : store'[i] = store[i]
  BY <1>1 DEF HInv, TypeOK
<1>3. \A k \in Fps : su[k].st = "none"
  BY <1>2 DEF EmptyStore, NoStoreEntry
<1>4. PICK r : Become(j, r) /\ r.pc \in {"idle", "scan"}
  <2>1. CASE StartRun(j)
    <3>1. PICK d \in Diffs, h \in Hunkings, reported \in SUBSET Sites, anchored \in SUBSET Sites :
            Become(j, Started(d, h, reported, anchored))
      BY <2>1, Zenon DEF StartRun, Begin
    <3>2. Started(d, h, reported, anchored).pc = "scan"
      <4> DEFINE fps == {h[s] : s \in reported}
      <4>1. Started(d, h, reported, anchored) =
              [IdleRun EXCEPT !.pc = "scan", !.diff = d, !.hunk = h, !.found = anchored, !.seen = fps]
        BY DEF Started
      <4> HIDE DEF fps
      <4>2. QED
        BY <4>1 DEF IdleRun
    <3>3. QED
      BY <3>1, <3>2
  <2>2. CASE Finish(j) \/ Crash(j)
    BY <2>2 DEF Finish, Crash, IdleRun
  <2>3. QED
    BY <2>1, <2>2
<1>5. Mute(r, su)
  BY <1>3, <1>4 DEF Mute
<1>6. QED
  BY <1>2, <1>4, <1>5, MuteAll

LEMMA HInit == Init => HInv
<1> SUFFICES ASSUME Init PROVE HInv
  OBVIOUS
<1>1. \A j \in Jobs : run[j].pc = "idle"
  BY DEF Init, IdleRun
<1>2. QED
  BY <1>1, TypeInit DEF HInv, Mute

LEMMA HNext == Unlocated /\ HInv /\ [Next]_vars => HInv'
<1> SUFFICES ASSUME ~ Located, UseNova, ~ Persist, HInv, [Next]_vars PROVE HInv'
  BY DEF Unlocated
<1>1. TypeOK'
  BY TypeNext DEF HInv
<1>2. ASSUME NEW j \in Jobs, JobStep(j)
      PROVE  \A i \in Jobs : Mute(run[i], store[i])'
  BY <1>2, MuteScans, MuteDecides, MutePosts, MuteAnswers, MuteNeverAnswers, MuteEnds
  DEF JobStep, DecideNull
<1>3. ASSUME UNCHANGED <<run, store>>
      PROVE  \A i \in Jobs : Mute(run[i], store[i])'
  <2>1. \A i \in Jobs : Mute(run[i], store[i])
    BY DEF HInv
  <2>2. QED
    BY <1>3, <2>1 DEF Mute
<1>4. \A i \in Jobs : Mute(run[i], store[i])'
  BY <1>2, <1>3, MuteEnds
  DEF Next, Human, HumanCloses, HumanReopens, HumanTicks, HumanComments, vars
<1>5. QED
  BY <1>1, <1>4 DEF HInv

\* Without the store of an earlier job nothing that was reported on GitHub or GitLab is ever
\* answered with Nova: build_prior takes a comment's file and line from Bitbucket's "inline"
\* alone, and resolution_status stops at UNTOUCHED without them.
THEOREM NothingAnswered ==
  ~ Located /\ UseNova /\ ~ Persist
    => (Spec => [](\A j \in Jobs : run[j].pc \notin {"reply", "resolve"}))
<1>1. ASSUME Unlocated PROVE HInv /\ [Next]_vars => HInv'
  BY <1>1, HNext
<1>2. ASSUME HInv PROVE \A j \in Jobs : run[j].pc \notin {"reply", "resolve"}
  BY <1>2 DEF HInv, Mute
<1>3. ASSUME Unlocated PROVE Spec => [](\A j \in Jobs : run[j].pc \notin {"reply", "resolve"})
  BY <1>1, <1>2, <1>3, HInit, PTL DEF Spec
<1>4. QED
  BY <1>3 DEF Unlocated

-----------------------------------------------------------------------------
(* How far a promise of the documentation holds that the code breaks       *)
(* elsewhere: "resolved" is said only of threads that are resolved.        *)

\* A job goes on from its reply to the resolution, and the platform resolves the thread.
ResolvesSurely == {"lost", "resolve", "crash"} \cap Env = {}

Resolving(t) == \E j \in Jobs : run[j].pc = "resolve" /\ Target(j) = t

\* A thread that says "resolved" was resolved, or a job is about to.
AboutToResolve ==
  \A t \in Tids :
    Live(t) /\ thread[t].sent = "auto" => thread[t].closed # "open" \/ Resolving(t)

CInv == TypeOK /\ AboutToResolve

\* A job that resolves goes on resolving what it was.
ResolvingStays ==
  \A j \in Jobs : run[j].pc = "resolve" => run'[j].pc = "resolve" /\ Target(j)' = Target(j)

LEMMA BecomeStays ==
  ASSUME TypeOK, NEW j \in Jobs, run[j].pc # "resolve", NEW r, Become(j, r)
  PROVE  ResolvingStays
BY DEF TypeOK, Become, ResolvingStays, Target

\* A step that lets no thread say more than it did.
LEMMA AboutKeeps ==
  ASSUME CInv, ResolvingStays,
         \A t \in Tids : Live(t)' /\ thread'[t].sent = "auto" =>
           /\ Live(t) /\ thread[t].sent = "auto"
           /\ thread'[t].closed = "open" => thread[t].closed = "open"
  PROVE  AboutToResolve'
BY DEF CInv, AboutToResolve, ResolvingStays, Resolving

\* A new comment says nothing.
LEMMA AboutCreates ==
  ASSUME CInv, ResolvingStays, NEW t \in Tids, NEW who, NEW s, NEW k,
         thread' = [thread EXCEPT ![t] = NewThread(who, s, k)]
  PROVE  AboutToResolve'
<1>1. thread'[t].sent = "none" /\ \A u \in Tids \ {t} : thread'[u] = thread[u]
  BY DEF CInv, TypeOK, NewThread, NoThread
<1>2. QED
  BY <1>1, AboutKeeps DEF Live

LEMMA AboutReplies ==
  ASSUME CInv, NEW j \in Jobs, Reply(j)
  PROVE  AboutToResolve'
<1>1. PICK x \in Runs : x = run[j] /\ x.pc = "reply"
  BY DEF CInv, TypeOK, Reply
<1>2. PICK tid : tid = Target(j)
  OBVIOUS
<1>3. ResolvingStays
  BY <1>1, BecomeStays DEF Reply, CInv
<1>4. \A t \in Tids : t # tid => thread'[t] = thread[t]
  BY <1>2 DEF Reply, ReplyLands, CInv, TypeOK
<1>5. ASSUME tid \in Tids
      PROVE  thread[tid] \in Threads /\ thread'[tid] = Answered(thread[tid], x.say) /\ Live(tid)
  BY <1>1, <1>2, <1>5 DEF Reply, ReplyLands, CInv, TypeOK
<1>6. CASE x.say = "auto"
  <2>1. Resolving(tid)'
    <3>1. PICK r : Become(j, r) /\ r = [x EXCEPT !.pc = "resolve"]
      BY <1>1, <1>6 DEF Reply
    <3>2. r.pc = "resolve" /\ r.prior = x.prior /\ r.key = x.key
      BY <1>1, <3>1 DEF Runs
    <3>3. run'[j] = r
      BY <3>1 DEF Become, CInv, TypeOK
    <3>4. QED
      BY <1>1, <1>2, <3>2, <3>3 DEF Resolving, Target
  <2>2. ASSUME NEW t \in Tids, t # tid, Live(t)', thread'[t].sent = "auto", thread'[t].closed = "open"
        PROVE  Resolving(t)'
    BY <1>3, <1>4, <2>2 DEF CInv, AboutToResolve, Live, Resolving, ResolvingStays
  <2>3. QED
    BY <2>1, <2>2 DEF AboutToResolve
<1>7. CASE x.say # "auto"
  <2>1. \A c \in Threads : /\ Answered(c, x.say).by = c.by /\ Answered(c, x.say).closed = c.closed
                           /\ Answered(c, x.say).sent = "auto" => c.sent = "auto"
    BY <1>7 DEF Answered, Threads
  <2>2. \A t \in Tids : /\ thread'[t].by = thread[t].by /\ thread'[t].closed = thread[t].closed
                        /\ thread'[t].sent = "auto" => thread[t].sent = "auto"
    BY <1>4, <1>5, <2>1
  <2>3. QED
    BY <1>3, <2>2, AboutKeeps DEF Live
<1>8. QED
  BY <1>6, <1>7

LEMMA AboutResolves ==
  ASSUME CInv, ResolvesSurely, NEW j \in Jobs, Resolve(j) \/ ResolveFails(j)
  PROVE  AboutToResolve'
<1>1. PICK tid : tid = Target(j)
  OBVIOUS
<1>2. \A i \in Jobs \ {j} : run'[i] = run[i]
  BY DEF Resolve, ResolveFails, Become, CInv, TypeOK
<1>3. \A t \in Tids : t # tid /\ Resolving(t) => Resolving(t)'
  BY <1>1, <1>2 DEF Resolving, Target
<1>4. CASE Resolve(j)
  <2>1. \A c \in Threads : ShutBy(c, "revue").closed # "open"
    BY DEF ShutBy, Threads, Closures
  <2>2. \A t \in Tids : t # tid => thread'[t] = thread[t]
    BY <1>1, <1>4 DEF Resolve, Shut, CInv, TypeOK
  <2>3. tid \in Tids => thread'[tid].closed # "open"
    BY <1>1, <1>4, <2>1 DEF Resolve, Shut, CInv, TypeOK
  <2>4. QED
    BY <1>3, <2>2, <2>3 DEF CInv, AboutToResolve, Live
<1>5. CASE ResolveFails(j)
  <2>1. ~ Live(tid) /\ thread' = thread
    BY <1>1, <1>5 DEF ResolveFails, ResolvesSurely
  <2>2. QED
    BY <1>3, <2>1 DEF CInv, AboutToResolve, Live
<1>6. QED
  BY <1>4, <1>5

\* What the other calls of a job write says nothing that was not said before.
LEMMA AboutSteps ==
  ASSUME CInv, ResolvesSurely, NEW j \in Jobs, JobStep(j)
  PROVE  AboutToResolve'
<1>1. CASE Reply(j)
  BY <1>1, AboutReplies
<1>2. CASE Resolve(j) \/ ResolveFails(j)
  BY <1>2, AboutResolves
<1>3. CASE ~ Reply(j) /\ ~ Resolve(j) /\ ~ ResolveFails(j)
  <2>1. /\ run[j].pc # "resolve"
        /\ \E r : Become(j, r)
    <3>1. run[j].pc # "resolve"
      BY <1>3 DEF JobStep, Scan, PostComment, PostFails, PostLimited, Evict, RetryPost, EndPosts,
                  PassOver, CatchUp, Decide, NovaFails, DecideNull, Checking, ReplyFails, Finish
    <3>2. \E r : Become(j, r)
      BY <1>3, Zenon
      DEF JobStep, Scan, PostComment, PostFails, PostLimited, Evict, RetryPost, EndPosts, PassOver,
          CatchUp, Decide, NovaFails, DecideNull, Answering, ReplyFails, Finish
    <3>3. QED
      BY <3>1, <3>2
  <2>2. ResolvingStays
    BY <2>1, BecomeStays DEF CInv
  <2>3. CASE thread' = thread
    BY <2>2, <2>3, AboutKeeps DEF Live
  <2>4. ASSUME NEW s, NEW t \in Tids, Create(j, t, s)
        PROVE  AboutToResolve'
    BY <2>2, <2>4, AboutCreates DEF Create
  <2>5. CASE Evict(j)
    <3>1. \A t \in Tids : thread[t] \in Threads /\ thread'[t] \in
                            {thread[t], Silenced(thread[t]), Deleted(thread[t])}
      BY <2>5 DEF Evict, CInv, TypeOK
    <3>2. \A c \in Threads : Silenced(c).sent = "none" /\ Deleted(c).sent = "none"
      BY DEF Silenced, Deleted, Threads
    <3>3. \A t \in Tids : thread'[t].sent = "auto" => thread'[t] = thread[t]
      BY <3>1, <3>2
    <3>4. QED
      BY <2>2, <3>3, AboutKeeps DEF Live
  <2>6. CASE \E s \in Sites : PostComment(j, s) \/ PostFails(j, s) \/ PostLimited(j, s)
    BY <2>3, <2>4, <2>6 DEF PostComment, PostFails, PostLimited, Posted
  <2>7. CASE RetryPost(j)
    <3>1. \/ thread' = thread
          \/ \E t \in Tids : Create(j, t, run[j].site)
      BY <2>7, Zenon DEF RetryPost, Posted
    <3>2. QED
      BY <2>3, <2>4, <3>1
  <2>8. CASE ReplyFails(j)
    BY <2>3, <2>8 DEF ReplyFails, ResolvesSurely
  <2>9. QED
    BY <1>3, <2>3, <2>5, <2>6, <2>7, <2>8
    DEF JobStep, Scan, EndPosts, PassOver, CatchUp, Decide, NovaFails, DecideNull, Finish
<1>4. QED
  BY <1>1, <1>2, <1>3

\* People close and reopen threads, which opens none that was never closed.
LEMMA AboutPeople ==
  ASSUME CInv, Human
  PROVE  AboutToResolve'
<1>1. run' = run /\ ResolvingStays
  BY DEF Human, HumanCloses, HumanReopens, HumanTicks, HumanComments, ResolvingStays, Target
<1>2. ASSUME NEW t \in Tids, HumanCloses(t) \/ HumanReopens(t) \/ HumanTicks(t)
      PROVE  AboutToResolve'
  <2>1. thread[t] \in Threads /\ \A u \in Tids \ {t} : thread'[u] = thread[u]
    BY <1>2 DEF HumanCloses, HumanReopens, HumanTicks, Shut, CInv, TypeOK
  <2>2. thread'[t] \in {ShutBy(thread[t], "human"), Reopened(thread[t]), Ticked(thread[t])}
    BY <1>2 DEF HumanCloses, HumanReopens, HumanTicks, Shut, CInv, TypeOK
  <2>3. \A c \in Threads : \A d \in {ShutBy(c, "human"), Reopened(c), Ticked(c)} :
          d.by = c.by /\ d.sent = c.sent /\ (d.closed = "open" => c.closed = "open")
    BY DEF ShutBy, Reopened, Ticked, Threads
  <2>4. /\ thread'[t].by = thread[t].by /\ thread'[t].sent = thread[t].sent
        /\ thread'[t].closed = "open" => thread[t].closed = "open"
    BY <2>1, <2>2, <2>3
  <2>5. QED
    BY <1>1, <2>1, <2>4, AboutKeeps DEF Live
<1>3. ASSUME NEW s \in Sites, HumanComments(s)
      PROVE  AboutToResolve'
  <2>1. PICK c : /\ c = NewThread("human", s, LocFp[s])
                 /\ \E t \in Tids : thread' = [thread EXCEPT ![t] = c]
    BY <1>3 DEF HumanComments
  <2>2. c.sent = "none"
    BY <2>1 DEF NewThread, NoThread
  <2>3. PICK t \in Tids : thread'[t].sent = "none" /\ \A u \in Tids \ {t} : thread'[u] = thread[u]
    BY <2>1, <2>2 DEF CInv, TypeOK
  <2>4. QED
    BY <1>1, <2>3, AboutKeeps DEF Live
<1>4. QED
  BY <1>2, <1>3 DEF Human

LEMMA CNext == ResolvesSurely /\ CInv /\ [Next]_vars => CInv'
<1> SUFFICES ASSUME ResolvesSurely, CInv, [Next]_vars PROVE CInv'
  OBVIOUS
<1>1. TypeOK'
  BY TypeNext DEF CInv
<1>2. ASSUME NEW j \in Jobs, StartRun(j)
      PROVE  AboutToResolve'
  <2>1. run[j].pc # "resolve" /\ \E r : Become(j, r)
    BY <1>2, Zenon DEF StartRun, Begin
  <2>2. thread' = thread
    BY <1>2 DEF StartRun
  <2>3. QED
    BY <2>1, <2>2, BecomeStays, AboutKeeps DEF CInv, Live
<1>3. \A j \in Jobs : ~ Crash(j)
  BY DEF Crash, ResolvesSurely
<1>4. ASSUME UNCHANGED vars
      PROVE  AboutToResolve'
  <2>1. ResolvingStays /\ thread' = thread
    BY <1>4 DEF vars, ResolvingStays, Target
  <2>2. QED
    BY <2>1, AboutKeeps DEF Live
<1>5. AboutToResolve'
  BY <1>2, <1>3, <1>4, AboutSteps, AboutPeople DEF Next
<1>6. QED
  BY <1>1, <1>5 DEF CInv

\* Unless the platform refuses to resolve, a response is lost or a job dies, "resolved" is
\* found between jobs on resolved threads only: whatever else fails, overlaps or is evicted.
THEOREM SentinelsAreTrue == ResolvesSurely => (Spec => []SentinelMeansResolved)
<1>1. ASSUME ResolvesSurely PROVE CInv /\ [Next]_vars => CInv'
  BY <1>1, CNext
<1>2. Init => CInv
  <2> SUFFICES ASSUME Init PROVE CInv
    OBVIOUS
  <2>1. \A t \in Tids : thread[t].sent = "none"
    BY DEF Init, NoThread
  <2>2. QED
    BY <2>1, TypeInit DEF CInv, AboutToResolve
<1>3. CInv => SentinelMeansResolved
  BY DEF CInv, AboutToResolve, Resolving, SentinelMeansResolved
<1>4. ASSUME ResolvesSurely PROVE Spec => []SentinelMeansResolved
  BY <1>1, <1>2, <1>3, <1>4, PTL DEF Spec
<1>5. QED
  BY <1>4
=============================================================================
