-------------------------- MODULE PrReviewAnswers --------------------------
(***************************************************************************)
(* PrReview implements PriorFinding when jobs do not overlap and scans are *)
(* complete: the latest answer readable for a finding only moves forward.  *)
(* What its jobs and their store believe about those answers is true.      *)
(***************************************************************************)
EXTENDS PrReviewProofs

\* What the latest answer for a hunk is, read off the threads one by one.
AnswerIs(k) ==
  /\ (\A t \in Tids : ~ Bears(t, k)) <=> KeyAnswer(k) = "unposted"
  /\ (\E t \in Tids : Bears(t, k) /\ thread[t].sent = "auto") <=> KeyAnswer(k) = "auto"
  /\ (\E t \in Tids : Bears(t, k) /\ thread[t].ts > 0) <=> KeyAnswer(k) \in {"auto", "follow_up"}
  /\ KeyAnswer(k) \in {"unposted", "open", "follow_up", "auto"}

AnswersAre == \A k \in Fps : AnswerIs(k)

LEMMA Answers == IInv => AnswersAre
<1> SUFFICES ASSUME IInv, NEW k \in Fps PROVE AnswerIs(k)
  BY DEF AnswersAre
<1> DEFINE bearing == {t \in Tids : Live(t) /\ thread[t].fp = k}
<1>1. \A t \in Tids : /\ thread[t].ts \in Nat /\ thread[t].sent \in {"none", "follow_up", "auto"}
                      /\ thread[t].sent = "none" <=> thread[t].ts = 0
  BY BoundsAssumption DEF IInv, TypeOK, Threads, SentinelTimes, Says
<1>2. \A t \in bearing : thread[t].sent = "auto" => LatestSentinel(k, bearing) = "auto"
  BY HearsAuto DEF IInv
<1>3. /\ LatestSentinel(k, bearing) \in {"none", "follow_up", "auto"}
      /\ LatestSentinel(k, bearing) = "auto" => \E t \in bearing : thread[t].sent = "auto"
      /\ LatestSentinel(k, bearing) = "none" <=> ~ \E t \in bearing : thread[t].ts > 0
  BY DEF LatestSentinel
<1>4. KeyAnswer(k) = IF bearing = {} THEN "unposted"
                     ELSE IF LatestSentinel(k, bearing) = "none" THEN "open"
                     ELSE LatestSentinel(k, bearing)
  BY DEF KeyAnswer
<1>5. \A t \in Tids : t \in bearing <=> Bears(t, k)
  BY DEF Bears
<1> HIDE DEF bearing
<1>6. bearing \subseteq Tids
  BY DEF bearing
<1>7. QED
  BY <1>1, <1>2, <1>3, <1>4, <1>5, <1>6 DEF AnswerIs

LEMMA AnswersPrimed == IInv' => AnswersAre'
BY Answers, PTL

\* Nothing a reader sees changes when no comment and no sentinel does.
LEMMA SameSpeech ==
  ASSUME IInv, IInv',
         \A t \in Tids : /\ Live(t)' <=> Live(t)
                         /\ thread'[t].fp = thread[t].fp \/ ~ Live(t)
                         /\ thread'[t].ts = thread[t].ts /\ thread'[t].sent = thread[t].sent
  PROVE  UNCHANGED <<[k \in Fps |-> KeyAnswer(k)], Visible>>
<1>1. Visible' = Visible
  BY DEF Visible
<1>2. ASSUME NEW k \in Fps PROVE KeyAnswer(k)' = KeyAnswer(k)
  <2>1. \A t \in Tids : Bears(t, k)' <=> Bears(t, k)
    BY DEF Bears
  <2>2. AnswerIs(k) /\ AnswerIs(k)'
    BY Answers, AnswersPrimed DEF AnswersAre
  <2>3. QED
    BY <2>1, <2>2 DEF AnswerIs
<1>3. QED
  BY <1>1, <1>2

\* A new comment is a Post of the abstract specification.
LEMMA CreatePosts ==
  ASSUME IInv, IInv', NEW t \in Tids, Fresh(t), NEW who \in {"revue", "human"},
         NEW s \in Sites, NEW k \in Fps,
         thread' = [thread EXCEPT ![t] = NewThread(who, s, k)]
  PROVE  PF!Post(k)
<1>1. thread'[t].by = who /\ thread'[t].fp = k /\ thread'[t].ts = 0 /\ thread'[t].sent = "none"
  BY DEF NewThread, NoThread, IInv, TypeOK
<1>2. \A u \in Tids \ {t} : thread'[u] = thread[u]
  BY DEF IInv, TypeOK
<1>3. ~ Live(t) /\ Live(t)' /\ \A u \in Tids \ {t} : Live(u)' <=> Live(u)
  BY <1>1, <1>2 DEF Live, Fresh
<1>4. Visible' = Visible \cup {<<"finding", t>>} /\ <<"finding", t>> \notin Visible
  BY <1>1, <1>2, <1>3 DEF Visible
<1>5. \A l \in Fps : KeyAnswer(l)' = IF l = k /\ KeyAnswer(l) = "unposted" THEN "open" ELSE KeyAnswer(l)
  <2> SUFFICES ASSUME NEW l \in Fps
               PROVE  KeyAnswer(l)' = IF l = k /\ KeyAnswer(l) = "unposted" THEN "open" ELSE KeyAnswer(l)
    OBVIOUS
  <2>1. AnswerIs(l) /\ AnswerIs(l)'
    BY Answers, AnswersPrimed DEF AnswersAre
  <2>2. \A u \in Tids \ {t} : Bears(u, l)' <=> Bears(u, l)
    BY <1>2, <1>3 DEF Bears
  <2>3. ~ Bears(t, l) /\ (Bears(t, l)' <=> l = k)
    BY <1>1, <1>3 DEF Bears
  <2>4. QED
    BY <1>1, <1>2, <2>1, <2>2, <2>3 DEF AnswerIs
<1>6. QED
  BY <1>4, <1>5 DEF PF!Post

\* An answer is a FollowUp or a Resolve: the hunk had none, or only a follow-up.
LEMMA ReplyAnswers ==
  ASSUME IInv, IInv', NEW j \in Jobs, run[j].pc = "reply", run[j].say # "plain", ReplyLands(j),
         clock' = clock
  PROVE  PF!Next
<1>1. PICK k \in Fps : k = run[j].key
  BY DEF IInv, TypeOK, Runs
<1>2. PICK tid \in Tids : tid = Target(j) /\ thread[tid].fp = k
  BY <1>1 DEF Target, IInv, Replying, PriorPoints, Scanned, PointsTo
<1>3. /\ Answerable(k) /\ clock > 0
      /\ \A t \in Tids : thread[t] \in Threads /\ thread[t].ts \in Nat /\ clock \in Nat
  <2>1. k \in Pending(j) /\ run[j].prior[k].sent # "auto"
    BY <1>1 DEF Pending, IInv, Replying
  <2>2. QED
    BY <2>1, BoundsAssumption DEF IInv, SnapshotHolds, Scanned, OneJob, Idle, TypeOK, Threads
<1>4. PICK say \in {"follow_up", "auto"} : say = run[j].say
  BY DEF IInv, TypeOK, Runs
<1>5. /\ thread'[tid].by = thread[tid].by /\ thread'[tid].fp = k
      /\ thread'[tid].ts = clock /\ thread'[tid].sent = say
      /\ \A t \in Tids \ {tid} : thread'[t] = thread[t]
      /\ Live(tid)
  BY <1>2, <1>3, <1>4, AnsweredFields DEF ReplyLands, Answerable, IInv, TypeOK
<1>6. \A t \in Tids : Live(t)' <=> Live(t)
  BY <1>5 DEF Live
<1>7. Visible \subseteq Visible'
  BY <1>3, <1>5, <1>6 DEF Visible
<1>8. \A l \in Fps, t \in Tids : Bears(t, l)' <=> Bears(t, l)
  BY <1>2, <1>5, <1>6 DEF Bears
<1>9. Bears(tid, k) /\ \A l \in Fps : l # k => ~ Bears(tid, l)
  BY <1>2, <1>5 DEF Bears
<1>10. \A l \in Fps : AnswerIs(l) /\ AnswerIs(l)'
  BY Answers, AnswersPrimed DEF AnswersAre
<1>11. KeyAnswer(k) \in {"open", "follow_up"}
  BY <1>3, <1>9, <1>10 DEF AnswerIs, Answerable, Bears
<1>12. KeyAnswer(k)' = say
  <2>1. say = "auto" => KeyAnswer(k)' = "auto"
    BY <1>5, <1>8, <1>9, <1>10 DEF AnswerIs
  <2>2. say = "follow_up" => KeyAnswer(k)' = "follow_up"
    BY <1>3, <1>5, <1>8, <1>9, <1>10 DEF AnswerIs, Answerable, Bears
  <2>3. QED
    BY <2>1, <2>2
<1>13. \A l \in Fps : l # k => KeyAnswer(l)' = KeyAnswer(l)
  <2> SUFFICES ASSUME NEW l \in Fps, l # k PROVE KeyAnswer(l)' = KeyAnswer(l)
    OBVIOUS
  <2>1. \A t \in Tids : Bears(t, l) => thread'[t] = thread[t]
    BY <1>5, <1>9
  <2>2. QED
    BY <2>1, <1>8, <1>10 DEF AnswerIs
<1>14. [l \in Fps |-> KeyAnswer(l)]' = [[l \in Fps |-> KeyAnswer(l)] EXCEPT ![k] = say]
  BY <1>12, <1>13
<1>15. PF!FollowUp(k) \/ PF!Resolve(k)
  BY <1>7, <1>11, <1>14 DEF PF!FollowUp, PF!Resolve
<1>16. QED
  BY <1>15 DEF PF!Next

\* Eviction invents no answer, and changes none without deleting something visible.
LEMMA EvictEvicts ==
  ASSUME IInv, IInv', NEW j \in Jobs, Evict(j)
  PROVE  PF!Next \/ UNCHANGED <<[k \in Fps |-> KeyAnswer(k)], Visible>>
<1>1. Gentle
  BY EvictGentle
<1>2. \A t \in Tids : /\ thread[t].ts \in Nat /\ thread'[t].ts \in Nat
                      /\ thread[t].sent = "none" <=> thread[t].ts = 0
                      /\ thread'[t].sent = "none" <=> thread'[t].ts = 0
  BY BoundsAssumption DEF IInv, TypeOK, Threads, SentinelTimes
<1>3. \A t \in Tids : Live(t)' => Live(t)
  <2>1. \A t \in Tids : \/ thread'[t] = thread[t]
                        \/ thread'[t] = Deleted(thread[t])
                        \/ thread'[t] = Silenced(thread[t])
    BY DEF Evict
  <2>2. \A c \in Threads : Silenced(c).by = c.by /\ Deleted(c).by = "deleted"
    BY DEF Silenced, Deleted, Threads
  <2>3. QED
    BY <2>1, <2>2 DEF Live, IInv, TypeOK
<1>4. \A k \in Fps, t \in Tids : Bears(t, k)' => Bears(t, k)
  BY <1>1, <1>3 DEF Gentle, Bears, Live
<1>5. Visible' \subseteq Visible
  BY <1>1, <1>2, <1>3 DEF Visible, Gentle
<1>6. CASE Visible' = Visible
  <2>1. ASSUME NEW t \in Tids
        PROVE  /\ Live(t)' <=> Live(t)
               /\ thread[t].ts > 0 => thread'[t].ts > 0
    <3>1. Live(t) <=> <<"finding", t>> \in Visible
      BY DEF Visible
    <3>2. Live(t)' <=> <<"finding", t>> \in Visible'
      BY DEF Visible
    <3>3. thread[t].ts > 0 => <<"answer", t>> \in Visible
      BY DEF Visible, IInv, SentinelTimes
    <3>4. <<"answer", t>> \in Visible' => thread'[t].ts > 0
      BY DEF Visible
    <3>5. QED
      BY <1>6, <3>1, <3>2, <3>3, <3>4
  <2>2. \A t \in Tids : /\ thread'[t].fp = thread[t].fp \/ ~ Live(t)
                        /\ thread'[t].ts = thread[t].ts /\ thread'[t].sent = thread[t].sent
    BY <1>1, <1>2, <2>1 DEF Gentle, Live
  <2>3. QED
    BY <2>1, <2>2, SameSpeech
<1>7. CASE Visible' # Visible
  <2>1. ASSUME NEW k \in Fps
        PROVE  /\ KeyAnswer(k)' \in PF!Answers
               /\ PF!Rank[KeyAnswer(k)'] <= PF!Rank[KeyAnswer(k)]
    <3>1. AnswerIs(k) /\ AnswerIs(k)'
      BY Answers, AnswersPrimed DEF AnswersAre
    <3>2. KeyAnswer(k)' = "auto" => KeyAnswer(k) = "auto"
      BY <1>1, <1>2, <1>4, <3>1 DEF AnswerIs, Gentle
    <3>3. KeyAnswer(k)' = "follow_up" => KeyAnswer(k) \in {"auto", "follow_up"}
      BY <1>1, <1>2, <1>4, <3>1 DEF AnswerIs, Gentle
    <3>4. KeyAnswer(k)' = "open" => KeyAnswer(k) # "unposted"
      BY <1>4, <3>1 DEF AnswerIs
    <3>5. /\ KeyAnswer(k) \in {"unposted", "open", "follow_up", "auto"}
          /\ KeyAnswer(k)' \in {"unposted", "open", "follow_up", "auto"}
      BY <3>1 DEF AnswerIs
    <3>6. /\ PF!Rank["unposted"] = 0 /\ PF!Rank["open"] = 1
          /\ PF!Rank["follow_up"] = 2 /\ PF!Rank["auto"] = 3
      BY DEF PF!Rank, PF!Answers
    <3>7. QED
      BY <3>2, <3>3, <3>4, <3>5, <3>6 DEF PF!Answers
  <2>2. PF!Evict
    BY <1>5, <1>7, <2>1 DEF PF!Evict
  <2>3. QED
    BY <2>2 DEF PF!Next
<1>8. QED
  BY <1>6, <1>7

\* Posting, or failing to, is a Post or nothing.
LEMMA PostSteps ==
  ASSUME IInv, IInv', NEW j \in Jobs, NEW s \in Sites,
         \/ thread' = thread
         \/ \E t \in Tids : Fresh(t) /\ Create(j, t, s)
  PROVE  PF!Next \/ UNCHANGED <<[k \in Fps |-> KeyAnswer(k)], Visible>>
<1>1. CASE thread' = thread
  BY <1>1, SameSpeech DEF Live
<1>2. ASSUME NEW t \in Tids, Fresh(t), Create(j, t, s)
      PROVE  PF!Next
  <2>1. PICK k \in Fps : k = run[j].hunk[s]
    BY DEF IInv, TypeOK, Runs
  <2>2. PF!Post(k)
    BY <1>2, <2>1, CreatePosts DEF Create
  <2>3. QED
    BY <2>2 DEF PF!Next
<1>3. QED
  BY <1>1, <1>2

LEMMA JobImplements ==
  ASSUME IInv, IInv', NEW j \in Jobs, JobStep(j)
  PROVE  PF!Next \/ UNCHANGED <<[k \in Fps |-> KeyAnswer(k)], Visible>>
<1>1. CASE thread' = thread
  BY <1>1, SameSpeech DEF Live
<1>2. CASE \E s \in Sites : PostComment(j, s) \/ PostFails(j, s) \/ PostLimited(j, s)
  BY <1>2, PostSteps DEF PostComment, PostFails, PostLimited, Posted
<1>3. CASE RetryPost(j)
  <2>1. run[j].site \in Sites
    BY DEF IInv, TypeOK, Runs
  <2>2. QED
    BY <1>3, <2>1, PostSteps DEF RetryPost, Posted
<1>4. CASE Reply(j) \/ ReplyFails(j)
  <2>1. run[j].pc = "reply" /\ clock' = clock /\ (thread' = thread \/ ReplyLands(j))
    BY <1>4 DEF Reply, ReplyFails
  <2>2. CASE ReplyLands(j) /\ run[j].say # "plain"
    BY <2>1, <2>2, ReplyAnswers
  <2>3. CASE ReplyLands(j) /\ run[j].say = "plain"
    <3>1. \A t \in Tids : thread[t] \in Threads /\ thread[t].ts \in Nat /\ clock \in Nat
      BY BoundsAssumption DEF IInv, TypeOK, Threads
    <3>2. \A t \in Tids : /\ thread'[t].by = thread[t].by /\ thread'[t].fp = thread[t].fp
                          /\ thread'[t].ts = thread[t].ts /\ thread'[t].sent = thread[t].sent
      BY <2>3, <3>1, AnsweredFields DEF ReplyLands, IInv, TypeOK
    <3>3. QED
      BY <3>2, SameSpeech DEF Live
  <2>4. QED
    BY <1>1, <2>1, <2>2, <2>3
<1>5. CASE Resolve(j) \/ ResolveFails(j)
  <2>1. CASE Shut(Target(j), "revue")
    BY <2>1, ShutSame, SameSpeech DEF Live
  <2>2. QED
    BY <1>1, <1>5, <2>1 DEF Resolve, ResolveFails
<1>6. CASE Evict(j)
  BY <1>6, EvictEvicts
<1>7. QED
  BY <1>1, <1>2, <1>3, <1>4, <1>5, <1>6
  DEF JobStep, Scan, EndPosts, PassOver, CatchUp, Decide, NovaFails, DecideNull, Finish

LEMMA HumanImplements ==
  ASSUME IInv, IInv', Human
  PROVE  PF!Next \/ UNCHANGED <<[k \in Fps |-> KeyAnswer(k)], Visible>>
<1>1. ASSUME NEW t \in Tids, HumanCloses(t)
      PROVE  UNCHANGED <<[k \in Fps |-> KeyAnswer(k)], Visible>>
  BY <1>1, ShutSame, SameSpeech DEF HumanCloses, Live
<1>2. ASSUME NEW t \in Tids, HumanReopens(t) \/ HumanTicks(t)
      PROVE  UNCHANGED <<[k \in Fps |-> KeyAnswer(k)], Visible>>
  <2>1. \A u \in Tids : /\ thread'[u].by = thread[u].by /\ thread'[u].fp = thread[u].fp
                        /\ thread'[u].ts = thread[u].ts /\ thread'[u].sent = thread[u].sent
    BY <1>2, MarksSame
  <2>2. QED
    BY <2>1, SameSpeech DEF Live
<1>3. ASSUME NEW s \in Sites, HumanComments(s)
      PROVE  PF!Next
  <2>1. PICK k \in Fps : k = LocFp[s]
    BY FpAssumption
  <2>2. PF!Post(k)
    BY <1>3, <2>1, CreatePosts DEF HumanComments
  <2>3. QED
    BY <2>2 DEF PF!Next
<1>4. QED
  BY <1>1, <1>2, <1>3 DEF Human

LEMMA InitImplements == Init => PF!Init
<1> SUFFICES ASSUME Init PROVE PF!Init
  OBVIOUS
<1>1. \A t \in Tids : ~ Live(t)
  BY DEF Init, NoThread, Live
<1>2. \A k \in Fps : KeyAnswer(k) = "unposted"
  BY <1>1 DEF KeyAnswer
<1>3. Visible = {}
  BY <1>1 DEF Visible
<1>4. QED
  BY <1>2, <1>3 DEF PF!Init

LEMMA StepImplements ==
  IInv /\ IInv' /\ [Next]_vars => [PF!Next]_<<[k \in Fps |-> KeyAnswer(k)], Visible>>
<1> SUFFICES ASSUME IInv, IInv', [Next]_vars
             PROVE  PF!Next \/ UNCHANGED <<[k \in Fps |-> KeyAnswer(k)], Visible>>
  OBVIOUS
<1>1. CASE thread' = thread
  BY <1>1, SameSpeech DEF Live
<1>2. QED
  BY <1>1, JobImplements, HumanImplements DEF Next, StartRun, Crash, vars

\* The answers a reader of the pull request sees only move forward, and "resolved" is
\* final: PrReview implements PriorFinding for any lines, threads, jobs and failures
\* but a scan's, when jobs do not overlap.
THEOREM AnswersImplement == SoundScan => (Spec => AnswersMoveForward)
<1>1. ASSUME SoundScan PROVE Spec => []IInv
  BY <1>1, SnapshotsStayTrue
<1>2. ASSUME SoundScan PROVE Spec => AnswersMoveForward
  BY <1>1, <1>2, InitImplements, StepImplements, PTL DEF Spec, AnswersMoveForward, PF!Spec, PF!vars
<1>3. QED
  BY <1>2

-----------------------------------------------------------------------------
(* What the jobs and the store say of the answers is true.  Only eviction  *)
(* takes an answer away, and a job that evicts is no longer relied upon.   *)

\* "Resolved" can be read on a live thread of the hunk.
Said(k) == \E t \in Tids : Bears(t, k) /\ thread[t].sent = "auto"

\* A prior finding whose code the push of job r removed, and which r has dealt with.
Removed(r, k) ==
  LET e == r.prior[k]
  IN  e.tid # 0 /\ k \notin r.seen /\ e.loc /\ ~ e.res /\ r.diff[e.site] = "gone"

Settled(r, k) ==
  /\ r.pc \in {"check", "reply", "resolve"} /\ k \notin r.checks
  /\ ~ (r.pc = "reply" /\ r.key = k)

\* A job that has not evicted: the sentinels it read are still there, so is its own, and
\* no removed code is forgotten between the scan and the loop over the prior findings.
Sound(r) ==
  /\ r.pc \in {"evict", "retry"} => r.evicted
  /\ NoEviction => ~ r.evicted
  /\ r.pc \in {"post", "evict", "retry"} => \A k \in Fps : Removed(r, k) => k \in r.checks
  /\ r.pc \in {"reply", "resolve"} => r.say # "plain"
  /\ r.pc = "reply" /\ r.say = "follow_up" => ~ Removed(r, r.key)
  /\ r.pc \notin {"idle", "scan"} /\ ~ r.evicted =>
       /\ \A k \in Fps : r.prior[k].sent = "auto" => Said(k)
       /\ r.pc = "resolve" => Said(r.key)
       /\ ~ r.flaw => \A k \in Fps : Removed(r, k) /\ Settled(r, k) => Said(k)

StoresSay ==
  NoEviction => \A k \in Fps :
    /\ cache[k].st = "auto_resolved" => Said(k)
    /\ \A j \in Jobs : store[j][k].st = "auto_resolved" => Said(k)

AInv == IInv /\ (\A j \in Jobs : Sound(run[j])) /\ StoresSay

SaidKeeps == \A k \in Fps : Said(k) => Said(k)'

\* A step that touches no sentinel and no comment that was there.
LEMMA SaidStays ==
  ASSUME \A t \in Tids : Live(t) => /\ thread'[t].by = thread[t].by /\ thread'[t].fp = thread[t].fp
                                    /\ thread'[t].sent = thread[t].sent
  PROVE  SaidKeeps
BY DEF SaidKeeps, Said, Bears, Live

LEMMA SaidAtCreate ==
  ASSUME IInv, NEW t \in Tids, Fresh(t), NEW c, thread' = [thread EXCEPT ![t] = c]
  PROVE  SaidKeeps
<1>1. ~ Live(t) /\ \A u \in Tids \ {t} : thread'[u] = thread[u]
  BY DEF Fresh, Live, IInv, TypeOK
<1>2. QED
  BY <1>1, SaidStays

\* A reply takes no "resolved" back, and one that says it can be read.
LEMMA SaidAtReply ==
  ASSUME IInv, NEW j \in Jobs, run[j].pc = "reply", ReplyLands(j)
  PROVE  /\ SaidKeeps
         /\ \A k \in Fps : run[j].say = "auto" /\ k = run[j].key => Said(k)'
<1>1. PICK k \in Fps : k = run[j].key
  BY DEF IInv, TypeOK, Runs
<1>2. PICK tid \in Tids : tid = Target(j) /\ thread[tid].fp = k
  BY <1>1 DEF Target, IInv, Replying, PriorPoints, Scanned, PointsTo
<1>3. \A t \in Tids : thread[t] \in Threads /\ thread[t].ts \in Nat /\ clock \in Nat
  BY BoundsAssumption DEF IInv, TypeOK, Threads
<1>4. /\ thread'[tid] = Answered(thread[tid], run[j].say) /\ Live(tid)
      /\ \A t \in Tids \ {tid} : thread'[t] = thread[t]
  BY <1>2 DEF ReplyLands, IInv, TypeOK
<1>5. thread'[tid].by = thread[tid].by /\ thread'[tid].fp = k
  BY <1>2, <1>3, <1>4, AnsweredFields
<1>6. CASE run[j].say = "plain"
  <2>1. thread'[tid].sent = thread[tid].sent
    BY <1>3, <1>4, <1>6, AnsweredFields
  <2>2. QED
    BY <1>2, <1>4, <1>5, <1>6, <2>1, SaidStays
<1>7. CASE run[j].say # "plain"
  <2>1. Answerable(k)
    BY <1>1, <1>7 DEF Pending, IInv, Replying, SnapshotHolds, Scanned
  <2>2. thread'[tid].sent = run[j].say
    BY <1>2, <1>3, <1>4, <1>7, <2>1, AnsweredFields DEF Answerable
  <2>3. \A l \in Fps, t \in Tids : Bears(t, l) /\ thread[t].sent = "auto" => thread'[t] = thread[t]
    BY <1>2, <1>4, <2>1 DEF Answerable, Bears
  <2>4. SaidKeeps
    BY <2>3 DEF SaidKeeps, Said, Bears, Live
  <2>5. run[j].say = "auto" => Said(k)'
    BY <1>4, <1>5, <2>2 DEF Said, Bears, Live
  <2>6. QED
    BY <1>1, <2>4, <2>5
<1>8. QED
  BY <1>6, <1>7

LEMMA SaidNext ==
  ASSUME IInv, [Next]_vars, \A j \in Jobs : ~ Evict(j)
  PROVE  SaidKeeps
<1>1. CASE thread' = thread
  BY <1>1, SaidStays DEF Live
<1>2. ASSUME NEW j \in Jobs, NEW s, NEW t \in Tids, Fresh(t), Create(j, t, s)
      PROVE  SaidKeeps
  BY <1>2, SaidAtCreate DEF Create
<1>3. ASSUME NEW j \in Jobs, run[j].pc = "reply", ReplyLands(j)
      PROVE  SaidKeeps
  BY <1>3, SaidAtReply
<1>4. ASSUME NEW t, NEW who, Shut(t, who)
      PROVE  SaidKeeps
  BY <1>4, ShutSame, SaidStays
<1>5. ASSUME NEW t \in Tids, HumanReopens(t) \/ HumanTicks(t)
      PROVE  SaidKeeps
  BY <1>5, MarksSame, SaidStays
<1>6. ASSUME NEW s \in Sites, HumanComments(s)
      PROVE  SaidKeeps
  BY <1>6, SaidAtCreate DEF HumanComments
<1>7. CASE Human
  BY <1>4, <1>5, <1>6, <1>7 DEF Human, HumanCloses
<1>8. ASSUME NEW j \in Jobs, JobStep(j)
      PROVE  SaidKeeps
  <2>1. CASE \E s \in Sites : PostComment(j, s) \/ PostFails(j, s) \/ PostLimited(j, s)
    BY <1>1, <1>2, <2>1 DEF PostComment, PostFails, PostLimited, Posted
  <2>2. CASE RetryPost(j)
    <3>1. \/ thread' = thread
          \/ \E t \in Tids : Fresh(t) /\ Create(j, t, run[j].site)
      BY <2>2, Zenon DEF RetryPost, Posted
    <3>2. QED
      BY <1>1, <1>2, <3>1
  <2>3. CASE Reply(j) \/ ReplyFails(j)
    BY <1>1, <1>3, <2>3 DEF Reply, ReplyFails
  <2>4. CASE Resolve(j) \/ ResolveFails(j)
    BY <1>1, <1>4, <2>4 DEF Resolve, ResolveFails
  <2>5. QED
    BY <1>1, <1>8, <2>1, <2>2, <2>3, <2>4
    DEF JobStep, Scan, EndPosts, PassOver, CatchUp, Decide, NovaFails, DecideNull, Finish
<1>9. QED
  BY <1>1, <1>7, <1>8 DEF Next, StartRun, Crash, vars

\* A job past its scan that goes on with what it knows.
LEMMA SoundMoves ==
  ASSUME NEW x \in Runs, NEW r \in Runs, Sound(x), x.pc \notin {"idle", "scan"},
         r.prior = x.prior, r.diff = x.diff, r.seen = x.seen,
         x.evicted => r.evicted, NoEviction => ~ r.evicted, x.flaw => r.flaw,
         r.evicted \/ SaidKeeps,
         r.pc \in {"post", "evict", "retry"} =>
           r.checks = x.checks /\ x.pc \in {"post", "evict", "retry"},
         r.pc \in {"evict", "retry"} => r.evicted,
         r.pc \in {"reply", "resolve"} => r.say # "plain",
         r.pc = "reply" /\ r.say = "follow_up" => ~ Removed(r, r.key),
         r.pc = "resolve" => \A k \in Fps : k = r.key => Said(k)',
         r.evicted \/ r.flaw \/ \A k \in Fps :
           Removed(r, k) /\ Settled(r, k) => Settled(x, k) \/ Said(k)'
  PROVE  Sound(r)'
<1>1. r.key \in Fps
  BY DEF Runs
<1>2. ~ r.evicted => \A k \in Fps : r.prior[k].sent = "auto" => Said(k)'
  BY DEF Sound, SaidKeeps
<1>3. ~ r.evicted /\ ~ r.flaw => \A k \in Fps : Removed(r, k) /\ Settled(r, k) => Said(k)'
  BY DEF Sound, SaidKeeps, Removed
<1>4. r.pc \in {"post", "evict", "retry"} => \A k \in Fps : Removed(r, k) => k \in r.checks
  BY DEF Sound, Removed
<1>5. \A k : Removed(r, k)' <=> Removed(r, k)
  BY DEF Removed
<1>6. \A k : Settled(r, k)' <=> Settled(r, k)
  BY DEF Settled
<1>7. QED
  BY <1>1, <1>2, <1>3, <1>4, <1>5, <1>6 DEF Sound

\* The other jobs have nothing to keep.
LEMMA SoundAll ==
  ASSUME AInv, NEW j \in Jobs, ~ Idle(j), NEW r, Become(j, r), Sound(r)'
  PROVE  \A i \in Jobs : Sound(run[i])'
<1>1. run'[j] = r /\ \A i \in Jobs \ {j} : run'[i] = run[i] /\ run[i].pc = "idle"
  BY DEF AInv, IInv, TypeOK, Become, OneJob, Idle
<1>2. \A i \in Jobs \ {j} : Sound(run[i])'
  BY <1>1 DEF AInv, Sound
<1>3. QED
  BY <1>1, <1>2 DEF Sound, Removed, Settled

LEMMA SoundScans ==
  ASSUME AInv, IInv', SoundScan, NEW j \in Jobs, Scan(j)
  PROVE  \A i \in Jobs : Sound(run[i])'
<1>1. PICK first \in [Fps -> 0..MaxThreads] :
        Become(j, WithPrior(run[j], BuildPrior(store[j], first, Listing)))
  BY DEF Scan, SoundScan
<1>2. Listing \in SUBSET Tids /\ \A t \in Listing : Live(t)
  BY DEF Listing
<1>3. PICK prior \in [Fps -> Entries] : prior = BuildPrior(store[j], first, Listing)
  BY <1>2, PriorType DEF AInv, IInv, TypeOK
<1>4. \A k \in Fps : prior[k].sent = "auto" => LatestSentinel(k, Listing) = "auto"
  BY <1>3 DEF BuildPrior, LocalEntry, ApiEntry, NoEntry
<1>5. \A k \in Fps : LatestSentinel(k, Listing) = "auto" => Said(k)
  BY <1>2 DEF LatestSentinel, Said, Bears
<1>6. \A k \in Fps : Said(k) => Said(k)'
  BY SaidStays DEF Scan, SaidKeeps
<1>7. run[j] \in Runs /\ run[j].pc = "scan" /\ (NoEviction => ~ run[j].evicted)
  BY DEF Scan, AInv, IInv, TypeOK, Sound
<1>8. PICK r : r = WithPrior(run[j], prior)
  OBVIOUS
<1>9. /\ r.pc = "post" /\ r.prior = prior /\ r.evicted = run[j].evicted /\ r.seen = run[j].seen
      /\ r.checks = {k \in Fps : prior[k].tid # 0} \ run[j].seen
      /\ Become(j, r)
  BY <1>1, <1>3, <1>7, <1>8 DEF WithPrior, Runs
<1>10. Sound(r)'
  BY <1>4, <1>5, <1>6, <1>7, <1>9 DEF Sound, Removed, Settled
<1>11. QED
  BY <1>7, <1>9, <1>10, SoundAll DEF Idle

LEMMA SoundPosts ==
  ASSUME AInv, SaidKeeps, NEW j \in Jobs, NEW s \in Sites,
         PostComment(j, s) \/ PostFails(j, s) \/ PostLimited(j, s)
  PROVE  \A i \in Jobs : Sound(run[i])'
<1>1. run[j] \in Runs /\ run[j].pc = "post" /\ Sound(run[j])
  BY DEF AInv, IInv, TypeOK, PostComment, PostFails, PostLimited
<1>2. PICK r \in Runs :
        /\ Become(j, r)
        /\ \/ r = [run[j] EXCEPT !.todo = @ \ {s}]
           \/ r = [run[j] EXCEPT !.todo = @ \ {s}, !.flaw = TRUE]
           \/ /\ ~ NoEviction
              /\ r = [run[j] EXCEPT !.todo = @ \ {s}, !.pc = "evict", !.site = s, !.evicted = TRUE]
  BY <1>1, RunUpdates DEF PostComment, PostFails, PostLimited, NoEviction
<1>3. /\ r.prior = run[j].prior /\ r.diff = run[j].diff /\ r.seen = run[j].seen
      /\ r.checks = run[j].checks /\ (run[j].flaw => r.flaw)
      /\ \/ r.pc = "post" /\ r.evicted = run[j].evicted
         \/ ~ NoEviction /\ r.pc = "evict" /\ r.evicted
  BY <1>1, <1>2 DEF Runs
<1>4. Sound(r)'
  <2>1. NoEviction => ~ r.evicted
    BY <1>1, <1>3 DEF Sound
  <2>2. \A k \in Fps : ~ Settled(r, k)
    BY <1>3 DEF Settled
  <2>3. QED
    BY <1>1, <1>3, <2>1, <2>2, SoundMoves
<1>5. QED
  BY <1>1, <1>2, <1>4, SoundAll DEF Idle

\* A job that moves on from phase to phase.
LEMMA SoundSteps ==
  ASSUME AInv, NEW j \in Jobs, Scanned(j), run[j].evicted \/ SaidKeeps,
         NEW p \in {"post", "retry", "check", "resolve"},
         \/ Become(j, [run[j] EXCEPT !.pc = p])
         \/ Become(j, [run[j] EXCEPT !.pc = p, !.flaw = TRUE]),
         p = "post" => run[j].pc = "retry" \/ run[j].pc = "evict",
         p = "retry" => run[j].pc = "evict",
         p = "check" => \/ run[j].pc = "post" \/ run[j].pc = "resolve"
                        \/ /\ run[j].pc = "reply"
                           /\ \/ Become(j, [run[j] EXCEPT !.pc = p, !.flaw = TRUE])
                              \/ run[j].say = "follow_up",
         p = "resolve" => /\ run[j].pc = "reply"
                          /\ \A k \in Fps : k = run[j].key => Said(k)'
  PROVE  \A i \in Jobs : Sound(run[i])'
<1>1. run[j] \in Runs /\ Sound(run[j]) /\ run[j].pc \notin {"idle", "scan"} /\ p \in Phases
  BY DEF AInv, IInv, TypeOK, Scanned, Phases
<1>2. PICK r \in Runs : /\ Become(j, r)
                        /\ \/ r = [run[j] EXCEPT !.pc = p]
                           \/ r = [run[j] EXCEPT !.pc = p, !.flaw = TRUE]
                        /\ p = "check" /\ run[j].pc = "reply" =>
                             \/ r = [run[j] EXCEPT !.pc = p, !.flaw = TRUE]
                             \/ run[j].say = "follow_up"
  BY <1>1, RunUpdates
<1>3. /\ r.prior = run[j].prior /\ r.diff = run[j].diff /\ r.seen = run[j].seen
      /\ r.checks = run[j].checks /\ (run[j].flaw => r.flaw) /\ r.evicted = run[j].evicted
      /\ r.pc = p /\ r.say = run[j].say /\ r.key = run[j].key
      /\ p = "check" /\ run[j].pc = "reply" => r.flaw \/ run[j].say = "follow_up"
  BY <1>1, <1>2 DEF Runs
<1>4. ASSUME NEW k \in Fps, Removed(r, k), Settled(r, k), ~ r.evicted, ~ r.flaw
      PROVE  Settled(run[j], k) \/ Said(k)'
  <2>1. p \in {"check", "resolve"} /\ k \notin run[j].checks /\ Removed(run[j], k)
    BY <1>3, <1>4 DEF Settled, Removed
  <2>2. CASE run[j].pc = "post"
    BY <1>1, <2>1, <2>2 DEF Sound
  <2>3. CASE run[j].pc = "resolve"
    BY <2>1, <2>3 DEF Settled
  <2>4. CASE run[j].pc = "reply" /\ run[j].key # k
    BY <2>1, <2>4 DEF Settled
  <2>5. CASE run[j].pc = "reply" /\ run[j].key = k /\ p = "check"
    BY <1>1, <1>3, <1>4, <2>1, <2>5 DEF Sound
  <2>6. CASE run[j].pc = "reply" /\ run[j].key = k /\ p = "resolve"
    BY <2>6
  <2>7. QED
    BY <2>1, <2>2, <2>3, <2>4, <2>5, <2>6
<1>5. Sound(r)'
  <2>1. NoEviction => ~ r.evicted
    BY <1>1, <1>3 DEF Sound
  <2>2. r.pc \in {"evict", "retry"} => r.evicted
    BY <1>1, <1>3 DEF Sound
  <2>3. r.pc \in {"reply", "resolve"} => r.say # "plain"
    BY <1>1, <1>3 DEF Sound
  <2>4. QED
    BY <1>1, <1>3, <1>4, <2>1, <2>2, <2>3, SoundMoves
<1>6. QED
  BY <1>1, <1>2, <1>5, SoundAll DEF Idle

LEMMA SoundEvicts ==
  ASSUME AInv, NEW j \in Jobs, Evict(j)
  PROVE  \A i \in Jobs : Sound(run[i])'
<1>1. run[j].evicted /\ Scanned(j) /\ run[j].pc = "evict"
  BY DEF Evict, Scanned, AInv, Sound
<1>2. \E p \in {"post", "retry"} : \/ Become(j, [run[j] EXCEPT !.pc = p])
                                   \/ Become(j, [run[j] EXCEPT !.pc = p, !.flaw = TRUE])
  BY Zenon DEF Evict
<1>3. QED
  BY <1>1, <1>2, SoundSteps

LEMMA SoundGoesOn ==
  ASSUME AInv, SaidKeeps, NEW j \in Jobs, RetryPost(j) \/ EndPosts(j)
  PROVE  \A i \in Jobs : Sound(run[i])'
<1>1. CASE RetryPost(j)
  <2>1. /\ run[j].pc = "retry" /\ Scanned(j)
        /\ \/ Become(j, [run[j] EXCEPT !.pc = "post"])
           \/ Become(j, [run[j] EXCEPT !.pc = "post", !.flaw = TRUE])
    BY <1>1, Zenon DEF RetryPost, Scanned
  <2>2. QED
    BY <2>1, SoundSteps
<1>2. CASE EndPosts(j)
  BY <1>2, SoundSteps DEF EndPosts, Scanned
<1>3. QED
  BY <1>1, <1>2

LEMMA SoundAnswers ==
  ASSUME AInv, SaidKeeps, NEW j \in Jobs,
         Reply(j) \/ ReplyFails(j) \/ Resolve(j) \/ ResolveFails(j)
  PROVE  \A i \in Jobs : Sound(run[i])'
<1>1. Scanned(j) /\ run[j] \in Runs /\ Sound(run[j])
  BY DEF Reply, ReplyFails, Resolve, ResolveFails, Scanned, AInv, IInv, TypeOK
<1>2. CASE Reply(j)
  <2>1. run[j].pc = "reply" /\ ReplyLands(j) /\ run[j].say \in {"auto", "follow_up"}
    BY <1>1, <1>2 DEF Reply, Sound, Runs
  <2>2. run[j].say = "auto" => \A k \in Fps : k = run[j].key => Said(k)'
    BY <2>1, SaidAtReply DEF AInv
  <2>3. CASE run[j].say = "follow_up"
    BY <1>1, <1>2, <2>1, <2>3, SoundSteps DEF Reply
  <2>4. CASE run[j].say = "auto"
    BY <1>1, <1>2, <2>1, <2>2, <2>4, SoundSteps DEF Reply
  <2>5. QED
    BY <2>1, <2>3, <2>4
<1>3. CASE ReplyFails(j)
  BY <1>1, <1>3, SoundSteps DEF ReplyFails
<1>4. CASE Resolve(j) \/ ResolveFails(j)
  BY <1>1, <1>4, SoundSteps DEF Resolve, ResolveFails
<1>5. QED
  BY <1>2, <1>3, <1>4

LEMMA SoundChecks ==
  ASSUME AInv, SaidKeeps, UseNova, NEW j \in Jobs, NEW k \in Fps,
         PassOver(j, k) \/ CatchUp(j, k) \/ Decide(j, k) \/ NovaFails(j, k) \/ DecideNull(j, k)
  PROVE  \A i \in Jobs : Sound(run[i])'
<1>1. /\ run[j] \in Runs /\ run[j].pc = "check" /\ k \in run[j].checks /\ Sound(run[j])
      /\ NoEviction => ~ run[j].evicted
  BY DEF PassOver, CatchUp, Decide, NovaFails, DecideNull, Checking, AInv, IInv, TypeOK, Sound
<1>2. ASSUME \/ Become(j, Checked(j, k)) /\ (~ run[j].evicted /\ Removed(run[j], k) => Said(k))
             \/ Become(j, [Checked(j, k) EXCEPT !.flaw = TRUE])
      PROVE  \A i \in Jobs : Sound(run[i])'
  <2>1. PICK r \in Runs :
          /\ Become(j, r)
          /\ \/ /\ r = [run[j] EXCEPT !.checks = @ \ {k}]
                /\ ~ run[j].evicted /\ Removed(run[j], k) => Said(k)
             \/ r = [[run[j] EXCEPT !.checks = @ \ {k}] EXCEPT !.flaw = TRUE]
    BY <1>1, <1>2, RunUpdates DEF Checked
  <2>2. /\ r.prior = run[j].prior /\ r.diff = run[j].diff /\ r.seen = run[j].seen
        /\ r.checks = run[j].checks \ {k} /\ (run[j].flaw => r.flaw) /\ r.evicted = run[j].evicted
        /\ r.pc = "check"
        /\ r.flaw \/ r.evicted \/ (Removed(run[j], k) => Said(k))
    BY <1>1, <2>1 DEF Runs
  <2>3. r.evicted \/ r.flaw \/ \A l \in Fps :
          Removed(r, l) /\ Settled(r, l) => Settled(run[j], l) \/ Said(l)'
    BY <1>1, <2>2 DEF Removed, Settled, SaidKeeps
  <2>4. Sound(r)'
    BY <1>1, <2>2, <2>3, SoundMoves
  <2>5. QED
    BY <1>1, <2>1, <2>4, SoundAll DEF Idle
<1>3. ASSUME NEW w \in {"follow_up", "auto"}, Answering(j, k, w),
             w = "follow_up" => ~ Removed(run[j], k)
      PROVE  \A i \in Jobs : Sound(run[i])'
  <2>1. PICK r \in Runs :
          /\ Become(j, r)
          /\ r = [run[j] EXCEPT !.checks = @ \ {k}, !.pc = "reply", !.key = k, !.say = w]
    BY <1>1, <1>3, RunUpdates DEF Answering
  <2>2. /\ r.prior = run[j].prior /\ r.diff = run[j].diff /\ r.seen = run[j].seen
        /\ r.checks = run[j].checks \ {k} /\ r.flaw = run[j].flaw /\ r.evicted = run[j].evicted
        /\ r.pc = "reply" /\ r.key = k /\ r.say = w
    BY <1>1, <2>1 DEF Runs
  <2>3. \A l \in Fps : Removed(r, l) /\ Settled(r, l) => Settled(run[j], l) \/ Said(l)'
    BY <1>1, <2>2 DEF Settled
  <2>4. r.say = "follow_up" => ~ Removed(r, r.key)
    BY <1>3, <2>2 DEF Removed
  <2>5. Sound(r)'
    BY <1>1, <1>3, <2>2, <2>3, <2>4, SoundMoves
  <2>6. QED
    BY <1>1, <2>1, <2>5, SoundAll DEF Idle
<1>4. CASE PassOver(j, k)
  <2>1. ~ Removed(run[j], k)
    BY <1>4 DEF PassOver, StatusOf, Status, Touched, Removed
  <2>2. QED
    BY <1>2, <1>4, <2>1 DEF PassOver
<1>5. CASE CatchUp(j, k)
  <2>1. run[j].prior[k].sent = "auto"
    BY <1>5 DEF CatchUp, StatusOf, Status
  <2>2. ~ run[j].evicted => Said(k)
    BY <1>1, <2>1 DEF Sound
  <2>3. QED
    BY <1>2, <1>5, <2>2 DEF CatchUp
<1>6. CASE Decide(j, k)
  <2>1. StatusOf(j, k) = "changed" => ~ Removed(run[j], k)
    BY DEF StatusOf, Status, Removed
  <2>2. QED
    BY <1>3, <1>6, <2>1 DEF Decide
<1>7. CASE NovaFails(j, k)
  BY <1>2, <1>7 DEF NovaFails
<1>8. CASE DecideNull(j, k)
  BY <1>8 DEF DecideNull
<1>9. QED
  BY <1>4, <1>5, <1>6, <1>7, <1>8

LEMMA SoundEnds ==
  ASSUME AInv, ~ Overlap, NEW j \in Jobs, StartRun(j) \/ Finish(j) \/ Crash(j)
  PROVE  \A i \in Jobs : Sound(run[i])'
<1>1. PICK r : Become(j, r) /\ r.pc \in {"idle", "scan"} /\ ~ r.evicted
  <2>1. CASE StartRun(j)
    <3>1. PICK d \in Diffs, h \in Hunkings, reported \in SUBSET Sites, anchored \in SUBSET Sites :
            Become(j, Started(d, h, reported, anchored))
      BY <2>1, Zenon DEF StartRun, Begin
    <3>2. Started(d, h, reported, anchored).pc = "scan" /\ ~ Started(d, h, reported, anchored).evicted
      <4> DEFINE fps == {h[s] : s \in reported}
      <4>1. Started(d, h, reported, anchored) =
              [IdleRun EXCEPT !.pc = "scan", !.diff = d, !.hunk = h, !.found = anchored, !.seen = fps]
        BY DEF Started
      <4> HIDE DEF fps
      <4>2. QED
        BY <4>1 DEF IdleRun
    <3>3. QED
      BY <3>1, <3>2
  <2>2. CASE Finish(j) \/ Crash(j)
    BY <2>2 DEF Finish, Crash, IdleRun
  <2>3. QED
    BY <2>1, <2>2
<1>2. /\ run'[j] = r
      /\ \A i \in Jobs \ {j} : run'[i] = run[i] /\ run[i].pc = "idle" /\ Sound(run[i])
  BY <1>1 DEF Become, AInv, IInv, TypeOK, OneJob, Idle, StartRun, Finish, Crash
<1>3. QED
  BY <1>1, <1>2 DEF Sound

LEMMA SoundRest ==
  ASSUME AInv, SaidKeeps, run' = run
  PROVE  \A i \in Jobs : Sound(run[i])'
<1>1. SUFFICES ASSUME NEW i \in Jobs PROVE Sound(run[i])'
  OBVIOUS
<1>2. run[i] \in Runs /\ Sound(run[i])
  BY DEF AInv, IInv, TypeOK
<1>3. PICK r \in Runs : r = run[i]
  BY <1>2
<1>4. r.key \in Fps
  BY DEF Runs
<1>5. Sound(r)'
  BY <1>2, <1>3, <1>4 DEF Sound, Removed, Settled, SaidKeeps
<1>6. QED
  BY <1>3, <1>5 DEF Sound, Removed, Settled

\* The store: an entry is marked where "resolved" has been said, and only there.
LEMMA MarkSays ==
  ASSUME AInv, SaidKeeps, NoEviction, NEW j \in Jobs, NEW k \in Fps, Mark(j, k), Said(k), cache' = cache
  PROVE  StoresSay'
<1>1. \A i \in Jobs, l \in Fps : store'[i][l].st = "auto_resolved" =>
        store[i][l].st = "auto_resolved" \/ l = k
  BY DEF Mark, MarkResolved, AInv, IInv, TypeOK, StoreEntries
<1>2. QED
  BY <1>1 DEF StoresSay, AInv, SaidKeeps

LEMMA PostSays ==
  ASSUME AInv, SaidKeeps, NoEviction, NEW j \in Jobs, NEW s \in Sites, Posted(j, s), cache' = cache
  PROVE  StoresSay'
<1>1. PICK t \in Tids : store' = [store EXCEPT ![j] = SaveFinding(@, run[j].hunk[s], t, s)]
  BY DEF Posted
<1>2. PICK k \in Fps : k = run[j].hunk[s]
  BY DEF AInv, IInv, TypeOK, Runs
<1>3. \A l \in Fps : LET st == SaveFinding(store[j], k, t, s)
                     IN  st[l] = store[j][l] \/ st[l].st = "unresolved"
  BY DEF SaveFinding, AInv, IInv, TypeOK
<1>4. store'[j] = SaveFinding(store[j], k, t, s) /\ \A i \in Jobs \ {j} : store'[i] = store[i]
  BY <1>1, <1>2 DEF AInv, IInv, TypeOK
<1>5. \A i \in Jobs, l \in Fps : store'[i][l] = store[i][l] \/ store'[i][l].st = "unresolved"
  BY <1>3, <1>4
<1>6. QED
  BY <1>5 DEF StoresSay, AInv, SaidKeeps

LEMMA StoresNext ==
  ASSUME AInv, NoEviction, [Next]_vars, SaidKeeps
  PROVE  StoresSay'
<1>1. \A k \in Fps : EmptyStore[k].st = "none"
  BY DEF EmptyStore, NoStoreEntry
<1>2. CASE UNCHANGED <<store, cache>>
  BY <1>2 DEF StoresSay, AInv, SaidKeeps
<1>3. ASSUME NEW j \in Jobs, StartRun(j) \/ Finish(j) \/ Crash(j)
      PROVE  StoresSay'
  <2>1. /\ cache' \in {cache, store[j]}
        /\ \A i \in Jobs : store'[i] \in {store[i], cache, EmptyStore}
    BY <1>3 DEF StartRun, Finish, Crash, AInv, IInv, TypeOK
  <2>2. QED
    BY <1>1, <1>3, <2>1 DEF StoresSay, AInv, SaidKeeps
<1>4. ASSUME NEW j \in Jobs, NEW s \in Sites, PostComment(j, s) \/ PostFails(j, s) \/ PostLimited(j, s)
      PROVE  StoresSay'
  BY <1>2, <1>4, PostSays DEF PostComment, PostFails, PostLimited
<1>5. ASSUME NEW j \in Jobs, RetryPost(j)
      PROVE  StoresSay'
  <2>1. run[j].site \in Sites
    BY DEF AInv, IInv, TypeOK, Runs
  <2>2. cache' = cache /\ (Posted(j, run[j].site) \/ store' = store)
    BY <1>5, Zenon DEF RetryPost
  <2>3. QED
    BY <1>2, <2>1, <2>2, PostSays
<1>6. ASSUME NEW j \in Jobs, NEW k \in Fps, CatchUp(j, k)
      PROVE  StoresSay'
  <2>1. run[j].prior[k].sent = "auto" /\ run[j].pc = "check" /\ Mark(j, k) /\ cache' = cache
    BY <1>6 DEF CatchUp, Checking, StatusOf, Status
  <2>2. Said(k)
    BY <2>1 DEF AInv, Sound
  <2>3. QED
    BY <2>1, <2>2, MarkSays
<1>7. ASSUME NEW j \in Jobs, Resolve(j)
      PROVE  StoresSay'
  <2>1. run[j].pc = "resolve" /\ Mark(j, run[j].key) /\ cache' = cache /\ run[j].key \in Fps
    BY <1>7 DEF Resolve, AInv, IInv, TypeOK, Runs
  <2>2. Said(run[j].key)
    BY <2>1 DEF AInv, Sound
  <2>3. QED
    BY <2>1, <2>2, MarkSays
<1>8. ASSUME NEW j \in Jobs, JobStep(j)
      PROVE  StoresSay'
  BY <1>2, <1>3, <1>4, <1>5, <1>6, <1>7, <1>8
  DEF JobStep, Scan, Evict, EndPosts, PassOver, Decide, NovaFails, DecideNull, Reply, ReplyFails,
      ResolveFails
<1>9. QED
  BY <1>2, <1>3, <1>8
  DEF Next, Human, HumanCloses, HumanReopens, HumanTicks, HumanComments, vars

LEMMA AInit == Init => AInv
<1> SUFFICES ASSUME Init PROVE AInv
  OBVIOUS
<1>1. \A j \in Jobs : run[j].pc = "idle" /\ ~ run[j].evicted
  BY DEF Init, IdleRun
<1>2. /\ \A k \in Fps : cache[k].st = "none"
      /\ \A j \in Jobs, k \in Fps : store[j][k].st = "none"
  BY DEF Init, EmptyStore, NoStoreEntry
<1>3. QED
  BY <1>1, <1>2, InvInit DEF AInv, Sound, StoresSay

LEMMA ANext == SoundScan /\ UseNova /\ AInv /\ [Next]_vars => AInv'
<1> SUFFICES ASSUME SoundScan, UseNova, AInv, [Next]_vars PROVE AInv'
  OBVIOUS
<1>1. IInv' /\ ~ Overlap
  BY InvNext DEF AInv, SoundScan
<1>2. ASSUME NEW j \in Jobs, Evict(j)
      PROVE  (\A i \in Jobs : Sound(run[i])') /\ StoresSay'
  <2>1. ~ NoEviction
    BY <1>2 DEF Evict, AInv, Sound
  <2>2. QED
    BY <1>2, <2>1, SoundEvicts DEF StoresSay
<1>3. ASSUME \A j \in Jobs : ~ Evict(j)
      PROVE  (\A i \in Jobs : Sound(run[i])') /\ StoresSay'
  <2>1. SaidKeeps
    BY <1>3, SaidNext DEF AInv
  <2>2. StoresSay'
    <3>1. CASE NoEviction
      BY <2>1, <3>1, StoresNext
    <3>2. CASE ~ NoEviction
      BY <3>2 DEF StoresSay
    <3>3. QED
      BY <3>1, <3>2
  <2>3. ASSUME NEW j \in Jobs, JobStep(j)
        PROVE  \A i \in Jobs : Sound(run[i])'
    BY <1>1, <1>3, <2>1, <2>3, SoundScans, SoundPosts, SoundGoesOn, SoundChecks, SoundAnswers, SoundEnds
    DEF JobStep
  <2>4. CASE run' = run
    BY <2>1, <2>2, <2>4, SoundRest
  <2>5. QED
    BY <1>1, <2>2, <2>3, <2>4, SoundEnds
    DEF Next, Human, HumanCloses, HumanReopens, HumanTicks, HumanComments, vars
<1>4. QED
  BY <1>1, <1>2, <1>3 DEF AInv

LEMMA AlwaysAInv == SoundScan /\ UseNova => (Spec => []AInv)
<1>1. ASSUME SoundScan, UseNova PROVE AInv /\ [Next]_vars => AInv'
  BY <1>1, ANext
<1>2. ASSUME SoundScan, UseNova PROVE Spec => []AInv
  BY <1>1, <1>2, AInit, PTL DEF Spec
<1>3. QED
  BY <1>2

\* For any lines, hunks, threads and jobs, and whatever fails, is lost or crashes: a job in
\* which no call failed has answered "resolved" for the prior findings whose code is gone.
THEOREM RemovedAnswered == SoundScan /\ UseNova => (Spec => []RemovedCodeIsAnswered)
<1>1. ASSUME AInv PROVE RemovedCodeIsAnswered
  <2> SUFFICES ASSUME NEW j \in Jobs, NEW k \in Fps,
                      run[j].pc \in {"check", "reply", "resolve"}, ~ run[j].flaw, ~ run[j].evicted,
                      run[j].prior[k].tid # 0, k \notin run[j].seen \cup run[j].checks,
                      ~ (run[j].pc = "reply" /\ run[j].key = k),
                      run[j].prior[k].loc, ~ run[j].prior[k].res,
                      run[j].diff[run[j].prior[k].site] = "gone"
               PROVE  KeyAnswer(k) = "auto"
    BY DEF RemovedCodeIsAnswered
  <2>1. Removed(run[j], k) /\ Settled(run[j], k)
    BY DEF Removed, Settled
  <2>2. Said(k)
    BY <1>1, <2>1 DEF AInv, Sound
  <2>3. QED
    BY <1>1, <2>2, Answers DEF AInv, AnswersAre, AnswerIs, Said
<1>2. ASSUME SoundScan, UseNova PROVE Spec => []RemovedCodeIsAnswered
  BY <1>1, <1>2, AlwaysAInv, PTL
<1>3. QED
  BY <1>2

\* The store that CI carries over never runs ahead of the pull request: an entry it has as
\* resolved has its answer there, as long as no job makes room by deleting comments.
THEOREM StoreFollows == SoundScan /\ UseNova /\ NoEviction => (Spec => []StoreNotAhead)
<1>1. ASSUME NoEviction, AInv PROVE StoreNotAhead
  BY <1>1, Answers DEF AInv, StoresSay, StoreNotAhead, AnswersAre, AnswerIs, Said
<1>2. ASSUME SoundScan, UseNova, NoEviction PROVE Spec => []StoreNotAhead
  BY <1>1, <1>2, AlwaysAInv, PTL
<1>3. QED
  BY <1>2
=============================================================================
