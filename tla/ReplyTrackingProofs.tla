------------------------ MODULE ReplyTrackingProofs ------------------------
(* Proofs about ReplyTracking, for every set of threads, store, platform    *)
(* and number of faults.                                                    *)
EXTENDS ReplyTracking, TLAPS

LEMMA FaultKeepsRange ==
  ASSUME faults \in 0..MaxFaults, NEW n \in Nat, Fault(n) \/ Costs(n)
  PROVE  faults' \in 0..MaxFaults
BY FaultsAssumption DEF Fault, Costs

LEMMA TypeInit == Init => TypeOK
<1> SUFFICES ASSUME Init PROVE TypeOK
    OBVIOUS
<1>1. last \in [Threads -> LastReplies] BY DEF Init, LastReplies
<1>2. store \in [Threads -> StoreStates] BY DEF Init, StoreStates
<1>3. decision \in [Threads -> Decisions \cup {"none", "handled"}] BY DEF Init
<1>4. phase \in Phases /\ faults \in 0..MaxFaults
  BY FaultsAssumption DEF Init, Phases
<1> QED BY <1>1, <1>2, <1>3, <1>4 DEF Init, TypeOK

(* Every step keeps the variables in their types.                           *)
LEMMA TypeNext == TypeOK /\ [Next]_vars => TypeOK'
<1> SUFFICES ASSUME TypeOK, [Next]_vars PROVE TypeOK'
    OBVIOUS
<1> USE DEF TypeOK
<1>1. CASE Classify
  <2>1. PICK d \in [Threads -> Decisions \cup {"none", "handled"}] :
          /\ \E again \in SUBSET {t \in Contended : d[t] \in Decisions} :
               /\ twice' = again
               /\ \/ Costs(IF again = {} THEN 0 ELSE 1) /\ excused' = {}
                  \/ Fault(1)
          /\ decision' = d /\ store' = Applied(d)
    BY <1>1 DEF Classify
  <2>2. excused' \subseteq Threads /\ faults' \in 0..MaxFaults
    BY <2>1, FaultKeepsRange DEF Fault
  <2>7. twice' \subseteq Threads
    BY <2>1, ContendedAssumption
  <2>3. decision' \in [Threads -> Decisions \cup {"none", "handled"}]
    BY <2>1
  <2>4. store' \in [Threads -> StoreStates]
    BY <2>1 DEF Applied, StoreStates
  <2>5. key' \in [Threads -> {"fingerprint", "id"}]
    BY <1>1 DEF Classify, Key
  <2>6. UNCHANGED <<threadVars, branch, cur, link, theirs>> /\ config' = {}
        /\ todo' = {} /\ outdated' = {}
        /\ phase' = "agents" /\ answered' = [t \in Threads |-> "no"]
    BY <1>1 DEF Classify
  <2> QED BY <2>2, <2>3, <2>4, <2>5, <2>6, <2>7 DEF threadVars, Phases
<1>2. CASE Fetch
  <2>1. excused' \subseteq Threads /\ faults' \in 0..MaxFaults
    BY <1>2, FaultKeepsRange DEF Fetch, Fault, NoFault
  <2>2. todo' \subseteq Threads /\ phase' = "pick" /\ outdated' = {}
        /\ UNCHANGED <<threadVars, branch, store, decision, key, cur, twice, link,
                       config, theirs, answered>>
    BY <1>2 DEF Fetch
  <2> QED BY <2>1, <2>2 DEF threadVars, Phases
<1>3. ASSUME NEW t \in Threads, Recover(t) \/ Record(t) \/ MarkFixed(t) \/ Converse(t)
      PROVE  TypeOK'
  <2>1. todo' \subseteq Threads /\ cur' = t /\ phase' \in {"reply", "resolve"}
        /\ twice' \subseteq Threads /\ outdated' \subseteq Threads
        /\ UNCHANGED <<threadVars, decision, key, theirs, answered>>
    BY <1>3 DEF Recover, Record, MarkFixed, Converse, Take
  <2>2. store' \in [Threads -> StoreStates]
    BY <1>3 DEF Recover, Record, MarkFixed, Converse, Marked, StoreStates
  <2>3. branch' \subseteq Threads /\ config' \subseteq Threads /\ link' \in BOOLEAN
    BY <1>3 DEF Recover, Record, MarkFixed, Converse, Commit
  <2>4. excused' \subseteq Threads /\ faults' \in 0..MaxFaults
    BY <1>3, FaultKeepsRange
    DEF Recover, Record, MarkFixed, Converse, Commit, Fault, NoFault
  <2> QED BY <2>1, <2>2, <2>3, <2>4 DEF threadVars, Phases
<1>4. CASE Reply
  <2>1. excused' \subseteq Threads /\ faults' \in 0..MaxFaults
    BY <1>4, FaultKeepsRange DEF Reply, Fault, NoFault
  <2>2. last' \in [Threads -> LastReplies]
    BY <1>4 DEF Reply, Answer, LastReplies, Sentinels
  <2>3. answered' \in [Threads -> {"no", "plain", "linked"}]
    BY <1>4 DEF Reply
  <2>4. phase' \in Phases /\ cur' \in Threads \cup {NoThread} /\ link' = FALSE
        /\ UNCHANGED <<closed, branch, store, decision, key, todo, twice, config,
                       theirs, outdated>>
    BY <1>4 DEF Reply, Phases
  <2> QED BY <2>1, <2>2, <2>3, <2>4
<1>5. CASE Resolve
  <2>1. excused' \subseteq Threads /\ faults' \in 0..MaxFaults
    BY <1>5, FaultKeepsRange DEF Resolve, Attempts, Fault, NoFault
  <2>2. closed' \in [Threads -> BOOLEAN]
    BY <1>5 DEF Resolve
  <2>3. phase' \in Phases /\ cur' = NoThread
        /\ UNCHANGED <<last, branch, store, decision, key, todo, twice, link, config,
                       theirs, outdated, answered>>
    BY <1>5 DEF Resolve, Phases
  <2> QED BY <2>1, <2>2, <2>3
<1>6. CASE Finish
  BY <1>6 DEF Finish, threadVars, Phases
<1>7. CASE Crash
  <2>1. excused' \subseteq Threads /\ faults' \in 0..MaxFaults
    BY <1>7, FaultKeepsRange DEF Crash, Fault
  <2> QED BY <1>7, <2>1 DEF Crash, threadVars, Phases
<1>8. CASE LessonsMerged
  BY <1>8 DEF LessonsMerged, threadVars
<1>9. ASSUME NEW t \in Threads, SomebodyReplies(t) \/ Toggled(t)
      PROVE  TypeOK'
  BY <1>9 DEF SomebodyReplies, Toggled, jobVars, LastReplies
<1>10. ASSUME NEW t \in Threads, OtherReads(t)
       PROVE  TypeOK'
  BY <1>10, FaultKeepsRange DEF OtherReads, threadVars, jobVars
<1>11. ASSUME NEW t \in Threads, OtherRecords(t)
       PROVE  TypeOK'
  BY <1>11 DEF OtherRecords, threadVars
<1>12. ASSUME NEW t \in Threads, OtherAnswers(t)
       PROVE  TypeOK'
  <2>1. last' \in [Threads -> LastReplies]
    BY <1>12 DEF OtherAnswers, LastReplies
  <2>2. /\ theirs' \subseteq Threads /\ outdated' \subseteq Threads
        /\ excused' \subseteq Threads
        /\ UNCHANGED <<closed, branch, store, jobVars, answered, faults>>
    BY <1>12 DEF OtherAnswers
  <2> QED BY <2>1, <2>2 DEF jobVars
<1>13. CASE UNCHANGED vars
  BY <1>13 DEF vars, threadVars, jobVars
<1> QED BY <1>1, <1>2, <1>3, <1>4, <1>5, <1>6, <1>7, <1>8, <1>9, <1>10, <1>11,
           <1>12, <1>13 DEF Next, Job

(* The variables keep their types.                                          *)
THEOREM TypeCorrect == Spec => []TypeOK
<1>1. Init => TypeOK BY TypeInit
<1>2. TypeOK /\ [Next]_vars => TypeOK' BY TypeNext
<1> QED BY <1>1, <1>2, PTL DEF Spec

----------------------------------------------------------------------------
(* Steps that leave alone what the invariants below are about.              *)
LEMMA StutterKeeps ==
  ASSUME UNCHANGED vars
  PROVE  UNCHANGED <<last, closed, branch, store, config, phase, decision, key,
                     todo, cur, twice, link, theirs, outdated, answered, excused>>
BY DEF vars, threadVars, jobVars

(* What is acted on was answered by a person or a tracker when it was       *)
(* fetched.  Who answers it afterwards is another job, or this one for an   *)
(* earlier entry, and both make what was fetched outdated; a thread that is *)
(* not outdated is no longer in the list once it is being answered.         *)
AnswerInv ==
  /\ phase \in {"idle", "agents"} => todo = {}
  /\ \A t \in todo \ outdated : decision[t] \in Decisions => last[t] \notin Sentinels
  /\ phase = "reply" =>
       /\ cur \in Threads
       /\ decision[cur] \in Decisions
       /\ cur \notin outdated => last[cur] \notin Sentinels /\ cur \notin todo

LEMMA AnswerNext == TypeOK /\ AnswerInv /\ [Next]_vars => AnswerInv'
<1> SUFFICES ASSUME TypeOK, AnswerInv, [Next]_vars PROVE AnswerInv'
    OBVIOUS
<1>1. CASE Classify
  BY <1>1 DEF Classify, AnswerInv
<1>2. CASE Fetch
  <2>1. /\ phase' = "pick" /\ UNCHANGED <<last, decision>>
        /\ \A t \in todo' : Actionable(t)
    BY <1>2 DEF Fetch, threadVars
  <2> QED BY <2>1 DEF AnswerInv, Actionable, Decisions, Closing
<1>3. ASSUME NEW t \in Threads, Recover(t)
      PROVE  AnswerInv'
  <2>1. /\ phase' = "resolve" /\ todo' \subseteq todo /\ outdated \subseteq outdated'
        /\ UNCHANGED <<last, decision>>
    BY <1>3 DEF Recover, Take, threadVars
  <2> QED BY <2>1 DEF AnswerInv
<1>4. ASSUME NEW t \in Threads, Record(t) \/ MarkFixed(t) \/ Converse(t)
      PROVE  AnswerInv'
  <2>1. /\ t \in todo /\ cur' = t /\ phase' \in {"reply", "resolve"}
        /\ UNCHANGED <<last, decision>> /\ decision[t] \in Decisions
        /\ todo' = IF t \in twice THEN todo ELSE todo \ {t}
        /\ outdated' = IF t \in twice THEN outdated \cup {t} ELSE outdated
    BY <1>4 DEF Record, MarkFixed, Converse, Take, threadVars, Decisions, Closing
  <2>2. CASE t \in twice
    BY <2>1, <2>2 DEF AnswerInv
  <2>3. CASE t \notin twice
    BY <2>1, <2>3 DEF AnswerInv
  <2> QED BY <2>2, <2>3
<1>5. CASE Reply
  <2>1. /\ phase = "reply" /\ phase' \in {"pick", "resolve"}
        /\ UNCHANGED <<decision, todo, outdated>>
    BY <1>5 DEF Reply
  <2>2. \A t \in Threads : t # cur => last'[t] = last[t]
    BY <1>5 DEF Reply, TypeOK
  <2> QED BY <2>1, <2>2 DEF AnswerInv, TypeOK
<1>6. CASE Resolve
  BY <1>6 DEF Resolve, AnswerInv
<1>7. CASE Finish
  BY <1>7 DEF Finish, threadVars, AnswerInv
<1>8. CASE Crash
  BY <1>8 DEF Crash, threadVars, AnswerInv
<1>9. CASE LessonsMerged
  BY <1>9 DEF LessonsMerged, threadVars, AnswerInv
<1>10. ASSUME NEW t \in Threads, SomebodyReplies(t)
       PROVE  AnswerInv'
  BY <1>10 DEF SomebodyReplies, jobVars, AnswerInv, TypeOK, Sentinels
<1>11. ASSUME NEW t \in Threads, Toggled(t) \/ OtherReads(t)
       PROVE  AnswerInv'
  BY <1>11 DEF Toggled, OtherReads, threadVars, jobVars, AnswerInv
<1>12. ASSUME NEW t \in Threads, OtherRecords(t)
       PROVE  AnswerInv'
  BY <1>12 DEF OtherRecords, threadVars, AnswerInv
<1>13. ASSUME NEW t \in Threads, OtherAnswers(t)
       PROVE  AnswerInv'
  <2>1. /\ UNCHANGED <<phase, todo, cur, decision>>
        /\ \A u \in Threads : u # t => last'[u] = last[u]
    BY <1>13 DEF OtherAnswers, jobVars, TypeOK
  <2>2. CASE phase \in {"pick", "reply", "resolve"}
    <3>1. outdated' = outdated \cup {t}
      BY <1>13, <2>2 DEF OtherAnswers
    <3> QED BY <2>1, <3>1 DEF AnswerInv, TypeOK
  <2>3. CASE phase \in {"idle", "agents"}
    BY <2>1, <2>3 DEF AnswerInv
  <2> QED BY <2>2, <2>3 DEF TypeOK, Phases
<1>14. CASE UNCHANGED vars
  BY <1>14, StutterKeeps DEF AnswerInv
<1> QED BY <1>1, <1>2, <1>3, <1>4, <1>5, <1>6, <1>7, <1>8, <1>9, <1>10, <1>11,
           <1>12, <1>13, <1>14 DEF Next, Job

(* The service does not answer a thread that ends with an answer of its     *)
(* own, whatever fails, whoever replies and whatever other jobs answer      *)
(* before it fetches the threads; it does when another job answers after    *)
(* that fetch, or when the AI names a thread twice (respond, lines 565-628).*)
THEOREM NoSelfAnswer == Spec => []NeverAnswersItself
<1>1. Init => AnswerInv
  BY DEF Init, AnswerInv
<1>2. TypeOK /\ AnswerInv /\ [Next]_vars => AnswerInv'
  BY AnswerNext
<1>3. AnswerInv => NeverAnswersItself
  BY DEF AnswerInv, NeverAnswersItself
<1> QED BY <1>1, <1>2, <1>3, TypeCorrect, PTL DEF Spec

----------------------------------------------------------------------------
(* Every pattern a job linked is in its checkout, whose whole file it       *)
(* commits: that keeps the patterns of one job together.                    *)
LessonInv ==
  /\ \A t \in Threads : answered[t] = "linked" =>
       t \in branch /\ (phase # "idle" => t \in config)
  /\ link => phase = "reply" /\ cur \in branch \cap config

LEMMA LessonNext == TypeOK /\ LessonInv /\ [Next]_vars => LessonInv'
<1> SUFFICES ASSUME TypeOK, LessonInv, [Next]_vars PROVE LessonInv'
    OBVIOUS
<1>1. CASE Classify
  <2>1. link' = link /\ phase = "idle" /\ answered' = [t \in Threads |-> "no"]
    BY <1>1 DEF Classify
  <2> QED BY <2>1 DEF LessonInv
<1>2. CASE Fetch
  BY <1>2 DEF Fetch, LessonInv
<1>3. ASSUME NEW t \in Threads, Recover(t) \/ MarkFixed(t) \/ Converse(t)
      PROVE  LessonInv'
  <2>1. /\ phase = "pick" /\ UNCHANGED <<answered, branch, config>>
    BY <1>3 DEF Recover, MarkFixed, Converse, Take
  <2>2. link = FALSE
    BY <2>1 DEF LessonInv, TypeOK
  <2>3. link' = FALSE
    BY <1>3, <2>2 DEF Recover, MarkFixed, Converse
  <2> QED BY <2>1, <2>3 DEF LessonInv
<1>4. ASSUME NEW t \in Threads, Record(t)
      PROVE  LessonInv'
  <2>1. /\ phase = "pick" /\ phase' = "reply" /\ cur' = t
        /\ config' = config \cup {t} /\ UNCHANGED answered
    BY <1>4 DEF Record, Take
  <2>2. \/ branch' = config' /\ link' = TRUE
        \/ branch' \in {branch, config'} /\ link' = FALSE
    BY <1>4 DEF Record, Commit
  <2> QED BY <2>1, <2>2 DEF LessonInv
<1>5. CASE Reply
  <2>1. /\ phase = "reply" /\ phase' # "idle" /\ link' = FALSE
        /\ UNCHANGED <<branch, config>>
    BY <1>5 DEF Reply
  <2>2. \A t \in Threads : answered'[t] = "linked" =>
          answered[t] = "linked" \/ (t = cur /\ link)
    BY <1>5 DEF Reply, TypeOK
  <2> QED BY <2>1, <2>2 DEF LessonInv
<1>6. CASE Resolve
  BY <1>6 DEF Resolve, LessonInv
<1>7. CASE Finish
  BY <1>7 DEF Finish, LessonInv
<1>8. CASE Crash
  BY <1>8 DEF Crash, LessonInv
<1>9. ASSUME LessonsMerged \/ \E t \in Threads : OtherRecords(t)
      PROVE  LessonInv'
  BY <1>9 DEF LessonsMerged, OtherRecords, LessonInv
<1>10. ASSUME NEW t \in Threads,
              SomebodyReplies(t) \/ Toggled(t) \/ OtherReads(t) \/ OtherAnswers(t)
       PROVE  LessonInv'
  BY <1>10 DEF SomebodyReplies, Toggled, OtherReads, OtherAnswers, jobVars, LessonInv
<1>11. CASE UNCHANGED vars
  BY <1>11, StutterKeeps DEF LessonInv
<1> QED BY <1>1, <1>2, <1>3, <1>4, <1>5, <1>6, <1>7, <1>8, <1>9, <1>10, <1>11
        DEF Next, Job

(* A reply that links the lessons PR is true as long as its job runs, and   *)
(* until the next one: the patterns of one job do not overwrite each other. *)
THEOREM LessonsOfOneJob == Spec => []LinkedLessonsKept
<1>1. Init => LessonInv
  BY DEF Init, LessonInv
<1>2. TypeOK /\ LessonInv /\ [Next]_vars => LessonInv'
  BY LessonNext
<1>3. LessonInv => LinkedLessonsKept
  BY DEF LessonInv, LinkedLessonsKept
<1> QED BY <1>1, <1>2, <1>3, TypeCorrect, PTL DEF Spec

----------------------------------------------------------------------------
(* A failed call excuses every thread of the job.                           *)
LEMMA FaultExcuses ==
  ASSUME NEW n, Fault(n)
  PROVE  Threads \ excused' = {}
BY DEF Fault

(* A thread that ends with a final answer and is still open is one that the *)
(* job at work has yet to close: it was handled before and will be fetched, *)
(* or it is in the list, or its resolve call is next.                       *)
Pending(t) ==
  \/ phase = "agents" /\ decision[t] = "handled" /\ key[t] = Key(t)
  \/ phase \in {"pick", "reply", "resolve"} /\ decision[t] = "handled" /\ t \in todo
  \/ phase = "resolve" /\ cur = t

CloseInv ==
  \A t \in Threads \ excused :
    last[t] = "closing" => closed[t] \/ Pending(t)

LEMMA CloseNext ==
  TypeOK /\ AnswerInv /\ CloseInv /\ [Next]_vars => CloseInv'
<1> SUFFICES ASSUME TypeOK, AnswerInv, CloseInv, [Next]_vars,
                    NEW u \in Threads \ excused', last'[u] = "closing"
             PROVE  closed'[u] \/ Pending(u)'
    BY DEF CloseInv
<1>1. CASE Classify
  <2>1. /\ phase' = "agents" /\ UNCHANGED <<last, closed>>
        /\ key' = [t \in Threads |-> Key(t)]
    BY <1>1 DEF Classify, threadVars
  <2>2. SUFFICES ASSUME ~closed[u] PROVE Pending(u)'
    BY <2>1
  <2>3. PICK seen \in {{t \in Threads : Listed(t)}, {}},
              d \in [Threads -> Decisions \cup {"none", "handled"}] :
          /\ \A t \in Threads : Listed(t) => t \in seen
          /\ \A t \in Threads :
               d[t] \in (IF t \notin seen THEN {"none"}
                         ELSE IF last[t] \in Sentinels THEN {"handled"}
                         ELSE Decisions \cup {"none"})
          /\ decision' = d /\ store' = Applied(d)
    BY <1>1, FaultExcuses DEF Classify
  <2>4. u \in seen /\ last[u] \in Sentinels
    BY <2>1, <2>2, <2>3 DEF Listed, Sentinels
  <2>5. d[u] = "handled"
    BY <2>3, <2>4
  <2>6. store'[u] = store[u]
    BY <2>3, <2>5 DEF Applied
  <2> QED BY <2>1, <2>3, <2>5, <2>6 DEF Pending, Key
<1>2. CASE Fetch
  <2>1. /\ phase = "agents" /\ phase' = "pick"
        /\ UNCHANGED <<last, closed, decision, key>>
        /\ todo' = {t \in Threads : Listed(t) /\ Key(t) = key[t] /\ Actionable(t)}
        /\ NoFault
    BY <1>2, FaultExcuses DEF Fetch, threadVars
  <2>2. CASE closed[u]
    BY <2>1, <2>2
  <2>3. CASE ~closed[u]
    <3>1. decision[u] = "handled" /\ key[u] = Key(u)
      BY <2>1, <2>3 DEF CloseInv, Pending, NoFault
    <3>2. Listed(u) /\ Actionable(u)
      BY <2>1, <2>3, <3>1 DEF Listed, Actionable
    <3> QED BY <2>1, <3>1, <3>2 DEF Pending
  <2> QED BY <2>2, <2>3
<1>3. ASSUME NEW t \in Threads, Recover(t)
      PROVE  closed'[u] \/ Pending(u)'
  <2>1. /\ phase = "pick" /\ phase' = "resolve" /\ cur' = t
        /\ todo \ {t} \subseteq todo'
        /\ UNCHANGED <<last, closed, decision, excused>>
    BY <1>3 DEF Recover, Take, threadVars, NoFault
  <2> QED BY <2>1 DEF CloseInv, Pending
<1>4. ASSUME NEW t \in Threads, Record(t) \/ MarkFixed(t) \/ Converse(t)
      PROVE  closed'[u] \/ Pending(u)'
  <2>1. /\ phase = "pick" /\ phase' \in {"reply", "resolve"} /\ cur' = t
        /\ t \in todo /\ todo \ {t} \subseteq todo' /\ decision[t] \in Decisions
        /\ UNCHANGED <<last, closed, decision>>
    BY <1>4 DEF Record, MarkFixed, Converse, Take, threadVars, Decisions, Closing
  <2>2. excused' = excused
    BY <1>4, FaultExcuses DEF Record, MarkFixed, Converse, Commit, NoFault
  <2>3. CASE t = u
    BY <2>1, <2>2, <2>3 DEF CloseInv, Pending, Decisions, Closing
  <2>4. CASE t # u
    BY <2>1, <2>2, <2>4 DEF CloseInv, Pending
  <2> QED BY <2>3, <2>4
<1>5. CASE Reply
  <2>1. /\ phase = "reply" /\ UNCHANGED <<closed, todo, decision>> /\ excused' = excused
        /\ last' = [last EXCEPT ![cur] = Answer(decision[cur])]
        /\ IF decision[cur] \in Closing
           THEN phase' = "resolve" /\ UNCHANGED cur
           ELSE phase' = "pick"
    BY <1>5, FaultExcuses DEF Reply, NoFault
  <2>2. CASE u = cur
    BY <2>1, <2>2 DEF Answer, Pending, TypeOK
  <2>3. CASE u # cur
    BY <2>1, <2>3 DEF CloseInv, Pending, TypeOK
  <2> QED BY <2>2, <2>3
<1>6. CASE Resolve
  <2>1. /\ phase = "resolve" /\ phase' = "pick" /\ UNCHANGED <<last, todo, decision>>
        /\ closed' = [closed EXCEPT ![cur] = TRUE] /\ excused' = excused
    BY <1>6, FaultExcuses DEF Resolve, NoFault
  <2> QED BY <2>1 DEF CloseInv, Pending, TypeOK
<1>7. CASE Finish
  BY <1>7 DEF Finish, threadVars, CloseInv, Pending
<1>8. CASE Crash
  BY <1>8, FaultExcuses DEF Crash
<1>9. ASSUME LessonsMerged \/ \E t \in Threads : OtherRecords(t)
      PROVE  closed'[u] \/ Pending(u)'
  BY <1>9 DEF LessonsMerged, OtherRecords, threadVars, CloseInv, Pending, Key
<1>10. ASSUME NEW t \in Threads, SomebodyReplies(t)
       PROVE  closed'[u] \/ Pending(u)'
  <2>1. t # u
    BY <1>10 DEF SomebodyReplies, TypeOK
  <2> QED BY <1>10, <2>1 DEF SomebodyReplies, jobVars, CloseInv, Pending, Key, TypeOK
<1>11. ASSUME NEW t \in Threads, Toggled(t) \/ OtherAnswers(t)
       PROVE  closed'[u] \/ Pending(u)'
  BY <1>11 DEF Toggled, OtherAnswers, jobVars, CloseInv, Pending, Key, TypeOK
<1>12. ASSUME NEW t \in Threads, OtherReads(t)
       PROVE  closed'[u] \/ Pending(u)'
  BY <1>12 DEF OtherReads, threadVars, jobVars, CloseInv, Pending, Key
<1>13. CASE UNCHANGED vars
  BY <1>13, StutterKeeps DEF CloseInv, Pending, Key
<1> QED BY <1>1, <1>2, <1>3, <1>4, <1>5, <1>6, <1>7, <1>8, <1>9, <1>10, <1>11,
           <1>12, <1>13 DEF Next, Job

(* A job without a failure closes every thread that ends with a final       *)
(* answer, those of earlier jobs that died before their resolve call        *)
(* included (the recovery of handled threads in respond).                   *)
THEOREM FinalAnswersClose == Spec => []FinalAnswerCloses
<1>1. Init => AnswerInv /\ CloseInv
  BY DEF Init, AnswerInv, CloseInv
<1>2. TypeOK /\ AnswerInv /\ CloseInv /\ [Next]_vars => AnswerInv' /\ CloseInv'
  BY AnswerNext, CloseNext
<1>3. CloseInv => FinalAnswerCloses
  BY DEF CloseInv, Pending, FinalAnswerCloses
<1> QED BY <1>1, <1>2, <1>3, TypeCorrect, PTL DEF Spec

----------------------------------------------------------------------------
(* A decision waits for the fetch with its thread still listed and its key  *)
(* still good, then in the list, then at its reply or its resolve call; a   *)
(* pattern the store had an entry for is the one that loses its key.        *)
Renamed(t) == decision[t] = "pattern" /\ key[t] = "fingerprint"

Waiting(t) ==
  CASE phase = "agents" -> /\ Listed(t) /\ last[t] \notin Sentinels
                           /\ Key(t) = key[t] \/ Renamed(t)
    [] phase = "pick" -> t \in todo
    [] phase = "reply" -> t \in todo \/ cur = t
    [] phase = "resolve" -> t \in todo \/ (cur = t /\ decision[t] = "deferred")
    [] OTHER -> FALSE

AnsweredInv ==
  \A t \in Threads \ excused : decision[t] \in Decisions =>
    Waiting(t) \/ (phase # "agents" /\ (Answered(t) \/ Renamed(t)))

LEMMA AnsweredNext ==
  TypeOK /\ AnswerInv /\ AnsweredInv /\ [Next]_vars => AnsweredInv'
<1> SUFFICES ASSUME TypeOK, AnswerInv, AnsweredInv, [Next]_vars,
                    NEW u \in Threads \ excused', decision'[u] \in Decisions
             PROVE  Waiting(u)' \/ (phase' # "agents" /\ (Answered(u)' \/ Renamed(u)'))
    BY DEF AnsweredInv
<1> DEFINE Goal == Waiting(u)' \/ (phase' # "agents" /\ (Answered(u)' \/ Renamed(u)'))
<1>1. CASE Classify
  <2>1. /\ phase' = "agents" /\ UNCHANGED <<last, closed>>
        /\ key' = [t \in Threads |-> Key(t)]
    BY <1>1 DEF Classify, threadVars
  <2>2. PICK seen \in {{t \in Threads : Listed(t)}, {}},
              d \in [Threads -> Decisions \cup {"none", "handled"}] :
          /\ \A t \in Threads :
               d[t] \in (IF t \notin seen THEN {"none"}
                         ELSE IF last[t] \in Sentinels THEN {"handled"}
                         ELSE Decisions \cup {"none"})
          /\ decision' = d /\ store' = Applied(d)
    BY <1>1 DEF Classify
  <2>3. u \in seen /\ last[u] \notin Sentinels
    BY <2>2 DEF Decisions, Closing
  <2>4. Listed(u)' /\ last'[u] \notin Sentinels
    BY <2>1, <2>2, <2>3 DEF Listed
  <2>5. CASE d[u] = "pattern" /\ Key(u) = "fingerprint"
    BY <2>1, <2>2, <2>4, <2>5 DEF Waiting, Renamed
  <2>6. CASE ~(d[u] = "pattern" /\ Key(u) = "fingerprint")
    <3>1. store'[u] = store[u]
      BY <2>2, <2>6 DEF Applied
    <3> QED BY <2>1, <2>4, <3>1 DEF Waiting, Key
  <2> QED BY <2>5, <2>6
<1>2. CASE Fetch
  <2>1. /\ phase = "agents" /\ phase' = "pick"
        /\ UNCHANGED <<decision, key>> /\ excused' = excused
        /\ todo' = {t \in Threads : Listed(t) /\ Key(t) = key[t] /\ Actionable(t)}
    BY <1>2, FaultExcuses DEF Fetch, NoFault
  <2>2. Listed(u) /\ last[u] \notin Sentinels /\ (Key(u) = key[u] \/ Renamed(u))
    BY <2>1 DEF AnsweredInv, Waiting
  <2>3. Actionable(u)
    BY <2>1, <2>2 DEF Actionable
  <2> QED BY <2>1, <2>2, <2>3 DEF Waiting, Renamed
<1>3. ASSUME NEW t \in Threads, Recover(t) \/ Record(t) \/ MarkFixed(t) \/ Converse(t)
      PROVE  Goal
  <2>1. /\ phase = "pick" /\ phase' \in {"reply", "resolve"} /\ cur' = t
        /\ t \in todo /\ todo \ {t} \subseteq todo'
        /\ UNCHANGED <<closed, decision, key, answered>>
    BY <1>3 DEF Recover, Record, MarkFixed, Converse, Take, threadVars
  <2>2. excused' = excused
    BY <1>3, FaultExcuses DEF Recover, Record, MarkFixed, Converse, Commit, NoFault
  <2>3. CASE u = t
    <3>1. phase' = "resolve" => decision[t] = "deferred"
      BY <1>3, <2>1, <2>3
      DEF Recover, Record, MarkFixed, Converse, Take, Decisions, Closing
    <3> QED BY <2>1, <2>3, <3>1 DEF Waiting
  <2>4. CASE u # t
    <3>1. u \in todo \/ Answered(u) \/ Renamed(u)
      BY <2>1, <2>2 DEF AnsweredInv, Waiting
    <3> QED BY <2>1, <2>4, <3>1 DEF Waiting, Answered, Renamed
  <2> QED BY <2>3, <2>4
<1>4. CASE Reply
  <2>1. /\ phase = "reply" /\ phase' \in {"pick", "resolve"}
        /\ UNCHANGED <<closed, todo, decision, key>> /\ excused' = excused
        /\ answered' = [answered EXCEPT ![cur] = IF link THEN "linked" ELSE "plain"]
    BY <1>4, FaultExcuses DEF Reply, NoFault
  <2>2. CASE u = cur
    BY <2>1, <2>2 DEF Answered, TypeOK
  <2>3. CASE u # cur
    <3>1. u \in todo \/ Answered(u) \/ Renamed(u)
      BY <2>1, <2>3 DEF AnsweredInv, Waiting
    <3> QED BY <2>1, <2>3, <3>1 DEF Waiting, Answered, Renamed, TypeOK
  <2> QED BY <2>2, <2>3
<1>5. CASE Resolve
  <2>1. /\ phase = "resolve" /\ phase' = "pick"
        /\ UNCHANGED <<todo, decision, key, answered>> /\ excused' = excused
        /\ closed' = [closed EXCEPT ![cur] = TRUE]
    BY <1>5, FaultExcuses DEF Resolve, NoFault
  <2>2. u \in todo \/ (cur = u /\ decision[u] = "deferred") \/ Answered(u) \/ Renamed(u)
    BY <2>1 DEF AnsweredInv, Waiting
  <2> QED BY <2>1, <2>2 DEF Waiting, Answered, Renamed, TypeOK
<1>6. CASE Finish
  <2>1. /\ phase = "pick" /\ phase' = "idle" /\ todo = {}
        /\ UNCHANGED <<closed, decision, key, answered, excused>>
    BY <1>6 DEF Finish, threadVars
  <2>2. Answered(u) \/ Renamed(u)
    BY <2>1 DEF AnsweredInv, Waiting
  <2> QED BY <2>1, <2>2 DEF Answered, Renamed
<1>7. CASE Crash
  BY <1>7, FaultExcuses DEF Crash
<1>8. ASSUME LessonsMerged \/ \E t \in Threads : OtherRecords(t)
      PROVE  Goal
  <2>1. /\ UNCHANGED <<last, closed, store, phase, decision, key, todo, cur, excused>>
        /\ answered' = [t \in Threads |-> IF answered[t] = "linked" THEN "plain" ELSE answered[t]]
    BY <1>8 DEF LessonsMerged, OtherRecords, threadVars
  <2>2. Waiting(u) \/ (phase # "agents" /\ (Answered(u) \/ Renamed(u)))
    BY <2>1 DEF AnsweredInv
  <2>3. Waiting(u) => Waiting(u)'
    BY <2>1 DEF Waiting, Listed, Key, Renamed
  <2>4. (Answered(u) => Answered(u)') /\ (Renamed(u) => Renamed(u)')
    BY <2>1 DEF Answered, Renamed
  <2> QED BY <2>1, <2>2, <2>3, <2>4
<1>9. ASSUME NEW t \in Threads, SomebodyReplies(t) \/ OtherReads(t)
      PROVE  Goal
  <2>1. /\ UNCHANGED <<closed, store, phase, decision, key, todo, cur, answered, excused>>
        /\ last'[u] = last[u] \/ (last'[u] \notin Sentinels /\ last'[u] # "none")
    BY <1>9 DEF SomebodyReplies, OtherReads, threadVars, jobVars, TypeOK, Sentinels
  <2>2. Waiting(u) \/ (phase # "agents" /\ (Answered(u) \/ Renamed(u)))
    BY <2>1 DEF AnsweredInv
  <2>3. Waiting(u) => Waiting(u)'
    BY <2>1 DEF Waiting, Listed, Key, Renamed
  <2>4. (Answered(u) => Answered(u)') /\ (Renamed(u) => Renamed(u)')
    BY <2>1 DEF Answered, Renamed
  <2> QED BY <2>1, <2>2, <2>3, <2>4
<1>10. ASSUME NEW t \in Threads, Toggled(t) \/ OtherAnswers(t)
       PROVE  Goal
  <2>1. /\ UNCHANGED <<store, phase, decision, key, todo, cur, answered>>
        /\ u \notin excused /\ closed'[u] = closed[u] /\ last'[u] = last[u]
    BY <1>10 DEF Toggled, OtherAnswers, jobVars, TypeOK
  <2>2. Waiting(u) \/ (phase # "agents" /\ (Answered(u) \/ Renamed(u)))
    BY <2>1 DEF AnsweredInv
  <2>3. Waiting(u) => Waiting(u)'
    BY <2>1 DEF Waiting, Listed, Key, Renamed
  <2>4. (Answered(u) => Answered(u)') /\ (Renamed(u) => Renamed(u)')
    BY <2>1 DEF Answered, Renamed
  <2> QED BY <2>1, <2>2, <2>3, <2>4
<1>11. CASE UNCHANGED vars
  BY <1>11, StutterKeeps DEF AnsweredInv, Waiting, Answered, Renamed, Listed, Key
<1> QED BY <1>1, <1>2, <1>3, <1>4, <1>5, <1>6, <1>7, <1>8, <1>9, <1>10, <1>11
        DEF Next, Job

(* A job without a failure answers every thread it decided about, but for   *)
(* the patterns whose fingerprint apply_state_updates took away.            *)
THEOREM DecisionsAreAnswered == Spec => []AnsweredUnlessMarked
<1>1. Init => AnswerInv /\ AnsweredInv
  BY DEF Init, AnswerInv, AnsweredInv, Decisions, Closing
<1>2. TypeOK /\ AnswerInv /\ AnsweredInv /\ [Next]_vars => AnswerInv' /\ AnsweredInv'
  BY AnswerNext, AnsweredNext
<1>3. AnsweredInv => AnsweredUnlessMarked
  BY DEF AnsweredInv, Waiting, Renamed, AnsweredUnlessMarked
<1> QED BY <1>1, <1>2, <1>3, TypeCorrect, PTL DEF Spec
=============================================================================
