--------------------------- MODULE ReplyTracking ---------------------------
(***************************************************************************)
(* The won't-fix reply service (comments/service.py, WontFixReplyService)  *)
(* as the pipeline drives it: a job classifies the replies developers gave *)
(* to Revue's findings, runs its agents, and at the end responds to what   *)
(* it classified.  Between the two phases minutes pass, developers go on   *)
(* replying, and the threads are fetched a second time.  One job is        *)
(* followed step by step; pushes in quick succession start others on other *)
(* machines, which answer threads they read at some time before.           *)
(*                                                                         *)
(* A thread is known by its last reply, which is all the service reads of  *)
(* a conversation.  Decisions are the AI's and are left open.              *)
(***************************************************************************)
EXTENDS Naturals, FiniteSets

CONSTANTS
  Threads,    \* Revue's finding threads on the pull request
  Stored,     \* threads with an unresolved entry in the store of this machine
  Contended,  \* threads that other jobs may answer and the AI may name twice
  NoThread,   \* no thread
  Platform,   \* "bitbucket", "github" or "gitlab"
  MaxFaults   \* bound on failed calls, skipped phases, crashes, lists with
              \* repetitions, and threads that other jobs answer

ASSUME StoredAssumption == Stored \subseteq Threads
ASSUME ContendedAssumption == Contended \subseteq Threads
ASSUME NoThreadAssumption == NoThread \notin Threads
ASSUME PlatformAssumption == Platform \in {"bitbucket", "github", "gitlab"}
ASSUME FaultsAssumption == MaxFaults \in Nat

(* What the last reply of a thread ends with: a final answer (revue:ack and *)
(* revue:resolved), an answer that leaves the thread open (revue:rm asks    *)
(* for a reason, revue:not_ack reaffirms the finding), or anything else: a  *)
(* person's words, or a reply of the hunk tracker, whose sentinel this      *)
(* service does not know.                                                   *)
Sentinels == {"closing", "open"}
LastReplies == {"none", "unread"} \cup Sentinels

Closing == {"pattern", "fixed", "deferred"}
Decisions == Closing \cup {"declined"}   \* reason_missing, not_acknowledged

Answer(d) == IF d \in Closing THEN "closing" ELSE "open"

StoreStates == {"none", "unresolved", "wont_fix", "resolved"}

VARIABLES
  \* the pull request and the repository
  last,      \* the last reply of each thread
  closed,    \* whether the thread is resolved on the platform
  branch,    \* patterns, by their thread, in .revue.yml of the lessons branch
             \* and not in that of main
  \* the machine the job runs on
  store,     \* the thread's entry in the per-PR store
  config,    \* patterns in .revue.yml of the checkout and not in that of main
  \* the job
  phase,     \* where the job is
  decision,  \* what classify() decided for each thread
  key,       \* whether a decision carries the store's fingerprint or the id
  todo,      \* threads whose decision respond() has yet to act on
  cur,       \* the thread being answered, in phases "reply" and "resolve"
  twice,     \* threads that the AI's list of decisions names once more
  link,      \* whether the reply to post links a lessons PR that is yet to be
             \* merged, and has the pattern
  \* the jobs of other machines
  theirs,    \* threads that another job read and is about to answer
  \* for the properties
  outdated,  \* threads answered since respond() read them, by another job or
             \* for an earlier entry of the list
  answered,  \* threads this job has replied to, and which with a link
  excused,   \* threads a person or another job closed, reopened or answered
             \* since classify(), and every thread once a call of this job failed
  faults     \* faults so far

threadVars == <<last, closed>>
jobVars == <<phase, decision, key, todo, cur, twice, link, config>>
vars == <<threadVars, branch, store, jobVars, theirs, outdated, answered, excused, faults>>

Phases == {"idle", "agents", "pick", "reply", "resolve"}

TypeOK ==
  /\ last \in [Threads -> LastReplies]
  /\ closed \in [Threads -> BOOLEAN]
  /\ branch \subseteq Threads
  /\ store \in [Threads -> StoreStates]
  /\ config \subseteq Threads
  /\ phase \in Phases
  /\ decision \in [Threads -> Decisions \cup {"none", "handled"}]
  /\ key \in [Threads -> {"fingerprint", "id"}]
  /\ todo \subseteq Threads
  /\ cur \in Threads \cup {NoThread}
  /\ twice \subseteq Threads
  /\ link \in BOOLEAN
  /\ theirs \subseteq Threads
  /\ outdated \subseteq Threads
  /\ answered \in [Threads -> {"no", "plain", "linked"}]
  /\ excused \subseteq Threads
  /\ faults \in 0..MaxFaults

Init ==
  /\ last = [t \in Threads |-> "none"]
  /\ closed = [t \in Threads |-> FALSE]
  /\ branch = {}
  /\ store = [t \in Threads |-> IF t \in Stored THEN "unresolved" ELSE "none"]
  /\ config = {}
  /\ phase = "idle"
  /\ decision = [t \in Threads |-> "none"]
  /\ key = [t \in Threads |-> "id"]
  /\ todo = {}
  /\ cur = NoThread
  /\ twice = {}
  /\ link = FALSE
  /\ theirs = {}
  /\ outdated = {}
  /\ answered = [t \in Threads |-> "no"]
  /\ excused = {}
  /\ faults = 0

----------------------------------------------------------------------------
(* Faults are budgeted, so that what the service retries can succeed, and   *)
(* so are the other jobs.                                                   *)

Costs(n) == faults + n <= MaxFaults /\ faults' = faults + n
Fault(n) == Costs(n) /\ excused' = Threads
NoFault == UNCHANGED <<excused, faults>>

(* _collect_threads_with_replies: threads with a reply.  Only Bitbucket's   *)
(* listing says which threads are resolved, and those are left out.         *)
Listed(t) == last[t] # "none" /\ (Platform = "bitbucket" => ~closed[t])

(* The fingerprint of a thread: the store's, if it has an unresolved        *)
(* entry for the comment, and the comment's id otherwise.                   *)
Key(t) == IF store[t] = "unresolved" THEN "fingerprint" ELSE "id"

\* Fault: the store is given the sentinel's word for the thread's state.
MarkedAsAnswered(t, state) ==
  IF key[t] = "fingerprint" THEN [store EXCEPT ![t] = Answer(decision[t])] ELSE store

(* mark_resolved finds an entry by its fingerprint, and none by an id.      *)
Marked(t, state) ==
  IF key[t] = "fingerprint" THEN [store EXCEPT ![t] = state] ELSE store

----------------------------------------------------------------------------
(* The job                                                                  *)

\* Fault: the state updates hold every decision that closes a thread.
AppliedToClosing(d) ==
  [t \in Threads |-> IF d[t] \in Closing /\ Key(t) = "fingerprint"
                     THEN "wont_fix" ELSE store[t]]

(* apply_state_updates: pattern decisions are marked before the agents run. *)
Applied(d) ==
  [t \in Threads |-> IF d[t] = "pattern" /\ Key(t) = "fingerprint"
                     THEN "wont_fix" ELSE store[t]]

(* classify() and apply_state_updates(): threads that end with the bot's    *)
(* sentinel are handled already; the AI is asked about the others, and may  *)
(* leave some out or name some twice.  The checkout is fresh, with the      *)
(* .revue.yml of main.                                                      *)
Classify ==
  /\ phase = "idle"
  /\ \E seen \in {{t \in Threads : Listed(t)}, {}},
        d \in [Threads -> Decisions \cup {"none", "handled"}] :
       /\ \A t \in Threads :
            d[t] \in (IF t \notin seen THEN {"none"}
                     ELSE IF last[t] \in Sentinels THEN {"handled"}
                     ELSE Decisions \cup {"none"})
       /\ \E again \in SUBSET {t \in Contended : d[t] \in Decisions} :
            /\ twice' = again
            /\ IF \A t \in Threads : Listed(t) => t \in seen
               THEN Costs(IF again = {} THEN 0 ELSE 1) /\ excused' = {}
               ELSE Fault(1)
       /\ decision' = d
       /\ store' = Applied(d)
  /\ key' = [t \in Threads |-> Key(t)]
  /\ config' = {}
  /\ phase' = "agents"
  /\ todo' = {}
  /\ outdated' = {}
  /\ answered' = [t \in Threads |-> "no"]
  /\ UNCHANGED <<threadVars, branch, cur, link, theirs>>

\* Fault: a thread that is handled is passed over without the recovery.
ActionableOnce(t) == decision[t] \in Decisions /\ last[t] \notin Sentinels

(* A decision is acted on when its thread was found and does not end with   *)
(* a sentinel of ours.  A handled thread with a final answer may still be   *)
(* open, and is closed again.                                               *)
Actionable(t) ==
  \/ decision[t] \in Decisions /\ last[t] \notin Sentinels
  \/ decision[t] = "handled" /\ last[t] = "closing"

(* respond() fetches the threads again and looks each decision up by its    *)
(* fingerprint, which a thread may have lost since.                         *)
Fetch ==
  /\ phase = "agents"
  /\ \/ /\ todo' = {t \in Threads : Listed(t) /\ Key(t) = key[t] /\ Actionable(t)}
        /\ NoFault
     \/ todo' = {} /\ Fault(1)
  /\ outdated' = {}
  /\ phase' = "pick"
  /\ UNCHANGED <<threadVars, branch, store, decision, key, cur, twice, link,
                 config, theirs, answered>>

(* Go on with thread t, at its reply or at its resolve call.  A second      *)
(* entry for it will find the same replies in the list that was fetched.    *)
Take(t, next) ==
  /\ phase = "pick" /\ t \in todo
  /\ todo' = IF t \in twice THEN todo ELSE todo \ {t}
  /\ twice' = twice \ {t}
  /\ outdated' = IF t \in twice THEN outdated \cup {t} ELSE outdated
  /\ cur' = t
  /\ phase' = next
  /\ UNCHANGED <<threadVars, decision, key, theirs, answered>>

(* Handled threads come last.                                               *)
Recover(t) ==
  /\ \A u \in todo : decision[u] = "handled"
  /\ Take(t, "resolve")
  /\ UNCHANGED <<branch, store, link, config>> /\ NoFault

\* Fault: the reply links the lessons PR of an earlier pattern although the
\* commit of this one failed.
CommitClaims(file) ==
  \/ Platform # "github" /\ branch' = file /\ link' = TRUE /\ NoFault
  \/ Platform # "github" /\ branch' \in {branch, file} /\ link' = TRUE /\ Fault(1)
  \/ Platform = "github" /\ link' = FALSE /\ UNCHANGED branch /\ NoFault

(* ensure_lessons_pr commits the file of the checkout as it stands to the   *)
(* lessons branch and may fail before or after it did; GitHub has none.     *)
Commit(file) ==
  \/ Platform # "github" /\ branch' = file /\ link' = TRUE /\ NoFault
  \/ Platform # "github" /\ branch' \in {branch, file} /\ link' = FALSE /\ Fault(1)
  \/ Platform = "github" /\ link' = FALSE /\ UNCHANGED branch /\ NoFault

(* allowed_pattern and disallowed_pattern: the pattern is added to the      *)
(* checkout's .revue.yml, the lessons PR is created or updated, and the     *)
(* store is marked.                                                         *)
Record(t) ==
  /\ decision[t] = "pattern"
  /\ Take(t, "reply")
  /\ config' = config \cup {t}
  /\ Commit(config')
  /\ store' = Marked(t, "wont_fix")

(* acknowledged_fixed marks the store first.                                *)
MarkFixed(t) ==
  /\ decision[t] = "fixed"
  /\ Take(t, "reply")
  /\ store' = Marked(t, "resolved")
  /\ link' = FALSE
  /\ UNCHANGED <<branch, config>> /\ NoFault

(* acknowledged_deferred without a draft is resolved without a reply.       *)
Converse(t) ==
  /\ decision[t] \in {"deferred", "declined"}
  /\ \E next \in {"reply", "resolve"} :
       /\ next = "resolve" => decision[t] = "deferred"
       /\ Take(t, next)
  /\ link' = FALSE
  /\ UNCHANGED <<branch, store, config>> /\ NoFault

\* Fault: a reply that seems to have failed is posted again.
ReplyRetries ==
  /\ phase = "reply"
  /\ \E posted, ok \in BOOLEAN :
       /\ IF ok THEN NoFault ELSE Fault(1)
       /\ ok => posted
       /\ last' = IF posted THEN [last EXCEPT ![cur] = Answer(decision[cur])] ELSE last
       /\ phase' = IF ~ok THEN "reply"
                   ELSE IF decision[cur] \in Closing THEN "resolve" ELSE "pick"
  /\ UNCHANGED <<closed, branch, store, decision, key, todo, cur, twice, link, config,
                 theirs, outdated, answered>>

(* post_reply; a failure is logged and passed over, posted or not.          *)
Reply ==
  /\ phase = "reply"
  /\ \E posted \in BOOLEAN :
       /\ (posted /\ NoFault) \/ Fault(1)
       /\ last' = IF posted THEN [last EXCEPT ![cur] = Answer(decision[cur])] ELSE last
       /\ answered' = IF posted
                      THEN [answered EXCEPT ![cur] = IF link THEN "linked" ELSE "plain"]
                      ELSE answered
  /\ IF decision[cur] \in Closing
     THEN phase' = "resolve" /\ UNCHANGED cur
     ELSE phase' = "pick" /\ cur' = NoThread
  /\ link' = FALSE
  /\ UNCHANGED <<closed, branch, store, decision, key, todo, twice, config, theirs,
                 outdated>>

(* resolve_comment, and on Bitbucket resolve_conversation after it for the  *)
(* decisions that do not touch the configuration.                           *)
Attempts == IF Platform = "bitbucket" /\ decision[cur] \in {"fixed", "deferred"}
            THEN 2 ELSE 1

Resolve ==
  /\ phase = "resolve"
  /\ \/ closed' = [closed EXCEPT ![cur] = TRUE] /\ NoFault
     \/ UNCHANGED closed /\ Fault(Attempts)
  /\ phase' = "pick"
  /\ cur' = NoThread
  /\ UNCHANGED <<last, branch, store, decision, key, todo, twice, link, config,
                 theirs, outdated, answered>>

Finish ==
  /\ phase = "pick" /\ todo = {}
  /\ phase' = "idle"
  /\ config' = {}
  /\ twice' = {}
  /\ UNCHANGED <<threadVars, branch, store, decision, key, todo, cur, link, theirs,
                 outdated, answered, excused, faults>>

(* The job is cancelled or dies, and its checkout with it, or run() returns *)
(* before it responds: too large a diff, nothing to review.  The store's    *)
(* file stays.                                                              *)
Crash ==
  /\ phase # "idle"
  /\ Fault(1)
  /\ phase' = "idle"
  /\ config' = {}
  /\ decision' = [t \in Threads |-> "none"]
  /\ key' = [t \in Threads |-> "id"]
  /\ todo' = {}
  /\ cur' = NoThread
  /\ twice' = {}
  /\ link' = FALSE
  /\ outdated' = {}
  /\ answered' = [t \in Threads |-> "no"]
  /\ UNCHANGED <<threadVars, branch, store, theirs>>

----------------------------------------------------------------------------
(* Everybody else                                                           *)

(* A person replies, or a hunk tracker, with a sentinel of its own: that of *)
(* this job when its findings are posted, that of another job at any time.  *)
SomebodyReplies(t) ==
  /\ last' = [last EXCEPT ![t] = "unread"]
  /\ UNCHANGED <<closed, branch, store, jobVars, theirs, outdated, answered, excused, faults>>

(* A person closes or reopens a thread, or another job closes it.           *)
Toggled(t) ==
  /\ closed' = [closed EXCEPT ![t] = ~@]
  /\ excused' = excused \cup {t}
  /\ UNCHANGED <<last, branch, store, jobVars, theirs, outdated, answered, faults>>

(* The lessons PR is merged, and its branch deleted; what its links said    *)
(* has come true.                                                           *)
LessonsMerged ==
  /\ branch # {}
  /\ branch' = {}
  /\ answered' = [t \in Threads |-> IF answered[t] = "linked" THEN "plain" ELSE answered[t]]
  /\ config' = config \ branch
  /\ link' = FALSE
  /\ UNCHANGED <<threadVars, store, phase, decision, key, todo, cur, twice, theirs,
                 outdated, excused, faults>>

(* Another job fetches the threads, among them one that it will answer.     *)
OtherReads(t) ==
  /\ t \in Contended \ theirs
  /\ Listed(t) /\ last[t] \notin Sentinels
  /\ theirs' = theirs \cup {t}
  /\ Costs(1)
  /\ UNCHANGED <<threadVars, branch, store, jobVars, outdated, answered, excused>>

(* It commits the .revue.yml of its own checkout to the lessons branch,     *)
(* which loses what this job recorded there.                                *)
OtherRecords(t) ==
  /\ t \in theirs
  /\ Platform # "github"
  /\ branch' = {t}
  /\ answered' = [u \in Threads |-> IF answered[u] = "linked" THEN "plain" ELSE answered[u]]
  /\ link' = FALSE
  /\ UNCHANGED <<threadVars, store, phase, decision, key, todo, cur, twice, config,
                 theirs, outdated, excused, faults>>

(* It replies, whatever has been posted since it read the thread.           *)
OtherAnswers(t) ==
  /\ t \in theirs
  /\ theirs' = theirs \ {t}
  /\ \E answer \in Sentinels : last' = [last EXCEPT ![t] = answer]
  /\ outdated' = IF phase \in {"pick", "reply", "resolve"} THEN outdated \cup {t} ELSE outdated
  /\ excused' = excused \cup {t}
  /\ UNCHANGED <<closed, branch, store, jobVars, answered, faults>>

Job ==
  \/ Classify \/ Fetch
  \/ \E t \in Threads : Recover(t) \/ Record(t) \/ MarkFixed(t) \/ Converse(t)
  \/ Reply \/ Resolve \/ Finish

Next ==
  \/ Job \/ Crash \/ LessonsMerged
  \/ \E t \in Threads :
       \/ SomebodyReplies(t) \/ Toggled(t)
       \/ OtherReads(t) \/ OtherRecords(t) \/ OtherAnswers(t)

Spec == Init /\ [][Next]_vars

(* Jobs are started by pushes and go on to their end, where the adapter's   *)
(* calls end: Bitbucket's and GitLab's clients have time-outs, GitHub's has *)
(* none.  Nothing is asked of people and of other jobs, and the calls that  *)
(* fail are bounded by MaxFaults.                                           *)
FairSpec == Spec /\ WF_vars(Job)

----------------------------------------------------------------------------
(* Properties                                                               *)

(* Whenever the service is about to reply, the thread does not end with one *)
(* of its own answers, of this job or another, up to two windows: another   *)
(* job has answered since this one fetched the threads, or the AI's list    *)
(* names the thread twice.  Whatever jobs answer between classify and the   *)
(* fetch, however they fail and whatever is posted or lost, it does not     *)
(* answer itself (classify's filter and respond's guard on the last reply). *)
NeverAnswersItself ==
  phase = "reply" => last[cur] \notin Sentinels \/ cur \in outdated

(* A job none of whose calls failed leaves no thread open that ends with a  *)
(* final answer, its own or one an earlier job could not follow up with its *)
(* resolve call, unless a person reopened it or another job answered it     *)
(* meanwhile (the recovery in respond).                                     *)
FinalAnswerCloses ==
  phase = "idle" =>
    \A t \in Threads \ excused : last[t] = "closing" => closed[t]

Answered(t) == answered[t] # "no" \/ (decision[t] = "deferred" /\ closed[t])

(* A job none of whose calls failed has answered every thread it decided    *)
(* about, except that apply_state_updates took the store's fingerprint from *)
(* the threads of its pattern decisions, so that respond() no longer finds  *)
(* them.                                                                    *)
AnsweredUnlessMarked ==
  phase = "idle" =>
    \A t \in Threads \ excused : decision[t] \in Decisions =>
      Answered(t) \/ (decision[t] = "pattern" /\ key[t] = "fingerprint")

(* Every pattern whose reply in this job links the lessons PR is in that    *)
(* PR, or merged, or another job has committed since: the patterns of one   *)
(* job do not overwrite each other.                                         *)
LinkedLessonsKept ==
  \A t \in Threads : answered[t] = "linked" => t \in branch

(* A final answer that is on a thread is followed by the thread being       *)
(* closed, whatever crashed in between, as long as jobs are run and nobody  *)
(* adds to the thread.                                                      *)
FinalAnswerGetsClosed ==
  \A t \in Threads :
    (last[t] = "closing" /\ ~closed[t]) ~> (closed[t] \/ last[t] # "closing")
=============================================================================
