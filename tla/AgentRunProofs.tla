--------------------------- MODULE AgentRunProofs ---------------------------
(***************************************************************************)
(* Proofs about AgentRun, for every choice of teams, files and limits.     *)
(***************************************************************************)
EXTENDS AgentRun, FiniteSetTheorems, TLAPS

\* What the assumptions say of the team in use.
TeamOK == team \in Seq(Agents) /\ Len(team) \in Nat \ {0} /\ IsInjective(team)

LEMMA TeamFacts == team \in Teams => TeamOK
BY TeamsAssumption DEF TeamOK

\* A run is working until it has the results of all; within that, it is calling
\* while run_agents_parallel is under way.
Calling == phase \in {"collect", "shutdown"}
Working == phase = "next" \/ Calling

OnePerAgent(list) ==
  \A i, j \in DOMAIN list : list[i].agent = list[j].agent => i = j

\* A call is for the whole team, or for the agent after those that are done.
BatchIsNext ==
  Calling => batch = IF Parallel THEN team ELSE <<team[Len(kept) + 1]>>

ResultsOfBatch ==
  Calling =>
    /\ Names(results) \subseteq ToSet(batch) /\ OnePerAgent(results)
    /\ phase = "shutdown" => Names(results) = ToSet(batch)

KeptInOrder ==
  ~Parallel =>
    /\ \A i \in DOMAIN kept : kept[i].agent = team[i]
    /\ Working => Len(kept) < Len(team)
    /\ ~Working => Len(kept) = Len(team)

KeptAtOnce ==
  Parallel =>
    /\ Working => kept = <<>>
    /\ ~Working => Names(kept) = Members /\ OnePerAgent(kept)

\* The calls so far: one for each agent that is done, one for each step down the
\* cascade, and the present one.
Depth(m) ==
  CASE m = "normal" -> 0 [] m = "file_assigned" -> 1 [] OTHER -> 2
LaunchesCounted ==
  /\ Parallel => launches <= 1 /\ (phase = "next" => launches = 0)
  /\ ~Parallel =>
       launches <= Len(kept) + Depth(mode) + (IF Calling THEN 1 ELSE 0)

GreenIsComplete == exit = "0" => phase = "done" /\ FailedAgents = {}

Flow ==
  /\ BatchIsNext /\ ResultsOfBatch /\ KeptInOrder /\ KeptAtOnce
  /\ LaunchesCounted /\ GreenIsComplete

IInv == TypeOK /\ Flow

LEMMA AppendFacts ==
  ASSUME NEW S, NEW list \in Seq(S), NEW e \in S
  PROVE  /\ DOMAIN list = 1..Len(list) /\ Len(list) \in Nat
         /\ Append(list, e) \in Seq(S)
         /\ Len(Append(list, e)) = Len(list) + 1
         /\ DOMAIN Append(list, e) = 1..(Len(list) + 1)
         /\ \A i \in 1..Len(list) : Append(list, e)[i] = list[i]
         /\ Append(list, e)[Len(list) + 1] = e
OBVIOUS

LEMMA ConcatFacts ==
  ASSUME NEW S, NEW list \in Seq(S), NEW more \in Seq(S)
  PROVE  /\ DOMAIN list = 1..Len(list) /\ Len(list) \in Nat
         /\ Len(more) \in Nat
         /\ DOMAIN (list \o more) = 1..(Len(list) + Len(more))
         /\ \A i \in 1..Len(list) : (list \o more)[i] = list[i]
         /\ \A i \in 1..Len(more) : (list \o more)[Len(list) + i] = more[i]
OBVIOUS

LEMMA ResultTypes ==
  ASSUME NEW a \in Agents
  PROVE  /\ thread[a] \in Responses => Result(a) \in Results
         /\ TimedOut(a) \in Results
<1>1. FullFiles(a, mode) \subseteq Files
  BY DEF FullFiles
<1>2. thread[a] \in Responses =>
        /\ Status(thread[a]) \in {"findings", "clean", "error"}
        /\ ErrorText(thread[a]) \in {"", "error", "rate_limit"}
        /\ (thread[a] = "findings") \in BOOLEAN
  BY DEF Status, ErrorText, Responses
<1>3. QED
  BY <1>1, <1>2 DEF Result, TimedOut, Results

\* The time-outs that Expire records.
LEMMA LateTypes ==
  ASSUME batch \in Seq(Agents), NEW late \in Unrecorded
  PROVE  /\ Len(late) \in Nat /\ DOMAIN late = 1..Len(late)
         /\ late \in Seq(Agents)
         /\ [i \in DOMAIN late |-> TimedOut(late[i])] \in Seq(Results)
<1> DEFINE missing == ToSet(batch) \ Names(results)
<1>1. PICK n \in Nat : late \in [1..n -> missing]
  BY DEF Unrecorded, SeqOf
<1>2. missing \subseteq Agents
  BY DEF ToSet
<1>3. late \in Seq(Agents) /\ Len(late) = n
  BY <1>1, <1>2
<1>4. \A i \in 1..n : TimedOut(late[i]) \in Results
  BY <1>1, <1>2, ResultTypes
<1>5. [i \in 1..n |-> TimedOut(late[i])] \in Seq(Results)
  BY <1>4
<1>6. QED
  BY <1>1, <1>3, <1>5

LEMMA TypeInit == Init => TypeOK
<1> SUFFICES ASSUME Init PROVE TypeOK
  OBVIOUS
<1>1. TeamOK
  BY TeamFacts DEF Init
<1>2. MaxLaunches \in Nat
  BY <1>1 DEF MaxLaunches, TeamOK
<1>3. <<>> \in Seq(Agents) /\ <<>> \in Seq(Results)
  OBVIOUS
<1>4. "normal" \in ToSet(FallbackSequence)
  BY DEF ToSet, FallbackSequence
<1>5. thread \in [Agents -> {"idle", "queued", "running"} \cup Responses]
  BY DEF Init
<1>6. launches \in 0..MaxLaunches
  BY <1>2 DEF Init
<1>7. mode \in ToSet(FallbackSequence) /\ retried \in BOOLEAN
  BY <1>4 DEF Init
<1>8. QED
  BY <1>3, <1>5, <1>6, <1>7 DEF Init, TypeOK

-----------------------------------------------------------------------------
(* Types.                                                                  *)

\* When a call has shut down, every agent of it has a result.
LEMMA FirstResult ==
  ASSUME TypeOK, Flow, TeamOK, phase = "shutdown", ~Parallel
  PROVE  /\ results[1] \in Results /\ results[1].agent = team[Len(kept) + 1]
         /\ Len(kept) \in Nat /\ Len(kept) < Len(team)
<1>1. Len(kept) \in Nat /\ Len(kept) < Len(team)
  BY DEF Flow, KeptInOrder, TypeOK, Working, Calling
<1>2. batch = <<team[Len(kept) + 1]>>
  BY DEF Flow, BatchIsNext, Calling
<1>3. Names(results) = {team[Len(kept) + 1]}
  BY <1>2 DEF Flow, ResultsOfBatch, Calling, ToSet
<1>4. PICK i \in DOMAIN results : results[i].agent = team[Len(kept) + 1]
  BY <1>3 DEF Names
<1>5. 1 \in DOMAIN results /\ results[1] \in Results
  BY <1>4 DEF TypeOK
<1>6. QED
  BY <1>1, <1>3, <1>5 DEF Names

LEMMA TypeNext ==
  ASSUME IInv, [Next]_vars
  PROVE  TypeOK'
<1> USE DEF config, cascade, outcome
<1>0. TypeOK /\ Flow /\ TeamOK /\ MaxLaunches \in Nat
  BY TeamFacts DEF IInv, TypeOK, TeamOK, MaxLaunches
<1>1. CASE Launch
  <2>1. batch' \in Seq(Agents)
    <3>1. CASE Parallel
      BY <1>1, <3>1, <1>0 DEF Launch, TeamOK
    <3>2. CASE ~Parallel
      <4>1. Len(kept) \in Nat /\ Len(kept) < Len(team)
        BY <1>0, <1>1, <3>2 DEF Launch, Flow, KeptInOrder, Working, TypeOK
      <4>2. team[Len(kept) + 1] \in Agents
        BY <4>1, <1>0 DEF TeamOK
      <4>3. QED
        BY <1>1, <3>2, <4>2 DEF Launch
    <3>3. QED
      BY <3>1, <3>2
  <2>2. thread' \in [Agents -> {"idle", "queued", "running"} \cup Responses]
    BY <1>1 DEF Launch
  <2>3. MaxLaunches' = MaxLaunches /\ launches' \in 0..MaxLaunches
    BY <1>1, <1>0 DEF Launch, TypeOK, MaxLaunches
  <2>4. results' \in Seq(Results)
    BY <1>1 DEF Launch
  <2>5. QED
    BY <1>0, <1>1, <2>1, <2>2, <2>3, <2>4 DEF Launch, TypeOK
<1>2. CASE StartThread
  <2>1. thread' \in [Agents -> {"idle", "queued", "running"} \cup Responses]
    BY <1>0, <1>2 DEF StartThread, TypeOK
  <2>2. MaxLaunches' = MaxLaunches
    BY <1>2 DEF StartThread, MaxLaunches
  <2>3. QED
    BY <1>0, <1>2, <2>1, <2>2 DEF StartThread, TypeOK
<1>3. ASSUME NEW a \in Agents, Analyse(a) PROVE TypeOK'
  <2>1. thread' \in [Agents -> {"idle", "queued", "running"} \cup Responses]
    BY <1>0, <1>3 DEF Analyse, TypeOK
  <2>2. MaxLaunches' = MaxLaunches
    BY <1>3 DEF Analyse, MaxLaunches
  <2>3. QED
    BY <1>0, <1>3, <2>1, <2>2 DEF Analyse, TypeOK
<1>4. ASSUME NEW a \in ToSet(batch), Collect(a) PROVE TypeOK'
  <2>1. results' \in Seq(Results)
    BY <1>0, <1>4, ResultTypes DEF Collect, TypeOK, ToSet
  <2>2. MaxLaunches' = MaxLaunches
    BY <1>4 DEF Collect, MaxLaunches
  <2>3. phase' \in {"collect", "shutdown"}
    BY <1>4 DEF Collect
  <2>4. QED
    BY <1>0, <1>4, <2>1, <2>2, <2>3 DEF Collect, TypeOK
<1>5. CASE Expire
  <2>1. PICK late \in Unrecorded :
          results' = results \o [i \in DOMAIN late |-> TimedOut(late[i])]
    BY <1>5 DEF Expire
  <2>2. results' \in Seq(Results)
    BY <1>0, <2>1, LateTypes DEF TypeOK
  <2>3. MaxLaunches' = MaxLaunches
    BY <1>5 DEF Expire, MaxLaunches
  <2>4. QED
    BY <1>0, <1>5, <2>2, <2>3 DEF Expire, TypeOK
<1>6. CASE ParallelDone
  <2>1. MaxLaunches' = MaxLaunches
    BY <1>6 DEF ParallelDone, MaxLaunches
  <2>2. QED
    BY <1>0, <1>6, <2>1 DEF ParallelDone, TypeOK
<1>7. CASE Retry
  <2>1. MaxLaunches' = MaxLaunches
    BY <1>7 DEF Retry, MaxLaunches
  <2>2. mode' \in ToSet(FallbackSequence)
    BY <1>7 DEF Retry, NextFallback, MayRetry, ToSet, FallbackSequence
  <2>3. QED
    BY <1>0, <1>7, <2>1, <2>2 DEF Retry, TypeOK
<1>8. CASE Keep
  <2>1. MaxLaunches' = MaxLaunches
    BY <1>8 DEF Keep, MaxLaunches
  <2>2. kept' \in Seq(Results)
    BY <1>0, <1>8, FirstResult DEF Keep, ShutDown, TypeOK
  <2>3. phase' \in {"assess", "next"} /\ retried' \in BOOLEAN
    BY <1>8 DEF Keep
  <2>4. QED
    BY <1>0, <1>8, <2>1, <2>2, <2>3 DEF Keep, TypeOK
<1>9. CASE AllFailed
  <2>1. MaxLaunches' = MaxLaunches
    BY <1>9 DEF AllFailed, MaxLaunches
  <2>2. QED
    BY <1>0, <1>9, <2>1 DEF AllFailed, TypeOK
<1>10. CASE Consolidate
  <2>1. MaxLaunches' = MaxLaunches
    BY <1>10 DEF Consolidate, MaxLaunches
  <2>2. \A i \in DOMAIN kept : kept[i].agent \in Agents
    <3>1. \A i \in DOMAIN kept : kept[i] \in Results
      BY <1>0 DEF TypeOK
    <3>2. QED
      BY <3>1 DEF Results
  <2>4. findings' \subseteq Agents
    BY <2>2, <1>10 DEF Consolidate, AgentsAt
  <2>3. QED
    BY <1>0, <1>10, <2>1, <2>4 DEF Consolidate, TypeOK
<1>11. CASE Report
  <2>1. MaxLaunches' = MaxLaunches
    BY <1>11 DEF Report, MaxLaunches
  <2>2. verdict' \in {"none", "clean", "findings", "degraded", "failed"}
    BY <1>11 DEF Report, ComputeRunVerdict
  <2>3. exit' \in {"none", "0", "1"}
    BY <1>11 DEF Report
  <2>4. QED
    BY <1>0, <1>11, <2>1, <2>2, <2>3 DEF Report, TypeOK
<1>12. CASE UNCHANGED vars
  BY <1>0, <1>12 DEF vars, TypeOK, MaxLaunches
<1>13. QED
  BY <1>1, <1>2, <1>3, <1>4, <1>5, <1>6, <1>7, <1>8, <1>9, <1>10, <1>11,
     <1>12 DEF Next, Runner, Terminated

-----------------------------------------------------------------------------
(* The flow of a run.                                                      *)

LEMMA FlowInit == Init => Flow
<1> SUFFICES ASSUME Init PROVE Flow
  OBVIOUS
<1>1. TeamOK
  BY TeamFacts DEF Init
<1>2. Len(kept) = 0 /\ DOMAIN kept = {}
  BY DEF Init
<1>3. KeptInOrder /\ KeptAtOnce
  BY <1>1, <1>2 DEF Init, KeptInOrder, KeptAtOnce, Working, TeamOK
<1>4. LaunchesCounted
  BY <1>2 DEF Init, LaunchesCounted, Depth, Calling
<1>5. BatchIsNext /\ ResultsOfBatch /\ GreenIsComplete
  BY DEF Init, BatchIsNext, ResultsOfBatch, GreenIsComplete, Calling
<1>6. QED
  BY <1>3, <1>4, <1>5 DEF Flow

\* The steps of the threads touch nothing of this.
LEMMA FlowFrame ==
  ASSUME Flow, UNCHANGED <<config, phase, batch, results, cascade, outcome>>
  PROVE  Flow'
<1> USE DEF config, cascade, outcome
<1>1. BatchIsNext' /\ ResultsOfBatch'
  BY DEF Flow, BatchIsNext, ResultsOfBatch, Calling, Parallel, Names,
     OnePerAgent
<1>2. KeptInOrder' /\ KeptAtOnce'
  BY DEF Flow, KeptInOrder, KeptAtOnce, Working, Calling, Parallel, Names,
     OnePerAgent, Members
<1>3. LaunchesCounted' /\ GreenIsComplete'
  BY DEF Flow, LaunchesCounted, GreenIsComplete, Calling, Parallel, Depth,
     FailedAgents, AgentsAt, Success
<1>4. QED
  BY <1>1, <1>2, <1>3 DEF Flow

LEMMA FlowLaunch ==
  ASSUME IInv, TeamOK, Launch
  PROVE  Flow'
<1> USE DEF config, outcome
<1>1. Flow /\ TypeOK /\ ~Calling /\ Working /\ Calling' /\ Working'
  BY DEF IInv, Launch, Calling, Working
<1>2. BatchIsNext'
  BY DEF Launch, BatchIsNext, Parallel
<1>3. ResultsOfBatch'
  BY DEF Launch, ResultsOfBatch, Names, OnePerAgent
<1>4. KeptInOrder' /\ KeptAtOnce'
  BY <1>1 DEF Launch, Flow, KeptInOrder, KeptAtOnce, Parallel
<1>5. launches' \in Nat /\ launches' <= launches + 1
  BY <1>1 DEF Launch, TypeOK, TeamOK, MaxLaunches
<1>6. Depth(mode) \in 0..2 /\ Depth(mode)' = Depth(mode) /\ launches \in Nat
  BY <1>1 DEF Depth, Launch, TypeOK, TeamOK, MaxLaunches
<1>7. LaunchesCounted'
  BY <1>1, <1>5, <1>6 DEF Launch, Flow, LaunchesCounted, Parallel, TypeOK
<1>8. GreenIsComplete'
  BY <1>1 DEF Launch, Flow, GreenIsComplete
<1>9. QED
  BY <1>2, <1>3, <1>4, <1>7, <1>8 DEF Flow

LEMMA FlowCollect ==
  ASSUME IInv, NEW a \in ToSet(batch), Collect(a)
  PROVE  Flow'
<1> USE DEF config, cascade, outcome
<1>1. Flow /\ TypeOK /\ Calling /\ Calling' /\ Working /\ Working' /\ a \in Agents
  BY DEF IInv, Collect, Calling, Working, TypeOK, ToSet
<1>2. Result(a) \in Results /\ Result(a).agent = a
  BY <1>1, ResultTypes DEF Collect, Result
<1>3. /\ results \in Seq(Results) /\ results' = Append(results, Result(a))
      /\ a \notin Names(results)
  BY <1>1 DEF Collect, TypeOK
<1>4. /\ DOMAIN results = 1..Len(results) /\ Len(results) \in Nat
      /\ DOMAIN results' = 1..(Len(results) + 1)
      /\ \A i \in 1..Len(results) : results'[i] = results[i]
      /\ results'[Len(results) + 1] = Result(a)
  BY <1>2, <1>3, AppendFacts
<1>5. Names(results)' = Names(results) \cup {a}
  BY <1>2, <1>4 DEF Names
<1>6. OnePerAgent(results)'
  BY <1>1, <1>2, <1>3, <1>4 DEF Flow, ResultsOfBatch, OnePerAgent, Names
<1>7. ResultsOfBatch'
  BY <1>1, <1>5, <1>6 DEF Collect, Flow, ResultsOfBatch
<1>8. BatchIsNext' /\ KeptInOrder' /\ KeptAtOnce'
  BY <1>1 DEF Collect, Flow, BatchIsNext, KeptInOrder, KeptAtOnce, Parallel
<1>9. LaunchesCounted' /\ GreenIsComplete'
  BY <1>1 DEF Collect, Flow, LaunchesCounted, GreenIsComplete, Parallel,
              Depth, Calling
<1>10. QED
  BY <1>7, <1>8, <1>9 DEF Flow

LEMMA FlowExpire ==
  ASSUME IInv, Expire
  PROVE  Flow'
<1> USE DEF config, cascade, outcome
<1>1. Flow /\ TypeOK /\ Calling /\ Calling' /\ Working /\ Working'
  BY DEF IInv, Expire, Calling, Working
<1>2. PICK late \in Unrecorded :
        results' = results \o [i \in DOMAIN late |-> TimedOut(late[i])]
  BY DEF Expire
<1> DEFINE more == [i \in DOMAIN late |-> TimedOut(late[i])]
<1>3. /\ Len(late) \in Nat /\ DOMAIN late = 1..Len(late)
      /\ more \in Seq(Results) /\ results \in Seq(Results)
  BY <1>1, LateTypes DEF TypeOK
<1>4. IsInjective(late) /\ ToSet(late) = ToSet(batch) \ Names(results)
  BY DEF Unrecorded
<1>5. \A i \in 1..Len(late) : more[i].agent = late[i]
  BY <1>3 DEF TimedOut
<1>6. Len(more) = Len(late)
  BY <1>3
<1>7. /\ DOMAIN results = 1..Len(results) /\ Len(results) \in Nat
      /\ DOMAIN results' = 1..(Len(results) + Len(late))
      /\ \A i \in 1..Len(results) : results'[i] = results[i]
      /\ \A i \in 1..Len(late) :
           results'[Len(results) + i].agent = late[i]
  <2> HIDE DEF more
  <2>1. results' = results \o more
    BY <1>2 DEF more
  <2>2. /\ DOMAIN results = 1..Len(results) /\ Len(results) \in Nat
        /\ DOMAIN (results \o more) = 1..(Len(results) + Len(more))
        /\ \A i \in 1..Len(results) : (results \o more)[i] = results[i]
        /\ \A i \in 1..Len(more) :
             (results \o more)[Len(results) + i] = more[i]
    BY <1>3, ConcatFacts
  <2>3. QED
    BY <2>1, <2>2, <1>5, <1>6
<1>8. \A i \in DOMAIN results' :
        i > Len(results) => /\ i - Len(results) \in DOMAIN late
                            /\ results'[i].agent = late[i - Len(results)]
  <2>1. SUFFICES ASSUME NEW i \in DOMAIN results', i > Len(results)
                 PROVE  /\ i - Len(results) \in DOMAIN late
                        /\ results'[i].agent = late[i - Len(results)]
    OBVIOUS
  <2>2. i - Len(results) \in 1..Len(late)
    BY <1>3, <1>7, <2>1
  <2>3. QED
    BY <1>3, <1>7, <2>2
<1>9. Names(results)' = ToSet(batch)
  <2>1. Names(results)' = Names(results) \cup ToSet(late)
    <3>1. ASSUME NEW i \in DOMAIN results'
          PROVE  results'[i].agent \in Names(results) \cup ToSet(late)
      BY <1>7, <1>8 DEF Names, ToSet
    <3>2. ASSUME NEW i \in DOMAIN results
          PROVE  results[i].agent \in Names(results)'
      BY <1>3, <1>7 DEF Names
    <3>3. ASSUME NEW i \in DOMAIN late
          PROVE  late[i] \in Names(results)'
      <4>1. Len(results) + i \in DOMAIN results'
        BY <1>3, <1>7
      <4>2. QED
        BY <1>3, <1>7, <4>1 DEF Names
    <3>4. QED
      BY <3>1, <3>2, <3>3 DEF Names, ToSet
  <2>2. QED
    BY <1>1, <1>4, <2>1 DEF Flow, ResultsOfBatch
<1>10. OnePerAgent(results)'
  <2>1. SUFFICES ASSUME NEW i \in DOMAIN results', NEW j \in DOMAIN results',
                        results'[i].agent = results'[j].agent
                 PROVE  i = j
    BY DEF OnePerAgent
  <2>2. CASE i <= Len(results) /\ j <= Len(results)
    BY <1>1, <1>7, <2>1, <2>2 DEF Flow, ResultsOfBatch, OnePerAgent
  <2>3. CASE i > Len(results) /\ j > Len(results)
    <3>1. late[i - Len(results)] = late[j - Len(results)]
      BY <1>8, <2>1, <2>3
    <3>2. i - Len(results) = j - Len(results)
      BY <1>4, <1>8, <2>3, <3>1 DEF IsInjective
    <3>3. QED
      BY <1>7, <3>2
  <2>4. ASSUME NEW k \in DOMAIN results', NEW l \in DOMAIN results',
               k <= Len(results), l > Len(results)
        PROVE  results'[k].agent # results'[l].agent
    <3>1. results'[k].agent \in Names(results)
      BY <1>7, <2>4 DEF Names
    <3>2. results'[l].agent \in ToSet(late)
      BY <1>8, <2>4 DEF ToSet
    <3>3. QED
      BY <1>4, <3>1, <3>2
  <2>5. QED
    BY <1>7, <2>1, <2>2, <2>3, <2>4
<1>11. ResultsOfBatch'
  BY <1>9, <1>10 DEF Expire, ResultsOfBatch
<1>12. BatchIsNext' /\ KeptInOrder' /\ KeptAtOnce'
  BY <1>1 DEF Expire, Flow, BatchIsNext, KeptInOrder, KeptAtOnce, Parallel
<1>13. LaunchesCounted' /\ GreenIsComplete'
  BY <1>1 DEF Expire, Flow, LaunchesCounted, GreenIsComplete, Parallel,
              Depth, Calling
<1>14. QED
  BY <1>11, <1>12, <1>13 DEF Flow

LEMMA FlowDone ==
  ASSUME IInv, TeamOK, ParallelDone \/ Retry \/ Keep
  PROVE  Flow'
<1> USE DEF config, outcome
<1>1. /\ Flow /\ TypeOK /\ Calling /\ Working /\ ~Calling'
      /\ Parallel' = Parallel /\ Members' = Members /\ team' = team
      /\ Names(results) = ToSet(batch) /\ OnePerAgent(results)
  BY DEF IInv, ParallelDone, Retry, Keep, ShutDown, Calling, Working, Parallel,
         Members, Flow, ResultsOfBatch
<1>2. BatchIsNext' /\ ResultsOfBatch'
  BY <1>1 DEF BatchIsNext, ResultsOfBatch
<1>3. GreenIsComplete'
  BY <1>1 DEF Flow, GreenIsComplete, Calling, ParallelDone, Retry, Keep
<1>4. Len(kept) \in Nat /\ launches \in Nat /\ Depth(mode) \in 0..2
  BY <1>1 DEF TypeOK, Depth, TeamOK, MaxLaunches
<1>5. CASE ParallelDone
  <2>1. Parallel /\ ~Working' /\ kept' = results /\ batch = team
    BY <1>1, <1>5 DEF ParallelDone, Working, Calling, Flow, BatchIsNext
  <2>2. KeptInOrder' /\ KeptAtOnce'
    BY <1>1, <2>1 DEF KeptInOrder, KeptAtOnce, Members, Names, OnePerAgent
  <2>3. LaunchesCounted'
    BY <1>1, <1>5, <2>1 DEF ParallelDone, Flow, LaunchesCounted
  <2>4. QED
    BY <1>2, <1>3, <2>2, <2>3 DEF Flow
<1>6. CASE Retry
  <2>1. ~Parallel /\ Working' /\ kept' = kept
    BY <1>6 DEF Retry, Working
  <2>2. KeptInOrder' /\ KeptAtOnce'
    BY <1>1, <2>1 DEF Flow, KeptInOrder, KeptAtOnce
  <2>3. Depth(mode') = Depth(mode) + 1
    BY <1>6 DEF Retry, MayRetry, NextFallback, Depth
  <2>4. LaunchesCounted'
    BY <1>1, <1>4, <1>6, <2>1, <2>3 DEF Retry, Flow, LaunchesCounted, Depth
  <2>5. QED
    BY <1>2, <1>3, <2>2, <2>4 DEF Flow
<1>7. CASE Keep
  <2>1. ~Parallel /\ kept' = Append(kept, results[1])
    BY <1>7 DEF Keep
  <2>2. /\ results[1] \in Results /\ results[1].agent = team[Len(kept) + 1]
        /\ Len(kept) < Len(team) /\ kept \in Seq(Results)
    BY <1>1, <1>7, <2>1, FirstResult DEF Keep, ShutDown, TypeOK
  <2>3. /\ DOMAIN kept = 1..Len(kept) /\ DOMAIN kept' = 1..(Len(kept) + 1)
        /\ Len(kept') = Len(kept) + 1
        /\ \A i \in 1..Len(kept) : kept'[i] = kept[i]
        /\ kept'[Len(kept) + 1] = results[1]
    BY <2>1, <2>2, AppendFacts
  <2>4. \A i \in DOMAIN kept' : kept'[i].agent = team[i]
    BY <1>1, <1>4, <2>1, <2>2, <2>3 DEF Flow, KeptInOrder
  <2>5. IF Len(kept) + 1 = Len(team) THEN ~Working' ELSE Working'
    BY <1>7, <2>3 DEF Keep, Working, Calling
  <2>6. KeptInOrder' /\ KeptAtOnce'
    BY <1>1, <1>4, <2>1, <2>2, <2>3, <2>4, <2>5
       DEF KeptInOrder, KeptAtOnce, TeamOK
  <2>7. LaunchesCounted'
    BY <1>1, <1>4, <1>7, <2>1, <2>3 DEF Keep, Flow, LaunchesCounted, Depth
  <2>8. QED
    BY <1>2, <1>3, <2>6, <2>7 DEF Flow
<1>8. QED
  BY <1>5, <1>6, <1>7

LEMMA FlowEnd ==
  ASSUME IInv, AllFailed \/ Consolidate \/ Report
  PROVE  Flow'
<1> USE DEF config, cascade
<1>1. /\ Flow /\ ~Working /\ ~Calling /\ ~Working' /\ ~Calling'
      /\ Parallel' = Parallel /\ Members' = Members /\ team' = team
      /\ UNCHANGED cascade
  BY DEF IInv, AllFailed, Consolidate, Report, Calling, Working, Parallel,
         Members
<1>2. BatchIsNext' /\ ResultsOfBatch'
  BY <1>1 DEF BatchIsNext, ResultsOfBatch
<1>3. KeptInOrder' /\ KeptAtOnce'
  BY <1>1 DEF Flow, KeptInOrder, KeptAtOnce, Names, OnePerAgent
<1>4. LaunchesCounted'
  <2>1. UNCHANGED <<launches, kept, mode>> /\ Depth(mode)' = Depth(mode)
    BY <1>1 DEF Depth
  <2>2. LaunchesCounted /\ phase' # "next"
    BY <1>1 DEF Flow, Working
  <2>3. QED
    BY <1>1, <2>1, <2>2 DEF LaunchesCounted
<1>5. FailedAgents' = FailedAgents
  BY <1>1 DEF FailedAgents, AgentsAt, Success
<1>6. GreenIsComplete'
  BY <1>1, <1>5 DEF Flow, GreenIsComplete, AllFailed, Consolidate, Report
<1>7. QED
  BY <1>2, <1>3, <1>4, <1>6 DEF Flow

LEMMA InvNext == IInv /\ [Next]_vars => IInv'
<1> SUFFICES ASSUME IInv, [Next]_vars PROVE IInv'
  OBVIOUS
<1>1. TeamOK
  BY TeamFacts DEF IInv, TypeOK
<1>2. CASE StartThread \/ \E a \in Agents : Analyse(a)
  BY <1>2, FlowFrame, TypeNext DEF IInv, StartThread, Analyse
<1>3. CASE UNCHANGED vars \/ Terminated
  BY <1>3, FlowFrame, TypeNext DEF IInv, vars, Terminated, config, cascade, outcome
<1>4. CASE Expire
  BY <1>4, FlowExpire, TypeNext DEF IInv
<1>5. CASE Runner
  BY <1>1, <1>5, FlowLaunch, FlowCollect, FlowDone, FlowEnd, TypeNext
     DEF IInv, Runner
<1>6. QED
  BY <1>2, <1>3, <1>4, <1>5 DEF Next

LEMMA AlwaysIInv == Spec => []IInv
<1>1. Init => IInv
  BY TypeInit, FlowInit DEF IInv
<1>2. QED
  BY <1>1, InvNext, PTL DEF Spec

-----------------------------------------------------------------------------
(* What follows.                                                           *)

\* Type correctness of AgentRun.
THEOREM RunTypeCorrect == Spec => []TypeOK
<1>1. IInv => TypeOK
  BY DEF IInv
<1>2. QED
  BY <1>1, AlwaysIInv, PTL

LEMMA ResultsComplete == IInv => OneResultEach
<1>1. ASSUME IInv, phase \in {"assess", "report", "done"}
      PROVE  Names(kept) = Members /\ OnePerAgent(kept)
  <2>1. ~Working
    BY <1>1 DEF Working, Calling
  <2>2. TeamOK
    BY <1>1, TeamFacts DEF IInv, TypeOK
  <2>3. CASE Parallel
    BY <1>1, <2>1, <2>3 DEF IInv, Flow, KeptAtOnce
  <2>4. CASE ~Parallel
    <3>1. /\ \A i \in DOMAIN kept : kept[i].agent = team[i]
          /\ Len(kept) = Len(team)
      BY <1>1, <2>1, <2>4 DEF IInv, Flow, KeptInOrder
    <3>2. DOMAIN kept = DOMAIN team
      BY <1>1, <2>2, <3>1 DEF IInv, TypeOK, TeamOK
    <3>3. Names(kept) = Members
      BY <3>1, <3>2 DEF Names, Members, ToSet
    <3>4. OnePerAgent(kept)
      BY <2>2, <3>1, <3>2 DEF OnePerAgent, TeamOK, IsInjective
    <3>5. QED
      BY <3>3, <3>4
  <2>5. QED
    BY <2>3, <2>4
<1>2. QED
  BY <1>1 DEF OneResultEach, OnePerAgent

\* Each reviewer has exactly one result, for every team, pool and order of events:
\* the time-out of run_agents_parallel neither loses an agent nor counts it twice.
THEOREM EachHasOneResult == Spec => []OneResultEach
BY ResultsComplete, AlwaysIInv, PTL

\* The fallback cascade costs at most two calls beyond one per agent, however
\* many agents there are and whichever of them meet the rate limit.
THEOREM CascadeCost == Spec => []CascadeBounded
<1>1. ASSUME IInv PROVE CascadeBounded
  <2>1. TeamOK /\ launches \in Nat /\ Len(kept) \in Nat /\ Depth(mode) \in 0..2
    BY <1>1, TeamFacts DEF IInv, TypeOK, TeamOK, MaxLaunches, Depth
  <2>2. CASE Parallel
    BY <1>1, <2>1, <2>2 DEF IInv, Flow, LaunchesCounted, CascadeBounded, TeamOK
  <2>3. CASE ~Parallel
    <3>1. launches <= Len(kept) + Depth(mode) + (IF Calling THEN 1 ELSE 0)
      BY <1>1, <2>3 DEF IInv, Flow, LaunchesCounted
    <3>2. Len(kept) + (IF Calling THEN 1 ELSE 0) <= Len(team)
      BY <1>1, <2>1, <2>3 DEF IInv, Flow, KeptInOrder, Working, TeamOK
    <3>3. QED
      BY <2>1, <3>1, <3>2 DEF CascadeBounded, TeamOK
  <2>4. QED
    BY <2>2, <2>3
<1>2. QED
  BY <1>1, AlwaysIInv, PTL

\* A job that ends with status 0 has no reviewer that is known to have failed.
THEOREM GreenMeansComplete == Spec => []IncompleteIsRed
<1>1. ASSUME IInv PROVE IncompleteIsRed
  <2>1. SUFFICES ASSUME exit = "0", NEW i \in DOMAIN kept
                 PROVE  Success(kept[i])
    BY DEF IncompleteIsRed, Success
  <2>2. FailedAgents = {}
    BY <1>1, <2>1 DEF IInv, Flow, GreenIsComplete
  <2>3. QED
    BY <2>2 DEF FailedAgents, AgentsAt
<1>2. QED
  BY <1>1, AlwaysIInv, PTL
-----------------------------------------------------------------------------
(* The verdict and the files that were shown.                              *)

Modes == {"normal", "file_assigned", "context_lite"}

\* A result comes from one answer: a message only goes with an error, findings
\* with that status, and the files are those of one mode of the cascade.
FromOneAnswer(r) ==
  /\ ~r.timed_out /\ r.status # "error" => Success(r)
  /\ r.items => ~r.timed_out /\ r.status = "findings"
  /\ \E m \in Modes : r.files = FullFiles(r.agent, m)

ResultsSound ==
  /\ \A i \in DOMAIN results : FromOneAnswer(results[i])
  /\ \A i \in DOMAIN kept : FromOneAnswer(kept[i])

\* What is posted and the verdict are both taken from the same results.
ReviewedAgents == AgentsAt({i \in DOMAIN kept : Reviewed(kept[i])})

OutcomeOfKept ==
  /\ phase = "report" => findings = ReviewedAgents
  /\ verdict # "none" =>
       phase = "done" /\ verdict = ComputeRunVerdict /\ findings = ReviewedAgents

VInv == IInv /\ ResultsSound /\ OutcomeOfKept

LEMMA AnswerSound ==
  ASSUME TypeOK, NEW a \in Agents
  PROVE  /\ thread[a] \in Responses => FromOneAnswer(Result(a))
         /\ FromOneAnswer(TimedOut(a))
<1>1. mode \in Modes
  BY DEF TypeOK, Modes, ToSet, FallbackSequence
<1>2. ASSUME thread[a] \in Responses
      PROVE  FromOneAnswer(Result(a))
  <2>1. Result(a).status = Status(thread[a]) /\ Result(a).files = FullFiles(a, mode)
        /\ Result(a).agent = a
    BY DEF Result
  <2>2. Status(thread[a]) # "error" => Success(Result(a))
    BY <1>2, Zenon DEF Status, ErrorText, Responses, Result, Success
  <2>3. Result(a).items => ~Result(a).timed_out /\ Result(a).status = "findings"
    BY <1>2, Zenon DEF Status, Responses, Result
  <2>4. QED
    BY <1>1, <2>1, <2>2, <2>3 DEF FromOneAnswer
<1>3. FromOneAnswer(TimedOut(a))
  <2>1. /\ TimedOut(a).timed_out = TRUE /\ TimedOut(a).files = FullFiles(a, mode)
        /\ TimedOut(a).items = FALSE
        /\ TimedOut(a).agent = a
    BY Zenon DEF TimedOut
  <2>2. QED
    BY <1>1, <2>1 DEF FromOneAnswer
<1>4. QED
  BY <1>2, <1>3

\* Who is shown what depends on nothing that changes.
LEMMA SameSound ==
  ASSUME UNCHANGED config, NEW r, FromOneAnswer(r)
  PROVE  FromOneAnswer(r)'
BY DEF config, FromOneAnswer, Success, FullFiles, Assigned, RoundRobin

LEMMA ResultsNext ==
  ASSUME VInv, [Next]_vars
  PROVE  ResultsSound'
<1> USE DEF cascade, outcome
<1>1. /\ TypeOK /\ UNCHANGED config /\ results \in Seq(Results) /\ kept \in Seq(Results)
      /\ \A i \in DOMAIN results : FromOneAnswer(results[i])
      /\ \A i \in DOMAIN kept : FromOneAnswer(kept[i])
  BY DEF VInv, IInv, TypeOK, ResultsSound, Next, Runner, Launch, Collect, ParallelDone, Retry, Keep,
         AllFailed, Consolidate, Report, StartThread, Analyse, Expire, Terminated, vars, config
<1>2. CASE UNCHANGED <<results, kept>>
  BY <1>1, <1>2, SameSound DEF ResultsSound
<1>3. CASE Launch
  BY <1>1, <1>3, SameSound DEF Launch, ResultsSound
<1>4. ASSUME NEW a \in ToSet(batch), Collect(a)
      PROVE  ResultsSound'
  <2>1. a \in Agents /\ thread[a] \in Responses
    BY <1>1, <1>4 DEF Collect, TypeOK, ToSet
  <2>2. FromOneAnswer(Result(a)) /\ Result(a) \in Results
    BY <1>1, <2>1, AnswerSound, ResultTypes
  <2>3. results' = Append(results, Result(a)) /\ kept' = kept
    BY <1>4 DEF Collect
  <2>4. \A i \in DOMAIN results' : FromOneAnswer(results'[i])
    <3>1. /\ DOMAIN results' = 1..(Len(results) + 1) /\ DOMAIN results = 1..Len(results)
          /\ Len(results) \in Nat
          /\ \A i \in 1..Len(results) : results'[i] = results[i]
          /\ results'[Len(results) + 1] = Result(a)
      BY <1>1, <2>2, <2>3, AppendFacts
    <3>2. QED
      BY <1>1, <2>2, <3>1
  <2>5. QED
    BY <1>1, <2>3, <2>4, SameSound DEF ResultsSound
<1>5. CASE Expire
  <2>1. PICK late \in Unrecorded :
          results' = results \o [i \in DOMAIN late |-> TimedOut(late[i])]
    BY <1>5 DEF Expire
  <2> DEFINE more == [i \in DOMAIN late |-> TimedOut(late[i])]
  <2>2. /\ Len(late) \in Nat /\ DOMAIN late = 1..Len(late)
        /\ late \in Seq(Agents) /\ more \in Seq(Results)
    BY <1>1, LateTypes DEF TypeOK
  <2>3. \A i \in 1..Len(late) : FromOneAnswer(more[i])
    BY <1>1, <2>2, AnswerSound
  <2>4. Len(more) = Len(late)
    BY <2>2
  <2> HIDE DEF more
  <2>5. /\ DOMAIN results = 1..Len(results) /\ Len(results) \in Nat
        /\ DOMAIN (results \o more) = 1..(Len(results) + Len(more))
        /\ \A i \in 1..Len(results) : (results \o more)[i] = results[i]
        /\ \A i \in 1..Len(more) : (results \o more)[Len(results) + i] = more[i]
    BY <1>1, <2>2, ConcatFacts
  <2>6. results' = results \o more /\ kept' = kept
    BY <1>5, <2>1 DEF Expire, more
  <2>7. ASSUME NEW i \in DOMAIN results'
        PROVE  FromOneAnswer(results'[i])
    <3>1. CASE i <= Len(results)
      BY <1>1, <2>5, <2>6, <2>7, <3>1
    <3>2. CASE i > Len(results)
      <4>1. i - Len(results) \in 1..Len(more) /\ i = Len(results) + (i - Len(results))
        BY <2>2, <2>4, <2>5, <2>6, <2>7, <3>2
      <4>2. results'[i] = more[i - Len(results)]
        BY <2>5, <2>6, <4>1
      <4>3. QED
        BY <2>3, <2>4, <4>1, <4>2
    <3>3. QED
      BY <2>2, <2>4, <2>5, <2>6, <2>7, <3>1, <3>2
  <2>8. QED
    BY <1>1, <2>6, <2>7, SameSound DEF ResultsSound
<1>6. CASE ParallelDone
  BY <1>1, <1>6, SameSound DEF ParallelDone, ResultsSound
<1>7. CASE Keep
  <2>1. results[1] \in Results /\ 1 \in DOMAIN results
    <3>1. TeamOK /\ phase = "shutdown" /\ ~Parallel
      BY <1>1, <1>7, TeamFacts DEF Keep, ShutDown, TypeOK
    <3>2. results[1] \in Results
      BY <3>1, FirstResult DEF VInv, IInv
    <3>3. Names(results) = ToSet(batch) /\ batch = <<team[Len(kept) + 1]>>
      BY <3>1 DEF VInv, IInv, Flow, ResultsOfBatch, BatchIsNext, Calling
    <3>4. DOMAIN results # {}
      BY <3>3 DEF Names, ToSet
    <3>5. QED
      BY <1>1, <3>2, <3>4
  <2>2. kept' = Append(kept, results[1]) /\ results' = results
    BY <1>7 DEF Keep
  <2>3. /\ DOMAIN kept' = 1..(Len(kept) + 1) /\ DOMAIN kept = 1..Len(kept) /\ Len(kept) \in Nat
        /\ \A i \in 1..Len(kept) : kept'[i] = kept[i]
        /\ kept'[Len(kept) + 1] = results[1]
    BY <1>1, <2>1, <2>2, AppendFacts
  <2>4. \A i \in DOMAIN kept' : FromOneAnswer(kept'[i])
    BY <1>1, <2>1, <2>3
  <2>5. QED
    BY <1>1, <2>2, <2>4, SameSound DEF ResultsSound
<1>8. QED
  BY <1>2, <1>3, <1>4, <1>5, <1>6, <1>7
  DEF Next, Runner, Retry, AllFailed, Consolidate, Report, StartThread, Analyse, Terminated, vars

LEMMA OutcomeNext ==
  ASSUME VInv, [Next]_vars
  PROVE  OutcomeOfKept'
<1> USE DEF cascade, outcome
<1>1. OutcomeOfKept /\ (verdict # "none" => phase = "done")
  BY DEF VInv, OutcomeOfKept
<1>2. ASSUME UNCHANGED <<kept, findings, verdict>>, phase' # "report" \/ phase = "report",
             phase = "done" => phase' = "done"
      PROVE  OutcomeOfKept'
  <2>1. ReviewedAgents' = ReviewedAgents /\ ComputeRunVerdict' = ComputeRunVerdict
    BY <1>2 DEF ReviewedAgents, AgentsAt, ComputeRunVerdict, CountStatus
  <2>2. QED
    BY <1>1, <1>2, <2>1 DEF OutcomeOfKept
<1>3. CASE ParallelDone \/ Keep
  BY <1>1, <1>3 DEF ParallelDone, Keep, ShutDown, OutcomeOfKept
<1>4. CASE Consolidate
  <2>1. ReviewedAgents' = ReviewedAgents /\ findings' = ReviewedAgents
    BY <1>4 DEF Consolidate, ReviewedAgents, AgentsAt
  <2>2. QED
    BY <1>1, <1>4, <2>1 DEF Consolidate, OutcomeOfKept
<1>5. CASE Report
  <2>1. /\ ReviewedAgents' = ReviewedAgents /\ ComputeRunVerdict' = ComputeRunVerdict
        /\ findings' = findings /\ verdict' = ComputeRunVerdict /\ phase = "report" /\ phase' = "done"
    BY <1>5 DEF Report, ReviewedAgents, AgentsAt, ComputeRunVerdict, CountStatus
  <2>2. QED
    BY <1>1, <2>1 DEF OutcomeOfKept
<1>6. CASE Launch \/ Retry
  BY <1>2, <1>6 DEF Launch, Retry, ShutDown
<1>7. CASE AllFailed \/ StartThread
  BY <1>2, <1>7 DEF AllFailed, StartThread
<1>8. ASSUME NEW a, Collect(a) \/ Analyse(a)
      PROVE  OutcomeOfKept'
  BY <1>2, <1>8 DEF Collect, Analyse
<1>9. CASE Expire
  <2>1. UNCHANGED <<kept, findings, verdict>> /\ phase = "collect" /\ phase' = "shutdown"
    BY <1>9 DEF Expire
  <2>2. QED
    BY <1>2, <2>1
<1>10. CASE Terminated \/ UNCHANGED vars
  BY <1>2, <1>10 DEF Terminated, vars
<1>11. QED
  BY <1>3, <1>4, <1>5, <1>6, <1>7, <1>8, <1>9, <1>10 DEF Next, Runner

LEMMA AlwaysVInv == Spec => []VInv
<1>1. Init => VInv
  <2> SUFFICES ASSUME Init PROVE VInv
    OBVIOUS
  <2>1. results = <<>> /\ kept = <<>> /\ phase = "next" /\ verdict = "none"
    BY DEF Init
  <2>2. QED
    BY <2>1, TypeInit, FlowInit DEF VInv, IInv, ResultsSound, OutcomeOfKept
<1>2. VInv /\ [Next]_vars => VInv'
  BY InvNext, ResultsNext, OutcomeNext DEF VInv
<1>3. QED
  BY <1>1, <1>2, PTL DEF Spec

\* The number of results with a status, against that of all.
LEMMA StatusCount ==
  ASSUME kept \in Seq(Results), NEW s
  PROVE  LET counted == {i \in DOMAIN kept : AgentStatus(kept[i]) = s}
         IN  /\ Len(kept) \in Nat /\ CountStatus(s) \in Nat
             /\ CountStatus(s) = Len(kept) => counted = DOMAIN kept
             /\ CountStatus(s) > 0 => counted # {}
             /\ CountStatus(s) = 0 => counted = {}
<1> DEFINE counted == {i \in DOMAIN kept : AgentStatus(kept[i]) = s}
<1>1. Len(kept) \in Nat /\ DOMAIN kept = 1..Len(kept)
  OBVIOUS
<1>2. IsFiniteSet(1..Len(kept)) /\ Cardinality(1..Len(kept)) = Len(kept)
  BY <1>1, FS_Interval
<1>3. counted \in SUBSET (1..Len(kept))
  BY <1>1
<1>4. CountStatus(s) = Cardinality(counted)
  BY DEF CountStatus
<1> HIDE DEF counted
<1>5. /\ IsFiniteSet(counted)
      /\ Cardinality(1..Len(kept)) = Cardinality(counted) => 1..Len(kept) = counted
  BY <1>2, <1>3, FS_Subset
<1>6. Cardinality(counted) \in Nat /\ (Cardinality(counted) = 0 <=> counted = {})
  BY <1>5, FS_CardinalityType, FS_EmptySet
<1>7. QED
  BY <1>1, <1>2, <1>4, <1>5, <1>6 DEF counted

\* For every team and every way its reviewers may end, the verdict that is reported and
\* the findings that are posted tell the same story (compute_run_verdict).
THEOREM VerdictIsRight == Spec => []VerdictCountsAnswers
<1>1. ASSUME VInv PROVE VerdictCountsAnswers
  <2> SUFFICES ASSUME verdict # "none"
               PROVE  /\ verdict \in {"clean", "findings"} => MostAnswered
                      /\ findings # {} => verdict = IF MostAnswered THEN "findings" ELSE "degraded"
    BY DEF VerdictCountsAnswers
  <2> DEFINE errors == CountStatus("error")
             total == Len(kept)
  <2>1. kept \in Seq(Results) /\ \A i \in DOMAIN kept : kept[i] \in Results /\ FromOneAnswer(kept[i])
    BY <1>1 DEF VInv, IInv, TypeOK, ResultsSound
  <2>2. errors = Cardinality(Missing) /\ total \in Nat /\ errors \in Nat
    <3>1. Missing = {i \in DOMAIN kept : AgentStatus(kept[i]) = "error"}
      BY DEF AgentStatus, Missing
    <3>2. QED
      BY <2>1, <3>1, StatusCount DEF CountStatus
  <2>3. MostAnswered <=> ~Degraded(errors, total)
    BY <2>2 DEF MostAnswered, Degraded
  <2>4. verdict = ComputeRunVerdict /\ findings = ReviewedAgents
    BY <1>1 DEF VInv, OutcomeOfKept
  <2>5. ASSUME findings # {} PROVE errors # total /\ CountStatus("findings") > 0
    <3>1. PICK i \in DOMAIN kept : Reviewed(kept[i])
      BY <2>4, <2>5 DEF ReviewedAgents, AgentsAt
    <3>2. AgentStatus(kept[i]) = "findings"
      BY <2>1, <3>1 DEF FromOneAnswer, Reviewed, AgentStatus
    <3>3. CASE errors = total
      <4>1. AgentStatus(kept[i]) = "error"
        BY <2>1, <3>3, StatusCount
      <4>2. QED
        BY <3>2, <4>1
    <3>4. CASE CountStatus("findings") = 0
      <4>1. {k \in DOMAIN kept : AgentStatus(kept[k]) = "findings"} = {}
        BY <2>1, <3>4, StatusCount
      <4>2. QED
        BY <3>2, <4>1
    <3>5. CountStatus("findings") \in Nat
      BY <2>1, StatusCount
    <3>6. QED
      BY <3>3, <3>4, <3>5
  <2>6. CountStatus("clean") = total /\ total > 0 => ~Degraded(errors, total)
    <3>1. SUFFICES ASSUME CountStatus("clean") = total, total > 0 PROVE errors = 0
      BY <2>2 DEF Degraded
    <3>2. \A i \in DOMAIN kept : AgentStatus(kept[i]) = "clean"
      BY <2>1, <3>1, StatusCount
    <3>3. {i \in DOMAIN kept : AgentStatus(kept[i]) = "error"} = {}
      BY <3>2
    <3>4. CountStatus("error") = Cardinality({})
      BY <3>3, Zenon DEF CountStatus
    <3>5. QED
      BY <3>4, FS_EmptySet
  <2>7. /\ errors = total => Degraded(errors, total)
        /\ ~(CountStatus("findings") > 0 /\ CountStatus("clean") = total)
    <3>1. errors = total => Degraded(errors, total)
      BY <2>2 DEF Degraded
    <3>2. ASSUME CountStatus("findings") > 0, CountStatus("clean") = total PROVE FALSE
      <4>1. \A i \in DOMAIN kept : AgentStatus(kept[i]) = "clean"
        BY <2>1, <3>2, StatusCount
      <4>2. {i \in DOMAIN kept : AgentStatus(kept[i]) = "findings"} # {}
        BY <2>1, <3>2, StatusCount
      <4>3. QED
        BY <4>1, <4>2
    <3>3. QED
      BY <3>1, <3>2
  <2> DEFINE all == errors = total
             degraded == Degraded(errors, total)
             some == CountStatus("findings") > 0
             clean == CountStatus("clean") = total /\ total > 0
  <2>8. verdict = CASE all -> "failed"
                    [] ~all /\ degraded -> "degraded"
                    [] ~degraded /\ some -> "findings"
                    [] clean -> "clean"
                    [] OTHER -> "failed"
    BY <2>4 DEF ComputeRunVerdict
  <2>9. /\ all => degraded
        /\ clean => ~degraded /\ ~some
        /\ findings # {} => ~all /\ some
    BY <2>5, <2>6, <2>7
  <2> HIDE DEF all, degraded, some, clean
  <2>10. CASE degraded
    <3>1. ~(~degraded /\ some) /\ ~clean
      BY <2>9, <2>10
    <3>2. verdict = IF all THEN "failed" ELSE "degraded"
      BY <2>8, <2>10, <3>1, Zenon
    <3>3. ~MostAnswered
      BY <2>3, <2>10 DEF degraded
    <3>4. QED
      BY <2>9, <3>2, <3>3
  <2>11. CASE ~degraded
    <3>1. MostAnswered
      BY <2>3, <2>11 DEF degraded
    <3>2. some => verdict = "findings"
      BY <2>8, <2>9, <2>11
    <3>3. QED
      BY <2>9, <3>1, <3>2
  <2>12. QED
    BY <2>10, <2>11
<1>2. QED
  BY <1>1, AlwaysVInv, PTL

\* The files of the diff are dealt out to the whole team.
LEMMA RoundRobinCovers ==
  ASSUME TeamOK, NEW f \in Files
  PROVE  \E a \in Members : f \in RoundRobin(a)
<1>1. PICK j \in DOMAIN Order : Order[j] = f
  BY FilesAssumption DEF ToSet
<1>2. j \in Nat \ {0}
  BY FilesAssumption
<1>3. ((j - 1) % Len(team)) + 1 \in DOMAIN team
  BY <1>2 DEF TeamOK
<1>4. team[((j - 1) % Len(team)) + 1] \in Members
  BY <1>3 DEF Members, ToSet
<1>5. QED
  BY <1>1, <1>4 DEF RoundRobin

\* Whatever the cascade does, a run that ends well has shown every file in full to a
\* reviewer that answered, or every file that Cleo names for a reviewer where it says
\* who reviews what (_build_agent_changes).
THEOREM EveryFileShown == Spec => []NothingSkipped
<1>1. ASSUME VInv PROVE NothingSkipped
  <2> SUFFICES ASSUME exit = "0", NEW f \in Files,
                      ~cleo.given \/ \E a \in Members : f \in Assigned(a)
               PROVE  \E i \in DOMAIN kept : Success(kept[i]) /\ f \in kept[i].files
    BY DEF NothingSkipped
  <2>1. TeamOK /\ phase = "done" /\ FailedAgents = {} /\ Names(kept) = Members
    <3>1. TeamOK /\ phase = "done" /\ FailedAgents = {}
      BY <1>1, TeamFacts DEF VInv, IInv, TypeOK, Flow, GreenIsComplete
    <3>2. OneResultEach
      BY <1>1, ResultsComplete DEF VInv
    <3>3. QED
      BY <3>1, <3>2 DEF OneResultEach
  <2>2. PICK a \in Members : f \in Assigned(a)
    BY <2>1, RoundRobinCovers DEF Assigned
  <2>3. PICK i \in DOMAIN kept : kept[i].agent = a
    BY <2>1, <2>2 DEF Names
  <2>4. Success(kept[i])
    BY <2>1 DEF FailedAgents, AgentsAt
  <2>5. PICK m \in Modes : kept[i].files = FullFiles(a, m)
    BY <1>1, <2>3 DEF VInv, ResultsSound, FromOneAnswer
  <2>6. f \in FullFiles(a, m)
    BY <2>2 DEF FullFiles
  <2>7. QED
    BY <2>4, <2>5, <2>6
<1>2. QED
  BY <1>1, AlwaysVInv, PTL
=============================================================================
