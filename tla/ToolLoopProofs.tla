--------------------------- MODULE ToolLoopProofs ---------------------------
(* Proofs about ToolLoop, for every API, every number of iterations and     *)
(* attempts, all times, and results of any size.                            *)
EXTENDS ToolLoop, FiniteSetTheorems, WellFoundedInduction, TLAPS

LEMMA WordsType ==
  ASSUME NEW role \in {"user", "assistant", "tool"}
  PROVE  Words(role) \in Messages
BY DEF Words, Messages

LEMMA CallsType ==
  ASSUME NEW n \in Nat
  PROVE  /\ [Words("assistant") EXCEPT !.calls = n] \in Messages
         /\ [Words("assistant") EXCEPT !.calls = n].calls = n
         /\ [Words("assistant") EXCEPT !.calls = n].role = "assistant"
BY DEF Words, Messages

LEMMA LastType ==
  ASSUME NEW h \in Seq(Messages), h # << >>
  PROVE  /\ Last(h) = h[Len(h)] /\ Len(h) \in 1..Len(h)
         /\ Last(h) \in Messages /\ Last(h).calls \in Nat
<1>1. Len(h) \in 1..Len(h) /\ Last(h) = h[Len(h)]
  BY DEF Last
<1>2. Last(h) \in Messages
  BY <1>1
<1> QED BY <1>1, <1>2 DEF Messages

LEMMA ResultsType ==
  ASSUME NEW n \in Nat, NEW ok \in Nat, NEW size \in Nat
  PROVE  /\ Results(n, ok, size) \in Messages
         /\ Results(n, ok, size).calls = 0
         /\ Results(n, ok, size).answers = n
         /\ Results(n, ok, size).role = IF api = "anthropic" THEN "user" ELSE "tool"
BY DEF Results, Words, Messages

(* Taking breakpoints away changes nothing else.                            *)
LEMMA StrippedKeeps ==
  ASSUME NEW h \in Seq(Messages)
  PROVE  /\ Stripped(h) \in Seq(Messages)
         /\ Len(Stripped(h)) = Len(h)
         /\ \A i \in 1..Len(h) :
              /\ Stripped(h)[i].marks = 0
              /\ Stripped(h)[i].role = h[i].role
              /\ Stripped(h)[i].calls = h[i].calls
              /\ Stripped(h)[i].answers = h[i].answers
              /\ Stripped(h)[i].bytes = h[i].bytes
<1>1. DOMAIN h = 1..Len(h) /\ Len(h) \in Nat
  OBVIOUS
<1>2. ASSUME NEW m \in Messages
      PROVE  LET x == [m EXCEPT !.marks = 0]
             IN  /\ x \in Messages /\ x.marks = 0 /\ x.role = m.role
                 /\ x.calls = m.calls /\ x.answers = m.answers /\ x.bytes = m.bytes
  BY DEF Messages
<1>3. Stripped(h) = [i \in 1..Len(h) |-> [h[i] EXCEPT !.marks = 0]]
  BY <1>1 DEF Stripped
<1>4. \A i \in 1..Len(h) : h[i] \in Messages
  BY <1>1
<1>5. \A i \in 1..Len(h) : Stripped(h)[i] = [h[i] EXCEPT !.marks = 0]
  BY <1>3
<1>6. \A i \in 1..Len(h) : [h[i] EXCEPT !.marks = 0] \in Messages
  BY <1>2, <1>4
<1>7. Stripped(h) \in Seq(Messages) /\ Len(Stripped(h)) = Len(h)
  BY <1>1, <1>3, <1>6
<1>8. ASSUME NEW i \in 1..Len(h)
      PROVE  /\ Stripped(h)[i].marks = 0
             /\ Stripped(h)[i].role = h[i].role
             /\ Stripped(h)[i].calls = h[i].calls
             /\ Stripped(h)[i].answers = h[i].answers
             /\ Stripped(h)[i].bytes = h[i].bytes
  <2>1. h[i] \in Messages /\ Stripped(h)[i] = [h[i] EXCEPT !.marks = 0]
    BY <1>4, <1>5
  <2> QED BY <2>1, <1>2
<1> QED BY <1>7, <1>8

----------------------------------------------------------------------------
(* Types.  What remains is never negative, since the loop only goes on      *)
(* before the reserve, and no iteration is run beyond the last.             *)
TypeInv ==
  /\ TypeOK
  /\ phase \in {"call", "tools"} => iter < MaxIterations

LEMMA TypeInit == Init => TypeInv
<1> SUFFICES ASSUME Init PROVE TypeInv
    OBVIOUS
<1>1. history \in Seq(Messages) /\ history # << >>
  BY WordsType DEF Init
<1>2. now \in Nat /\ 0 \in 0..(MaxAttempts - 1) /\ 0 \in 0..MaxIterations
      /\ 0 \in 0..SdkRetries
  BY TimesAssumption, AttemptsAssumption, IterationsAssumption DEF Init
<1> QED BY <1>1, <1>2 DEF Init, TypeInv, TypeOK, Phases, Texts

LEMMA TypeNext == TypeInv /\ [Next]_vars => TypeInv'
<1> SUFFICES ASSUME TypeInv, [Next]_vars PROVE TypeInv'
    OBVIOUS
<1>0. /\ Deadline \in Nat /\ Reserve \in Nat /\ Durations \subseteq Nat
      /\ ToolTimes \subseteq Nat /\ SdkRetries \in Nat /\ Backoffs \subseteq Nat
      /\ Waits \subseteq Nat
  BY TimesAssumption
<1> USE <1>0, AttemptsAssumption, IterationsAssumption
    DEF TypeInv, TypeOK, loopVars, callVars
<1>1. CASE Request
  <2>1. lastRemain' \in Nat \cup {-1}
    BY <1>1 DEF Request, InReserve
  <2> QED BY <1>1, <2>1 DEF Request, Phases
<1>2. CASE OutOfTime
  BY <1>2 DEF OutOfTime, Phases
<1>3. CASE OutOfIterations
  BY <1>3 DEF OutOfIterations, Phases
<1>4. CASE Answer
  BY <1>4 DEF Answer, Phases
<1>5. CASE CallTools
  <2>1. PICK n \in 1..MaxCalls :
          history' = Append(history, [Words("assistant") EXCEPT !.calls = n])
    BY <1>5 DEF CallTools
  <2>2. [Words("assistant") EXCEPT !.calls = n] \in Messages
    BY CallsType, SizesAssumption
  <2>3. history' \in Seq(Messages) /\ history' # << >>
    BY <2>1, <2>2
  <2>4. now' \in Nat
    BY <1>5 DEF CallTools
  <2> QED BY <1>5, <2>3, <2>4 DEF CallTools, Phases
<1>6. CASE RunTools
  <2> DEFINE n == Last(history).calls
  <2>1. PICK ok \in 0..n, size \in Sizes :
          history' = Append(IF api = "anthropic" THEN Stripped(history) ELSE history,
                            Results(n, ok, size))
    BY <1>6 DEF RunTools
  <2>2. n \in Nat
    BY LastType
  <2>3. Results(n, ok, size) \in Messages
    BY <2>2, ResultsType, SizesAssumption
  <2>4. history' \in Seq(Messages) /\ history' # << >>
    BY <2>1, <2>3, StrippedKeeps
  <2>5. now' \in Nat
    BY <1>6 DEF RunTools
  <2> QED BY <1>6, <2>4, <2>5 DEF RunTools, Phases
<1>7. CASE Finalize
  <2>1. FinalizeTimeout \in Nat
    BY DEF FinalizeTimeout
  <2>2. history' \in Seq(Messages) /\ history' # << >>
    BY <1>7, WordsType DEF Finalize
  <2> QED BY <1>7, <2>1, <2>2 DEF Finalize, Phases
<1>8. CASE Finalized
  <2>1. now' \in Nat
    BY <1>8 DEF Finalized
  <2> QED BY <1>8, <2>1 DEF Finalized, Phases
<1>9. CASE Return
  BY <1>9 DEF Return, Phases
<1>10. CASE Limit
  BY <1>10 DEF Limit, Phases
<1>11. CASE Retry
  <2>1. history' \in Seq(Messages) /\ history' # << >>
    BY <1>11, WordsType DEF Retry, FreshLoop
  <2>2. now' \in Nat
    BY <1>11 DEF Retry
  <2>3. /\ attempt' \in 0..(MaxAttempts - 1) /\ phase' = "top"
        /\ iter' = 0 /\ stop' = "none" /\ hitCap' = FALSE /\ lastRemain' = -1
        /\ timeout' = -1 /\ tries' = 0 /\ began' = 0
        /\ text' = "empty" /\ response' = "none"
        /\ UNCHANGED <<api, verdict>>
    BY <1>11 DEF Retry, FreshLoop
  <2>4. phase' \in Phases /\ ~(phase' \in {"call", "tools"})
    BY <2>3 DEF Phases
  <2>5. stop' \in {"none", "tool_use", "end_turn"} /\ text' \in Texts
        /\ response' \in Texts \cup {"none", "tools"}
    BY <2>3 DEF Texts
  <2>6. iter' \in 0..MaxIterations
        /\ lastRemain' \in Nat \cup {-1} /\ timeout' \in Nat \cup {-1}
        /\ tries' \in 0..SdkRetries /\ began' \in Nat
    BY <2>3
  <2>10. hitCap' \in BOOLEAN
    BY <2>3, Zenon
  <2>7. api' \in Apis /\ verdict' \in Verdicts \cup {"none"}
    BY <2>3
  <2>8. attempt' \in 0..(MaxAttempts - 1)
    BY <2>3
  <2> HIDE DEF TypeInv
  <2>9. TypeOK'
    BY <2>1, <2>2, <2>4, <2>5, <2>6, <2>7, <2>8, <2>10
  <2> QED BY <2>4, <2>9 DEF TypeInv
<1>12. CASE GiveUp
  BY <1>12 DEF GiveUp, Phases, Verdicts
<1>13. CASE Fail
  <2>1. now' \in Nat
    BY <1>13 DEF Fail, InTime
  <2> QED BY <1>13, <2>1 DEF Fail, Phases, Verdicts
<1>14. CASE Classify
  BY <1>14 DEF Classify, Phases, Verdicts
<1>15. CASE UNCHANGED vars
  BY <1>15 DEF vars
<1>16. CASE Resend
  <2>1. now' \in Nat
    BY <1>16 DEF Resend, InTime
  <2>2. tries' \in 0..SdkRetries
    BY <1>16 DEF Resend
  <2> QED BY <1>16, <2>1, <2>2 DEF Resend
<1> QED BY <1>1, <1>2, <1>3, <1>4, <1>5, <1>6, <1>7, <1>8, <1>9, <1>10, <1>11,
           <1>12, <1>13, <1>14, <1>15, <1>16 DEF Next, Step, Done

(* The variables keep their types; in particular no time-out is negative.   *)
THEOREM TypeCorrect == Spec => []TypeOK
<1>1. TypeInv => TypeOK
  BY DEF TypeInv
<1> QED BY <1>1, TypeInit, TypeNext, PTL DEF Spec

----------------------------------------------------------------------------
(* The conversation: what was asked is answered in the next message, up to  *)
(* the last one, which is the assistant's only while the tools are run.     *)
Follows(h, i) ==
  /\ h[i].calls > 0 => h[i + 1].answers = h[i].calls
  /\ api = "anthropic" => {h[i].role, h[i + 1].role} = {"user", "assistant"}

TalkInv ==
  /\ \A i \in 1..(Len(history) - 1) : Follows(history, i)
  /\ IF phase = "tools"
     THEN Last(history).role = "assistant"
     ELSE /\ Last(history).calls = 0
          /\ api = "anthropic" => Last(history).role = "user"

(* A message that ends a conversation well may be followed by another.      *)
LEMMA AppendFollows ==
  ASSUME NEW h \in Seq(Messages), h # << >>, NEW m \in Messages,
         \A i \in 1..(Len(h) - 1) : Follows(h, i),
         Last(h).calls > 0 => m.answers = Last(h).calls,
         api = "anthropic" => {Last(h).role, m.role} = {"user", "assistant"}
  PROVE  /\ \A i \in 1..(Len(Append(h, m)) - 1) : Follows(Append(h, m), i)
         /\ Last(Append(h, m)) = m
<1> DEFINE g == Append(h, m)
<1>1. /\ Len(g) = Len(h) + 1 /\ Len(h) \in Nat
      /\ \A i \in 1..Len(h) : g[i] = h[i]
      /\ g[Len(h) + 1] = m
  OBVIOUS
<1>2. ASSUME NEW i \in 1..(Len(g) - 1) PROVE Follows(g, i)
  <2>1. CASE i = Len(h)
    <3>1. g[i] = Last(h) /\ g[i + 1] = m
      BY <1>1, <2>1, LastType
    <3> QED BY <3>1 DEF Follows
  <2>2. CASE i # Len(h)
    <3>1. i \in 1..(Len(h) - 1) /\ g[i] = h[i] /\ g[i + 1] = h[i + 1]
      BY <1>1, <2>2
    <3> QED BY <3>1 DEF Follows
  <2> QED BY <2>1, <2>2
<1>3. Last(g) = m
  BY <1>1 DEF Last
<1> QED BY <1>2, <1>3

(* A turn stays with its client.                                            *)
LEMMA ApiKept == [Next]_vars => api' = api
<1>1. CASE Request \/ OutOfTime \/ OutOfIterations \/ Answer \/ CallTools \/ RunTools
  BY <1>1 DEF Request, OutOfTime, OutOfIterations, Answer, CallTools, RunTools
<1>2. CASE Finalize \/ Resend \/ Finalized \/ Return \/ Limit \/ Retry
  BY <1>2 DEF Finalize, Resend, Finalized, Return, Limit, Retry
<1>3. CASE GiveUp \/ Fail \/ Classify \/ UNCHANGED vars
  BY <1>3 DEF GiveUp, Fail, Classify, vars
<1> QED BY <1>1, <1>2, <1>3 DEF Next, Step, Done

LEMMA TalkNext == TypeOK /\ TypeOK' /\ TalkInv /\ [Next]_vars => TalkInv'
<1> SUFFICES ASSUME TypeOK, TypeOK', TalkInv, [Next]_vars PROVE TalkInv'
    OBVIOUS
<1>1. history \in Seq(Messages) /\ history # << >> /\ api' = api
  BY ApiKept DEF TypeOK
<1>2. CASE CallTools
  <2>1. PICK n \in 1..MaxCalls :
          history' = Append(history, [Words("assistant") EXCEPT !.calls = n])
    BY <1>2 DEF CallTools
  <2> DEFINE m == [Words("assistant") EXCEPT !.calls = n]
  <2>2. m \in Messages /\ m.role = "assistant"
    BY CallsType, SizesAssumption
  <2>3. phase = "call" /\ phase' = "tools"
    BY <1>2 DEF CallTools
  <2>4. Last(history).calls = 0 /\ (api = "anthropic" => Last(history).role = "user")
    BY <2>3 DEF TalkInv
  <2>5. /\ \A i \in 1..(Len(history') - 1) : Follows(history', i)
        /\ Last(history') = m
    <3>1. \A i \in 1..(Len(history) - 1) : Follows(history, i)
      BY DEF TalkInv
    <3>2. api = "anthropic" => {Last(history).role, m.role} = {"user", "assistant"}
      BY <2>2, <2>4
    <3>3. history' = Append(history, m)
      BY <2>1
    <3>4. Last(history).calls > 0 => m.answers = Last(history).calls
      BY <2>4
    <3> HIDE DEF m
    <3>5. m \in Messages
      BY <2>2
    <3> QED BY <1>1, <3>1, <3>2, <3>3, <3>4, <3>5, AppendFollows
  <2> QED BY <1>1, <2>2, <2>3, <2>5 DEF TalkInv, Follows
<1>3. CASE RunTools
  <2> DEFINE h == IF api = "anthropic" THEN Stripped(history) ELSE history
             n == Last(history).calls
  <2>1. PICK ok \in 0..n, size \in Sizes : history' = Append(h, Results(n, ok, size))
    BY <1>3 DEF RunTools
  <2>2. phase = "tools" /\ phase' \in {"left", "top"}
    BY <1>3 DEF RunTools
  <2>3. n \in Nat /\ Last(history) = history[Len(history)]
        /\ Len(history) \in 1..Len(history)
    BY <1>1, LastType
  <2>4. h \in Seq(Messages) /\ Len(h) = Len(history)
        /\ \A i \in 1..Len(history) :
             /\ h[i].role = history[i].role
             /\ h[i].calls = history[i].calls
             /\ h[i].answers = history[i].answers
    BY <1>1, StrippedKeeps
  <2>5. h # << >> /\ Last(h).calls = n /\ Last(h).role = "assistant"
    BY <2>2, <2>3, <2>4, LastType DEF TalkInv, Last
  <2>6. \A i \in 1..(Len(h) - 1) : Follows(h, i)
    <3> SUFFICES ASSUME NEW i \in 1..(Len(h) - 1) PROVE Follows(h, i)
        OBVIOUS
    <3>1. Follows(history, i) /\ i \in 1..Len(history) /\ i + 1 \in 1..Len(history)
      BY <2>3, <2>4 DEF TalkInv
    <3> QED BY <2>4, <3>1 DEF Follows
  <2> DEFINE m == Results(n, ok, size)
  <2>7. /\ m \in Messages /\ m.calls = 0 /\ m.answers = n
        /\ m.role = IF api = "anthropic" THEN "user" ELSE "tool"
    <3>1. n \in Nat /\ ok \in Nat /\ size \in Nat
      BY <2>3, SizesAssumption
    <3> HIDE DEF n
    <3> QED BY <3>1, ResultsType
  <2>8. /\ \A i \in 1..(Len(Append(h, m)) - 1) : Follows(Append(h, m), i)
        /\ Last(Append(h, m)) = m
    <3>1. Last(h).calls > 0 => m.answers = Last(h).calls
      BY <2>5, <2>7
    <3>2. api = "anthropic" => {Last(h).role, m.role} = {"user", "assistant"}
      BY <2>5, <2>7
    <3>3. h \in Seq(Messages) /\ h # << >> /\ m \in Messages
      BY <2>4, <2>5, <2>7
    <3>4. \A i \in 1..(Len(h) - 1) : Follows(h, i)
      BY <2>6
    <3> HIDE DEF h, m
    <3> QED BY <3>1, <3>2, <3>3, <3>4, AppendFollows
  <2> QED BY <1>1, <2>1, <2>2, <2>7, <2>8 DEF TalkInv, Follows
<1>4. CASE Finalize
  <2>1. phase = "left" /\ phase' = "final"
    BY <1>4 DEF Finalize
  <2>2. CASE api = "anthropic"
    BY <1>1, <1>4, <2>1, <2>2 DEF Finalize, TalkInv, Follows
  <2>3. CASE api # "anthropic"
    <3>1. history' = Append(history, Words("user"))
      BY <1>4, <2>3 DEF Finalize
    <3>2. Words("user") \in Messages /\ Words("user").calls = 0
      BY WordsType DEF Words
    <3>3. Last(history).calls = 0
      BY <2>1 DEF TalkInv
    <3>4. /\ \A i \in 1..(Len(history') - 1) : Follows(history', i)
          /\ Last(history') = Words("user")
      BY <1>1, <2>3, <3>1, <3>2, <3>3, AppendFollows DEF TalkInv
    <3> QED BY <1>1, <2>1, <2>3, <3>2, <3>4 DEF TalkInv, Follows
  <2> QED BY <2>2, <2>3
<1>5. CASE Retry
  <2>1. history' = <<Words("user")>> /\ phase' = "top"
    BY <1>5 DEF Retry, FreshLoop
  <2>2. Len(history') = 1 /\ Last(history') = Words("user")
    BY <2>1 DEF Last
  <2> QED BY <2>1, <2>2 DEF TalkInv, Words
<1>6. CASE /\ history' = history
           /\ phase # "tools" /\ phase' # "tools"
  BY <1>1, <1>6 DEF TalkInv, Follows
<1>7. CASE UNCHANGED vars
  BY <1>1, <1>7 DEF vars, loopVars, TalkInv, Follows
<1>8. ASSUME ~CallTools, ~RunTools, ~Finalize, ~Retry, ~UNCHANGED vars
      PROVE  history' = history /\ phase # "tools" /\ phase' # "tools"
  BY <1>8 DEF Next, Step, Done, Request, OutOfTime, OutOfIterations, Answer, Resend,
              Finalized, Return, Limit, GiveUp, InCall, Fail, Classify, loopVars
<1> QED BY <1>2, <1>3, <1>4, <1>5, <1>6, <1>7, <1>8

(* Every request is one the API takes, for conversations of any length.     *)
THEOREM RequestsWellFormed == Spec => []WellFormedRequests
<1>1. Init => TalkInv
  <2> SUFFICES ASSUME Init PROVE TalkInv
      OBVIOUS
  <2>1. history = <<Words("user")>> /\ phase = "top"
    BY DEF Init
  <2>2. Len(history) = 1 /\ Last(history) = Words("user")
    BY <2>1 DEF Last
  <2> QED BY <2>1, <2>2 DEF TalkInv, Words
<1>2. TypeOK /\ TalkInv => WellFormedRequests
  <2> SUFFICES ASSUME TypeOK, TalkInv, InCall, NEW i \in 1..Len(history)
               PROVE  /\ history[i].calls > 0 =>
                           i < Len(history) /\ history[i + 1].answers = history[i].calls
                      /\ api = "anthropic" /\ i < Len(history) =>
                           {history[i].role, history[i + 1].role} = {"user", "assistant"}
      BY DEF WellFormedRequests
  <2>1. Last(history) = history[Len(history)] /\ Last(history).calls = 0 /\ Len(history) \in Nat
    BY LastType DEF TypeOK, TalkInv, InCall
  <2>2. CASE i = Len(history)
    BY <2>1, <2>2
  <2>3. CASE i # Len(history)
    <3>1. i \in 1..(Len(history) - 1)
      BY <2>1, <2>3
    <3>2. Follows(history, i)
      BY <3>1 DEF TalkInv
    <3>3. i < Len(history)
      BY <2>1, <3>1
    <3> QED BY <3>2, <3>3 DEF Follows
  <2> QED BY <2>2, <2>3
<1> QED BY <1>1, <1>2, TypeCorrect, TalkNext, PTL DEF Spec

----------------------------------------------------------------------------
(* The cache breakpoints: one at most, and none in OpenAI's conversations.  *)
Marked(h) == {i \in 1..Len(h) : h[i].marks > 0}

MarkInv ==
  /\ \A i, j \in Marked(history) : i = j
  /\ api # "anthropic" => Marked(history) = {}

LEMMA AppendMarks ==
  ASSUME NEW h \in Seq(Messages), NEW m \in Messages
  PROVE  /\ m.marks = 0 => Marked(Append(h, m)) = Marked(h)
         /\ Marked(h) = {} => Marked(Append(h, m)) \subseteq {Len(h) + 1}
<1> DEFINE g == Append(h, m)
<1>1. /\ Len(g) = Len(h) + 1 /\ Len(h) \in Nat
      /\ \A i \in 1..Len(h) : g[i] = h[i]
      /\ g[Len(h) + 1] = m
  OBVIOUS
<1> HIDE DEF g
<1>2. ASSUME NEW i \in 1..Len(g), i # Len(h) + 1
      PROVE  i \in 1..Len(h) /\ g[i] = h[i]
  BY <1>1, <1>2
<1>3. m.marks = 0 => Marked(g) = Marked(h)
  <2> SUFFICES ASSUME m.marks = 0 PROVE Marked(g) = Marked(h)
      OBVIOUS
  <2>1. ~(0 > 0)
    OBVIOUS
  <2>2. ASSUME NEW i \in Marked(g) PROVE i \in Marked(h)
    <3>1. i \in 1..Len(g) /\ g[i].marks > 0
      BY <2>2 DEF Marked
    <3>2. i # Len(h) + 1
      BY <1>1, <2>1, <3>1
    <3> QED BY <1>2, <3>1, <3>2 DEF Marked
  <2>3. ASSUME NEW i \in Marked(h) PROVE i \in Marked(g)
    <3>1. i \in 1..Len(h) /\ h[i].marks > 0
      BY <2>3 DEF Marked
    <3>2. i \in 1..Len(g) /\ g[i].marks > 0
      BY <1>1, <3>1
    <3> QED BY <3>2 DEF Marked
  <2> QED BY <2>2, <2>3
<1>4. Marked(h) = {} => Marked(g) \subseteq {Len(h) + 1}
  <2> SUFFICES ASSUME Marked(h) = {}, NEW i \in Marked(g), i # Len(h) + 1
               PROVE  FALSE
      OBVIOUS
  <2>1. i \in 1..Len(g) /\ g[i].marks > 0
    BY DEF Marked
  <2>2. i \in Marked(h)
    BY <1>2, <2>1 DEF Marked
  <2> QED BY <2>2
<1> QED BY <1>3, <1>4 DEF g

LEMMA MarkNext == TypeOK /\ MarkInv /\ [Next]_vars => MarkInv'
<1> SUFFICES ASSUME TypeOK, MarkInv, [Next]_vars PROVE MarkInv'
    OBVIOUS
<1>1. history \in Seq(Messages) /\ history # << >>
  BY DEF TypeOK
<1>2. api' = api
  BY ApiKept
<1>3. CASE CallTools
  <2>1. PICK n \in 1..MaxCalls :
          history' = Append(history, [Words("assistant") EXCEPT !.calls = n])
    BY <1>3 DEF CallTools
  <2> DEFINE m == [Words("assistant") EXCEPT !.calls = n]
  <2>2. m \in Messages /\ m.marks = 0
    BY CallsType, SizesAssumption DEF Words
  <2>3. history' = Append(history, m)
    BY <2>1
  <2> HIDE DEF m
  <2>4. Marked(history') = Marked(history)
    BY <1>1, <2>2, <2>3, AppendMarks
  <2> QED BY <1>2, <2>4 DEF MarkInv
<1>4. CASE RunTools
  <2> DEFINE h == IF api = "anthropic" THEN Stripped(history) ELSE history
             n == Last(history).calls
  <2>1. PICK ok \in 0..n, size \in Sizes : history' = Append(h, Results(n, ok, size))
    BY <1>4 DEF RunTools
  <2> DEFINE m == Results(n, ok, size)
  <2>2. n \in Nat
    BY <1>1, LastType
  <2>3. m \in Messages
    BY <2>2, ResultsType, SizesAssumption
  <2>4. h \in Seq(Messages)
    BY <1>1, StrippedKeeps
  <2>5. Marked(h) = {}
    <3>1. CASE api = "anthropic"
      <4>1. h = Stripped(history)
        BY <3>1
      <4>2. Len(h) = Len(history) /\ \A i \in 1..Len(history) : h[i].marks = 0
        BY <1>1, <4>1, StrippedKeeps
      <4> HIDE DEF h
      <4> QED BY <4>2 DEF Marked
    <3>2. CASE api # "anthropic"
      BY <3>2 DEF MarkInv
    <3> QED BY <3>1, <3>2
  <2>6. history' = Append(h, m)
    BY <2>1
  <2>7. api # "anthropic" => m.marks = 0
    BY DEF Results, Words
  <2> HIDE DEF h, m
  <2>8. Marked(history') \subseteq {Len(h) + 1}
    BY <2>3, <2>4, <2>5, <2>6, AppendMarks
  <2>9. api # "anthropic" => Marked(history') = {}
    BY <2>3, <2>4, <2>5, <2>6, <2>7, AppendMarks
  <2> QED BY <1>2, <2>8, <2>9 DEF MarkInv
<1>5. CASE Finalize
  <2>1. CASE history' = history
    BY <1>2, <2>1 DEF MarkInv
  <2>2. CASE history' = Append(history, Words("user"))
    <3>1. Words("user") \in Messages /\ Words("user").marks = 0
      BY WordsType DEF Words
    <3>2. Marked(history') = Marked(history)
      BY <1>1, <2>2, <3>1, AppendMarks
    <3> QED BY <1>2, <3>2 DEF MarkInv
  <2> QED BY <1>5, <2>1, <2>2 DEF Finalize
<1>6. CASE Retry
  <2>1. history' = <<Words("user")>>
    BY <1>6 DEF Retry, FreshLoop
  <2>2. Marked(history') = {}
    BY <2>1 DEF Marked, Words
  <2> QED BY <2>2 DEF MarkInv
<1>7. CASE history' = history
  BY <1>2, <1>7 DEF MarkInv
<1>8. ASSUME ~CallTools, ~RunTools, ~Finalize, ~Retry
      PROVE  history' = history
  BY <1>8 DEF Next, Step, Done, Request, OutOfTime, OutOfIterations, Answer, Resend,
              Finalized, Return, Limit, GiveUp, Fail, Classify, loopVars, vars
<1> QED BY <1>3, <1>4, <1>5, <1>6, <1>7, <1>8

(* A request carries one cache breakpoint at most, however long it is.      *)
THEOREM BreakpointsBounded == Spec => []OneBreakpoint
<1>1. Init => MarkInv
  BY DEF Init, MarkInv, Marked, Words
<1>2. TypeOK /\ MarkInv => OneBreakpoint
  <2>1. TypeOK => DOMAIN history = 1..Len(history)
    BY DEF TypeOK
  <2> QED BY <2>1 DEF MarkInv, Marked, OneBreakpoint
<1> QED BY <1>1, <1>2, TypeCorrect, MarkNext, PTL DEF Spec

----------------------------------------------------------------------------
(* Whatever ends a loop that was calling tools makes the finalize call      *)
(* wanted: Anthropic's stop reason by itself, OpenAI's mark by being set in *)
(* the last iteration that is left.                                         *)
WordInv ==
  /\ phase = "tools" => stop = "tool_use" /\ (iter = MaxIterations - 1 => hitCap)
  /\ phase = "top" => (iter > 0 => stop = "tool_use") /\ (iter = MaxIterations => hitCap)
  /\ phase = "left" => Wanted \/ response = text
  /\ phase = "returned" => response = text

LEMMA WordNext == TypeInv /\ WordInv /\ [Next]_vars => WordInv'
<1> SUFFICES ASSUME TypeInv, WordInv, [Next]_vars PROVE WordInv'
    OBVIOUS
<1>1. iter \in 0..MaxIterations /\ MaxIterations \in Nat \ {0} /\ api' = api
  BY ApiKept, IterationsAssumption DEF TypeInv, TypeOK
<1>2. CASE Request
  BY <1>2 DEF Request, WordInv
<1>3. CASE OutOfTime
  <2>1. phase' = "left" /\ api = "openai" /\ hitCap'
    BY <1>3 DEF OutOfTime, InReserve
  <2>2. Wanted'
    BY <1>1, <2>1 DEF Wanted
  <2> QED BY <2>1, <2>2 DEF WordInv
<1>4. CASE OutOfIterations
  <2>1. /\ phase = "top" /\ phase' = "left" /\ iter = MaxIterations
        /\ stop' = stop /\ hitCap' = hitCap
    BY <1>4 DEF OutOfIterations, loopVars
  <2>2. stop = "tool_use" /\ hitCap
    BY <1>1, <2>1 DEF WordInv
  <2>3. Wanted'
    BY <1>1, <2>1, <2>2 DEF Wanted
  <2> QED BY <2>1, <2>3 DEF WordInv
<1>5. CASE Answer
  BY <1>5 DEF Answer, WordInv
<1>6. CASE CallTools
  <2>1. phase' = "tools" /\ stop' = "tool_use" /\ iter' = iter
    BY <1>6 DEF CallTools
  <2>2. iter = MaxIterations - 1 => hitCap'
    BY <1>6, Zenon DEF CallTools
  <2> QED BY <2>1, <2>2 DEF WordInv
<1>7. CASE RunTools
  <2>1. phase = "tools" /\ stop' = stop /\ hitCap' = hitCap
    BY <1>7 DEF RunTools
  <2>2. \/ phase' = "left" /\ api = "anthropic"
        \/ phase' = "top" /\ iter' = iter + 1
    BY <1>7 DEF RunTools
  <2>3. stop = "tool_use" /\ (iter = MaxIterations - 1 => hitCap)
    BY <2>1 DEF WordInv
  <2>4. CASE phase' = "left" /\ api = "anthropic"
    <3>1. Wanted'
      BY <1>1, <2>1, <2>3, <2>4 DEF Wanted
    <3> QED BY <2>4, <3>1 DEF WordInv
  <2>5. CASE phase' = "top" /\ iter' = iter + 1
    <3>1. iter' = MaxIterations => iter = MaxIterations - 1
      BY <1>1, <2>5
    <3>2. stop' = "tool_use" /\ (iter' = MaxIterations => hitCap')
      BY <2>1, <2>3, <3>1
    <3> QED BY <2>5, <3>2 DEF WordInv
  <2> QED BY <2>2, <2>4, <2>5
<1>8. CASE Finalize
  BY <1>8 DEF Finalize, WordInv
<1>9. CASE Finalized \/ Resend
  BY <1>9 DEF Finalized, Resend, WordInv
<1>10. CASE Return
  BY <1>10 DEF Return, WordInv, loopVars
<1>11. CASE Retry
  <2>1. phase' = "top" /\ iter' = 0
    BY <1>11 DEF Retry, FreshLoop
  <2> QED BY <1>1, <2>1 DEF WordInv
<1>12. CASE phase' \in {"limited", "done"}
  BY <1>12 DEF WordInv
<1>13. CASE UNCHANGED vars
  BY <1>13 DEF vars, loopVars, WordInv, Wanted
<1>14. Limit \/ GiveUp \/ Fail \/ Classify => phase' \in {"limited", "done"}
  BY DEF Limit, GiveUp, Fail, Classify
<1> QED BY <1>2, <1>3, <1>4, <1>5, <1>6, <1>7, <1>8, <1>9, <1>10, <1>11, <1>12,
           <1>13, <1>14 DEF Next, Step, Done

(* A turn returns the model's last word, for every bound on the iterations. *)
THEOREM LastWordReturned == Spec => []ReturnsLastWord
<1>1. Init => WordInv
  BY IterationsAssumption DEF Init, WordInv
<1>2. WordInv => ReturnsLastWord
  BY DEF WordInv, ReturnsLastWord
<1> QED BY <1>1, <1>2, TypeInit, TypeNext, WordNext, PTL DEF Spec

----------------------------------------------------------------------------
(* Without the library's induction theorems, which take a predicate: a set  *)
(* of numbers has a least one, since the intervals from 0 to its members    *)
(* are finite sets, which inclusion orders well; a finite one has a largest.*)
LEMMA Least ==
  ASSUME NEW B \in SUBSET Nat, B # {}
  PROVE  \E m \in B : \A n \in B : m <= n
<1> DEFINE R == StrictSubsetOrdering(Nat)
           T == {0..n : n \in B}
<1>1. \A n \in Nat : 0..n \in FiniteSubsetsOf(Nat)
  <2> TAKE n \in Nat
  <2>1. IsFiniteSet(0..n)
    BY FS_Interval
  <2> QED BY <2>1 DEF FiniteSubsetsOf
<1>2. T \subseteq FiniteSubsetsOf(Nat) /\ T # {}
  BY <1>1
<1>3. IsWellFoundedOn(R, FiniteSubsetsOf(Nat))
  BY FS_StrictSubsetOrderingWellFounded
<1>4. \E x \in T : \A y \in T : <<y, x>> \notin R
  <2> HIDE DEF R, T
  <2> QED BY <1>2, <1>3, WFMin
<1>5. PICK m \in B : \A n \in B : <<0..n, 0..m>> \notin R
  BY <1>4
<1>6. ASSUME NEW n \in B, n < m
      PROVE  FALSE
  <2>1. 0..n \subseteq 0..m /\ 0..n # 0..m
    BY <1>6
  <2>2. <<0..n, 0..m>> \in R
    BY <2>1, SMT DEF StrictSubsetOrdering
  <2> QED BY <2>2, <1>5
<1> QED BY <1>6

LEMMA Largest ==
  ASSUME NEW S \in SUBSET Nat, S # {}, IsFiniteSet(S)
  PROVE  Max(S) \in S /\ \A s \in S : s <= Max(S)
<1> DEFINE Above(s) == {x \in S : x > s}
           R == StrictSubsetOrdering(S)
           T == {Above(s) : s \in S}
<1>1. \A s \in S : Above(s) \in FiniteSubsetsOf(S)
  <2> TAKE s \in S
  <2>1. Above(s) \in SUBSET S
    OBVIOUS
  <2>2. IsFiniteSet(Above(s))
    BY <2>1, FS_Subset
  <2> QED BY <2>1, <2>2 DEF FiniteSubsetsOf
<1>2. T \subseteq FiniteSubsetsOf(S) /\ T # {}
  <2> HIDE DEF Above
  <2> QED BY <1>1
<1>3. IsWellFoundedOn(R, FiniteSubsetsOf(S))
  BY FS_StrictSubsetOrderingWellFounded
<1>4. \E x \in T : \A y \in T : <<y, x>> \notin R
  <2> HIDE DEF R, T
  <2> QED BY <1>2, <1>3, WFMin
<1>5. PICK m \in S : \A n \in S : <<Above(n), Above(m)>> \notin R
  <2> HIDE DEF R, Above
  <2> QED BY <1>4
<1>6. ASSUME NEW n \in S, n > m
      PROVE  FALSE
  <2>1. /\ Above(n) \subseteq Above(m) /\ Above(n) # Above(m)
        /\ Above(n) \in SUBSET S /\ Above(m) \in SUBSET S
    <3>1. \A x \in Above(n) : x \in Above(m)
      BY <1>6
    <3>2. n \in Above(m) /\ n \notin Above(n)
      BY <1>6
    <3>3. Above(n) \in SUBSET S /\ Above(m) \in SUBSET S
      OBVIOUS
    <3> HIDE DEF Above
    <3> QED BY <3>1, <3>2, <3>3
  <2>2. <<Above(n), Above(m)>> \in R
    <3> HIDE DEF Above
    <3> QED BY <2>1, SMT DEF StrictSubsetOrdering
  <2> QED BY <2>2, <1>5
<1>7. \A s \in S : m >= s
  BY <1>6
<1> QED BY <1>7 DEF Max

----------------------------------------------------------------------------
(* What remains was exact when the call began, is late by one call when it  *)
(* has ended, and by the tools of its response when they have run; nothing  *)
(* else takes time before the finalize call.  Each time the SDK sends that  *)
(* again, it has used up the time-out and a wait at most.                   *)
Late(left) == \E d \in Durations, s \in ToolTimes : left <= Deadline + d + s

Again == tries * (timeout + Max(Backoffs))

TimeInv ==
  /\ phase \in {"top", "call", "tools", "left"} => timeout = -1 /\ tries = 0
  /\ phase = "call" /\ api = "openai" => now + lastRemain = Deadline
  /\ phase = "tools" /\ api = "openai" =>
       \E d \in Durations : now + lastRemain <= Deadline + d
  /\ phase \in {"top", "left"} /\ api = "openai" =>
       lastRemain = -1 \/ Late(now + lastRemain)
  /\ phase = "final" /\ timeout # -1 =>
       /\ now <= began + Again
       /\ timeout = 1 \/ Late(began + timeout)
  /\ FinalizeOverrun

LEMMA LaterStart ==
  ASSUME NEW x \in Nat, NEW a \in Nat, NEW g \in Nat, NEW e \in Nat, x <= a + g, a <= e
  PROVE  x <= e + g
OBVIOUS

LEMMA LargestBackoff == Max(Backoffs) \in Nat /\ \A b \in Backoffs : b <= Max(Backoffs)
BY Largest, TimesAssumption

LEMMA AgainType ==
  ASSUME TypeOK, timeout # -1
  PROVE  Again \in Nat
<1>1. tries \in Nat /\ timeout + Max(Backoffs) \in Nat
  BY LargestBackoff, TimesAssumption DEF TypeOK
<1>2. \A m, n \in Nat : m * n \in Nat
  OBVIOUS
<1> QED BY <1>1, <1>2 DEF Again

(* An attempt of the finalize call that ends in time keeps to the bound.    *)
LEMMA AttemptInTime ==
  ASSUME TypeOK, TimeInv, phase = "final", NEW d \in Nat, InTime(d), now' = now + d,
         UNCHANGED callVars
  PROVE  FinalizeOverrun'
<1>1. SUFFICES ASSUME timeout # -1
               PROVE  \/ timeout = 1 /\ now + d <= began + 1 + Again
                      \/ \E e \in Durations, s \in ToolTimes :
                           now + d <= Deadline + e + s + Again
  BY DEF FinalizeOverrun, Again, callVars
<1>2. now \in Nat /\ timeout \in Nat /\ began \in Nat /\ Again \in Nat /\ d <= timeout
  BY <1>1, AgainType DEF TypeOK, InTime
<1>3. now <= began + Again /\ (timeout = 1 \/ Late(began + timeout))
  BY <1>1 DEF TimeInv
<1>4. CASE timeout = 1
  BY <1>2, <1>3, <1>4
<1>5. CASE Late(began + timeout)
  <2>1. PICK e \in Durations, s \in ToolTimes : began + timeout <= Deadline + e + s
    BY <1>5 DEF Late
  <2>2. e \in Nat /\ s \in Nat /\ Deadline \in Nat
    BY TimesAssumption
  <2>3. now + d <= began + Again + timeout
    BY <1>2, <1>3
  <2>4. began + Again + timeout <= Deadline + e + s + Again
    BY <1>2, <2>1, <2>2
  <2>5. now + d <= Deadline + e + s + Again
    BY <1>2, <2>2, <2>3, <2>4
  <2> QED BY <2>5
<1> QED BY <1>3, <1>4, <1>5

LEMMA TimeNext == TypeOK /\ TypeOK' /\ TimeInv /\ [Next]_vars => TimeInv'
<1> SUFFICES ASSUME TypeOK, TypeOK', TimeInv, [Next]_vars PROVE TimeInv'
    OBVIOUS
<1>1. /\ now \in Nat /\ lastRemain \in Nat \cup {-1} /\ timeout \in Nat \cup {-1}
      /\ api' = api /\ api \in {"anthropic", "openai"} /\ Deadline \in Nat
      /\ Durations \subseteq Nat /\ Durations # {}
      /\ ToolTimes \subseteq Nat /\ ToolTimes # {}
  BY ApiKept, TimesAssumption, ApisAssumption DEF TypeOK
<1>2. CASE Request
  <2>1. /\ now' = now /\ phase = "top" /\ phase' = "call" /\ UNCHANGED callVars
        /\ api = "openai" => lastRemain' = Deadline - now
    BY <1>2 DEF Request
  <2> QED BY <1>1, <2>1 DEF TimeInv, callVars, FinalizeOverrun
<1>3. CASE OutOfTime \/ OutOfIterations
  <2>1. phase = "top" /\ phase' = "left" /\ now' = now /\ lastRemain' = lastRemain
        /\ UNCHANGED callVars
    BY <1>3 DEF OutOfTime, OutOfIterations, loopVars
  <2> QED BY <1>1, <2>1 DEF TimeInv, Late, callVars, FinalizeOverrun
<1>4. CASE Answer \/ CallTools
  <2>1. PICK d \in Durations : now' = now + d
    BY <1>4 DEF Answer, CallTools
  <2>2. phase = "call" /\ phase' \in {"left", "tools"} /\ lastRemain' = lastRemain
        /\ UNCHANGED callVars
    BY <1>4 DEF Answer, CallTools
  <2>3. timeout' = -1 /\ tries' = 0
    BY <2>2 DEF TimeInv, callVars
  <2>4. CASE api = "openai"
    <3>1. now + lastRemain = Deadline
      BY <2>2, <2>4 DEF TimeInv
    <3>2. now' + lastRemain' <= Deadline + d
      BY <1>1, <2>1, <2>2, <3>1
    <3>3. PICK s \in ToolTimes : s \in Nat
      BY <1>1
    <3>4. now' + lastRemain' <= Deadline + d + s
      BY <1>1, <2>1, <2>2, <3>2, <3>3
    <3>5. Late(now + lastRemain)'
      BY <3>4 DEF Late
    <3> QED BY <2>2, <2>3, <3>2, <3>5 DEF TimeInv, FinalizeOverrun
  <2>5. CASE api # "openai"
    BY <1>1, <2>2, <2>3, <2>5 DEF TimeInv, FinalizeOverrun
  <2> QED BY <2>4, <2>5
<1>5. CASE RunTools
  <2>1. PICK s \in ToolTimes : now' = now + s
    BY <1>5 DEF RunTools
  <2>2. phase = "tools" /\ phase' \in {"top", "left"} /\ lastRemain' = lastRemain
        /\ UNCHANGED callVars
    BY <1>5 DEF RunTools
  <2>3. timeout' = -1 /\ tries' = 0
    BY <2>2 DEF TimeInv, callVars
  <2>4. CASE api = "openai"
    <3>1. PICK d \in Durations : now + lastRemain <= Deadline + d
      BY <2>2, <2>4 DEF TimeInv
    <3>2. now' + lastRemain' <= Deadline + d + s
      BY <1>1, <2>1, <2>2, <3>1
    <3>3. Late(now + lastRemain)'
      BY <3>2 DEF Late
    <3> QED BY <2>2, <2>3, <3>3 DEF TimeInv, FinalizeOverrun
  <2>5. CASE api # "openai"
    BY <1>1, <2>2, <2>3, <2>5 DEF TimeInv, FinalizeOverrun
  <2> QED BY <2>4, <2>5
<1>6. CASE Finalize
  <2>1. phase = "left" /\ phase' = "final" /\ now' = now /\ tries' = 0 /\ timeout = -1
    BY <1>6 DEF Finalize, TimeInv, callVars
  <2>2. CASE api # "openai"
    <3>1. timeout' = -1
      BY <1>1, <1>6, <2>1, <2>2 DEF Finalize, callVars
    <3> QED BY <2>1, <3>1 DEF TimeInv, FinalizeOverrun
  <2>3. CASE api = "openai"
    <3>1. timeout' = FinalizeTimeout /\ began' = now
      BY <1>6, <2>3 DEF Finalize
    <3>2. timeout' = 1 \/ Late(began + timeout)'
      <4>1. CASE FinalizeTimeout = 1
        BY <3>1, <4>1
      <4>2. CASE FinalizeTimeout # 1 /\ lastRemain # -1
        <5>1. timeout' = lastRemain
          BY <3>1, <4>2 DEF FinalizeTimeout
        <5>2. Late(now + lastRemain)
          BY <2>1, <2>3, <4>2 DEF TimeInv
        <5> QED BY <3>1, <5>1, <5>2 DEF Late
      <4>3. CASE FinalizeTimeout # 1 /\ lastRemain = -1
        <5>1. timeout' = Deadline - now
          BY <3>1, <4>3 DEF FinalizeTimeout
        <5>2. PICK d \in Durations, s \in ToolTimes : d \in Nat /\ s \in Nat
          BY <1>1
        <5>3. began' + timeout' <= Deadline + d + s
          BY <1>1, <3>1, <5>1, <5>2
        <5> QED BY <5>3 DEF Late
      <4> QED BY <4>1, <4>2, <4>3
    <3>3. Again' = 0 /\ timeout' \in Nat
      <4>1. timeout' \in Nat
        BY <1>1, <3>1 DEF FinalizeTimeout
      <4>2. timeout' + Max(Backoffs) \in Nat
        BY <4>1, LargestBackoff
      <4> QED BY <2>1, <4>1, <4>2 DEF Again
    <3>4. now' <= began' + Again'
      BY <1>1, <2>1, <3>1, <3>3
    <3>5. FinalizeOverrun'
      <4>1. CASE timeout' = 1
        <5>1. now' <= began' + 1 + Again'
          BY <1>1, <2>1, <3>1, <3>3
        <5> QED BY <4>1, <5>1 DEF FinalizeOverrun, Again
      <4>2. CASE Late(began + timeout)'
        <5>1. PICK d \in Durations, s \in ToolTimes : began' + timeout' <= Deadline + d + s
          BY <4>2 DEF Late
        <5>2. now' <= Deadline + d + s + Again'
          BY <1>1, <2>1, <3>1, <3>3, <5>1
        <5> QED BY <5>2 DEF FinalizeOverrun, Again
      <4> QED BY <3>2, <4>1, <4>2
    <3> QED BY <2>1, <3>2, <3>4, <3>5 DEF TimeInv
  <2> QED BY <2>2, <2>3
<1>7. CASE Retry
  <2>1. phase' = "top" /\ lastRemain' = -1 /\ timeout' = -1 /\ tries' = 0
    BY <1>7 DEF Retry, FreshLoop
  <2> QED BY <2>1 DEF TimeInv, FinalizeOverrun
<1>8. CASE Resend
  <2>1. PICK d \in Durations \cup {timeout}, b \in Backoffs : InTime(d) /\ now' = now + d + b
    BY <1>8 DEF Resend
  <2>2. /\ phase = "final" /\ phase' = phase /\ timeout # -1
        /\ tries' = tries + 1 /\ timeout' = timeout /\ began' = began
    BY <1>8 DEF Resend
  <2> DEFINE once == timeout + Max(Backoffs)
  <2>3. /\ d \in Nat /\ d <= timeout /\ b \in Nat /\ b <= Max(Backoffs)
        /\ once \in Nat /\ timeout \in Nat /\ began \in Nat /\ Again \in Nat
        /\ tries \in Nat /\ Max(Backoffs) \in Nat
    BY <1>1, <2>1, <2>2, LargestBackoff, AgainType, TimesAssumption DEF TypeOK, InTime
  <2>4. Again' = Again + once
    <3>1. Again = tries * once /\ Again' = (tries + 1) * once
      BY <2>2 DEF Again
    <3> HIDE DEF once
    <3>2. (tries + 1) * once = tries * once + once
      BY <2>3
    <3> QED BY <3>1, <3>2
  <2>5. now <= began + Again /\ (timeout = 1 \/ Late(began + timeout))
    BY <2>2 DEF TimeInv
  <2>6. now' <= began' + Again'
    <3>1. d + b <= once
      BY <2>3
    <3>2. now' = now + (d + b)
      BY <1>1, <2>1, <2>3
    <3> HIDE DEF once
    <3> QED BY <1>1, <2>2, <2>3, <2>4, <2>5, <3>1, <3>2
  <2>7. FinalizeOverrun'
    <3>1. Again' \in Nat
      BY <2>3, <2>4
    <3> HIDE DEF once
    <3>2. now' \in Nat /\ now' <= began + Again'
      BY <2>2, <2>6 DEF TypeOK
    <3>3. CASE timeout = 1
      <4>1. began \in Nat /\ began + 1 \in Nat /\ began <= began + 1
        BY <2>3
      <4>2. now' <= began + 1 + Again'
        BY <3>1, <3>2, <4>1, LaterStart
      <4> QED BY <2>2, <3>3, <4>2 DEF FinalizeOverrun, Again
    <3>4. CASE Late(began + timeout)
      <4>1. PICK e \in Durations, s \in ToolTimes : began + timeout <= Deadline + e + s
        BY <3>4 DEF Late
      <4>2. e \in Nat /\ s \in Nat
        BY <1>1
      <4>3. began <= Deadline + e + s
        BY <1>1, <2>3, <4>1, <4>2
      <4> DEFINE end == Deadline + e + s
      <4>5. end \in Nat
        BY <1>1, <4>2
      <4>6. began \in Nat /\ began <= end
        BY <2>3, <4>3
      <4> HIDE DEF end
      <4>7. now' <= end + Again'
        BY <3>1, <3>2, <4>5, <4>6, LaterStart
      <4> QED BY <4>7 DEF FinalizeOverrun, Again, end
    <3> QED BY <2>5, <3>3, <3>4
  <2> QED BY <2>2, <2>5, <2>6, <2>7 DEF TimeInv, Late
<1>9. CASE Finalized \/ (Fail /\ phase = "final")
  <2>1. PICK d \in Durations \cup {timeout} : InTime(d) /\ now' = now + d
    BY <1>9 DEF Finalized, Fail
  <2>2. phase = "final" /\ phase' \in {"returned", "done"} /\ UNCHANGED callVars
    BY <1>9 DEF Finalized, Fail, loopVars
  <2>3. d \in Nat
    BY <1>1, <2>1 DEF InTime
  <2>4. FinalizeOverrun'
    BY <2>1, <2>2, <2>3, AttemptInTime
  <2> QED BY <2>2, <2>4 DEF TimeInv
<1>10. CASE Fail /\ phase = "call"
  <2>1. timeout' = -1 /\ phase' = "done"
    BY <1>10 DEF Fail, TimeInv, loopVars, callVars
  <2> QED BY <2>1 DEF TimeInv, FinalizeOverrun
<1>11. CASE Return \/ Limit \/ GiveUp \/ Classify
  <2>1. phase' \in {"limited", "done", "returned"} /\ UNCHANGED <<now, callVars>>
    BY <1>11 DEF Return, Limit, GiveUp, Classify, loopVars
  <2> QED BY <2>1 DEF TimeInv, callVars, FinalizeOverrun
<1>12. CASE UNCHANGED vars
  BY <1>12 DEF vars, loopVars, callVars, TimeInv, Late, Again, FinalizeOverrun
<1> QED BY <1>2, <1>3, <1>4, <1>5, <1>6, <1>7, <1>8, <1>9, <1>10, <1>11, <1>12
        DEF Next, Step, Done, Fail, InCall

(* A turn that makes a finalize call overruns the deadline by one call, the *)
(* tools of one response and the SDK's repetitions at most, for all times:  *)
(* the bound that holds in place of the one the tests state.                *)
THEOREM OverrunBounded == Spec => []FinalizeOverrun
<1>1. Init => TimeInv
  BY DEF Init, TimeInv, FinalizeOverrun
<1>2. TimeInv => FinalizeOverrun
  BY DEF TimeInv
<1> QED BY <1>1, <1>2, TypeCorrect, TimeNext, PTL DEF Spec

----------------------------------------------------------------------------
(* The same as induction over the numbers.                                  *)
LEMMA SetInduction ==
  ASSUME NEW S \in SUBSET Nat, 0 \in S, \A n \in S : n + 1 \in S
  PROVE  Nat \subseteq S
<1> DEFINE B == Nat \ S
<1>1. SUFFICES ASSUME B # {} PROVE FALSE
  OBVIOUS
<1>2. PICK m \in B : \A n \in B : m <= n
  <2>1. B \in SUBSET Nat /\ B # {}
    BY <1>1
  <2> HIDE DEF B
  <2> QED BY <2>1, Least
<1>3. m - 1 \in Nat /\ m - 1 \in S
  BY <1>2
<1> QED BY <1>2, <1>3

----------------------------------------------------------------------------
(* The bytes of a conversation: the recursion of Bytes has one solution, a  *)
(* message adds its own, and taking breakpoints away leaves them alone.     *)
Adds(f, h, n) ==
  /\ f \in [0..n -> Nat]
  /\ f[0] = 0
  /\ \A i \in 1..n : f[i] = f[i - 1] + h[i].bytes

LEMMA BytesType ==
  ASSUME NEW h \in Seq(Messages)
  PROVE  \A i \in 1..Len(h) : h[i].bytes \in Nat
<1>1. \A m \in Messages : m.bytes \in Nat
  BY DEF Messages
<1>2. \A i \in 1..Len(h) : h[i] \in Messages
  OBVIOUS
<1> QED BY <1>1, <1>2

LEMMA SumExists ==
  ASSUME NEW h \in Seq(Messages)
  PROVE  \E f : Adds(f, h, Len(h))
<1> DEFINE S == {n \in Nat : n <= Len(h) => \E f : Adds(f, h, n)}
<1>1. 0 \in S
  <2>1. Adds([i \in {0} |-> 0], h, 0)
    BY DEF Adds
  <2> QED BY <2>1
<1>2. ASSUME NEW n \in S PROVE n + 1 \in S
  <2> SUFFICES ASSUME n + 1 <= Len(h) PROVE \E f : Adds(f, h, n + 1)
    OBVIOUS
  <2>1. PICK f : Adds(f, h, n)
    OBVIOUS
  <2>2. h[n + 1].bytes \in Nat
    BY BytesType
  <2> DEFINE g == [i \in 0..(n + 1) |-> IF i = n + 1 THEN f[n] + h[n + 1].bytes ELSE f[i]]
  <2>3. Adds(g, h, n + 1)
    <3>1. g \in [0..(n + 1) -> Nat] /\ g[0] = 0
      BY <2>1, <2>2 DEF Adds
    <3>2. ASSUME NEW i \in 1..(n + 1) PROVE g[i] = g[i - 1] + h[i].bytes
      BY <2>1 DEF Adds
    <3> QED BY <3>1, <3>2 DEF Adds
  <2> QED BY <2>3
<1>3. Len(h) \in S
  <2> HIDE DEF S
  <2>1. S \in SUBSET Nat
    BY DEF S
  <2> QED BY <1>1, <1>2, <2>1, SetInduction
<1> QED BY <1>3

LEMMA SumsAgree ==
  ASSUME NEW h, NEW k, NEW m \in Nat, NEW n \in Nat, m <= n,
         NEW f, Adds(f, h, m), NEW g, Adds(g, k, n),
         \A i \in 1..m : h[i].bytes = k[i].bytes
  PROVE  f[m] = g[m]
<1> DEFINE S == {i \in Nat : i <= m => f[i] = g[i]}
<1>1. 0 \in S
  BY DEF Adds
<1>2. ASSUME NEW i \in S PROVE i + 1 \in S
  BY DEF Adds
<1>3. m \in S
  <2> HIDE DEF S
  <2>1. S \in SUBSET Nat
    BY DEF S
  <2> QED BY <1>1, <1>2, <2>1, SetInduction
<1> QED BY <1>3

LEMMA BytesSum ==
  ASSUME NEW h \in Seq(Messages)
  PROVE  \E f : Adds(f, h, Len(h)) /\ Bytes(h) = f[Len(h)]
<1> DEFINE Solves(f) == f = [i \in 0..Len(h) |-> IF i = 0 THEN 0 ELSE f[i - 1] + h[i].bytes]
           total == CHOOSE f : Solves(f)
<1>1. PICK f : Adds(f, h, Len(h))
  BY SumExists
<1>2. Solves(f)
  BY <1>1 DEF Adds
<1>3. Solves(total)
  <2> HIDE DEF Solves
  <2> QED BY <1>2
<1>4. Bytes(h) = total[Len(h)]
  BY DEF Bytes
<1>5. Adds(total, h, Len(h))
  <2>1. ASSUME NEW g, Solves(g) PROVE Adds(g, h, Len(h))
    <3> DEFINE S == {i \in Nat : i <= Len(h) => g[i] \in Nat}
    <3>1. /\ g[0] = 0 /\ DOMAIN g = 0..Len(h) /\ g = [i \in 0..Len(h) |-> g[i]]
          /\ \A i \in 1..Len(h) : g[i] = g[i - 1] + h[i].bytes
      BY <2>1
    <3>2. \A i \in 1..Len(h) : h[i].bytes \in Nat
      BY BytesType
    <3>3. 0 \in S
      BY <3>1
    <3>4. ASSUME NEW i \in S PROVE i + 1 \in S
      <4>1. CASE i + 1 <= Len(h)
        <5>1. i + 1 \in 1..Len(h) /\ (i + 1) - 1 = i /\ g[i] \in Nat
          BY <4>1
        <5>2. g[i + 1] = g[i] + h[i + 1].bytes
          BY <3>1, <5>1
        <5> QED BY <3>2, <5>1, <5>2
      <4> QED BY <4>1
    <3>5. \A i \in 0..Len(h) : i \in S
      <4>1. S \in SUBSET Nat
        OBVIOUS
      <4> HIDE DEF S
      <4> QED BY <3>3, <3>4, <4>1, SetInduction
    <3>6. g \in [0..Len(h) -> Nat]
      BY <3>1, <3>5
    <3> QED BY <3>1, <3>6 DEF Adds
  <2> HIDE DEF total, Solves
  <2> QED BY <1>3, <2>1
<1> QED BY <1>4, <1>5

LEMMA BytesOfAppend ==
  ASSUME NEW h \in Seq(Messages), NEW m \in Messages
  PROVE  Bytes(Append(h, m)) = Bytes(h) + m.bytes /\ Bytes(h) \in Nat
<1> DEFINE k == Append(h, m)
<1>1. /\ k \in Seq(Messages) /\ Len(k) = Len(h) + 1 /\ Len(h) \in Nat
      /\ k[Len(h) + 1] = m /\ \A i \in 1..Len(h) : k[i] = h[i]
  OBVIOUS
<1> HIDE DEF k
<1>2. PICK f : Adds(f, h, Len(h)) /\ Bytes(h) = f[Len(h)]
  BY BytesSum
<1>3. PICK g : Adds(g, k, Len(k)) /\ Bytes(k) = g[Len(k)]
  BY <1>1, BytesSum
<1>4. f[Len(h)] = g[Len(h)]
  BY <1>1, <1>2, <1>3, SumsAgree
<1>5. g[Len(h) + 1] = g[Len(h)] + m.bytes
  BY <1>1, <1>3 DEF Adds
<1>6. f[Len(h)] \in Nat
  BY <1>1, <1>2 DEF Adds
<1> QED BY <1>1, <1>2, <1>3, <1>4, <1>5, <1>6 DEF k

LEMMA BytesOfStripped ==
  ASSUME NEW h \in Seq(Messages)
  PROVE  Bytes(Stripped(h)) = Bytes(h)
<1>1. PICK f : Adds(f, h, Len(h)) /\ Bytes(h) = f[Len(h)]
  BY BytesSum
<1>2. /\ Stripped(h) \in Seq(Messages) /\ Len(Stripped(h)) = Len(h)
      /\ \A i \in 1..Len(h) : h[i].bytes = Stripped(h)[i].bytes
  BY StrippedKeeps
<1>3. PICK g : Adds(g, Stripped(h), Len(h)) /\ Bytes(Stripped(h)) = g[Len(h)]
  BY <1>2, BytesSum
<1> DEFINE n == Len(h)
<1>4. n \in Nat /\ n <= n
  OBVIOUS
<1> HIDE DEF n
<1>5. /\ Adds(f, h, n) /\ Adds(g, Stripped(h), n)
      /\ \A i \in 1..n : h[i].bytes = Stripped(h)[i].bytes
  BY <1>1, <1>2, <1>3 DEF n
<1>6. f[n] = g[n]
  BY <1>4, <1>5, SumsAgree
<1> QED BY <1>1, <1>3, <1>6 DEF n

LEMMA BytesOfFresh == Bytes(<<Words("user")>>) = 0
<1> DEFINE h == <<Words("user")>>
<1>1. h \in Seq(Messages) /\ Len(h) = 1 /\ h[1] = Words("user")
  BY WordsType
<1> HIDE DEF h
<1>2. PICK f : Adds(f, h, 1) /\ Bytes(h) = f[1]
  BY <1>1, BytesSum
<1>3. f[1] = f[0] + h[1].bytes /\ f[0] = 0
  BY <1>2 DEF Adds
<1>4. h[1].bytes = 0
  BY <1>1 DEF Words
<1> QED BY <1>2, <1>3, <1>4 DEF h

----------------------------------------------------------------------------
(* What was read.  The loop goes on below the cap only, and a conversation  *)
(* that leaves it has grown by the results of one response since.           *)
ReadInv ==
  api = "anthropic" =>
    /\ phase \in {"top", "call", "tools"} => Bytes(history) < Cap
    /\ phase \in {"left", "final"} => Bytes(history) < Cap + Max(Sizes)

LEMMA LargestSize == Max(Sizes) \in Nat /\ \A s \in Sizes : s <= Max(Sizes)
BY Largest, SizesAssumption, CapAssumption

LEMMA ReadNext == TypeOK /\ ReadInv /\ [Next]_vars => ReadInv'
<1> SUFFICES ASSUME TypeOK, ReadInv, [Next]_vars, api = "anthropic" PROVE ReadInv'
  BY ApiKept DEF ReadInv
<1> USE DEF loopVars
<1>1. Cap \in Nat \ {0} /\ Max(Sizes) \in Nat
  BY LargestSize, SizesAssumption, CapAssumption
<1>2. history \in Seq(Messages) /\ history # << >> /\ Bytes(history) \in Nat
  BY BytesOfAppend, WordsType DEF TypeOK
<1>3. CASE CallTools
  <2>1. PICK n \in 1..MaxCalls : history' = Append(history, [Words("assistant") EXCEPT !.calls = n])
    BY <1>3 DEF CallTools
  <2> DEFINE m == [Words("assistant") EXCEPT !.calls = n]
  <2>2. m \in Messages /\ m.bytes = 0
    BY SizesAssumption DEF Words, Messages
  <2>3. history' = Append(history, m)
    BY <2>1
  <2> HIDE DEF m
  <2>4. Bytes(history') = Bytes(history)
    BY <1>2, <2>2, <2>3, BytesOfAppend
  <2> QED BY <1>3, <2>4 DEF CallTools, ReadInv
<1>4. CASE RunTools
  <2>1. PICK ok \in 0..Last(history).calls, size \in Sizes :
          history' = Append(Stripped(history), Results(Last(history).calls, ok, size))
    BY <1>4 DEF RunTools
  <2> DEFINE m == Results(Last(history).calls, ok, size)
  <2>2. m \in Messages /\ m.bytes = size
    <3>1. Last(history).calls \in Nat /\ ok \in Nat /\ size \in Nat
      BY <1>2, LastType, SizesAssumption
    <3> QED BY <3>1, ResultsType DEF Results, Words, Messages
  <2> HIDE DEF m
  <2>3. Stripped(history) \in Seq(Messages) /\ Bytes(Stripped(history)) = Bytes(history)
    BY <1>2, StrippedKeeps, BytesOfStripped
  <2>4. Bytes(history') = Bytes(history) + size
    BY <2>1, <2>2, <2>3, BytesOfAppend DEF m
  <2>5. size <= Max(Sizes) /\ size \in Nat
    BY LargestSize, SizesAssumption
  <2>6. Bytes(history) < Cap
    BY <1>4 DEF RunTools, ReadInv
  <2>7. api' = api /\ phase' = IF Bytes(history') >= Cap THEN "left" ELSE "top"
    BY <1>4 DEF RunTools
  <2> QED BY <1>1, <1>2, <2>4, <2>5, <2>6, <2>7 DEF ReadInv
<1>5. CASE Retry
  <2>1. history' = <<Words("user")>> /\ phase' = "top"
    BY <1>5 DEF Retry, FreshLoop
  <2> QED BY <1>1, <2>1, BytesOfFresh DEF ReadInv
<1>6. CASE Request \/ OutOfTime \/ OutOfIterations \/ Answer
  BY <1>1, <1>2, <1>6 DEF Request, OutOfTime, OutOfIterations, Answer, ReadInv
<1>7. CASE Finalize \/ Resend \/ Finalized \/ Return
  BY <1>7 DEF Finalize, Resend, Finalized, Return, ReadInv
<1>8. CASE Limit \/ GiveUp \/ Fail \/ Classify \/ Done \/ UNCHANGED vars
  BY <1>8 DEF Limit, GiveUp, Fail, Classify, Done, vars, ReadInv
<1> QED BY <1>3, <1>4, <1>5, <1>6, <1>7, <1>8 DEF Next, Step

(* Whatever the cap, no request of Anthropic's loop outgrows it by more     *)
(* than the results of one response.                                        *)
THEOREM RequestsFit == Spec => []RequestFits
<1>1. Init => ReadInv
  BY BytesOfFresh, CapAssumption, SizesAssumption DEF Init, ReadInv
<1>2. ASSUME TypeOK, ReadInv PROVE RequestFits
  <2>1. Bytes(history) \in Nat /\ Cap \in Nat /\ Max(Sizes) \in Nat
    BY <1>2, BytesOfAppend, WordsType, LargestSize, SizesAssumption DEF TypeOK
  <2> QED BY <1>2, <2>1 DEF ReadInv, RequestFits, InCall
<1> QED BY <1>1, <1>2, TypeInit, TypeNext, ReadNext, PTL DEF Spec, TypeInv
=============================================================================
