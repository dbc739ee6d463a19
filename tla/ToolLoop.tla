------------------------------ MODULE ToolLoop ------------------------------
(***************************************************************************)
(* One turn of a reviewer: LoadedAgent.analyse asks its AI client, whose   *)
(* tool loop (core/tool_loop.py) lets the model call tools until it gives  *)
(* a text, is out of iterations, has read too much or is short of time; in *)
(* the last three cases one more call without tools asks for the answer.   *)
(* A rate limit makes _with_retry start the loop anew.  The text is then   *)
(* classified as a verdict.                                                *)
(*                                                                         *)
(* There are two loops, for Anthropic's API and for those like OpenAI's.   *)
(* Only the first bounds what was read, only the second knows a deadline.  *)
(***************************************************************************)
EXTENDS Integers, SequencesExt

CONSTANTS
  Apis,           \* the APIs to choose from: "anthropic", "openai"
  MaxIterations,  \* max_iterations
  MaxAttempts,    \* max_attempts of _with_retry: 3 if asked for, 1 otherwise
  Deadline,       \* when the time of all reviewers is over
  Reserve,        \* finalize_reserve
  Durations,      \* how long a call may take, and what its SDK repeats of it
  ToolTimes,      \* how long the tools of one response may take
  SdkRetries,     \* how often the SDK sends the finalize call again
  Backoffs,       \* how long it waits before
  Waits,          \* how long a rate limit may ask to wait
  Starts,         \* when the reviewer may get its thread
  Cap,            \* tool_result_bytes_cap
  Sizes,          \* how much the results of one response may hold
  MaxCalls        \* bound on the tool calls of one response

ASSUME ApisAssumption == Apis \subseteq {"anthropic", "openai"}
ASSUME IterationsAssumption == MaxIterations \in Nat \ {0}
ASSUME AttemptsAssumption == MaxAttempts \in Nat \ {0}
ASSUME TimesAssumption ==
  /\ Deadline \in Nat /\ Reserve \in Nat
  /\ Durations \subseteq Nat /\ Durations # {}
  /\ ToolTimes \subseteq Nat /\ ToolTimes # {}
  /\ SdkRetries \in Nat
  /\ Backoffs \subseteq Nat /\ Backoffs # {} /\ IsFiniteSet(Backoffs)
  /\ Waits \subseteq Nat /\ Starts \subseteq Nat
ASSUME SizesAssumption == Cap \in Nat /\ Sizes \subseteq Nat /\ MaxCalls \in Nat \ {0}
(* The cap is a positive constant (80000), and a response makes at most     *)
(* MaxCalls calls, whose tools bound what they return (read_file.py:42).    *)
ASSUME CapAssumption == Cap > 0 /\ Sizes # {} /\ IsFiniteSet(Sizes)

(* What a model says: a verdict in one of the three states, something else, *)
(* or nothing.                                                              *)
Verdicts == {"findings", "clean", "error"}
Texts == Verdicts \cup {"prose", "empty"}

VARIABLES
  api,         \* the API of the client
  now,         \* time.monotonic()
  phase,       \* where the turn is
  attempt,     \* attempt of _with_retry
  iter,        \* iter_idx
  history,     \* current_messages
  stop,        \* last_stop_reason
  hitCap,      \* hit_cap_in_tool_use
  lastRemain,  \* _last_remain, or -1 for None
  timeout,     \* of the finalize call, or -1 for that of the client
  tries,       \* how often the SDK has sent it again
  text,        \* last_text
  verdict,     \* the status of the verdict, or of the result of an exception
  \* for the properties
  response,    \* the last response of this attempt
  began        \* when the finalize call with a time-out was made, or 0

callVars == <<timeout, tries, began>>
loopVars == <<iter, history, stop, hitCap, lastRemain, callVars, text, response>>
vars == <<api, now, phase, attempt, loopVars, verdict>>

(* A message of the conversation: how many tool calls it makes, how many    *)
(* it answers, the cache breakpoints in it and the bytes of its results.    *)
(* The tool messages that answer one response of OpenAI's count as one.     *)
Messages == [role : {"user", "assistant", "tool"}, calls : Nat, answers : Nat,
             marks : {0, 1}, bytes : Nat]

Words(role) == [role |-> role, calls |-> 0, answers |-> 0, marks |-> 0, bytes |-> 0]

Phases == {"top", "call", "tools", "left", "final", "limited", "returned", "done"}

TypeOK ==
  /\ api \in Apis
  /\ now \in Nat
  /\ phase \in Phases
  /\ attempt \in 0..(MaxAttempts - 1)
  /\ iter \in 0..MaxIterations
  /\ history \in Seq(Messages) /\ history # << >>
  /\ stop \in {"none", "tool_use", "end_turn"}
  /\ hitCap \in BOOLEAN
  /\ lastRemain \in Nat \cup {-1}
  /\ timeout \in Nat \cup {-1}
  /\ tries \in 0..SdkRetries
  /\ text \in Texts
  /\ verdict \in Verdicts \cup {"none"}
  /\ response \in Texts \cup {"none", "tools"}
  /\ began \in Nat

Init ==
  /\ api \in Apis
  /\ now \in Starts
  /\ phase = "top"
  /\ attempt = 0
  /\ iter = 0
  /\ history = <<Words("user")>>
  /\ stop = "none"
  /\ hitCap = FALSE
  /\ lastRemain = -1
  /\ timeout = -1
  /\ tries = 0
  /\ text = "empty"
  /\ verdict = "none"
  /\ response = "none"
  /\ began = 0

----------------------------------------------------------------------------
(* The loop                                                                 *)

(* Too late for another call with tools (OpenAI's loop only).               *)
InReserve == api = "openai" /\ now > Deadline - Reserve

Request ==
  /\ phase = "top" /\ iter < MaxIterations
  /\ ~InReserve
  /\ lastRemain' = IF api = "openai" THEN Deadline - now ELSE lastRemain
  /\ phase' = "call"
  /\ UNCHANGED <<api, now, attempt, iter, history, stop, hitCap, callVars, text,
                 verdict, response>>

OutOfTime ==
  /\ phase = "top" /\ iter < MaxIterations
  /\ InReserve
  /\ hitCap' = TRUE
  /\ phase' = "left"
  /\ UNCHANGED <<api, now, attempt, iter, history, stop, lastRemain, callVars,
                 text, verdict, response>>

OutOfIterations ==
  /\ phase = "top" /\ iter = MaxIterations
  /\ phase' = "left"
  /\ UNCHANGED <<api, now, attempt, loopVars, verdict>>

(* A response without tool calls is the answer.                             *)
Answer ==
  /\ phase = "call"
  /\ \E d \in Durations, t \in Texts :
       now' = now + d /\ text' = t /\ response' = t
  /\ stop' = "end_turn"
  /\ phase' = "left"
  /\ UNCHANGED <<api, attempt, iter, history, hitCap, lastRemain, callVars, verdict>>

\* Fault: the cap is looked for one iteration too late.
CallToolsLate ==
  /\ phase = "call"
  /\ \E d \in Durations, n \in 1..MaxCalls :
       /\ now' = now + d
       /\ history' = Append(history, [Words("assistant") EXCEPT !.calls = n])
  /\ stop' = "tool_use" /\ response' = "tools"
  /\ hitCap' = (hitCap \/ iter = MaxIterations)
  /\ phase' = "tools"
  /\ UNCHANGED <<api, attempt, iter, lastRemain, callVars, text, verdict>>

(* The assistant's turn is echoed into the conversation.  OpenAI's loop     *)
(* notes when the last iteration still asks for tools.                      *)
CallTools ==
  /\ phase = "call"
  /\ \E d \in Durations, n \in 1..MaxCalls :
       /\ now' = now + d
       /\ history' = Append(history, [Words("assistant") EXCEPT !.calls = n])
  /\ stop' = "tool_use" /\ response' = "tools"
  /\ hitCap' = (hitCap \/ iter = MaxIterations - 1)
  /\ phase' = "tools"
  /\ UNCHANGED <<api, attempt, iter, lastRemain, callVars, text, verdict>>

\* Fault: the breakpoints of earlier turns stay.
Unstripped(h) == h

(* The breakpoints of earlier turns are taken away.                         *)
Stripped(h) == [i \in DOMAIN h |-> [h[i] EXCEPT !.marks = 0]]

\* Fault: arguments that are not JSON are passed over without a result.
ResultsOfValid(n, ok, size) ==
  IF api = "anthropic"
  THEN [Words("user") EXCEPT !.answers = n, !.marks = IF ok > 0 THEN 1 ELSE 0, !.bytes = size]
  ELSE [Words("tool") EXCEPT !.answers = ok, !.bytes = size]

(* The results of n calls, ok of them without an error: unknown tools,      *)
(* exceptions and arguments that are not JSON give an error result.  The    *)
(* last good one carries the breakpoint, in Anthropic's format.             *)
Results(n, ok, size) ==
  IF api = "anthropic"
  THEN [Words("user") EXCEPT !.answers = n, !.marks = IF ok > 0 THEN 1 ELSE 0, !.bytes = size]
  ELSE [Words("tool") EXCEPT !.answers = n, !.bytes = size]

(* _cumulative_tool_result_bytes: over the whole conversation.              *)
Bytes(h) ==
  LET total[i \in 0..Len(h)] == IF i = 0 THEN 0 ELSE total[i - 1] + h[i].bytes
  IN  total[Len(h)]

\* Fault: the conversation is measured before the new results are in it.
RunToolsMeasuredFirst ==
  /\ phase = "tools"
  /\ LET n == Last(history).calls IN
     \E ok \in 0..n, size \in Sizes :
       history' = Append(IF api = "anthropic" THEN Stripped(history) ELSE history,
                         Results(n, ok, size))
  /\ \E s \in ToolTimes : now' = now + s
  /\ IF api = "anthropic" /\ Bytes(history) >= Cap
     THEN phase' = "left" /\ UNCHANGED iter
     ELSE phase' = "top" /\ iter' = iter + 1
  /\ UNCHANGED <<api, attempt, stop, hitCap, lastRemain, callVars, text, verdict,
                 response>>

(* The tools are run, and Anthropic's loop ends when that was too much.     *)
RunTools ==
  /\ phase = "tools"
  /\ LET n == Last(history).calls IN
     \E ok \in 0..n, size \in Sizes :
       history' = Append(IF api = "anthropic" THEN Stripped(history) ELSE history,
                         Results(n, ok, size))
  /\ \E s \in ToolTimes : now' = now + s
  /\ IF api = "anthropic" /\ Bytes(history') >= Cap
     THEN phase' = "left" /\ UNCHANGED iter
     ELSE phase' = "top" /\ iter' = iter + 1
  /\ UNCHANGED <<api, attempt, stop, hitCap, lastRemain, callVars, text, verdict,
                 response>>

----------------------------------------------------------------------------
(* The finalize call                                                        *)

Wanted == IF api = "anthropic" THEN stop = "tool_use" ELSE hitCap

\* Fault: the call gets the time of the whole run.
TimeoutOfRun == IF Deadline > 1 THEN Deadline ELSE 1

(* The time the finalize call gets: what remained at the last check that    *)
(* let the loop go on, or what remains now if there was none.               *)
FinalizeTimeout ==
  LET left == IF lastRemain # -1 THEN lastRemain ELSE Deadline - now
  IN  IF left > 1 THEN left ELSE 1

(* The prompt joins Anthropic's last message, which holds the results, and  *)
(* is a message of its own for OpenAI.                                      *)
Finalize ==
  /\ phase = "left" /\ Wanted
  /\ phase' = "final"
  /\ IF api = "anthropic"
     THEN UNCHANGED <<history, callVars>>
     ELSE /\ history' = Append(history, Words("user"))
          /\ timeout' = FinalizeTimeout /\ began' = now
          /\ UNCHANGED tries
  /\ UNCHANGED <<api, now, attempt, iter, stop, hitCap, lastRemain, text, verdict, response>>

(* What a request with a time-out may take (the comment at 772).            *)
InTime(d) == d >= 0 /\ (timeout # -1 => d <= timeout)

(* The SDK of OpenAI's clients, which are built with its default, sends a   *)
(* request that timed out or was refused again, with the same time-out.     *)
Resend ==
  /\ phase = "final" /\ timeout # -1 /\ tries < SdkRetries
  /\ \E d \in Durations \cup {timeout}, b \in Backoffs : InTime(d) /\ now' = now + d + b
  /\ tries' = tries + 1
  /\ UNCHANGED <<api, phase, attempt, iter, history, stop, hitCap, lastRemain, timeout,
                 text, verdict, response, began>>

Finalized ==
  /\ phase = "final"
  /\ \E d \in Durations, t \in Texts :
       InTime(d) /\ now' = now + d /\ text' = t /\ response' = t
  /\ stop' = "end_turn"
  /\ phase' = "returned"
  /\ UNCHANGED <<api, attempt, iter, history, hitCap, lastRemain, callVars, verdict>>

Return ==
  /\ phase = "left" /\ ~Wanted
  /\ phase' = "returned"
  /\ UNCHANGED <<api, now, attempt, loopVars, verdict>>

----------------------------------------------------------------------------
(* Failures, retries, the verdict                                           *)

InCall == phase \in {"call", "final"}

(* The provider refuses the call for its rate.                              *)
Limit ==
  /\ InCall
  /\ phase' = "limited"
  /\ UNCHANGED <<api, now, attempt, loopVars, verdict>>

(* The local variables of a loop that starts, with the review to answer.    *)
FreshLoop ==
  /\ iter' = 0
  /\ history' = <<Words("user")>>
  /\ stop' = "none"
  /\ hitCap' = FALSE
  /\ lastRemain' = -1
  /\ timeout' = -1 /\ tries' = 0
  /\ text' = "empty"
  /\ response' = "none" /\ began' = 0

\* Fault: one attempt too many.
RetryOnceMore ==
  /\ phase = "limited" /\ attempt < MaxAttempts
  /\ attempt' = attempt + 1
  /\ \E w \in Waits : now' = now + w
  /\ phase' = "top"
  /\ FreshLoop
  /\ UNCHANGED <<api, verdict>>

\* Fault: the attempts are not counted.
RetryForEver ==
  /\ phase = "limited"
  /\ UNCHANGED <<attempt, now>>
  /\ phase' = "top"
  /\ FreshLoop
  /\ UNCHANGED <<api, verdict>>

(* _with_retry waits and starts the loop from its beginning.                *)
Retry ==
  /\ phase = "limited" /\ attempt < MaxAttempts - 1
  /\ attempt' = attempt + 1
  /\ \E w \in Waits : now' = now + w
  /\ phase' = "top"
  /\ FreshLoop
  /\ UNCHANGED <<api, verdict>>

GiveUp ==
  /\ phase = "limited" /\ attempt = MaxAttempts - 1
  /\ phase' = "done" /\ verdict' = "error"
  /\ UNCHANGED <<api, now, attempt, loopVars>>

(* Every other error of the call, the finalize time-out among them, is the  *)
(* error of the reviewer's result.                                          *)
Fail ==
  /\ InCall
  /\ \E d \in Durations \cup {timeout} : InTime(d) /\ now' = now + d
  /\ phase' = "done" /\ verdict' = "error"
  /\ UNCHANGED <<api, attempt, loopVars>>

(* classify_terminal_state: the client's result carries neither the stop    *)
(* reason nor the iterations, so that the text alone decides.               *)
Classify ==
  /\ phase = "returned"
  /\ phase' = "done"
  /\ verdict' = IF text \in Verdicts THEN text ELSE "error"
  /\ UNCHANGED <<api, now, attempt, loopVars>>

Done == phase = "done" /\ UNCHANGED vars

Step ==
  \/ Request \/ OutOfTime \/ OutOfIterations \/ Answer \/ CallTools \/ RunTools
  \/ Finalize \/ Resend \/ Finalized \/ Return \/ Limit \/ Retry \/ GiveUp \/ Fail \/ Classify

Next == Step \/ Done

Spec == Init /\ [][Next]_vars

(* Calls end, by the time-out of the HTTP client at the latest.             *)
FairSpec == Spec /\ WF_vars(Step)

----------------------------------------------------------------------------
(* Properties                                                               *)

(* Every request is one the API takes: each tool call of the conversation   *)
(* is answered right after it, by as many results as there were calls, also *)
(* when tools fail or their arguments cannot be parsed, and Anthropic's     *)
(* messages alternate between the user and the assistant, through the       *)
(* finalize prompt too (the loops' appends to current_messages).            *)
WellFormedRequests ==
  InCall =>
    \A i \in 1..Len(history) :
      /\ history[i].calls > 0 =>
           i < Len(history) /\ history[i + 1].answers = history[i].calls
      /\ api = "anthropic" /\ i < Len(history) =>
           {history[i].role, history[i + 1].role} = {"user", "assistant"}

(* However many turns a conversation has, its requests carry one cache      *)
(* breakpoint among the tool results, of the four that Anthropic permits    *)
(* (the stripping of prior results, tool_loop.py:329-368).                  *)
OneBreakpoint ==
  InCall => \A i, j \in DOMAIN history :
              history[i].marks > 0 /\ history[j].marks > 0 => i = j

(* No request of Anthropic's loop carries more than the cap and the results *)
(* of a single response: what was read in small pieces over many turns ends *)
(* the loop as well (the cumulative cap, 378-386).                          *)
RequestFits ==
  InCall /\ api = "anthropic" => Bytes(history) < Cap + Max(Sizes)

(* What a loop returns is the model's last word on a request it could       *)
(* answer: a loop that ended on a tool call, for whatever reason, was asked *)
(* once more (the forced finalize, 394-438 and 749-799).                    *)
ReturnsLastWord ==
  phase = "returned" => response = text

(* The finalize call of OpenAI's loop may outlast the deadline, since its   *)
(* time was measured before the last iteration and the SDK repeats it: it   *)
(* ends after the deadline by no more than one call, the tools of one       *)
(* response, and the time-out and a wait for each repetition.  A deadline   *)
(* that is over leaves each attempt one second (769-784).                   *)
FinalizeOverrun ==
  timeout # -1 =>
    LET again == tries * (timeout + Max(Backoffs)) IN
    \/ timeout = 1 /\ now <= began + 1 + again
    \/ \E d \in Durations, s \in ToolTimes : now <= Deadline + d + s + again

(* A turn ends with a verdict or an error, whatever the provider answers.   *)
TurnEnds == <>(phase = "done")
=============================================================================
