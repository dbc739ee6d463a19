---------------------------- MODULE Consolidation ----------------------------
(***************************************************************************)
(* From what the reviewers report to the comments of a review: the         *)
(* consolidator groups nearby findings, Nova writes one finding for each   *)
(* group, a chain of post-processors checks them, among them Vex, who may  *)
(* move, strip or reject a finding, and a guard for replacements that end  *)
(* inside a block, and the poster places what is left on lines of the      *)
(* diff (comments/consolidator.py, _verifier.py, _orphan_line_guard.py,    *)
(* position_adapter.py, and the placing part of poster.py).                *)
(*                                                                         *)
(* No comment is on the pull request yet and every post succeeds: matching *)
(* and failing are the subject of PrReview.  Texts are left out, but for   *)
(* whether there is one; so are severities and the order they impose.      *)
(***************************************************************************)
EXTENDS Integers, SequencesExt

CONSTANTS
  Agents,
  Files,       \* numbers, in the order in which their paths are sorted
  Indent,      \* Indent[f][l]: the indent of a line, -1 if it is blank
  Changed,     \* Changed[f]: the lines that the diff adds
  Inputs,      \* what the agents may report: sequences of findings
  Lines,       \* the lines that Nova and Vex may name
  Spans,       \* the numbers of lines they may want replaced
  N,           \* consolidation_proximity_lines
  K,           \* consolidation_max_group_size
  MaxDelta     \* VEX_CORRECTION_MAX_DELTA

(* A finding of an agent.  Span is its replacement_line_count, or 0 if it   *)
(* has no replacement, and rank stands for its confidence.                  *)
Findings == [agent : Agents, file : Files, line : Nat \ {0}, span : Nat, rank : Nat]

ASSUME FilesAssumption ==
  /\ Files \subseteq Nat
  /\ \A f \in Files : Indent[f] \in Seq(Int) /\ Changed[f] \subseteq Nat \ {0}
ASSUME InputsAssumption == Inputs \subseteq Seq(Findings)
ASSUME ChoicesAssumption == Lines \subseteq Nat \ {0} /\ Spans \subseteq Nat \ {0}
ASSUME BoundsAssumption == N \in Nat /\ K \in Nat \ {0} /\ MaxDelta \in Nat

VARIABLES
  input,       \* raw_findings
  readable,    \* the files that read_file returns: not too long, not missing
  phase,       \* where the consolidation is
  order,       \* sorted_findings: places in input
  next,        \* the first place of order that is in no group yet
  groups,      \* the groups so far, the last one being current_group
  todo,        \* the groups that the present stage has still to work on
  items,       \* items[g]: the consolidated finding of group g
  comments,    \* the comments posted
  sink         \* summary_sink: what the summary lists instead

setting == <<input, readable>>
vars == <<setting, phase, order, next, groups, todo, items, comments, sink>>

Phases == {"sort", "group", "synthesise", "verify", "post", "done"}

(* A consolidated finding; "at" is the line that synthesis gave it, kept    *)
(* for the properties.                                                      *)
Items ==
  [state : {"pending", "kept", "rejected"}, by : {"nova", "fallback"},
   text : {"some", "none"}, file : Files, line : Nat \ {0}, at : Nat \ {0},
   patch : {"written", "none"}, span : Nat \ {0}]

Comments ==
  [file : Files, line : Nat \ {0}, items : SUBSET (Nat \ {0}), agents : SUBSET Agents]

TypeOK ==
  /\ input \in Inputs /\ readable \subseteq Files
  /\ phase \in Phases
  /\ order \in Seq(DOMAIN input)
  /\ next \in 1..(Len(order) + 1)
  /\ groups \in Seq(Seq(DOMAIN input))
  /\ items \in Seq(Items)
  /\ todo \subseteq DOMAIN items
  /\ comments \subseteq Comments
  /\ sink \subseteq DOMAIN items

Init ==
  /\ input \in Inputs
  /\ readable \in SUBSET Files
  /\ phase = "sort"
  /\ order = << >>
  /\ next = 1
  /\ groups = << >>
  /\ todo = {}
  /\ items = << >>
  /\ comments = {}
  /\ sink = {}

----------------------------------------------------------------------------
(* Pass A: grouping                                                         *)

(* The stable sort by file and line.                                        *)
Before(i, j) ==
  \/ input[i].file < input[j].file
  \/ input[i].file = input[j].file /\ input[i].line < input[j].line
  \/ input[i].file = input[j].file /\ input[i].line = input[j].line /\ i < j

Sort ==
  /\ phase = "sort" /\ input # << >>
  /\ \E s \in [DOMAIN input -> DOMAIN input] :
       /\ \A i, j \in DOMAIN input : i < j => Before(s[i], s[j])
       /\ order' = s
  /\ phase' = "group"
  /\ UNCHANGED <<setting, next, groups, todo, items, comments, sink>>

NothingReported ==
  /\ phase = "sort" /\ input = << >>
  /\ phase' = "done"
  /\ UNCHANGED <<setting, order, next, groups, todo, items, comments, sink>>

\* Fault: distances are measured without a look at the file.
JoinsAnyFile(group, i) ==
  /\ input[i].line - input[Last(group)].line <= N
  /\ Len(group) < K

Joins(group, i) ==
  /\ input[i].file = input[Last(group)].file
  /\ input[i].line - input[Last(group)].line <= N
  /\ Len(group) < K

\* Fault: the finding that closes a group opens none.
GatherForgets ==
  /\ phase = "group" /\ next <= Len(order)
  /\ LET i == order[next] IN
     IF groups = << >> THEN groups' = <<<<i>>>>
     ELSE IF Joins(Last(groups), i)
          THEN groups' = [groups EXCEPT ![Len(groups)] = Append(@, i)]
          ELSE IF next = Len(order) THEN UNCHANGED groups ELSE groups' = Append(groups, <<i>>)
  /\ next' = next + 1
  /\ UNCHANGED <<setting, phase, order, todo, items, comments, sink>>

(* A finding joins the group of the one before it, or opens its own.        *)
Gather ==
  /\ phase = "group" /\ next <= Len(order)
  /\ LET i == order[next] IN
     groups' = IF groups # << >> /\ Joins(Last(groups), i)
               THEN [groups EXCEPT ![Len(groups)] = Append(@, i)]
               ELSE Append(groups, <<i>>)
  /\ next' = next + 1
  /\ UNCHANGED <<setting, phase, order, todo, items, comments, sink>>

FirstLine(group) == input[group[1]].line

NoItem(group) ==
  [state |-> "pending", by |-> "nova", text |-> "some", file |-> input[group[1]].file,
   line |-> FirstLine(group), at |-> FirstLine(group), patch |-> "none", span |-> 1]

\* Fault: the last group gets no place among the results.
SubmitShort ==
  /\ phase = "group" /\ next > Len(order)
  /\ items' = [g \in 1..(Len(groups) - 1) |-> NoItem(groups[g])]
  /\ todo' = DOMAIN groups
  /\ phase' = "synthesise"
  /\ UNCHANGED <<setting, order, next, groups, comments, sink>>

Submit ==
  /\ phase = "group" /\ next > Len(order)
  /\ items' = [g \in DOMAIN groups |-> NoItem(groups[g])]
  /\ todo' = DOMAIN groups
  /\ phase' = "synthesise"
  /\ UNCHANGED <<setting, order, next, groups, comments, sink>>

----------------------------------------------------------------------------
(* Pass B: synthesis, by threads that share nothing                         *)

Votes(group, line) == Cardinality({i \in DOMAIN group : input[group[i]].line = line})

(* _majority_vote_line: both of two, else all but one.                      *)
Majority(group) ==
  LET enough == IF Len(group) <= 2 THEN Len(group) ELSE Len(group) - 1
  IN  {line \in {input[group[i]].line : i \in DOMAIN group} : Votes(group, line) >= enough}

(* _reconcile_anchor_line: the majority's line, if there is a majority.     *)
Reconciled(group, tentative) ==
  IF Majority(group) = {} THEN {tentative} ELSE Majority(group)

(* The replacement of the most confident finding that has one, the first    *)
(* of them in the group; 0 if there is none.                                *)
AgentSpans(group) ==
  LET patched == {i \in DOMAIN group : input[group[i]].span > 0}
      rank(i) == input[group[i]].rank
      best == {i \in patched :
                 \A j \in patched : rank(j) < rank(i) \/ (rank(j) = rank(i) /\ i <= j)}
  IN  IF patched = {} THEN {0} ELSE {input[group[i]].span : i \in best}

Make(g, by, text, tentative, span) ==
  \E line \in Reconciled(groups[g], tentative) :
    items' = [items EXCEPT ![g] =
      [@ EXCEPT !.state = "kept", !.by = by, !.text = text, !.line = line, !.at = line,
                !.patch = IF span > 0 THEN "written" ELSE "none",
                !.span = IF span > 0 THEN span ELSE 1]]

Finish(g) ==
  /\ todo' = todo \ {g}
  /\ UNCHANGED <<setting, phase, order, next, groups, comments, sink>>

(* Nova's reply names a line or not, has a replacement or leaves the best   *)
(* one of the agents, with a span of her own or theirs, and has a text or   *)
(* not.                                                                     *)
Synthesise(g) ==
  /\ phase = "synthesise" /\ g \in todo
  /\ \E tentative \in Lines \cup {FirstLine(groups[g])}, text \in {"some", "none"},
        span \in Spans \cup AgentSpans(groups[g]) :
       Make(g, "nova", text, tentative, span)
  /\ Finish(g)

(* The call fails, or its reply is no list of objects.                      *)
FallBack(g) ==
  /\ phase = "synthesise" /\ g \in todo
  /\ \E span \in AgentSpans(groups[g]) :
       Make(g, "fallback", "some", FirstLine(groups[g]), span)
  /\ Finish(g)

----------------------------------------------------------------------------
(* The post-processors                                                      *)

Patched == {g \in DOMAIN items : items[g].state = "kept" /\ items[g].patch = "written"}

(* NoOpSuggestionDropper: some replacements change nothing.  Their span is  *)
(* left as it is.                                                           *)
DropNoOps ==
  /\ phase = "synthesise" /\ todo = {}
  /\ \E same \in SUBSET Patched :
       /\ items' = [g \in DOMAIN items |->
                      IF g \in same THEN [items[g] EXCEPT !.patch = "none"] ELSE items[g]]
       /\ todo' = Patched \ same
  /\ phase' = "verify"
  /\ UNCHANGED <<setting, order, next, groups, comments, sink>>

(* PositionAdapter.calculate: a line that the diff adds.                    *)
Anchored(f, line) == line \in Changed[f]

Distance(a, b) == IF a < b THEN b - a ELSE a - b

\* Fault: a correction is not looked up in the diff.
CorrectionsUnseen(item) ==
  {c \in [line : Lines, span : Spans] : Distance(c.line, item.line) <= MaxDelta}

(* _sanitize_correction: the corrections of Vex that are accepted.          *)
Corrections(item) ==
  {c \in [line : Lines, span : Spans] :
     /\ Distance(c.line, item.line) <= MaxDelta
     /\ Anchored(item.file, c.line)}

Judging(g) == phase = "verify" /\ g \in todo
Judged(g, item) == items' = [items EXCEPT ![g] = item] /\ Finish(g)

\* Fault: a finding that could not be verified is tried again.
PassOverAgain(g) ==
  /\ Judging(g)
  /\ UNCHANGED vars

(* The file cannot be read, the call fails, says nothing of use (twice if   *)
(* it is empty), or approves without a correction that is accepted: the     *)
(* finding stays as it is.                                                  *)
PassOver(g) ==
  /\ Judging(g)
  /\ Judged(g, items[g])

(* apply, with a correction                                                 *)
Approve(g) ==
  /\ Judging(g) /\ items[g].file \in readable
  /\ \E c \in Corrections(items[g]) :
       Judged(g, [items[g] EXCEPT !.line = c.line, !.span = c.span])

(* drop_cr_keep_prose                                                       *)
Strip(g) ==
  /\ Judging(g) /\ items[g].file \in readable
  /\ \E line \in {items[g].line} \cup {c.line : c \in Corrections(items[g])} :
       Judged(g, [items[g] EXCEPT !.line = line, !.patch = "none", !.span = 1])

Reject(g) ==
  /\ Judging(g) /\ items[g].file \in readable
  /\ Judged(g, [items[g] EXCEPT !.state = "rejected"])

Code(f) == {l \in DOMAIN Indent[f] : Indent[f][l] >= 0}

(* _should_downgrade: the first line of code after the range is indented as *)
(* far as one in the range.                                                 *)
ShouldDowngrade(f, first, last) ==
  \E l \in Code(f), k \in Code(f) :
    /\ k \in first..last
    /\ l > last /\ \A m \in Code(f) : m > last => l <= m
    /\ Indent[f][l] >= Indent[f][k]

\* Fault: the range is taken one line too long.
OrphansPastEnd(item) ==
  /\ item.patch = "written" /\ item.span > 1
  /\ item.file \in readable
  /\ ShouldDowngrade(item.file, item.line, item.line + item.span)

(* OrphanLineGuard works on replacements of several lines.                  *)
Orphans(item) ==
  /\ item.patch = "written" /\ item.span > 1
  /\ item.file \in readable
  /\ ShouldDowngrade(item.file, item.line, item.line + item.span - 1)

Guard ==
  /\ phase = "verify" /\ todo = {}
  /\ items' = [g \in DOMAIN items |->
                 IF Orphans(items[g]) THEN [items[g] EXCEPT !.patch = "none", !.span = 1]
                 ELSE items[g]]
  /\ phase' = "post"
  /\ UNCHANGED <<setting, order, next, groups, todo, comments, sink>>

----------------------------------------------------------------------------
(* The poster                                                               *)

(* A finding without a text is passed over.                                 *)
Posted == {g \in DOMAIN items : items[g].state = "kept" /\ items[g].text = "some"}

Together(f, line) == {g \in Posted : items[g].file = f /\ items[g].line = line}

(* The agents a comment names: in its header the first of each finding,     *)
(* since the poster looks for a field the pipeline does not write; in the   *)
(* text of a fallback all of them.                                          *)
Named(g) ==
  {input[groups[g][i]].agent : i \in IF items[g].by = "nova" THEN {1} ELSE DOMAIN groups[g]}

(* One comment for the findings of a line.                                  *)
CommentOn(f, line) ==
  LET here == Together(f, line)
  IN  [file |-> f, line |-> line, items |-> here, agents |-> UNION {Named(g) : g \in here}]

Post ==
  /\ phase = "post"
  /\ LET shown == {g \in Posted : Anchored(items[g].file, items[g].line)} IN
     /\ comments' = {CommentOn(items[g].file, items[g].line) : g \in shown}
     /\ sink' = Posted \ shown
  /\ phase' = "done"
  /\ UNCHANGED <<setting, order, next, groups, todo, items>>

Work(g) ==
  Synthesise(g) \/ FallBack(g) \/ PassOver(g) \/ Approve(g) \/ Strip(g) \/ Reject(g)

Step ==
  \/ Sort \/ NothingReported \/ Gather \/ Submit
  \/ \E g \in todo : Work(g)
  \/ DropNoOps \/ Guard \/ Post

Done == phase = "done" /\ UNCHANGED vars

Next == Step \/ Done

Spec == Init /\ [][Next]_vars

(* Threads and calls end: the AI client's time-outs see to that.            *)
FairSpec == Spec /\ WF_vars(Step)

----------------------------------------------------------------------------
(* Properties                                                               *)

(* No finding of an agent is lost on its way, or told twice: it belongs to  *)
(* one group, and that group is in a comment or in the summary, unless Vex  *)
(* rejected it or Nova gave it no text (group, the collecting of futures in *)
(* consolidate, process_all, the poster's grouping by line).                *)
NothingLost ==
  phase = "done" =>
    \A i \in DOMAIN input :
      \E g \in DOMAIN groups :
        /\ \A h \in DOMAIN groups :
             (\E k \in DOMAIN groups[h] : groups[h][k] = i) <=> h = g
        /\ \/ items[g].state = "rejected" \/ items[g].text = "none"
           \/ g \in sink
           \/ \E c \in comments : g \in c.items

(* A group holds at most K findings of one file, each within N lines of the *)
(* one before it, and two groups in a row are apart for one of these        *)
(* reasons (ProximityAndCountGroupingStrategy).                             *)
GroupsSound ==
  /\ \A g \in DOMAIN groups :
       /\ Len(groups[g]) \in 1..K
       /\ \A k \in 1..(Len(groups[g]) - 1) :
            LET a == input[groups[g][k]]  b == input[groups[g][k + 1]]
            IN  a.file = b.file /\ b.line - a.line \in 0..N
  /\ \A g \in 1..(Len(groups) - 1) :
       LET a == input[Last(groups[g])]  b == input[Head(groups[g + 1])]
       IN  a.file # b.file \/ b.line - a.line > N \/ Len(groups[g]) = K

(* A replacement of several lines that is offered for a file that could be  *)
(* read ends its block: the code after it is further out than all it        *)
(* replaces, or there is none.  It holds of the span that Vex chose as well *)
(* (the order of build_consolidation_postprocessors).                       *)
PatchesEndTheirBlock ==
  phase \in {"post", "done"} =>
    \A g \in Patched :
      LET item == items[g]
          last == item.line + item.span - 1
          after == {l \in Code(item.file) : l > last}
          within == {k \in Code(item.file) : k >= item.line /\ k <= last}
      IN  item.span > 1 /\ item.file \in readable /\ after # {} =>
            \E l \in after :
              /\ \A m \in after : l <= m
              /\ \A k \in within : Indent[item.file][l] < Indent[item.file][k]

(* What Vex says moves a finding by MaxDelta lines at most, and only to a   *)
(* line that can carry a comment (_sanitize_correction).                    *)
ShiftBounded ==
  \A g \in DOMAIN items :
    \/ items[g].line = items[g].at
    \/ /\ Distance(items[g].line, items[g].at) <= MaxDelta
       /\ Anchored(items[g].file, items[g].line)

(* Every review comes to its comments, whichever calls fail on the way.     *)
GetsDone == <>(phase = "done")

(* "structural guarantee that no comment can be posted without knowing      *)
(* which agent(s) raised it" (models.py:217).                               *)
AttributionKept ==
  \A c \in comments, g \in DOMAIN groups :
    g \in c.items => \A k \in DOMAIN groups[g] : input[groups[g][k]].agent \in c.agents
=============================================================================
