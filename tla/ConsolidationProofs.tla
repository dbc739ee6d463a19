------------------------- MODULE ConsolidationProofs -------------------------
(* Proofs about Consolidation, for all reports, files, groupings and        *)
(* answers of Nova and Vex.                                                 *)
EXTENDS Consolidation, FiniteSetTheorems, TLAPS

(* Which variables are still empty, and that no group is.                   *)
Shape ==
  /\ \A g \in DOMAIN groups : Len(groups[g]) > 0
  /\ phase = "sort" => order = << >> /\ groups = << >> /\ next = 1
  /\ phase \in {"sort", "group"} => items = << >> /\ todo = {}
  /\ phase \notin {"sort", "group"} => DOMAIN items = DOMAIN groups
  /\ phase # "done" => comments = {} /\ sink = {}

Typed == TypeOK /\ Shape

LEMMA InputType ==
  ASSUME TypeOK
  PROVE  /\ input \in Seq(Findings)
         /\ \A i \in DOMAIN input :
              /\ input[i] \in Findings
              /\ input[i].agent \in Agents /\ input[i].file \in Files /\ input[i].file \in Nat
              /\ input[i].line \in Nat \ {0} /\ input[i].span \in Nat
<1>1. input \in Seq(Findings)
  BY InputsAssumption DEF TypeOK
<1>2. \A i \in DOMAIN input : input[i] \in Findings
  BY <1>1
<1> QED BY <1>1, <1>2, FilesAssumption DEF Findings

LEMMA GroupType ==
  ASSUME Typed, NEW g \in DOMAIN groups
  PROVE  /\ groups[g] \in Seq(DOMAIN input)
         /\ DOMAIN groups[g] = 1..Len(groups[g]) /\ Len(groups[g]) \in Nat \ {0}
         /\ \A k \in DOMAIN groups[g] : groups[g][k] \in DOMAIN input
         /\ groups[g][1] \in DOMAIN input
         /\ FirstLine(groups[g]) \in Nat \ {0}
<1>1. groups[g] \in Seq(DOMAIN input) /\ Len(groups[g]) > 0
  BY DEF Typed, TypeOK, Shape
<1>2. groups[g][1] \in DOMAIN input
  BY <1>1
<1> QED BY <1>1, <1>2, InputType DEF FirstLine, Typed

LEMMA SpansType ==
  ASSUME Typed, NEW g \in DOMAIN groups
  PROVE  AgentSpans(groups[g]) \subseteq Nat
<1>1. \A i \in DOMAIN groups[g] : input[groups[g][i]].span \in Nat
  BY GroupType, InputType DEF Typed
<1> QED BY <1>1 DEF AgentSpans

LEMMA LineType ==
  ASSUME Typed, NEW g \in DOMAIN groups, NEW tentative \in Nat \ {0}
  PROVE  Reconciled(groups[g], tentative) \subseteq Nat \ {0}
<1>1. \A i \in DOMAIN groups[g] : input[groups[g][i]].line \in Nat \ {0}
  BY GroupType, InputType DEF Typed
<1>2. Majority(groups[g]) \subseteq Nat \ {0}
  BY <1>1 DEF Majority
<1> QED BY <1>2 DEF Reconciled

LEMMA NewItem ==
  ASSUME Typed, NEW g \in DOMAIN groups
  PROVE  /\ NoItem(groups[g]) \in Items
         /\ NoItem(groups[g]).line = NoItem(groups[g]).at
         /\ NoItem(groups[g]).state = "pending"
<1>1. groups[g][1] \in DOMAIN input /\ FirstLine(groups[g]) \in Nat \ {0}
  BY GroupType
<1>2. input[groups[g][1]].file \in Files
  BY <1>1, InputType DEF Typed
<1> QED BY <1>1, <1>2 DEF NoItem, Items

LEMMA Made ==
  ASSUME Typed, NEW g \in DOMAIN groups, g \in DOMAIN items,
         NEW by \in {"nova", "fallback"}, NEW text \in {"some", "none"},
         NEW tentative \in Nat \ {0}, NEW span \in Nat,
         Make(g, by, text, tentative, span)
  PROVE  \E item \in Items :
           /\ items' = [items EXCEPT ![g] = item]
           /\ item.state = "kept" /\ item.line = item.at
<1>1. PICK line \in Reconciled(groups[g], tentative) :
        items' = [items EXCEPT ![g] =
          [@ EXCEPT !.state = "kept", !.by = by, !.text = text, !.line = line, !.at = line,
                    !.patch = IF span > 0 THEN "written" ELSE "none",
                    !.span = IF span > 0 THEN span ELSE 1]]
  BY DEF Make
<1>2. line \in Nat \ {0}
  BY LineType
<1>3. items[g] \in Items
  BY DEF Typed, TypeOK
<1>4. PICK patch \in {"written", "none"}, n \in Nat \ {0} :
        /\ patch = IF span > 0 THEN "written" ELSE "none"
        /\ n = IF span > 0 THEN span ELSE 1
  OBVIOUS
<1> DEFINE item == [items[g] EXCEPT !.state = "kept", !.by = by, !.text = text,
                      !.line = line, !.at = line, !.patch = patch, !.span = n]
<1>5. item \in Items /\ item.state = "kept" /\ item.line = item.at
  BY <1>2, <1>3 DEF Items
<1>6. items' = [items EXCEPT ![g] = item]
  BY <1>1, <1>4
<1> QED BY <1>5, <1>6

Moved(old, new) ==
  \/ new.line = old.line
  \/ Distance(new.line, old.line) <= MaxDelta /\ Anchored(new.file, new.line)

LEMMA Stripped ==
  ASSUME NEW old \in Items, NEW line \in Nat \ {0}
  PROVE  LET item == [old EXCEPT !.line = line, !.patch = "none", !.span = 1]
         IN  /\ item \in Items /\ item.state = old.state /\ item.at = old.at
             /\ item.line = line /\ item.file = old.file
<1> DEFINE bare == [old EXCEPT !.line = line, !.patch = "none"]
           item == [bare EXCEPT !.span = 1]
<1>1. /\ bare \in Items /\ bare.state = old.state /\ bare.at = old.at
      /\ bare.line = line /\ bare.file = old.file
  BY DEF Items
<1>2. /\ item \in Items /\ item.state = old.state /\ item.at = old.at
      /\ item.line = line /\ item.file = old.file
  <2> HIDE DEF bare
  <2> QED BY <1>1 DEF Items
<1>3. item = [old EXCEPT !.line = line, !.patch = "none", !.span = 1]
  BY DEF Items
<1> QED BY <1>2, <1>3

LEMMA Downgraded ==
  ASSUME NEW old \in Items
  PROVE  LET item == [old EXCEPT !.patch = "none", !.span = 1]
         IN  /\ item \in Items /\ item.state = old.state /\ item.at = old.at
             /\ item.line = old.line /\ item.file = old.file
             /\ item.patch = "none"
<1> DEFINE bare == [old EXCEPT !.patch = "none"]
           item == [bare EXCEPT !.span = 1]
<1>1. /\ bare \in Items /\ bare.state = old.state /\ bare.at = old.at
      /\ bare.line = old.line /\ bare.file = old.file /\ bare.patch = "none"
  BY DEF Items
<1>2. /\ item \in Items /\ item.state = old.state /\ item.at = old.at
      /\ item.line = old.line /\ item.file = old.file /\ item.patch = "none"
  <2> HIDE DEF bare
  <2> QED BY <1>1 DEF Items
<1>3. item = [old EXCEPT !.patch = "none", !.span = 1]
  BY DEF Items
<1> QED BY <1>2, <1>3

(* All that the threads do to a finding.                                    *)
LEMMA WorkEffect ==
  ASSUME Typed, NEW g \in todo, Work(g)
  PROVE  /\ phase \in {"synthesise", "verify"}
         /\ todo' = todo \ {g}
         /\ UNCHANGED <<setting, phase, order, next, groups, comments, sink>>
         /\ g \in DOMAIN groups /\ g \in DOMAIN items
         /\ \E item \in Items :
              /\ items' = [items EXCEPT ![g] = item]
              /\ phase = "synthesise" => item.state = "kept" /\ item.line = item.at
              /\ phase = "verify" =>
                   /\ item.state \in {items[g].state, "rejected"}
                   /\ item.at = items[g].at
                   /\ Moved(items[g], item)
<1>0. g \in DOMAIN items /\ items[g] \in Items
  BY DEF Typed, TypeOK
<1>1. phase \notin {"sort", "group"} /\ g \in DOMAIN groups
  BY <1>0 DEF Typed, Shape
<1>2. \A n \in Lines \cup Spans : n \in Nat \ {0}
  BY ChoicesAssumption
<1>3. FirstLine(groups[g]) \in Nat \ {0} /\ AgentSpans(groups[g]) \subseteq Nat
  BY <1>1, GroupType, SpansType
<1>4. CASE Synthesise(g)
  <2>1. PICK tentative \in Lines \cup {FirstLine(groups[g])}, text \in {"some", "none"},
             span \in Spans \cup AgentSpans(groups[g]) : Make(g, "nova", text, tentative, span)
    BY <1>4 DEF Synthesise
  <2>2. tentative \in Nat \ {0} /\ span \in Nat
    BY <1>2, <1>3
  <2>3. PICK item \in Items : items' = [items EXCEPT ![g] = item]
                              /\ item.state = "kept" /\ item.line = item.at
    BY <2>1, <2>2, <1>0, <1>1, Made
  <2>4. phase = "synthesise" /\ Finish(g)
    BY <1>4 DEF Synthesise
  <2> QED BY <2>3, <2>4, <1>0, <1>1 DEF Finish
<1>5. CASE FallBack(g)
  <2>1. PICK span \in AgentSpans(groups[g]) :
          Make(g, "fallback", "some", FirstLine(groups[g]), span)
    BY <1>5 DEF FallBack
  <2>2. span \in Nat
    BY <1>3
  <2>3. PICK item \in Items : items' = [items EXCEPT ![g] = item]
                              /\ item.state = "kept" /\ item.line = item.at
    BY <2>1, <2>2, <1>0, <1>1, <1>3, Made
  <2>4. phase = "synthesise" /\ Finish(g)
    BY <1>5 DEF FallBack
  <2> QED BY <2>3, <2>4, <1>0, <1>1 DEF Finish
<1>6. ASSUME NEW item \in Items, Judging(g), Judged(g, item),
             item.state \in {items[g].state, "rejected"}, item.at = items[g].at,
             Moved(items[g], item)
      PROVE  /\ phase = "verify"
             /\ todo' = todo \ {g}
             /\ UNCHANGED <<setting, phase, order, next, groups, comments, sink>>
             /\ items' = [items EXCEPT ![g] = item]
  BY <1>6 DEF Judging, Judged, Finish
<1>7. CASE PassOver(g)
  BY <1>7, <1>6, <1>0, <1>1 DEF PassOver, Moved
<1>8. CASE Approve(g)
  <2>1. PICK c \in Corrections(items[g]) :
          Judged(g, [items[g] EXCEPT !.line = c.line, !.span = c.span])
    BY <1>8 DEF Approve
  <2> DEFINE item == [items[g] EXCEPT !.line = c.line, !.span = c.span]
  <2>2. /\ c.line \in Nat \ {0} /\ c.span \in Nat \ {0}
        /\ Distance(c.line, items[g].line) <= MaxDelta /\ Anchored(items[g].file, c.line)
    BY <1>2 DEF Corrections
  <2>3. /\ item \in Items /\ item.state = items[g].state /\ item.at = items[g].at
        /\ item.line = c.line /\ item.file = items[g].file
    BY <2>2, <1>0 DEF Items
  <2>4. Moved(items[g], item)
    BY <2>2, <2>3 DEF Moved
  <2> QED BY <2>1, <2>3, <2>4, <1>8, <1>6, <1>0, <1>1 DEF Approve
<1>9. CASE Strip(g)
  <2>1. PICK line \in {items[g].line} \cup {c.line : c \in Corrections(items[g])} :
          Judged(g, [items[g] EXCEPT !.line = line, !.patch = "none", !.span = 1])
    BY <1>9 DEF Strip
  <2> DEFINE item == [items[g] EXCEPT !.line = line, !.patch = "none", !.span = 1]
  <2>2. \A c \in Corrections(items[g]) :
          /\ c.line \in Nat \ {0}
          /\ Distance(c.line, items[g].line) <= MaxDelta /\ Anchored(items[g].file, c.line)
    BY <1>2 DEF Corrections
  <2>3. items[g].line \in Nat \ {0}
    BY <1>0 DEF Items
  <2>4. /\ line \in Nat \ {0}
        /\ \/ line = items[g].line
           \/ Distance(line, items[g].line) <= MaxDelta /\ Anchored(items[g].file, line)
    <3>1. CASE line = items[g].line
      BY <3>1, <2>3
    <3>2. CASE line \in {c.line : c \in Corrections(items[g])}
      <4>1. PICK c \in Corrections(items[g]) : line = c.line
        BY <3>2
      <4> QED BY <4>1, <2>2
    <3> QED BY <3>1, <3>2, <2>1
  <2>5. /\ item \in Items /\ item.state = items[g].state /\ item.at = items[g].at
        /\ item.line = line /\ item.file = items[g].file
    BY <2>4, <1>0, Stripped
  <2>6. Moved(items[g], item)
    BY <2>4, <2>5 DEF Moved
  <2> QED BY <2>1, <2>5, <2>6, <1>9, <1>6, <1>0, <1>1 DEF Strip
<1>10. CASE Reject(g)
  <2> DEFINE item == [items[g] EXCEPT !.state = "rejected"]
  <2>1. /\ item \in Items /\ item.state = "rejected" /\ item.at = items[g].at
        /\ item.line = items[g].line
    BY <1>0 DEF Items
  <2>2. Moved(items[g], item)
    BY <2>1 DEF Moved
  <2> QED BY <2>1, <2>2, <1>10, <1>6, <1>0, <1>1 DEF Reject, Judged, Judging
<1> QED BY <1>4, <1>5, <1>7, <1>8, <1>9, <1>10 DEF Work

(* A thread finishes: only its finding changes.                             *)
LEMMA WorkTyped ==
  ASSUME Typed, NEW g \in todo, Work(g)
  PROVE  Typed'
<1>1. PICK item \in Items : items' = [items EXCEPT ![g] = item]
  BY WorkEffect
<1>2. /\ phase \in {"synthesise", "verify"}
      /\ todo' = todo \ {g}
      /\ UNCHANGED <<setting, phase, order, next, groups, comments, sink>>
      /\ g \in DOMAIN items
  BY WorkEffect
<1>3. items \in Seq(Items) /\ items' \in Seq(Items) /\ DOMAIN items' = DOMAIN items
  BY <1>1, <1>2 DEF Typed, TypeOK
<1> QED BY <1>2, <1>3 DEF Typed, TypeOK, Shape, setting

LEMMA SortTyped ==
  ASSUME Typed, Sort
  PROVE  Typed'
<1>1. PICK s \in [DOMAIN input -> DOMAIN input] : order' = s
  BY DEF Sort
<1>2. input \in Seq(Findings)
  BY InputType DEF Typed
<1>3. order' \in Seq(DOMAIN input) /\ Len(order') \in Nat
  BY <1>1, <1>2
<1>4. /\ phase = "sort" /\ phase' = "group" /\ next = 1
      /\ UNCHANGED <<setting, next, groups, todo, items, comments, sink>>
  BY DEF Sort, Typed, Shape
<1> QED BY <1>3, <1>4 DEF Typed, TypeOK, Shape, setting, Phases

LEMMA GatherTyped ==
  ASSUME Typed, Gather
  PROVE  Typed'
<1>1. /\ phase = "group" /\ next <= Len(order) /\ next' = next + 1
      /\ UNCHANGED <<setting, phase, order, todo, items, comments, sink>>
  BY DEF Gather
<1>2. order[next] \in DOMAIN input /\ next' \in 1..(Len(order) + 1)
  BY <1>1 DEF Typed, TypeOK
<1>3. /\ groups' \in Seq(Seq(DOMAIN input))
      /\ \A g \in DOMAIN groups' : Len(groups'[g]) > 0
  <2>1. CASE groups # << >> /\ Joins(Last(groups), order[next])
    <3>1. groups' = [groups EXCEPT ![Len(groups)] = Append(@, order[next])]
      BY <2>1 DEF Gather
    <3>2. /\ groups[Len(groups)] \in Seq(DOMAIN input) /\ Len(groups) \in DOMAIN groups
      BY <2>1 DEF Typed, TypeOK
    <3>3. Append(groups[Len(groups)], order[next]) \in Seq(DOMAIN input)
          /\ Len(Append(groups[Len(groups)], order[next])) > 0
      BY <3>2, <1>2
    <3> QED BY <3>1, <3>2, <3>3 DEF Typed, TypeOK, Shape
  <2>2. CASE ~(groups # << >> /\ Joins(Last(groups), order[next]))
    <3>1. groups' = Append(groups, <<order[next]>>)
      BY <2>2 DEF Gather
    <3>2. <<order[next]>> \in Seq(DOMAIN input) /\ Len(<<order[next]>>) = 1
      BY <1>2
    <3> QED BY <3>1, <3>2 DEF Typed, TypeOK, Shape
  <2> QED BY <2>1, <2>2
<1> QED BY <1>1, <1>2, <1>3 DEF Typed, TypeOK, Shape, setting

LEMMA SubmitTyped ==
  ASSUME Typed, Submit
  PROVE  Typed'
<1>1. \A g \in DOMAIN groups : NoItem(groups[g]) \in Items
  BY NewItem
<1>2. /\ items' = [g \in DOMAIN groups |-> NoItem(groups[g])]
      /\ todo' = DOMAIN groups /\ phase = "group" /\ phase' = "synthesise"
      /\ UNCHANGED <<setting, order, next, groups, comments, sink>>
  BY DEF Submit
<1>3. items' \in Seq(Items) /\ DOMAIN items' = DOMAIN groups
  BY <1>1, <1>2 DEF Typed, TypeOK
<1> QED BY <1>2, <1>3 DEF Typed, TypeOK, Shape, setting, Phases

LEMMA DropTyped ==
  ASSUME Typed, DropNoOps
  PROVE  Typed'
<1>1. PICK same \in SUBSET Patched :
        /\ items' = [g \in DOMAIN items |->
                       IF g \in same THEN [items[g] EXCEPT !.patch = "none"] ELSE items[g]]
        /\ todo' = Patched \ same
  BY DEF DropNoOps
<1> DEFINE item(g) == IF g \in same THEN [items[g] EXCEPT !.patch = "none"] ELSE items[g]
<1>2. \A g \in DOMAIN items : item(g) \in Items
  <2> TAKE g \in DOMAIN items
  <2>1. items[g] \in Items
    BY DEF Typed, TypeOK
  <2>2. [items[g] EXCEPT !.patch = "none"] \in Items
    BY <2>1 DEF Items
  <2> QED BY <2>1, <2>2
<1>3. items' \in Seq(Items) /\ DOMAIN items' = DOMAIN items
  <2>1. items' = [g \in DOMAIN items |-> item(g)]
    BY <1>1
  <2>2. Len(items) \in Nat /\ DOMAIN items = 1..Len(items)
    BY DEF Typed, TypeOK
  <2> HIDE DEF item
  <2> QED BY <1>2, <2>1, <2>2
<1>4. todo' \subseteq DOMAIN items'
  BY <1>1, <1>3 DEF Patched
<1>5. phase = "synthesise" /\ phase' = "verify"
      /\ UNCHANGED <<setting, order, next, groups, comments, sink>>
  BY DEF DropNoOps
<1> QED BY <1>3, <1>4, <1>5 DEF Typed, TypeOK, Shape, setting, Phases

LEMMA GuardTyped ==
  ASSUME Typed, Guard
  PROVE  Typed'
<1> DEFINE item(g) == IF Orphans(items[g]) THEN [items[g] EXCEPT !.patch = "none", !.span = 1]
                      ELSE items[g]
<1>1. \A g \in DOMAIN items : item(g) \in Items
  <2> TAKE g \in DOMAIN items
  <2>1. items[g] \in Items
    BY DEF Typed, TypeOK
  <2>2. [items[g] EXCEPT !.patch = "none", !.span = 1] \in Items
    BY <2>1, Downgraded
  <2> QED BY <2>1, <2>2
<1>2. items' \in Seq(Items) /\ DOMAIN items' = DOMAIN items
  <2>1. items' = [g \in DOMAIN items |-> item(g)]
    BY DEF Guard
  <2>2. Len(items) \in Nat /\ DOMAIN items = 1..Len(items)
    BY DEF Typed, TypeOK
  <2> HIDE DEF item
  <2> QED BY <1>1, <2>1, <2>2
<1>3. phase = "verify" /\ phase' = "post"
      /\ UNCHANGED <<setting, order, next, groups, todo, comments, sink>>
  BY DEF Guard
<1> QED BY <1>2, <1>3 DEF Typed, TypeOK, Shape, setting, Phases

LEMMA CommentTyped ==
  ASSUME Typed, NEW g \in Posted
  PROVE  CommentOn(items[g].file, items[g].line) \in Comments
<1> DEFINE f == items[g].file
           line == items[g].line
           here == Together(f, line)
           agents == UNION {Named(h) : h \in here}
<1> SUFFICES CommentOn(f, line) \in Comments
  OBVIOUS
<1>1. \A h \in DOMAIN items : items[h] \in Items
  BY DEF Typed, TypeOK
<1>2. here \subseteq DOMAIN items /\ g \in here /\ Posted \subseteq DOMAIN items
  BY DEF Together, Posted
<1>3. f \in Files /\ line \in Nat \ {0}
  BY <1>1, <1>2 DEF Items
<1>4. here \subseteq Nat \ {0}
  BY <1>2 DEF Typed, TypeOK
<1>5. agents \subseteq Agents
  <2>1. ASSUME NEW h \in here PROVE Named(h) \subseteq Agents
    <3>1. h \in DOMAIN groups
      BY <1>2 DEF Typed, Shape
    <3>2. \A k \in DOMAIN groups[h] : input[groups[h][k]].agent \in Agents
      BY <3>1, GroupType, InputType DEF Typed
    <3>3. 1 \in DOMAIN groups[h]
      BY <3>1, GroupType
    <3> QED BY <3>2, <3>3 DEF Named
  <2> QED BY <2>1
<1>6. CommentOn(f, line) = [file |-> f, line |-> line, items |-> here, agents |-> agents]
  BY DEF CommentOn
<1> HIDE DEF f, line, here, agents
<1> QED BY <1>3, <1>4, <1>5, <1>6 DEF Comments

LEMMA PostTyped ==
  ASSUME Typed, Post
  PROVE  Typed'
<1>1. /\ phase = "post" /\ phase' = "done"
      /\ UNCHANGED <<setting, order, next, groups, todo, items>>
      /\ \A c \in comments' : \E g \in Posted : c = CommentOn(items[g].file, items[g].line)
      /\ sink' \subseteq Posted
  BY DEF Post
<1>2. comments' \subseteq Comments
  BY <1>1, CommentTyped
<1>3. sink' \subseteq DOMAIN items
  BY <1>1 DEF Posted
<1> QED BY <1>1, <1>2, <1>3 DEF Typed, TypeOK, Shape, setting, Phases, Comments

LEMMA TypedStep ==
  ASSUME Typed, [Next]_vars
  PROVE  Typed'
<1>1. CASE NothingReported
  BY <1>1 DEF NothingReported, Typed, TypeOK, Shape, setting, Phases
<1>2. CASE Done \/ UNCHANGED vars
  BY <1>2 DEF Done, vars, setting, Typed, TypeOK, Shape
<1> QED BY <1>1, <1>2, SortTyped, GatherTyped, SubmitTyped, WorkTyped, DropTyped,
           GuardTyped, PostTyped DEF Next, Step

(* Every variable keeps its type, whatever is reported and answered.        *)
THEOREM TypeCorrect == Spec => []TypeOK
<1>1. Init => Typed
  BY DEF Init, Typed, TypeOK, Shape, Phases
<1>2. Typed /\ [Next]_vars => Typed'
  BY TypedStep
<1>3. Typed => TypeOK
  BY DEF Typed
<1> QED BY <1>1, <1>2, <1>3, PTL DEF Spec

----------------------------------------------------------------------------
(* Grouping                                                                 *)

(* The findings are sorted, and the last one taken is the last of its group.*)
Ordered == \A i, j \in DOMAIN order : i < j => Before(order[i], order[j])

LastTaken == groups # << >> => next > 1 /\ Last(Last(groups)) = order[next - 1]

GInv == Typed /\ Ordered /\ LastTaken /\ GroupsSound

GroupSound(group) ==
  /\ Len(group) \in 1..K
  /\ \A k \in 1..(Len(group) - 1) :
       LET a == input[group[k]]  b == input[group[k + 1]]
       IN  a.file = b.file /\ b.line - a.line \in 0..N

Apart(one, other) ==
  LET a == input[Last(one)]  b == input[Head(other)]
  IN  a.file # b.file \/ b.line - a.line > N \/ Len(one) = K

LEMMA GroupsStay ==
  ASSUME input' = input, order' = order, next' = next + 1, next \in Nat \ {0},
         groups' # << >>, Last(Last(groups')) = order[next],
         \A g \in DOMAIN groups' : GroupSound(groups'[g]),
         \A g \in 1..(Len(groups') - 1) : Apart(groups'[g], groups'[g + 1])
  PROVE  LastTaken' /\ GroupsSound'
<1>1. next' > 1 /\ next' - 1 = next
  OBVIOUS
<1>2. LastTaken'
  BY <1>1, Zenon DEF LastTaken
<1>3. GroupsSound'
  BY Zenon DEF GroupsSound, GroupSound, Apart
<1> QED BY <1>2, <1>3

LEMMA GatherGroups ==
  ASSUME GInv, Gather
  PROVE  LastTaken' /\ GroupsSound'
<1> DEFINE i == order[next]
           L == Len(groups)
           G == groups[L]
<1>1. /\ phase = "group" /\ next <= Len(order) /\ next' = next + 1
      /\ input' = input /\ order' = order
  BY DEF Gather, setting
<1>2. /\ next \in Nat \ {0} /\ Len(order) \in Nat /\ next \in DOMAIN order
      /\ i \in DOMAIN input
  BY <1>1 DEF GInv, Typed, TypeOK
<1>3. /\ L \in Nat /\ DOMAIN groups = 1..L
      /\ \A g \in DOMAIN groups : groups[g] \in Seq(DOMAIN input) /\ GroupSound(groups[g])
      /\ \A g \in 1..(L - 1) : Apart(groups[g], groups[g + 1])
  <2>1. groups \in Seq(Seq(DOMAIN input)) /\ GroupsSound
    BY DEF GInv, Typed, TypeOK
  <2>2. L \in Nat /\ DOMAIN groups = 1..L /\ \A g \in DOMAIN groups : groups[g] \in Seq(DOMAIN input)
    BY <2>1
  <2>3. \A g \in DOMAIN groups : GroupSound(groups[g])
    BY <2>1, Zenon DEF GroupsSound, GroupSound
  <2>4. \A g \in 1..(L - 1) : Apart(groups[g], groups[g + 1])
    BY <2>1, Zenon DEF GroupsSound, Apart
  <2> QED BY <2>2, <2>3, <2>4, Zenon
<1>4. SUFFICES /\ groups' # << >> /\ Last(Last(groups')) = i
               /\ \A g \in DOMAIN groups' : GroupSound(groups'[g])
               /\ \A g \in 1..(Len(groups') - 1) : Apart(groups'[g], groups'[g + 1])
  BY <1>1, <1>2, GroupsStay
<1>5. CASE groups # << >> /\ Joins(G, i)
  <2> DEFINE H == Append(G, i)
  <2>1. L \in DOMAIN groups /\ L > 0 /\ Last(groups) = G
    BY <1>3, <1>5 DEF GInv, Typed, TypeOK, Last
  <2>2. groups' = [groups EXCEPT ![L] = H]
    BY <1>5, <2>1 DEF Gather
  <2>3. /\ G \in Seq(DOMAIN input) /\ GroupSound(G) /\ Len(G) \in Nat \ {0}
    BY <1>3, <2>1 DEF GroupSound
  <2>4. /\ Len(H) = Len(G) + 1 /\ H[Len(G) + 1] = i /\ Head(H) = Head(G)
        /\ \A k \in 1..Len(G) : H[k] = G[k]
    BY <1>2, <2>3
  <2>5. /\ next > 1 /\ G[Len(G)] = order[next - 1] /\ next - 1 \in DOMAIN order
    BY <1>2, <1>5, <2>1 DEF GInv, LastTaken, Last, Typed, TypeOK
  <2>6. Before(G[Len(G)], i)
    BY <1>2, <2>5 DEF GInv, Ordered
  <2>7. /\ G[Len(G)] \in DOMAIN input /\ input[i].line \in Nat
        /\ input[G[Len(G)]].line \in Nat /\ input[i].file \in Nat
    BY <1>2, <2>3, InputType DEF GInv, Typed
  <2>8. /\ input[i].file = input[G[Len(G)]].file
        /\ input[i].line - input[G[Len(G)]].line \in 0..N
        /\ Len(G) < K
    BY <1>5, <2>6, <2>7, BoundsAssumption DEF Joins, Before, Last
  <2>9. GroupSound(H)
    <3>1. Len(H) \in 1..K
      BY <2>3, <2>4, <2>8, BoundsAssumption
    <3>2. ASSUME NEW k \in 1..(Len(H) - 1)
          PROVE  /\ input[H[k]].file = input[H[k + 1]].file
                 /\ input[H[k + 1]].line - input[H[k]].line \in 0..N
      <4>1. CASE k = Len(G)
        <5>1. H[k] = G[Len(G)] /\ H[k + 1] = i
          BY <4>1, <2>3, <2>4
        <5> QED BY <5>1, <2>8
      <4>2. CASE k \in 1..(Len(G) - 1)
        <5>1. H[k] = G[k] /\ H[k + 1] = G[k + 1]
          BY <4>2, <2>3, <2>4
        <5> QED BY <4>2, <5>1, <2>3 DEF GroupSound
      <4> QED BY <4>1, <4>2, <2>3, <2>4
    <3> QED BY <3>1, <3>2 DEF GroupSound
  <2>10. Last(H) = i
    BY <2>3, <2>4 DEF Last
  <2> HIDE DEF i, L, G, H
  <2>11. /\ Len(groups') = L /\ DOMAIN groups' = 1..L /\ groups'[L] = H
         /\ \A g \in 1..(L - 1) : groups'[g] = groups[g]
    BY <2>1, <2>2, <1>3 DEF L, GInv, Typed, TypeOK
  <2>12. groups' # << >> /\ Last(Last(groups')) = i
    BY <2>1, <2>10, <2>11 DEF Last
  <2>13. \A g \in DOMAIN groups' : GroupSound(groups'[g])
    BY <1>3, <2>9, <2>11
  <2>14. ASSUME NEW g \in 1..(L - 1) PROVE Apart(groups'[g], groups'[g + 1])
    <3>1. Apart(groups[g], groups[g + 1])
      BY <1>3
    <3>2. Head(groups'[g + 1]) = Head(groups[g + 1])
      BY <1>3, <2>4, <2>11 DEF G
    <3>3. groups'[g] = groups[g]
      BY <2>11
    <3> QED BY <3>1, <3>2, <3>3 DEF Apart
  <2> QED BY <2>11, <2>12, <2>13, <2>14
<1>6. CASE ~(groups # << >> /\ Joins(G, i))
  <2>1. groups' = Append(groups, <<i>>)
    BY <1>6 DEF Gather, Last
  <2> HIDE DEF i, L, G
  <2>2. /\ Len(groups') = L + 1 /\ DOMAIN groups' = 1..(L + 1) /\ groups'[L + 1] = <<i>>
        /\ \A g \in 1..L : groups'[g] = groups[g]
    BY <2>1, <1>2 DEF L, GInv, Typed, TypeOK
  <2>3. GroupSound(<<i>>)
    BY BoundsAssumption DEF GroupSound
  <2>4. groups' # << >> /\ Last(Last(groups')) = i
    BY <2>2, <1>3 DEF Last
  <2>5. \A g \in DOMAIN groups' : GroupSound(groups'[g])
    BY <1>3, <2>2, <2>3
  <2>6. ASSUME NEW g \in 1..L PROVE Apart(groups'[g], groups'[g + 1])
    <3>1. CASE g < L
      <4>1. g \in 1..(L - 1) /\ g + 1 \in 1..L
        BY <3>1, <1>3
      <4> QED BY <4>1, <1>3, <2>2
    <3>2. CASE g = L
      <4>1. ~Joins(G, i) /\ GroupSound(G) /\ G \in Seq(DOMAIN input) /\ L \in 1..L
        BY <3>2, <1>3, <1>6 DEF L, G
      <4>2. Len(G) \in 1..K
        BY <4>1 DEF GroupSound
      <4>3. Last(G) \in DOMAIN input
        BY <4>1, <4>2 DEF Last
      <4>4. input[i].line \in Nat /\ input[Last(G)].line \in Nat
        BY <1>2, <4>3, InputType DEF GInv, Typed
      <4>5. \/ input[i].file # input[Last(G)].file
            \/ input[i].line - input[Last(G)].line > N
            \/ Len(G) = K
        BY <4>1, <4>2, <4>4, BoundsAssumption DEF Joins
      <4>6. groups'[g] = G /\ groups'[g + 1] = <<i>> /\ Head(<<i>>) = i
        BY <3>2, <4>1, <2>2 DEF G
      <4> QED BY <4>5, <4>6 DEF Apart
    <3> QED BY <3>1, <3>2, <1>3
  <2> QED BY <2>2, <2>4, <2>5, <2>6, <1>3
<1> QED BY <1>5, <1>6

LEMMA GroupingStep ==
  ASSUME GInv, [Next]_vars
  PROVE  GInv'
<1> USE DEF GInv
<1>1. Typed'
  BY TypedStep
<1>2. CASE Sort
  <2>1. PICK s \in [DOMAIN input -> DOMAIN input] :
          /\ \A i, j \in DOMAIN input : i < j => Before(s[i], s[j])
          /\ order' = s
    BY <1>2 DEF Sort
  <2>2. input' = input /\ groups' = << >>
    BY <1>2 DEF Sort, setting, Typed, Shape
  <2>3. Ordered'
    BY <2>1, <2>2 DEF Ordered, Before
  <2>4. LastTaken' /\ GroupsSound'
    BY <2>2 DEF LastTaken, GroupsSound
  <2> QED BY <1>1, <2>3, <2>4
<1>3. CASE Gather
  <2>1. input' = input /\ order' = order
    BY <1>3 DEF Gather, setting
  <2> QED BY <1>1, <1>3, <2>1, GatherGroups DEF Ordered, Before
<1>4. ASSUME input' = input, order' = order, next' = next, groups' = groups
      PROVE  GInv'
  BY <1>1, <1>4 DEF Ordered, Before, LastTaken, GroupsSound
<1>5. ASSUME NEW g \in todo, Work(g) PROVE GInv'
  BY <1>4, <1>5, WorkEffect DEF setting
<1> QED
  BY <1>2, <1>3, <1>4, <1>5
  DEF Next, Step, Done, vars, setting, NothingReported, Submit, DropNoOps, Guard, Post

(* Whatever the agents report, a group never spans files, gaps of more than *)
(* N lines or more than K findings, and none is cut short for no reason.    *)
THEOREM GroupsBounded == Spec => []GroupsSound
<1>1. Init => GInv
  BY DEF Init, GInv, Typed, TypeOK, Shape, Phases, Ordered, LastTaken, GroupsSound
<1>2. GInv /\ [Next]_vars => GInv'
  BY GroupingStep
<1>3. GInv => GroupsSound
  BY DEF GInv
<1> QED BY <1>1, <1>2, <1>3, PTL DEF Spec

----------------------------------------------------------------------------
(* Nothing is lost                                                          *)

Has(group, i) == \E k \in DOMAIN group : group[k] = i
In(g, i) == Has(groups[g], i)

(* The groups hold what was taken from order so far, each finding once, and *)
(* after grouping that is everything.                                       *)
Placed ==
  /\ phase # "sort" => \A i \in DOMAIN input : \E p \in DOMAIN order : order[p] = i
  /\ phase \notin {"sort", "group"} => next = Len(order) + 1
  /\ \A g \in DOMAIN groups, i \in DOMAIN input :
       In(g, i) => \E p \in 1..(next - 1) : order[p] = i
  /\ \A p \in 1..(next - 1) : \E g \in DOMAIN groups : In(g, order[p])
  /\ \A g, h \in DOMAIN groups, i \in DOMAIN input : In(g, i) /\ In(h, i) => g = h

(* Every group is synthesised before the post-processors run.               *)
Written ==
  \A g \in DOMAIN items : items[g].state = "pending" => phase = "synthesise" /\ g \in todo

Told ==
  phase = "done" =>
    \A g \in DOMAIN items :
      \/ items[g].state = "rejected" \/ items[g].text = "none"
      \/ g \in sink
      \/ \E c \in comments : g \in c.items

KInv == GInv /\ Placed /\ Written /\ Told

LEMMA SortPlaces ==
  ASSUME KInv, Sort
  PROVE  Placed'
<1>1. PICK s \in [DOMAIN input -> DOMAIN input] :
        /\ \A i, j \in DOMAIN input : i < j => Before(s[i], s[j])
        /\ order' = s
  BY DEF Sort
<1>2. /\ phase' = "group" /\ input' = input /\ groups' = << >> /\ next' = 1
  BY DEF Sort, setting, KInv, GInv, Typed, Shape
<1>3. Len(input) \in Nat /\ DOMAIN input = 1..Len(input)
  BY InputType DEF KInv, GInv, Typed
<1>4. \A i \in DOMAIN input : input[i].line \in Nat /\ input[i].file \in Nat
  BY InputType DEF KInv, GInv, Typed
<1>5. \A i, j \in DOMAIN input : s[i] = s[j] => i = j
  BY <1>1, <1>3, <1>4 DEF Before
<1>6. s \in Injection(DOMAIN input, DOMAIN input)
  BY <1>5 DEF Injection, IsInjective
<1>7. IsFiniteSet(DOMAIN input)
  BY <1>3, FS_Interval
<1>8. s \in Surjection(DOMAIN input, DOMAIN input)
  BY <1>6, <1>7, FS_Injection
<1>9. \A i \in DOMAIN input : \E p \in DOMAIN input : s[p] = i
  BY <1>8 DEF Surjection
<1> QED BY <1>1, <1>2, <1>9 DEF Placed

LEMMA GatherPlaces ==
  ASSUME KInv, Gather
  PROVE  Placed'
<1> DEFINE i == order[next]
           L == Len(groups)
<1>1. /\ phase = "group" /\ next <= Len(order) /\ next' = next + 1 /\ phase' = phase
      /\ input' = input /\ order' = order
  BY DEF Gather, setting
<1>2. /\ next \in Nat \ {0} /\ Len(order) \in Nat /\ next \in DOMAIN order
      /\ i \in DOMAIN input /\ DOMAIN order = 1..Len(order)
  BY <1>1 DEF KInv, GInv, Typed, TypeOK
<1>3. /\ L \in Nat /\ DOMAIN groups = 1..L
      /\ \A g \in DOMAIN groups : groups[g] \in Seq(DOMAIN input)
  BY DEF KInv, GInv, Typed, TypeOK
<1>4. \A p \in 1..(next - 1) : order[p] # i
  <2> TAKE p \in 1..(next - 1)
  <2>1. Before(order[p], i) /\ order[p] \in DOMAIN input
    BY <1>2 DEF KInv, GInv, Ordered, Typed, TypeOK
  <2>2. input[i].line \in Nat /\ input[i].file \in Nat /\ i \in Nat
    BY <1>2, InputType DEF KInv, GInv, Typed
  <2> QED BY <2>1, <2>2 DEF Before
<1>5. \A g \in DOMAIN groups : ~In(g, i)
  BY <1>2, <1>4 DEF KInv, Placed
<1>6. \E n \in DOMAIN groups' :
        /\ DOMAIN groups \subseteq DOMAIN groups'
        /\ \A g \in DOMAIN groups', j \in DOMAIN input :
             In(g, j)' <=> (g \in DOMAIN groups /\ In(g, j)) \/ (g = n /\ j = i)
  <2>1. CASE groups # << >> /\ Joins(Last(groups), i)
    <3> DEFINE G == groups[L]  H == Append(G, i)
    <3>1. L \in DOMAIN groups /\ groups' = [groups EXCEPT ![L] = H]
      BY <1>3, <2>1 DEF Gather, KInv, GInv, Typed, TypeOK
    <3>2. /\ G \in Seq(DOMAIN input) /\ Len(G) \in Nat
          /\ DOMAIN G = 1..Len(G) /\ DOMAIN H = 1..(Len(G) + 1)
          /\ H[Len(G) + 1] = i /\ \A k \in 1..Len(G) : H[k] = G[k]
      BY <1>2, <1>3, <3>1
    <3>3. \A j : Has(H, j) <=> Has(G, j) \/ j = i
      BY <3>2 DEF Has
    <3>4. /\ DOMAIN groups' = DOMAIN groups /\ groups'[L] = H
          /\ \A g \in DOMAIN groups : g # L => groups'[g] = groups[g]
      BY <3>1, <1>3
    <3> HIDE DEF H, L
    <3>5. \A g \in DOMAIN groups', j \in DOMAIN input :
            In(g, j)' <=> (g \in DOMAIN groups /\ In(g, j)) \/ (g = L /\ j = i)
      BY <3>3, <3>4 DEF In
    <3> QED BY <3>1, <3>4, <3>5
  <2>2. CASE ~(groups # << >> /\ Joins(Last(groups), i))
    <3>1. groups' = Append(groups, <<i>>)
      BY <2>2 DEF Gather
    <3>2. /\ DOMAIN groups' = 1..(L + 1) /\ groups'[L + 1] = <<i>>
          /\ \A g \in 1..L : groups'[g] = groups[g]
      BY <3>1, <1>2 DEF KInv, GInv, Typed, TypeOK
    <3>3. \A j : Has(<<i>>, j) <=> j = i
      BY DEF Has
    <3> HIDE DEF L
    <3>4. L + 1 \notin DOMAIN groups /\ L + 1 \in DOMAIN groups' /\ DOMAIN groups' = 1..L \cup {L + 1}
      BY <3>2, <1>3
    <3>5. \A g \in DOMAIN groups', j \in DOMAIN input :
            In(g, j)' <=> (g \in DOMAIN groups /\ In(g, j)) \/ (g = L + 1 /\ j = i)
      BY <3>2, <3>3, <3>4, <1>3 DEF In
    <3> QED BY <3>4, <3>5, <1>3
  <2> QED BY <2>1, <2>2
<1>7. PICK n \in DOMAIN groups' :
        /\ DOMAIN groups \subseteq DOMAIN groups'
        /\ \A g \in DOMAIN groups', j \in DOMAIN input :
             In(g, j)' <=> (g \in DOMAIN groups /\ In(g, j)) \/ (g = n /\ j = i)
  BY <1>6
<1>8. \A g \in DOMAIN groups', j \in DOMAIN input :
        In(g, j)' => \E p \in 1..next : order[p] = j
  BY <1>2, <1>7 DEF KInv, Placed
<1>9. \A p \in 1..next : \E g \in DOMAIN groups' : In(g, order[p])'
  <2> TAKE p \in 1..next
  <2>1. order[p] \in DOMAIN input
    BY <1>1, <1>2 DEF KInv, GInv, Typed, TypeOK
  <2>2. \A g : In(g, order[p])' <=> Has(groups'[g], order[p])
    BY <1>1 DEF In
  <2>3. CASE p = next
    <3>1. In(n, order[p])'
      BY <2>1, <2>2, <2>3, <1>7 DEF In
    <3> QED BY <3>1
  <2>4. CASE p \in 1..(next - 1)
    <3>1. PICK g \in DOMAIN groups : In(g, order[p])
      BY <2>4 DEF KInv, Placed
    <3>2. g \in DOMAIN groups' /\ Has(groups'[g], order[p])
      BY <2>1, <3>1, <1>7 DEF In
    <3> QED BY <3>2, <2>2
  <2> QED BY <2>3, <2>4, <1>2
<1>10. \A g, h \in DOMAIN groups', j \in DOMAIN input : In(g, j)' /\ In(h, j)' => g = h
  BY <1>5, <1>7 DEF KInv, Placed
<1>11. next' - 1 = next
  BY <1>1, <1>2
<1> QED BY <1>1, <1>8, <1>9, <1>10, <1>11 DEF Placed, KInv

LEMMA PlacedStep ==
  ASSUME KInv, [Next]_vars
  PROVE  Placed'
<1>1. ASSUME input' = input, order' = order, next' = next, groups' = groups,
             phase = "sort" => input = << >>,
             phase' \notin {"sort", "group"} => next = Len(order) + 1
      PROVE  Placed'
  BY <1>1 DEF KInv, Placed, In
<1>2. CASE Submit
  <2>1. next = Len(order) + 1
    BY <1>2 DEF Submit, KInv, GInv, Typed, TypeOK
  <2> QED BY <1>1, <1>2, <2>1 DEF Submit, setting
<1>3. CASE NothingReported
  BY <1>1, <1>3 DEF NothingReported, setting, KInv, GInv, Typed, Shape
<1>4. CASE DropNoOps \/ Guard \/ Post
  BY <1>1, <1>4 DEF DropNoOps, Guard, Post, setting, KInv, Placed
<1>5. ASSUME NEW g \in todo, Work(g) PROVE Placed'
  BY <1>1, <1>5, WorkEffect DEF setting, KInv, GInv, Placed
<1>6. CASE Done \/ UNCHANGED vars
  BY <1>6 DEF Done, vars, setting, KInv, Placed, In
<1> QED BY <1>2, <1>3, <1>4, <1>5, <1>6, SortPlaces, GatherPlaces DEF Next, Step

LEMMA WrittenStep ==
  ASSUME KInv, [Next]_vars
  PROVE  Written'
<1> USE DEF KInv
<1>1. CASE Submit
  BY <1>1, NewItem DEF Submit, Written
<1>2. ASSUME NEW g \in todo, Work(g) PROVE Written'
  <2>1. PICK item \in Items :
          /\ items' = [items EXCEPT ![g] = item]
          /\ phase = "synthesise" => item.state = "kept"
          /\ phase = "verify" => item.state \in {items[g].state, "rejected"}
    BY <1>2, WorkEffect DEF GInv
  <2>2. /\ phase \in {"synthesise", "verify"} /\ phase' = phase /\ todo' = todo \ {g}
        /\ g \in DOMAIN items
    BY <1>2, WorkEffect DEF GInv
  <2>3. item.state # "pending"
    BY <2>1, <2>2 DEF Written
  <2> QED BY <2>1, <2>2, <2>3 DEF Written
<1>3. CASE DropNoOps
  <2>1. \A g \in DOMAIN items : items[g].state # "pending"
    BY <1>3 DEF DropNoOps, Written
  <2>2. PICK same \in SUBSET Patched :
          items' = [g \in DOMAIN items |->
                     IF g \in same THEN [items[g] EXCEPT !.patch = "none"] ELSE items[g]]
    BY <1>3 DEF DropNoOps
  <2>3. \A g \in DOMAIN items : items[g] \in Items
    BY DEF GInv, Typed, TypeOK
  <2>4. \A g \in DOMAIN items : [items[g] EXCEPT !.patch = "none"].state = items[g].state
    BY <2>3 DEF Items
  <2>5. \A g \in DOMAIN items' : items'[g].state # "pending"
    BY <2>1, <2>2, <2>4
  <2> QED BY <2>5 DEF Written
<1>4. CASE Guard
  <2>1. \A g \in DOMAIN items : items[g].state # "pending"
    BY <1>4 DEF Guard, Written
  <2>2. items' = [g \in DOMAIN items |->
                   IF Orphans(items[g]) THEN [items[g] EXCEPT !.patch = "none", !.span = 1]
                   ELSE items[g]]
    BY <1>4 DEF Guard
  <2>3. \A g \in DOMAIN items :
          [items[g] EXCEPT !.patch = "none", !.span = 1].state = items[g].state
    <3> TAKE g \in DOMAIN items
    <3>1. items[g] \in Items
      BY DEF GInv, Typed, TypeOK
    <3> QED BY <3>1, Downgraded
  <2>4. \A g \in DOMAIN items' : items'[g].state # "pending"
    BY <2>1, <2>2, <2>3
  <2> QED BY <2>4 DEF Written
<1>5. CASE Sort \/ Gather \/ NothingReported
  BY <1>5 DEF Sort, Gather, NothingReported, Written, GInv, Typed, Shape
<1>6. CASE Post \/ Done \/ UNCHANGED vars
  BY <1>6 DEF Post, Done, vars, Written
<1> QED BY <1>1, <1>2, <1>3, <1>4, <1>5, <1>6 DEF Next, Step

LEMMA ToldStep ==
  ASSUME KInv, [Next]_vars
  PROVE  Told'
<1> USE DEF KInv
<1>1. CASE Post
  <2> DEFINE shown == {g \in Posted : Anchored(items[g].file, items[g].line)}
  <2>1. /\ phase = "post" /\ items' = items
        /\ comments' = {CommentOn(items[g].file, items[g].line) : g \in shown}
        /\ sink' = Posted \ shown
    BY <1>1 DEF Post
  <2>2. SUFFICES ASSUME NEW g \in DOMAIN items,
                        items[g].state # "rejected", items[g].text # "none", g \notin sink'
                 PROVE  \E c \in comments' : g \in c.items
    BY <2>1 DEF Told
  <2>3. items[g] \in Items /\ items[g].state # "pending"
    BY <2>1 DEF GInv, Typed, TypeOK, Written
  <2>4. g \in Posted
    BY <2>2, <2>3 DEF Items, Posted
  <2>5. g \in shown
    BY <2>1, <2>2, <2>4
  <2>6. CommentOn(items[g].file, items[g].line).items = Together(items[g].file, items[g].line)
    BY DEF CommentOn
  <2>7. g \in Together(items[g].file, items[g].line)
    BY <2>4 DEF Together
  <2> QED BY <2>1, <2>5, <2>6, <2>7
<1>2. CASE NothingReported
  BY <1>2 DEF NothingReported, Told, GInv, Typed, Shape
<1>3. CASE Done \/ UNCHANGED vars
  BY <1>3 DEF Done, vars, Told
<1>4. CASE Sort \/ Gather \/ Submit \/ DropNoOps \/ Guard
  BY <1>4 DEF Sort, Gather, Submit, DropNoOps, Guard, Told
<1>5. ASSUME NEW g \in todo, Work(g) PROVE Told'
  BY <1>5, WorkEffect DEF Told, GInv
<1> QED BY <1>1, <1>2, <1>3, <1>4, <1>5 DEF Next, Step

(* However many findings are reported, each is in one group, and each group *)
(* in a comment or the summary, but for what Vex rejects or Nova leaves     *)
(* without text.                                                            *)
THEOREM FindingsKept == Spec => []NothingLost
<1>1. Init => KInv
  BY DEF Init, KInv, GInv, Typed, TypeOK, Shape, Phases, Ordered, LastTaken, GroupsSound,
         Placed, Written, Told
<1>2. KInv /\ [Next]_vars => KInv'
  BY GroupingStep, PlacedStep, WrittenStep, ToldStep DEF KInv
<1>3. KInv => NothingLost
  <2> SUFFICES ASSUME KInv, phase = "done", NEW i \in DOMAIN input
               PROVE  \E g \in DOMAIN groups :
                        /\ \A h \in DOMAIN groups : In(h, i) <=> h = g
                        /\ \/ items[g].state = "rejected" \/ items[g].text = "none"
                           \/ g \in sink
                           \/ \E c \in comments : g \in c.items
    BY DEF NothingLost, In, Has
  <2>1. PICK p \in DOMAIN order : order[p] = i
    BY DEF KInv, Placed
  <2>2. p \in 1..(next - 1)
    BY DEF KInv, Placed, GInv, Typed, TypeOK
  <2>3. PICK g \in DOMAIN groups : In(g, i)
    BY <2>1, <2>2 DEF KInv, Placed
  <2>4. \A h \in DOMAIN groups : In(h, i) <=> h = g
    BY <2>3 DEF KInv, Placed
  <2>5. g \in DOMAIN items
    BY DEF KInv, GInv, Typed, Shape
  <2> QED BY <2>4, <2>5 DEF KInv, Told
<1> QED BY <1>1, <1>2, <1>3, PTL DEF Spec

----------------------------------------------------------------------------
(* Vex and the guard                                                        *)

(* Until Vex has judged a finding it is where synthesis put it.             *)
Unmoved ==
  \A g \in DOMAIN items :
    phase = "synthesise" \/ (phase = "verify" /\ g \in todo) => items[g].line = items[g].at

SInv == Typed /\ Unmoved /\ ShiftBounded

LEMMA ShiftStep ==
  ASSUME SInv, [Next]_vars
  PROVE  SInv'
<1> DEFINE Shifted(item) ==
             item.line = item.at \/ (Distance(item.line, item.at) <= MaxDelta
                                     /\ Anchored(item.file, item.line))
<1>1. SUFFICES Unmoved' /\ ShiftBounded'
  BY TypedStep DEF SInv
<1>2. ASSUME items' = items,
             phase' \in {"synthesise", "verify"} => phase' = phase /\ todo' = todo
      PROVE  Unmoved' /\ ShiftBounded'
  BY <1>2 DEF SInv, Unmoved, ShiftBounded
<1>3. CASE Sort \/ NothingReported \/ Gather \/ Post \/ Done \/ UNCHANGED vars
  <2>1. items' = items
    BY <1>3 DEF Sort, NothingReported, Gather, Post, Done, vars
  <2>2. phase' \in {"synthesise", "verify"} => phase' = phase /\ todo' = todo
    BY <1>3 DEF Sort, NothingReported, Gather, Post, Done, vars
  <2> QED BY <1>2, <2>1, <2>2
<1>4. CASE Submit
  BY <1>4, NewItem DEF Submit, SInv, Unmoved, ShiftBounded
<1>5. ASSUME NEW g \in todo, Work(g) PROVE Unmoved' /\ ShiftBounded'
  <2>1. PICK item \in Items :
          /\ items' = [items EXCEPT ![g] = item]
          /\ phase = "synthesise" => item.line = item.at
          /\ phase = "verify" => item.at = items[g].at /\ Moved(items[g], item)
    BY <1>5, WorkEffect DEF SInv
  <2>2. /\ phase \in {"synthesise", "verify"} /\ phase' = phase /\ todo' = todo \ {g}
        /\ g \in DOMAIN items
    BY <1>5, WorkEffect DEF SInv
  <2>3. Shifted(item)
    <3>1. items[g].line = items[g].at
      BY <2>2 DEF SInv, Unmoved
    <3> QED BY <2>1, <2>2, <3>1 DEF Moved
  <2>4. \A h \in DOMAIN items' : Shifted(items'[h])
    BY <2>1, <2>2, <2>3 DEF SInv, ShiftBounded
  <2>5. Unmoved'
    BY <2>1, <2>2 DEF SInv, Unmoved
  <2> QED BY <2>4, <2>5 DEF ShiftBounded
<1>6. CASE DropNoOps
  <2>1. PICK same \in SUBSET Patched :
          items' = [g \in DOMAIN items |->
                     IF g \in same THEN [items[g] EXCEPT !.patch = "none"] ELSE items[g]]
    BY <1>6 DEF DropNoOps
  <2>2. ASSUME NEW g \in DOMAIN items PROVE items'[g].line = items'[g].at
    <3>1. items[g] \in Items /\ items[g].line = items[g].at
      BY <1>6 DEF SInv, Typed, TypeOK, DropNoOps, Unmoved
    <3> QED BY <2>1, <3>1 DEF Items
  <2> QED BY <2>1, <2>2 DEF Unmoved, ShiftBounded
<1>7. CASE Guard
  <2>1. items' = [g \in DOMAIN items |->
                   IF Orphans(items[g]) THEN [items[g] EXCEPT !.patch = "none", !.span = 1]
                   ELSE items[g]]
    BY <1>7 DEF Guard
  <2>2. ASSUME NEW g \in DOMAIN items
        PROVE  /\ items'[g].line = items[g].line /\ items'[g].at = items[g].at
               /\ items'[g].file = items[g].file
    <3>1. items[g] \in Items
      BY DEF SInv, Typed, TypeOK
    <3> QED BY <2>1, <3>1, Downgraded
  <2>3. phase' = "post"
    BY <1>7 DEF Guard
  <2> QED BY <2>1, <2>2, <2>3 DEF SInv, Unmoved, ShiftBounded
<1> QED BY <1>3, <1>4, <1>5, <1>6, <1>7 DEF Next, Step

(* Vex never moves a finding further than MaxDelta lines from where         *)
(* synthesis put it, nor off the lines that can carry a comment.            *)
THEOREM ShiftsBounded == Spec => []ShiftBounded
<1>1. Init => SInv
  BY DEF Init, SInv, Typed, TypeOK, Shape, Phases, Unmoved, ShiftBounded
<1>2. SInv /\ [Next]_vars => SInv'
  BY ShiftStep
<1>3. SInv => ShiftBounded
  BY DEF SInv
<1> QED BY <1>1, <1>2, <1>3, PTL DEF Spec

(* What the guard leaves is right until the comments are posted.            *)
PInv == Typed /\ PatchesEndTheirBlock

LEMMA LeastNumber ==
  ASSUME NEW T \in SUBSET Nat, T # {}
  PROVE  \E x \in T : \A y \in T : x <= y
<1>1. PICK x \in T : \A y \in T : ~(<<y, x>> \in OpToRel(<, Nat))
  BY NatLessThanWellFounded, WFMin
<1>2. \A y \in T : ~(y < x)
  BY <1>1 DEF OpToRel
<1> QED BY <1>2

LEMMA GuardCloses ==
  ASSUME Typed, Guard
  PROVE  PatchesEndTheirBlock'
<1>1. items' = [g \in DOMAIN items |->
                 IF Orphans(items[g]) THEN [items[g] EXCEPT !.patch = "none", !.span = 1]
                 ELSE items[g]]
      /\ readable' = readable
  BY DEF Guard, setting
<1>2. SUFFICES ASSUME NEW g \in DOMAIN items, g \in Patched',
                      items'[g].span > 1, items'[g].file \in readable
               PROVE  LET item == items'[g]
                          last == item.line + item.span - 1
                          after == {l \in Code(item.file) : l > last}
                          within == {k \in Code(item.file) : k >= item.line /\ k <= last}
                      IN  after # {} => \E l \in after :
                            /\ \A m \in after : l <= m
                            /\ \A k \in within : Indent[item.file][l] < Indent[item.file][k]
  <2>1. Patched' \subseteq DOMAIN items
    BY <1>1 DEF Patched
  <2> QED BY <1>1, <2>1 DEF PatchesEndTheirBlock
<1>3. items[g] \in Items /\ ~Orphans(items[g]) /\ items'[g] = items[g]
  <2>1. items[g] \in Items
    BY DEF Typed, TypeOK
  <2>2. items'[g].patch = "written"
    BY <1>2 DEF Patched
  <2>3. ~Orphans(items[g])
    BY <1>1, <2>1, <2>2, Downgraded
  <2> QED BY <1>1, <2>1, <2>3
<1> DEFINE item == items[g]
           f == item.file
           last == item.line + item.span - 1
           after == {l \in Code(f) : l > last}
<1>4. item.patch = "written" /\ item.span > 1 /\ f \in readable
  BY <1>2, <1>3 DEF Patched
<1>5. ~ShouldDowngrade(f, item.line, last)
  BY <1>3, <1>4 DEF Orphans
<1>6. /\ f \in Files /\ item.line \in Nat /\ last \in Nat
      /\ Indent[f] \in Seq(Int) /\ Code(f) \subseteq Nat
  <2>1. /\ f \in Files /\ item.line \in Nat \ {0} /\ item.span \in Nat \ {0}
    BY <1>3 DEF Items
  <2>2. last \in Nat
    BY <2>1
  <2>3. Indent[f] \in Seq(Int)
    BY <2>1, FilesAssumption
  <2>4. Code(f) \subseteq Nat
    BY <2>3 DEF Code
  <2> QED BY <2>1, <2>2, <2>3, <2>4
<1>7. ASSUME after # {} PROVE \E l \in after : \A m \in after : l <= m
  BY <1>6, <1>7, LeastNumber
<1>8. ASSUME NEW l \in after, \A m \in after : l <= m,
             NEW k \in Code(f), k >= item.line, k <= last
      PROVE  Indent[f][l] < Indent[f][k]
  <2>1. k \in item.line..last /\ l \in Code(f) /\ l > last
    BY <1>6, <1>8
  <2>2. Indent[f][l] \in Int /\ Indent[f][k] \in Int
    BY <1>6, <2>1 DEF Code
  <2>3. \A m \in Code(f) : m > last => l <= m
    BY <1>8
  <2>4. ~(Indent[f][l] >= Indent[f][k])
    BY <1>5, <2>1, <2>3 DEF ShouldDowngrade
  <2> QED BY <2>2, <2>4
<1> QED BY <1>3, <1>7, <1>8

(* No replacement of several lines is offered that leaves code of its block *)
(* behind, whatever span Nova or Vex chose.                                 *)
THEOREM PatchesClosed == Spec => []PatchesEndTheirBlock
<1>1. Init => PInv
  BY DEF Init, PInv, Typed, TypeOK, Shape, Phases, PatchesEndTheirBlock
<1>2. PInv /\ [Next]_vars => PInv'
  <2> SUFFICES ASSUME PInv, [Next]_vars PROVE PatchesEndTheirBlock'
    BY TypedStep DEF PInv
  <2>1. CASE Guard
    BY <2>1, GuardCloses DEF PInv
  <2>2. CASE Sort \/ Gather \/ Submit \/ DropNoOps
    BY <2>2 DEF Sort, Gather, Submit, DropNoOps, PatchesEndTheirBlock
  <2>3. CASE NothingReported
    BY <2>3 DEF NothingReported, PatchesEndTheirBlock, Patched, PInv, Typed, Shape
  <2>4. ASSUME NEW g \in todo, Work(g) PROVE PatchesEndTheirBlock'
    <3>1. phase \in {"synthesise", "verify"} /\ phase' = phase
      BY <2>4, WorkEffect DEF PInv
    <3> QED BY <3>1 DEF PatchesEndTheirBlock
  <2>5. CASE Post \/ Done \/ UNCHANGED vars
    <3>1. items' = items /\ readable' = readable /\ (phase = "post" \/ phase' = phase)
      BY <2>5 DEF Post, Done, vars, setting
    <3> QED BY <3>1 DEF PInv, PatchesEndTheirBlock, Patched
  <2> QED BY <2>1, <2>2, <2>3, <2>4, <2>5 DEF Next, Step
<1>3. PInv => PatchesEndTheirBlock
  BY DEF PInv
<1> QED BY <1>1, <1>2, <1>3, PTL DEF Spec
=============================================================================
