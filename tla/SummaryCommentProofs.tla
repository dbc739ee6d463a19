------------------------ MODULE SummaryCommentProofs ------------------------
(* Proofs about SummaryComment, for any number of jobs, runs and flaws.     *)
EXTENDS SummaryComment, FiniteSetTheorems, TLAPS

LEMMA RunType ==
  ASSUME TypeOK, NEW j \in Jobs
  PROVE  /\ run[j] \in Runs
         /\ run[j].store \in Known /\ run[j].existing \in Known /\ run[j].scanned \in Known
         /\ run[j].store.id \in 0..Len(board) /\ run[j].existing.id \in 0..Len(board)
         /\ run[j].scanned.id \in 0..Len(board)
         /\ run[j].rev \in Nat /\ run[j].n \in Nat /\ run[j].warned \in BOOLEAN
         /\ Content(run[j]) \in Summaries
         /\ Target(run[j]) \in 0..Len(board)
         /\ Target(run[j]) # 0 => Target(run[j]) \in DOMAIN board
<1>1. run[j] \in Runs
  BY DEF TypeOK
<1>2. /\ run[j].store \in Known /\ run[j].existing \in Known /\ run[j].scanned \in Known
      /\ run[j].rev \in Nat /\ run[j].n \in Nat
  BY <1>1 DEF Runs
<1>3. run[j].warned \in BOOLEAN
  BY <1>1 DEF Runs
<1>4. /\ run[j].store.id \in 0..Len(board) /\ run[j].existing.id \in 0..Len(board)
      /\ run[j].scanned.id \in 0..Len(board)
  BY DEF TypeOK
<1>5. Content(run[j]) \in Summaries
  BY <1>2 DEF Content, Summaries
<1>6. /\ Target(run[j]) \in 0..Len(board)
      /\ Target(run[j]) # 0 => Target(run[j]) \in DOMAIN board
  BY <1>4 DEF Target, TypeOK
<1> QED BY <1>1, <1>2, <1>3, <1>4, <1>5, <1>6

LEMMA ScanType ==
  ASSUME TypeOK, NEW scanned \in Scan
  PROVE  /\ scanned \in Known /\ scanned.id \in 0..Len(board)
         /\ scanned.id # 0 =>
              scanned.id \in Live /\ scanned.rev = board[scanned.id].rev
         /\ scanned.id = 0 => Listed = {}
<1>1. \A c \in Live : c \in DOMAIN board /\ board[c] \in Summaries
  BY DEF Live, TypeOK
<1>2. CASE Listed = {}
  BY <1>2 DEF Scan, None, Known, TypeOK
<1>3. CASE Listed # {}
  <2>1. PICK c \in Listed : scanned = [id |-> c, rev |-> board[c].rev]
    BY <1>3 DEF Scan
  <2> c \in Live
    BY DEF Listed
  <2>2. /\ c \in 1..Len(board) /\ Len(board) \in Nat /\ board[c].rev \in Nat
    BY <1>1 DEF Summaries, TypeOK
  <2>3. scanned.id = c /\ scanned.rev = board[c].rev
    BY <2>1
  <2>4. scanned \in Known
    BY <2>1, <2>2 DEF Known
  <2> QED BY <1>3, <2>2, <2>3, <2>4
<1> QED BY <1>2, <1>3

(* A record of a run, with what is known in range of the board.             *)
RunOn(r, length) ==
  /\ r \in Runs
  /\ \A known \in {r.store, r.existing, r.scanned} : known.id \in 0..length

LEMMA RunsOn ==
  ASSUME TypeOK, NEW length \in Nat, length >= Len(board), NEW i \in Jobs
  PROVE  RunOn(run[i], length)
<1>1. run[i] \in Runs /\ Len(board) \in Nat
  BY DEF TypeOK
<1>2. /\ run[i].store.id \in 0..Len(board) /\ run[i].existing.id \in 0..Len(board)
      /\ run[i].scanned.id \in 0..Len(board)
  BY RunType
<1>3. /\ run[i].store.id \in 0..length /\ run[i].existing.id \in 0..length
      /\ run[i].scanned.id \in 0..length
  BY <1>1, <1>2
<1> QED BY <1>1, <1>3 DEF RunOn

LEMMA DoneType ==
  ASSUME TypeOK, NEW j \in Jobs, NEW store \in Known, NEW warned \in BOOLEAN,
         Done(j, store, warned), NEW length \in Nat, length >= Len(board),
         store.id \in 0..length
  PROVE  /\ run' \in [Jobs -> Runs]
         /\ \A i \in Jobs : RunOn(run'[i], length)
         /\ \A i \in Jobs : i # j => run'[i] = run[i]
         /\ run'[j].n = run[j].n /\ run'[j].rev = run[j].rev
         /\ run'[j].scanned = run[j].scanned
         /\ run'[j].store = store
         /\ \/ /\ run[j].phase = "preliminary" /\ run'[j].pc = "update"
               /\ run'[j].existing = store /\ run'[j].warned = run[j].warned
               /\ run'[j].phase = "final"
            \/ /\ run[j].phase = "final" /\ run'[j].pc = "end" /\ run'[j].warned = warned
               /\ run'[j].existing = run[j].existing
<1> DEFINE new == IF run[j].phase = "preliminary"
                  THEN [run[j] EXCEPT !.pc = "update", !.phase = "final", !.store = store,
                                      !.existing = store]
                  ELSE [run[j] EXCEPT !.pc = "end", !.store = store, !.warned = warned]
<1>1. run[j] \in Runs /\ Len(board) \in Nat /\ run \in [Jobs -> Runs]
  BY DEF TypeOK
<1>2. \A i \in Jobs : RunOn(run[i], length)
  BY RunsOn
<1>3. run' = [run EXCEPT ![j] = new]
  BY DEF Done
<1>4. CASE run[j].phase = "preliminary"
  <2>1. new = [run[j] EXCEPT !.pc = "update", !.phase = "final", !.store = store,
                             !.existing = store]
    BY <1>4
  <2>2. /\ new \in Runs /\ new.n = run[j].n /\ new.rev = run[j].rev /\ new.store = store
        /\ new.pc = "update" /\ new.existing = store /\ new.scanned = run[j].scanned
        /\ new.phase = "final"
    BY <1>1, <2>1 DEF Runs
  <2>3. new.warned = run[j].warned
    BY <1>1, <2>1 DEF Runs
  <2> HIDE DEF new
  <2>4. RunOn(new, length)
    BY <1>2, <2>2 DEF RunOn
  <2> QED BY <1>1, <1>2, <1>3, <1>4, <2>2, <2>3, <2>4
<1>5. CASE run[j].phase = "final"
  <2>1. new = [run[j] EXCEPT !.pc = "end", !.store = store, !.warned = warned]
    BY <1>5
  <2>2. /\ new \in Runs /\ new.n = run[j].n /\ new.rev = run[j].rev /\ new.store = store
        /\ new.pc = "end" /\ new.scanned = run[j].scanned /\ new.existing = run[j].existing
    BY <1>1, <2>1 DEF Runs
  <2>3. new.warned = warned
    BY <1>1, <2>1 DEF Runs
  <2> HIDE DEF new
  <2>4. RunOn(new, length)
    BY <1>2, <2>2 DEF RunOn
  <2> QED BY <1>1, <1>2, <1>3, <1>5, <2>2, <2>3, <2>4
<1> QED BY <1>1, <1>4, <1>5 DEF Runs

(* What every job but j has stays as it was when j's run is replaced.       *)
LEMMA OneRun ==
  ASSUME TypeOK, NEW j \in Jobs, NEW r, NEW length \in Nat, length >= Len(board),
         RunOn(r, length), run' = [run EXCEPT ![j] = r]
  PROVE  /\ run' \in [Jobs -> Runs] /\ \A i \in Jobs : RunOn(run'[i], length)
         /\ run'[j] = r /\ \A i \in Jobs : i # j => run'[i] = run[i]
<1>1. run \in [Jobs -> Runs] /\ Len(board) \in Nat
  BY DEF TypeOK
<1>2. \A i \in Jobs : RunOn(run[i], length)
  BY RunsOn
<1> QED BY <1>1, <1>2 DEF RunOn

LEMMA IdleOn ==
  ASSUME NEW n \in Nat, NEW warned \in BOOLEAN, NEW length \in Nat
  PROVE  /\ RunOn(Idle(n, warned), length)
         /\ Idle(n, warned).pc = "idle" /\ Idle(n, warned).n = n
         /\ Idle(n, warned).warned = warned
<1>1. None \in Known /\ None.id = 0
  BY DEF None, Known
<1>2. Idle(n, warned) \in Runs
  BY <1>1 DEF Idle, Runs
<1>3. /\ Idle(n, warned).store = None /\ Idle(n, warned).existing = None
      /\ Idle(n, warned).scanned = None
  BY DEF Idle
<1>4. /\ Idle(n, warned).pc = "idle" /\ Idle(n, warned).n = n
  BY DEF Idle
<1>5. Idle(n, warned).warned = warned
  BY DEF Idle
<1> QED BY <1>1, <1>2, <1>3, <1>4, <1>5 DEF RunOn

(* The record with which a job starts.                                      *)
Begun(existing, scanned) ==
  [pc |-> "update",
   phase |-> IF platform = "github" /\ style = "per-issue" THEN "preliminary" ELSE "final",
   n |-> runs + 1, store |-> existing, existing |-> existing, scanned |-> scanned,
   rev |-> Revision(existing, scanned), warned |-> FALSE]

LEMMA BeginType ==
  ASSUME TypeOK, NEW j \in Jobs, NEW existing \in Known, NEW scanned \in Known,
         existing.id \in 0..Len(board), scanned.id \in 0..Len(board),
         Begin(j, existing, scanned)
  PROVE  /\ RunOn(Begun(existing, scanned), Len(board))
         /\ run' = [run EXCEPT ![j] = Begun(existing, scanned)]
         /\ run' \in [Jobs -> Runs] /\ \A i \in Jobs : RunOn(run'[i], Len(board))
         /\ run'[j] = Begun(existing, scanned) /\ \A i \in Jobs : i # j => run'[i] = run[i]
         /\ overlaps' \in 0..runs' /\ runs' = runs + 1
<1>1. Revision(existing, scanned) \in Nat /\ runs + 1 \in Nat /\ Len(board) \in Nat
  BY DEF Revision, Known, TypeOK
<1>2. Begun(existing, scanned) \in Runs
  BY <1>1 DEF Begun, Runs
<1>3. /\ Begun(existing, scanned).store = existing
      /\ Begun(existing, scanned).existing = existing
      /\ Begun(existing, scanned).scanned = scanned
  BY DEF Begun
<1>4. RunOn(Begun(existing, scanned), Len(board))
  BY <1>2, <1>3 DEF RunOn
<1>5. run' = [run EXCEPT ![j] = Begun(existing, scanned)]
  BY DEF Begin, Begun
<1>6. runs' = runs + 1 /\ overlaps' \in 0..runs'
  BY DEF Begin, TypeOK
<1>7. /\ run' \in [Jobs -> Runs] /\ \A i \in Jobs : RunOn(run'[i], Len(board))
      /\ run'[j] = Begun(existing, scanned) /\ \A i \in Jobs : i # j => run'[i] = run[i]
  <2> HIDE DEF Begun
  <2>1. Len(board) \in Nat /\ Len(board) >= Len(board)
    BY <1>1
  <2> QED BY <1>4, <1>5, <2>1, OneRun
<1> QED BY <1>4, <1>5, <1>6, <1>7

(* Every action, as seen from the board: it is kept, a summary is replaced  *)
(* or taken away, or one is added.                                          *)
LEMMA TypeOfParts ==
  ASSUME TypeOK, UNCHANGED setting, board' \in Seq(Summaries), Len(board') >= Len(board),
         cache' \in Known, cache'.id \in 0..Len(board'),
         run' \in [Jobs -> Runs], \A i \in Jobs : RunOn(run'[i], Len(board')),
         runs' \in 0..MaxRuns, flaws' \in Nat, deaths' \in Nat, flaws' + deaths' <= MaxFlaws,
         overlaps' \in 0..runs', missed' \in 0..runs',
         remarks' \in Seq(Nat), Len(remarks') <= MaxRemarks
  PROVE  TypeOK'
BY DEF TypeOK, setting, RunOn

LEMMA TypeInit ==
  ASSUME Init
  PROVE  TypeOK
<1>1. None \in Known /\ None.id = 0 /\ 0 \in Nat
  BY DEF None, Known
<1>2. board \in Seq(Summaries) /\ Len(board) = 0
  BY DEF Init
<1>3. RunOn(Idle(0, FALSE), 0)
  BY IdleOn
<1>4. \A j \in Jobs : run[j] = Idle(0, FALSE)
  BY DEF Init
<1>5. run \in [Jobs -> Runs]
  BY <1>3 DEF Init, RunOn
<1>6. \A j \in Jobs : \A known \in {run[j].store, run[j].existing, run[j].scanned} :
        known.id \in 0..Len(board)
  BY <1>2, <1>3, <1>4 DEF RunOn
<1>7. cache \in Known /\ cache.id \in 0..Len(board)
  BY <1>1, <1>2 DEF Init
<1>8. /\ runs \in 0..MaxRuns /\ flaws \in Nat /\ deaths \in Nat /\ flaws + deaths <= MaxFlaws
      /\ overlaps \in 0..runs /\ missed \in 0..runs
  BY BoundsAssumption DEF Init
<1>9. /\ platform \in Platforms /\ style \in Styles
      /\ remarks \in Seq(Nat) /\ Len(remarks) <= MaxRemarks
  BY BoundsAssumption DEF Init
<1> QED BY <1>2, <1>5, <1>6, <1>7, <1>8, <1>9 DEF TypeOK

Start(j) == StartFromStore(j) \/ StartFromScan(j) \/ StartBlind(j)

(* What a job that starts knows, and where from.                            *)
LEMMA Started ==
  ASSUME TypeOK, NEW j \in Jobs, Start(j)
  PROVE  \E existing \in Known, scanned \in Known :
           /\ existing.id \in 0..Len(board) /\ scanned.id \in 0..Len(board)
           /\ Ready(j) /\ Begin(j, existing, scanned)
           /\ \/ /\ existing = cache /\ cache.id # 0 /\ scanned = None
                 /\ flaws' = flaws /\ missed' = missed
              \/ /\ existing = None /\ scanned \in Scan /\ flaws' = flaws
                 /\ \/ missed' = missed /\ (scanned.id # 0 \/ Live = {})
                    \/ missed' = missed + 1
              \/ /\ existing = None /\ scanned = None /\ missed' = missed
                 /\ flaws' = flaws + 1 /\ flaws + deaths < MaxFlaws
<1>1. None \in Known /\ None.id \in 0..Len(board)
  BY DEF None, Known, TypeOK
<1>2. CASE StartFromStore(j)
  BY <1>1, <1>2 DEF StartFromStore, TypeOK
<1>3. CASE StartFromScan(j)
  <2>1. PICK scanned \in Scan : Begin(j, None, scanned)
    BY <1>3 DEF StartFromScan
  <2>2. /\ missed' = IF Listed = {} /\ Live # {} THEN missed + 1 ELSE missed
        /\ flaws' = flaws /\ Ready(j)
    BY <1>3 DEF StartFromScan
  <2>3. scanned \in Known /\ scanned.id \in 0..Len(board) /\ (scanned.id = 0 => Listed = {})
    BY ScanType
  <2>4. \/ missed' = missed /\ (scanned.id # 0 \/ Live = {})
        \/ missed' = missed + 1
    BY <2>2, <2>3
  <2> QED BY <1>1, <2>1, <2>2, <2>3, <2>4
<1>4. CASE StartBlind(j)
  BY <1>1, <1>4 DEF StartBlind, May
<1> QED BY <1>2, <1>3, <1>4 DEF Start

LEMMA Replaced ==
  ASSUME TypeOK, NEW t \in DOMAIN board, NEW s \in Summaries,
         board' = [board EXCEPT ![t] = s]
  PROVE  /\ board' \in Seq(Summaries) /\ Len(board') = Len(board)
         /\ DOMAIN board' = DOMAIN board /\ board'[t] = s
         /\ \A c \in DOMAIN board : c # t => board'[c] = board[c]
         /\ \A c \in DOMAIN board : board[c] \in Summaries
BY DEF TypeOK

LEMMA Added ==
  ASSUME TypeOK, NEW s \in Summaries, board' = Append(board, s)
  PROVE  /\ board' \in Seq(Summaries) /\ Len(board') = Len(board) + 1
         /\ DOMAIN board' = DOMAIN board \cup {Len(board) + 1} /\ board'[Len(board) + 1] = s
         /\ \A c \in DOMAIN board : board'[c] = board[c] /\ c # Len(board) + 1
         /\ \A c \in DOMAIN board : board[c] \in Summaries
BY DEF TypeOK

(* A run that goes on to post has only its place changed.                   *)
LEMMA ToPost ==
  ASSUME TypeOK, NEW j \in Jobs, run' = [run EXCEPT ![j].pc = "post"],
         NEW length \in Nat, length >= Len(board)
  PROVE  /\ run' \in [Jobs -> Runs] /\ \A i \in Jobs : RunOn(run'[i], length)
         /\ \A i \in Jobs : i # j => run'[i] = run[i]
         /\ run'[j].pc = "post" /\ run'[j].phase = run[j].phase /\ run'[j].n = run[j].n
         /\ run'[j].store = run[j].store /\ run'[j].existing = run[j].existing
         /\ run'[j].scanned = run[j].scanned /\ run'[j].rev = run[j].rev
         /\ run'[j].warned = run[j].warned
<1> DEFINE r == [run[j] EXCEPT !.pc = "post"]
<1>1. run[j] \in Runs /\ RunOn(run[j], length)
  <2>1. Len(board) \in Nat
    BY DEF TypeOK
  <2>2. \A id \in 0..Len(board) : id \in 0..length
    BY <2>1
  <2> QED BY <2>2, RunType DEF RunOn
<1>2. /\ r \in Runs /\ r.pc = "post" /\ r.phase = run[j].phase /\ r.n = run[j].n
      /\ r.store = run[j].store /\ r.existing = run[j].existing
      /\ r.scanned = run[j].scanned /\ r.rev = run[j].rev
  BY <1>1 DEF Runs
<1>3. r.warned = run[j].warned
  BY <1>1 DEF Runs
<1>4. RunOn(r, length)
  BY <1>1, <1>2 DEF RunOn
<1>5. run' = [run EXCEPT ![j] = r]
  OBVIOUS
<1> HIDE DEF r
<1> QED BY <1>2, <1>3, <1>4, <1>5, OneRun

LEMMA TypeStep ==
  ASSUME TypeOK, NEW j \in Jobs, JobStep(j)
  PROVE  TypeOK'
<1>1. /\ board \in Seq(Summaries) /\ Len(board) \in Nat /\ Len(board) >= Len(board)
      /\ cache \in Known /\ cache.id \in 0..Len(board)
      /\ run \in [Jobs -> Runs] /\ \A i \in Jobs : RunOn(run[i], Len(board))
      /\ runs \in 0..MaxRuns /\ flaws \in Nat /\ deaths \in Nat
      /\ flaws + deaths <= MaxFlaws /\ overlaps \in 0..runs /\ missed \in 0..runs
      /\ remarks \in Seq(Nat) /\ Len(remarks) <= MaxRemarks
  BY RunType DEF TypeOK, RunOn
<1>2. CASE Start(j)
  <2>1. PICK existing \in Known, scanned \in Known :
           /\ existing.id \in 0..Len(board) /\ scanned.id \in 0..Len(board)
           /\ Ready(j) /\ Begin(j, existing, scanned)
           /\ \/ flaws' = flaws
              \/ flaws' = flaws + 1 /\ flaws + deaths < MaxFlaws
           /\ missed' = missed \/ missed' = missed + 1
    BY <1>2, Started, Zenon
  <2>2. UNCHANGED <<setting, remarks, board, cache, deaths>> /\ runs < MaxRuns
    BY <2>1 DEF Begin, Ready
  <2>3. flaws' + deaths' <= MaxFlaws /\ flaws' \in Nat
    BY <1>1, <2>1, <2>2, BoundsAssumption
  <2>4. /\ run' \in [Jobs -> Runs] /\ \A i \in Jobs : RunOn(run'[i], Len(board))
        /\ overlaps' \in 0..runs' /\ runs' = runs + 1
    BY <2>1, BeginType
  <2>5. runs' \in 0..MaxRuns /\ missed' \in 0..runs'
    BY <1>1, <2>1, <2>2, <2>4, BoundsAssumption
  <2> QED BY <1>1, <2>2, <2>3, <2>4, <2>5, TypeOfParts
<1>3. CASE Update(j)
  <2> DEFINE t == Target(run[j])
             s == Content(run[j])
             store == [id |-> t, rev |-> run[j].rev]
  <2>1. /\ board' = [board EXCEPT ![t] = s] /\ Done(j, store, FALSE)
        /\ UNCHANGED <<setting, remarks, missed, cache, runs, flaws, deaths, overlaps>> /\ t # 0
    BY <1>3 DEF Update, Updating
  <2>2. /\ t \in DOMAIN board /\ s \in Summaries /\ store \in Known
        /\ store.id \in 0..Len(board)
    BY <2>1, RunType DEF Known
  <2> HIDE DEF t, s, store
  <2>3. board' \in Seq(Summaries) /\ Len(board') = Len(board)
    BY <2>1, <2>2, Replaced
  <2>4. run' \in [Jobs -> Runs] /\ \A i \in Jobs : RunOn(run'[i], Len(board))
    BY <1>1, <2>1, <2>2, DoneType
  <2> QED BY <1>1, <2>1, <2>3, <2>4, TypeOfParts
<1>4. CASE UpdateDeleted(j)
  <2>1. /\ run' = [run EXCEPT ![j].pc = "post"]
        /\ UNCHANGED <<setting, remarks, missed, board, cache, runs, flaws, deaths, overlaps>>
    BY <1>4 DEF UpdateDeleted
  <2>2. run' \in [Jobs -> Runs] /\ \A i \in Jobs : RunOn(run'[i], Len(board))
    BY <1>1, <2>1, ToPost
  <2> QED BY <1>1, <2>1, <2>2, TypeOfParts
<1>5. CASE UpdateFails(j)
  <2>1. /\ run' = [run EXCEPT ![j].pc = "post"] /\ flaws' = flaws + 1
        /\ UNCHANGED <<setting, remarks, missed, cache, runs, deaths, overlaps>> /\ Target(run[j]) # 0
        /\ flaws + deaths < MaxFlaws
        /\ UNCHANGED board \/ board' = [board EXCEPT ![Target(run[j])] = Content(run[j])]
    BY <1>5 DEF UpdateFails, Updating, May
  <2>2. run' \in [Jobs -> Runs] /\ \A i \in Jobs : RunOn(run'[i], Len(board))
    BY <1>1, <2>1, ToPost
  <2>3. board' \in Seq(Summaries) /\ Len(board') = Len(board)
    BY <1>1, <2>1, RunType, Replaced
  <2>4. flaws' \in Nat /\ flaws' + deaths' <= MaxFlaws
    BY <1>1, <2>1, BoundsAssumption
  <2> QED BY <1>1, <2>1, <2>2, <2>3, <2>4, TypeOfParts
<1>6. CASE Post(j)
  <2> DEFINE s == Content(run[j])
             store == [id |-> Len(board) + 1,
                       rev |-> IF run[j].pc = "post" THEN run[j].rev + 1 ELSE run[j].rev]
  <2>1. /\ board' = Append(board, s) /\ Done(j, store, FALSE)
        /\ UNCHANGED <<setting, remarks, missed, cache, runs, flaws, deaths, overlaps>>
    BY <1>6 DEF Post
  <2>2. s \in Summaries /\ store \in Known /\ store.id \in 0..Len(board) + 1
    BY <1>1, RunType DEF Known
  <2> HIDE DEF s, store
  <2>3. board' \in Seq(Summaries) /\ Len(board') = Len(board) + 1
    BY <2>1, <2>2, Added
  <2>4. run' \in [Jobs -> Runs] /\ \A i \in Jobs : RunOn(run'[i], Len(board'))
    <3>1. /\ Len(board') \in Nat /\ Len(board') >= Len(board) /\ store.id \in 0..Len(board')
          /\ FALSE \in BOOLEAN
      BY <1>1, <2>2, <2>3
    <3> QED BY <2>1, <2>2, <3>1, DoneType
  <2>5. cache'.id \in 0..Len(board')
    BY <1>1, <2>1, <2>3
  <2> QED BY <1>1, <2>1, <2>3, <2>4, <2>5, TypeOfParts
<1>7. CASE PostFails(j)
  <2>1. /\ Done(j, run[j].store, TRUE) /\ flaws' = flaws + 1 /\ flaws + deaths < MaxFlaws
        /\ UNCHANGED <<setting, remarks, missed, cache, runs, deaths, overlaps>>
        /\ UNCHANGED board \/ board' = Append(board, Content(run[j]))
    BY <1>7 DEF PostFails, May
  <2>2. board' \in Seq(Summaries) /\ Len(board') >= Len(board) /\ Len(board') \in Nat
    BY <1>1, <2>1, RunType, Added
  <2>3. run[j].store \in Known /\ run[j].store.id \in 0..Len(board')
    BY <1>1, <2>2, RunType
  <2>4. run' \in [Jobs -> Runs] /\ \A i \in Jobs : RunOn(run'[i], Len(board'))
    BY <2>1, <2>2, <2>3, DoneType
  <2>5. flaws' \in Nat /\ flaws' + deaths' <= MaxFlaws /\ cache'.id \in 0..Len(board')
    BY <1>1, <2>1, <2>2, BoundsAssumption
  <2> QED BY <1>1, <2>1, <2>2, <2>4, <2>5, TypeOfParts
<1>8. CASE Finish(j)
  <2>1. /\ run' = [run EXCEPT ![j] = Idle(run[j].n, run[j].warned)] /\ cache' = run[j].store
        /\ UNCHANGED <<setting, remarks, missed, board, runs, flaws, deaths, overlaps>>
    BY <1>8 DEF Finish
  <2>2. RunOn(Idle(run[j].n, run[j].warned), Len(board))
    BY <1>1, RunType, IdleOn
  <2>3. run' \in [Jobs -> Runs] /\ \A i \in Jobs : RunOn(run'[i], Len(board))
    BY <1>1, <2>1, <2>2, OneRun
  <2>4. cache' \in Known /\ cache'.id \in 0..Len(board)
    BY <2>1, RunType
  <2> QED BY <1>1, <2>1, <2>3, <2>4, TypeOfParts
<1>9. CASE Crash(j)
  <2>1. /\ run' = [run EXCEPT ![j] = Idle(run[j].n, TRUE)] /\ deaths' = deaths + 1
        /\ UNCHANGED <<setting, remarks, missed, board, cache, runs, flaws, overlaps>>
        /\ flaws + deaths < MaxFlaws
    BY <1>9 DEF Crash, May
  <2>2. RunOn(Idle(run[j].n, TRUE), Len(board))
    BY <1>1, RunType, IdleOn
  <2>3. run' \in [Jobs -> Runs] /\ \A i \in Jobs : RunOn(run'[i], Len(board))
    BY <1>1, <2>1, <2>2, OneRun
  <2>4. deaths' \in Nat /\ flaws' + deaths' <= MaxFlaws
    BY <1>1, <2>1, BoundsAssumption
  <2> QED BY <1>1, <2>1, <2>3, <2>4, TypeOfParts
<1> QED BY <1>2, <1>3, <1>4, <1>5, <1>6, <1>7, <1>8, <1>9 DEF JobStep, Start

LEMMA TypeDelete ==
  ASSUME TypeOK, NEW c \in DOMAIN board, Delete(c)
  PROVE  /\ TypeOK' /\ Len(board') = Len(board)
         /\ ~ board'[c].live /\ board'[c].of = board[c].of /\ board'[c].rev = board[c].rev
         /\ board'[c].final = board[c].final
         /\ \A d \in DOMAIN board : d # c => board'[d] = board[d]
<1> DEFINE s == [board[c] EXCEPT !.live = FALSE]
<1>1. board[c] \in Summaries
  BY DEF TypeOK
<1>2. s \in Summaries /\ s.of = board[c].of /\ s.rev = board[c].rev
  BY <1>1 DEF Summaries
<1>3. s.live = FALSE /\ s.final = board[c].final
  BY <1>1 DEF Summaries
<1>4. board' = [board EXCEPT ![c] = s]
  BY DEF Delete
<1> HIDE DEF s
<1>5. /\ board' \in Seq(Summaries) /\ Len(board') = Len(board) /\ board'[c] = s
      /\ \A d \in DOMAIN board : d # c => board'[d] = board[d]
  BY <1>2, <1>4, Replaced
<1>6. UNCHANGED <<setting, remarks, missed, cache, run, runs, flaws, deaths, overlaps>>
  BY DEF Delete
<1>7. TypeOK'
  BY <1>5, <1>6 DEF TypeOK, setting
<1> QED BY <1>2, <1>3, <1>5, <1>7

LEMMA TypeRemark ==
  ASSUME TypeOK, Remark
  PROVE  TypeOK' /\ UNCHANGED <<setting, missed, board, cache, run, runs, flaws, deaths, overlaps>>
<1>1. UNCHANGED <<setting, board, cache, run, runs, flaws, deaths, overlaps, missed>>
  BY DEF Remark
<1>2. remarks' = Append(remarks, Len(board)) /\ Len(remarks) < MaxRemarks
  BY DEF Remark
<1>3. remarks \in Seq(Nat) /\ Len(board) \in Nat
  BY DEF TypeOK
<1>4. remarks' \in Seq(Nat) /\ Len(remarks') <= MaxRemarks
  BY <1>2, <1>3, BoundsAssumption
<1> QED BY <1>1, <1>4 DEF TypeOK, setting

(* No job, whatever the calls and people do, takes a value out of range.    *)
THEOREM TypeCorrect == Spec => []TypeOK
<1>1. Init => TypeOK
  BY TypeInit
<1>2. TypeOK /\ [Next]_vars => TypeOK'
  <2> SUFFICES ASSUME TypeOK, [Next]_vars PROVE TypeOK'
    OBVIOUS
  <2>1. ASSUME NEW j \in Jobs, JobStep(j) PROVE TypeOK'
    BY <2>1, TypeStep
  <2>2. ASSUME NEW c \in DOMAIN board, Delete(c) PROVE TypeOK'
    BY <2>2, TypeDelete
  <2>3. ASSUME Remark PROVE TypeOK'
    BY <2>3, TypeRemark
  <2>4. CASE UNCHANGED vars
    BY <2>4 DEF vars, setting, TypeOK
  <2> QED BY <2>1, <2>2, <2>3, <2>4 DEF Next
<1> QED BY <1>1, <1>2, PTL DEF Spec

----------------------------------------------------------------------------
(* A summary beside the known one has its cause.  The jobs at work each     *)
(* hold the summary that they are to update; what nobody holds is paid for. *)

Active == {j \in Jobs : run[j].pc # "idle"}

Held(j) ==
  IF run[j].pc = "end" THEN run[j].store.id
  ELSE IF run[j].pc = "update" THEN Target(run[j]) ELSE 0

Spare == Live \ {Held(j) : j \in Active}

Causes == flaws + deaths + overlaps + missed

Accounted ==
  /\ IsFiniteSet(Active)
  /\ Active # {} => Cardinality(Spare) + Cardinality(Active) <= 1 + Causes
  /\ Active = {} => Cardinality(Live \ {cache.id}) <= Causes

LEMMA Within ==
  ASSUME NEW S, NEW T, NEW x, IsFiniteSet(T), S \subseteq T \cup {x}
  PROVE  /\ IsFiniteSet(S) /\ Cardinality(S) \in Nat /\ Cardinality(T) \in Nat
         /\ Cardinality(S) <= Cardinality(T) + 1
<1>1. Cardinality(T) \in Nat
  BY FS_CardinalityType
<1>2. IsFiniteSet(T \cup {x}) /\ Cardinality(T \cup {x}) <= Cardinality(T) + 1
  BY <1>1, FS_AddElement
<1>3. IsFiniteSet(S) /\ Cardinality(S) <= Cardinality(T \cup {x})
  BY <1>2, FS_Subset
<1>4. Cardinality(S) \in Nat /\ Cardinality(T \cup {x}) \in Nat
  BY <1>2, <1>3, FS_CardinalityType
<1> QED BY <1>1, <1>2, <1>3, <1>4

LEMMA Inside ==
  ASSUME NEW S, NEW T, IsFiniteSet(T), S \subseteq T
  PROVE  /\ IsFiniteSet(S) /\ Cardinality(S) \in Nat /\ Cardinality(T) \in Nat
         /\ Cardinality(S) <= Cardinality(T)
BY FS_Subset, FS_CardinalityType

LEMMA LiveFinite ==
  ASSUME TypeOK
  PROVE  /\ IsFiniteSet(Live) /\ IsFiniteSet(Spare) /\ Cardinality(Spare) \in Nat
         /\ Cardinality(Live) \in Nat /\ 0 \notin Live /\ Len(board) + 1 \notin Live
         /\ \A x : IsFiniteSet(Live \ {x}) /\ Cardinality(Live \ {x}) \in Nat
         /\ Causes \in Nat
<1>1. Len(board) \in Nat /\ DOMAIN board = 1..Len(board)
  BY DEF TypeOK
<1>2. IsFiniteSet(1..Len(board)) /\ Live \subseteq 1..Len(board)
  BY <1>1, FS_Interval DEF Live
<1>3. IsFiniteSet(Live) /\ Cardinality(Live) \in Nat
  BY <1>2, Inside
<1>4. IsFiniteSet(Spare) /\ Cardinality(Spare) \in Nat
  BY <1>3, Inside DEF Spare
<1>5. \A x : IsFiniteSet(Live \ {x}) /\ Cardinality(Live \ {x}) \in Nat
  BY <1>3, Inside
<1>6. 0 \notin Live /\ Len(board) + 1 \notin Live
  BY <1>1, <1>2
<1>7. Causes \in Nat
  BY DEF Causes, TypeOK
<1> QED BY <1>3, <1>4, <1>5, <1>6, <1>7

(* What is accounted for bounds the live summaries.                         *)
LEMMA AccountedBounds ==
  ASSUME TypeOK, Accounted
  PROVE  DuplicatesHaveCause
<1>1. /\ IsFiniteSet(Live) /\ IsFiniteSet(Spare) /\ Cardinality(Live) \in Nat
      /\ Causes \in Nat
  BY LiveFinite
<1>2. CASE Active = {}
  <2>1. IsFiniteSet(Live \ {cache.id}) /\ Live \subseteq (Live \ {cache.id}) \cup {cache.id}
    BY <1>1, LiveFinite
  <2>2. /\ Cardinality(Live) <= Cardinality(Live \ {cache.id}) + 1
        /\ Cardinality(Live \ {cache.id}) \in Nat
    BY <2>1, Within
  <2>3. Cardinality(Live) <= 1 + Causes
    BY <1>1, <1>2, <2>2 DEF Accounted
  <2> QED BY <2>3 DEF Causes, TypeOK, DuplicatesHaveCause
<1>3. CASE Active # {}
  <2> DEFINE held == {Held(j) : j \in Active}
             h == [j \in Active |-> Held(j)]
  <2>1. h \in Surjection(Active, held)
    BY DEF Surjection
  <2>2. IsFiniteSet(held) /\ Cardinality(held) <= Cardinality(Active)
    <3> HIDE DEF h, held
    <3> QED BY <2>1, FS_Surjection DEF Accounted
  <2>3. Live \subseteq Spare \cup held
    BY DEF Spare
  <2> HIDE DEF held
  <2>4. IsFiniteSet(Spare \cup held) /\ Cardinality(Spare \cup held) <= Cardinality(Spare) + Cardinality(held)
    <3>1. /\ IsFiniteSet(Spare \cup held)
          /\ Cardinality(Spare \cup held) =
               Cardinality(Spare) + Cardinality(held) - Cardinality(Spare \cap held)
      BY <1>1, <2>2, FS_Union
    <3>2. Cardinality(Spare \cap held) \in Nat
      BY <1>1, Inside
    <3>3. Cardinality(Spare) \in Nat /\ Cardinality(held) \in Nat
      BY <1>1, <2>2, FS_CardinalityType
    <3> QED BY <3>1, <3>2, <3>3
  <2>5. Cardinality(Live) <= Cardinality(Spare \cup held) /\ Cardinality(Spare \cup held) \in Nat
    BY <2>3, <2>4, Inside
  <2>6. Cardinality(Spare) \in Nat /\ Cardinality(held) \in Nat /\ Cardinality(Active) \in Nat
    BY <1>1, <2>2, FS_CardinalityType DEF Accounted
  <2>7. Cardinality(Spare) + Cardinality(Active) <= 1 + Causes
    BY <1>3 DEF Accounted
  <2>8. Cardinality(Live) <= 1 + Causes
    BY <1>1, <2>2, <2>4, <2>5, <2>6, <2>7
  <2> QED BY <2>8 DEF Causes, TypeOK, DuplicatesHaveCause
<1> QED BY <1>2, <1>3

(* A job goes on: it leaves at most one summary more, and that is paid for. *)
LEMMA GoesOn ==
  ASSUME TypeOK, Causes' \in Nat, Accounted, Active # {}, Active' = Active, Causes' >= Causes,
         NEW x, Spare' \subseteq Spare \cup {x},
         Spare' \subseteq Spare \/ Causes' >= Causes + 1
  PROVE  Accounted'
<1>1. IsFiniteSet(Spare) /\ Causes \in Nat /\ Cardinality(Spare) \in Nat
  BY LiveFinite
<1>2. Causes' \in Nat
  OBVIOUS
<1>3. Cardinality(Spare') \in Nat /\ Cardinality(Spare') <= Cardinality(Spare) + 1
  BY <1>1, Within
<1>4. Spare' \subseteq Spare => Cardinality(Spare') <= Cardinality(Spare)
  BY <1>1, Inside
<1>5. Cardinality(Active) \in Nat
  BY FS_CardinalityType DEF Accounted
<1>6. Cardinality(Spare) + Cardinality(Active) <= 1 + Causes
  BY DEF Accounted
<1>7. Cardinality(Spare') + Cardinality(Active) <= 1 + Causes'
  BY <1>1, <1>2, <1>3, <1>4, <1>5, <1>6
<1> QED BY <1>7 DEF Accounted

(* A job ends: what it held is left over, or is what the CI saves.          *)
LEMMA Leaves ==
  ASSUME TypeOK, Causes' \in Nat, Accounted, NEW j \in Active, Active' = Active \ {j},
         Live' = Live, \A i \in Active' : Held(i)' = Held(i), Causes' >= Causes,
         \/ Causes' >= Causes + 1
         \/ Live \ {cache'.id} \subseteq Live \ {Held(j)}
  PROVE  Accounted'
<1>1. IsFiniteSet(Spare) /\ Causes \in Nat /\ Cardinality(Spare) \in Nat
  BY LiveFinite
<1>2. Causes' \in Nat
  OBVIOUS
<1>3. /\ IsFiniteSet(Active') /\ Cardinality(Active') = Cardinality(Active) - 1
      /\ Cardinality(Active) \in Nat
  BY FS_RemoveElement, FS_CardinalityType DEF Accounted
<1>4. Cardinality(Spare) + Cardinality(Active) <= 1 + Causes
  BY DEF Accounted
<1>5. CASE Active' # {}
  <2>1. Spare' \subseteq Spare \cup {Held(j)}
    BY DEF Spare
  <2>2. Cardinality(Spare') \in Nat /\ Cardinality(Spare') <= Cardinality(Spare) + 1
    BY <1>1, <2>1, Within
  <2>3. Cardinality(Spare') + Cardinality(Active') <= 1 + Causes'
    BY <1>1, <1>2, <1>3, <1>4, <2>2
  <2> QED BY <1>3, <1>5, <2>3 DEF Accounted
<1>6. CASE Active' = {}
  <2>1. Active = {j} /\ Spare = Live \ {Held(j)}
    BY <1>6 DEF Spare
  <2>2. Cardinality(Active) = 1
    BY <2>1, FS_Singleton
  <2>3. Cardinality(Spare) <= Causes
    BY <1>1, <1>4, <2>2
  <2>4. Cardinality(Live \ {cache'.id}) <= Causes'
    <3>1. CASE Causes' >= Causes + 1
      <4>1. Live \ {cache'.id} \subseteq Spare \cup {Held(j)}
        BY <2>1
      <4>2. /\ Cardinality(Live \ {cache'.id}) <= Cardinality(Spare) + 1
            /\ Cardinality(Live \ {cache'.id}) \in Nat
        BY <1>1, <4>1, Within
      <4> QED BY <1>1, <1>2, <2>3, <3>1, <4>2
    <3>2. CASE Live \ {cache'.id} \subseteq Live \ {Held(j)}
      <4>1. /\ Cardinality(Live \ {cache'.id}) <= Cardinality(Spare)
            /\ Cardinality(Live \ {cache'.id}) \in Nat
        BY <1>1, <2>1, <3>2, Inside
      <4> QED BY <1>1, <1>2, <2>3, <4>1
    <3> QED BY <3>1, <3>2
  <2> QED BY <1>3, <1>6, <2>4 DEF Accounted
<1> QED BY <1>5, <1>6

(* A job starts beside others, which counts as a cause, or alone.           *)
LEMMA Joins ==
  ASSUME TypeOK, Causes' \in Nat, Accounted, NEW j \in Jobs, j \notin Active,
         Active' = Active \cup {j}, Live' = Live, \A i \in Active : Held(i)' = Held(i),
         Causes' >= Causes,
         Active # {} => Causes' >= Causes + 1,
         \/ Held(j)' = cache.id
         \/ Held(j)' \in Live \/ Live = {}
         \/ Causes' >= Causes + 1
  PROVE  Accounted'
<1>1. IsFiniteSet(Spare) /\ Causes \in Nat /\ Cardinality(Spare) \in Nat
  BY LiveFinite
<1>2. Causes' \in Nat
  OBVIOUS
<1>3. /\ IsFiniteSet(Active') /\ Cardinality(Active') = Cardinality(Active) + 1
      /\ Cardinality(Active) \in Nat
  BY FS_AddElement, FS_CardinalityType DEF Accounted
<1>4. Spare' = Spare \ {Held(j)'}
  BY DEF Spare
<1>5. Cardinality(Spare') \in Nat /\ Cardinality(Spare') <= Cardinality(Spare)
  BY <1>1, <1>4, Inside
<1>6. Cardinality(Spare') + Cardinality(Active') <= 1 + Causes'
  <2>1. CASE Active # {}
    <3>1. Cardinality(Spare) + Cardinality(Active) <= 1 + Causes
      BY <2>1 DEF Accounted
    <3> QED BY <1>1, <1>2, <1>3, <1>5, <2>1, <3>1
  <2>2. CASE Active = {}
    <3>1. Cardinality(Active) = 0 /\ Spare = Live
      BY <2>2, FS_EmptySet DEF Spare
    <3>2. /\ Cardinality(Live \ {cache.id}) <= Causes /\ IsFiniteSet(Live \ {cache.id})
          /\ Cardinality(Live \ {cache.id}) \in Nat
      BY <2>2, LiveFinite DEF Accounted
    <3>3. Live \subseteq (Live \ {cache.id}) \cup {cache.id}
      OBVIOUS
    <3>4. Cardinality(Live) <= 1 + Causes
      <4>1. Cardinality(Live) <= Cardinality(Live \ {cache.id}) + 1 /\ Cardinality(Live) \in Nat
        BY <3>2, <3>3, Within
      <4> QED BY <1>1, <3>2, <4>1
    <3>5. Cardinality(Spare') <= Causes'
      <4>1. CASE Held(j)' = cache.id
        BY <1>1, <1>2, <1>4, <3>1, <3>2, <4>1
      <4>2. CASE Held(j)' \in Live
        <5>1. Cardinality(Live \ {Held(j)'}) = Cardinality(Live) - 1
          BY <4>2, LiveFinite, FS_RemoveElement
        <5> QED BY <1>1, <1>2, <1>4, <3>1, <3>4, <5>1, LiveFinite
      <4>3. CASE Live = {}
        <5>1. Spare' = {}
          BY <1>4, <3>1, <4>3
        <5> QED BY <1>2, <5>1, FS_EmptySet
      <4>4. CASE Causes' >= Causes + 1
        BY <1>1, <1>2, <1>5, <3>1, <3>4, <4>4
      <4> QED BY <4>1, <4>2, <4>3, <4>4
    <3> QED BY <1>2, <1>3, <1>5, <3>1, <3>5
  <2> QED BY <2>1, <2>2
<1> QED BY <1>3, <1>6 DEF Accounted

LEMMA HeldKept ==
  ASSUME NEW i \in Jobs, run'[i] = run[i]
  PROVE  Held(i)' = Held(i)
BY DEF Held, Target

LEMMA ActiveStep ==
  ASSUME TypeOK, NEW j \in Jobs, \A i \in Jobs : i # j => run'[i] = run[i]
  PROVE  /\ \A i \in Jobs : i # j => Held(i)' = Held(i) /\ (i \in Active' <=> i \in Active)
         /\ run'[j].pc # "idle" /\ j \in Active => Active' = Active
         /\ run'[j].pc # "idle" => Active' = Active \cup {j}
         /\ run'[j].pc = "idle" => Active' = Active \ {j}
<1>1. \A i \in Jobs : i # j => Held(i)' = Held(i)
  BY HeldKept
<1>2. Active' = {i \in Jobs : run'[i].pc # "idle"}
  BY DEF Active
<1> QED BY <1>1, <1>2 DEF Active

(* Only what is on the board decides which summaries are live.              *)
LEMMA LiveStep ==
  ASSUME TypeOK
  PROVE  /\ board' = board => Live' = Live
         /\ \A t \in DOMAIN board, s \in Summaries :
              board' = [board EXCEPT ![t] = s] => Live' \subseteq Live \cup {t}
         /\ \A s \in Summaries :
              board' = Append(board, s) => Live' \subseteq Live \cup {Len(board) + 1}
<1>1. ASSUME NEW t \in DOMAIN board, NEW s \in Summaries, board' = [board EXCEPT ![t] = s]
      PROVE  Live' \subseteq Live \cup {t}
  <2>1. /\ DOMAIN board' = DOMAIN board
        /\ \A c \in DOMAIN board : c # t => board'[c] = board[c]
    BY <1>1, Replaced
  <2> QED BY <2>1 DEF Live
<1>2. ASSUME NEW s \in Summaries, board' = Append(board, s)
      PROVE  Live' \subseteq Live \cup {Len(board) + 1}
  <2>1. /\ DOMAIN board' = DOMAIN board \cup {Len(board) + 1}
        /\ \A c \in DOMAIN board : board'[c] = board[c]
    BY <1>2, Added
  <2> QED BY <2>1 DEF Live
<1> QED BY <1>1, <1>2 DEF Live

LEMMA Sums ==
  ASSUME NEW a \in Nat, NEW b \in Nat, NEW c \in Nat, NEW d \in Nat,
         NEW e \in Nat, NEW f \in Nat, NEW g \in Nat, NEW h \in Nat,
         e >= a, f >= b, g >= c, h >= d
  PROVE  /\ e + f + g + h \in Nat /\ e + f + g + h >= a + b + c + d
         /\ (e = a + 1 \/ f = b + 1 \/ g = c + 1 \/ h = d + 1) =>
              e + f + g + h >= (a + b + c + d) + 1
<1>1. e + f + g + h \in Nat /\ e + f + g + h >= a + b + c + d
  OBVIOUS
<1>2. ASSUME e = a + 1 \/ f = b + 1 \/ g = c + 1 \/ h = d + 1
      PROVE  e + f + g + h >= (a + b + c + d) + 1
  BY <1>2
<1> QED BY <1>1, <1>2

LEMMA AccountedStep ==
  ASSUME TypeOK, TypeOK', Accounted, NEW j \in Jobs, JobStep(j)
  PROVE  Accounted'
<1>1. /\ run \in [Jobs -> Runs] /\ run[j] \in Runs /\ Len(board) \in Nat
      /\ Len(board) >= Len(board) /\ flaws \in Nat /\ deaths \in Nat /\ overlaps \in Nat
      /\ missed \in Nat
  BY DEF TypeOK
<1>2. Causes \in Nat /\ 0 \notin Live
  BY LiveFinite
<1>3. run[j].pc # "idle" <=> j \in Active
  BY DEF Active
<1>4. CASE Start(j)
  <2>1. PICK existing \in Known, scanned \in Known :
           /\ existing.id \in 0..Len(board) /\ scanned.id \in 0..Len(board)
           /\ Ready(j) /\ Begin(j, existing, scanned)
           /\ \/ /\ existing = cache /\ cache.id # 0 /\ scanned = None
                 /\ flaws' = flaws /\ missed' = missed
              \/ /\ existing = None /\ scanned \in Scan /\ flaws' = flaws
                 /\ \/ missed' = missed /\ (scanned.id # 0 \/ Live = {})
                    \/ missed' = missed + 1
              \/ /\ existing = None /\ scanned = None /\ missed' = missed
                 /\ flaws' = flaws + 1 /\ flaws + deaths < MaxFlaws
    BY <1>4, Started
  <2>2. /\ board' = board /\ deaths' = deaths /\ run[j].pc = "idle"
        /\ overlaps' = IF Active # {} THEN overlaps + 1 ELSE overlaps
    BY <2>1 DEF Begin, Ready, Active
  <2>3. run'[j] = Begun(existing, scanned) /\ \A i \in Jobs : i # j => run'[i] = run[i]
    BY <2>1, BeginType
  <2>4. /\ run'[j].pc = "update" /\ run'[j].existing = existing
        /\ run'[j].scanned = scanned
    BY <2>3 DEF Begun
  <2>5. Held(j)' = IF existing.id # 0 THEN existing.id ELSE scanned.id
    BY <2>4 DEF Held, Target
  <2>6. /\ Active' = Active \cup {j} /\ j \notin Active /\ Live' = Live
        /\ \A i \in Active : Held(i)' = Held(i)
    BY <1>3, <2>2, <2>3, <2>4, ActiveStep, LiveStep DEF Active
  <2>7. /\ Causes' \in Nat /\ Causes' >= Causes
        /\ Active # {} => Causes' >= Causes + 1
        /\ flaws' = flaws + 1 \/ missed' = missed + 1 => Causes' >= Causes + 1
    <3>1. /\ flaws' = flaws \/ flaws' = flaws + 1
          /\ missed' = missed \/ missed' = missed + 1
      BY <2>1
    <3>2. /\ overlaps' = overlaps \/ overlaps' = overlaps + 1
          /\ Active # {} => overlaps' = overlaps + 1
          /\ deaths' = deaths
      BY <2>2
    <3>3. /\ flaws \in Nat /\ missed \in Nat /\ overlaps \in Nat /\ deaths \in Nat
          /\ flaws' \in Nat /\ missed' \in Nat /\ overlaps' \in Nat
      BY <1>1, <3>1, <3>2
    <3>4. Causes' = flaws' + deaths' + overlaps' + missed'
      BY DEF Causes
    <3>5. Causes = flaws + deaths + overlaps + missed
      BY DEF Causes
    <3>6. /\ flaws' >= flaws /\ missed' >= missed /\ overlaps' >= overlaps
          /\ deaths' \in Nat /\ deaths' >= deaths
      BY <3>1, <3>2, <3>3
    <3>7. Causes' \in Nat /\ Causes' >= Causes
      BY <3>3, <3>4, <3>5, <3>6, Sums
    <3>8. flaws' = flaws + 1 \/ missed' = missed + 1 \/ overlaps' = overlaps + 1
            => Causes' >= Causes + 1
      BY <3>3, <3>4, <3>5, <3>6, Sums
    <3> QED BY <3>2, <3>7, <3>8
  <2>8. \/ Held(j)' = cache.id
        \/ Held(j)' \in Live \/ Live = {}
        \/ Causes' >= Causes + 1
    <3>1. CASE existing = cache /\ cache.id # 0
      BY <2>5, <3>1
    <3>2. CASE existing = None /\ scanned \in Scan
      <4>1. Held(j)' = scanned.id
        BY <2>5, <3>2 DEF None
      <4>2. scanned.id # 0 => scanned.id \in Live
        BY <3>2, ScanType
      <4> QED BY <2>1, <2>7, <3>1, <3>2, <4>1, <4>2
    <3>3. CASE flaws' = flaws + 1
      BY <2>7, <3>3
    <3> QED BY <2>1, <3>1, <3>2, <3>3
  <2> QED BY <2>6, <2>7, <2>8, Joins
<1>5. CASE Update(j)
  <2> DEFINE t == Target(run[j])
             s == Content(run[j])
             store == [id |-> t, rev |-> run[j].rev]
  <2>1. /\ board' = [board EXCEPT ![t] = s] /\ Done(j, store, FALSE) /\ t # 0
        /\ UNCHANGED <<flaws, deaths, overlaps, missed>> /\ board[t].live /\ run[j].pc = "update"
    BY <1>5 DEF Update, Updating
  <2>2. /\ t \in DOMAIN board /\ s \in Summaries /\ store \in Known
        /\ store.id \in 0..Len(board) /\ FALSE \in BOOLEAN
    BY <2>1, RunType DEF Known
  <2>3. store.id = t /\ Held(j) = t /\ Known = Known
    BY <2>1 DEF Held
  <2>4. t \in Live
    BY <2>1, <2>2 DEF Live
  <2> HIDE DEF t, s, store
  <2>5. /\ \A i \in Jobs : i # j => run'[i] = run[i]
        /\ run'[j].store = store
        /\ \/ run'[j].pc = "update" /\ run'[j].existing = store
           \/ run'[j].pc = "end"
    BY <1>1, <2>1, <2>2, DoneType
  <2>6. Held(j)' = t /\ run'[j].pc # "idle"
    BY <2>1, <2>3, <2>5 DEF Held, Target
  <2>7. Live' \subseteq Live
    BY <2>1, <2>2, <2>4, LiveStep
  <2>8. Active' = Active /\ Active # {} /\ \A i \in Active : Held(i)' = Held(i)
    BY <1>3, <2>1, <2>3, <2>5, <2>6, ActiveStep DEF Active
  <2>9. Spare' \subseteq Spare
    BY <2>7, <2>8 DEF Spare
  <2>10. Causes' = Causes
    BY <2>1 DEF Causes
  <2> QED BY <1>2, <2>8, <2>9, <2>10, GoesOn
<1>6. CASE UpdateDeleted(j)
  <2>1. /\ run' = [run EXCEPT ![j].pc = "post"] /\ board' = board
        /\ UNCHANGED <<flaws, deaths, overlaps, missed>> /\ run[j].pc = "update"
        /\ ~ board[Target(run[j])].live
    BY <1>6 DEF UpdateDeleted, Updating
  <2>2. /\ \A i \in Jobs : i # j => run'[i] = run[i]
        /\ run'[j].pc = "post"
    BY <1>1, <2>1, ToPost
  <2>3. Held(j) = Target(run[j]) /\ Held(j) \notin Live
    BY <2>1 DEF Held, Live
  <2>4. Active' = Active /\ Active # {} /\ Live' = Live
    BY <1>3, <2>1, <2>2, ActiveStep, LiveStep
  <2>5. \A i \in Active : i # j => Held(i)' = Held(i)
    BY <2>2, ActiveStep DEF Active
  <2>6. Spare' \subseteq Spare
    BY <2>3, <2>4, <2>5 DEF Spare
  <2>7. Causes' = Causes
    BY <2>1 DEF Causes
  <2> QED BY <1>2, <2>4, <2>6, <2>7, GoesOn
<1>7. CASE UpdateFails(j)
  <2> DEFINE t == Target(run[j])
  <2>1. /\ run' = [run EXCEPT ![j].pc = "post"] /\ flaws' = flaws + 1
        /\ UNCHANGED <<deaths, overlaps, missed>> /\ t # 0 /\ run[j].pc = "update"
        /\ \/ board' = board
           \/ board[t].live /\ board' = [board EXCEPT ![t] = Content(run[j])]
    BY <1>7 DEF UpdateFails, Updating
  <2>2. /\ \A i \in Jobs : i # j => run'[i] = run[i]
        /\ run'[j].pc = "post"
    BY <1>1, <2>1, ToPost
  <2>3. t \in DOMAIN board /\ Content(run[j]) \in Summaries /\ Held(j) = t
    BY <2>1, RunType DEF Held
  <2> HIDE DEF t
  <2>4. Live' \subseteq Live
    <3>1. CASE board' = board
      BY <3>1, LiveStep
    <3>2. CASE board[t].live /\ board' = [board EXCEPT ![t] = Content(run[j])]
      <4>1. t \in Live
        BY <2>3, <3>2 DEF Live
      <4> QED BY <2>3, <3>2, <4>1, LiveStep
    <3> QED BY <2>1, <3>1, <3>2
  <2>5. Active' = Active /\ Active # {}
    BY <1>3, <2>1, <2>2, ActiveStep
  <2>6. \A i \in Active : i # j => Held(i)' = Held(i)
    BY <2>2, ActiveStep DEF Active
  <2>7. Spare' \subseteq Spare \cup {t}
    BY <2>3, <2>4, <2>5, <2>6 DEF Spare
  <2>8. Causes' = Causes + 1
    BY <1>1, <2>1 DEF Causes
  <2>9. Causes' \in Nat /\ Causes' >= Causes /\ Causes' >= Causes + 1
    BY <1>2, <2>8
  <2> QED BY <2>5, <2>7, <2>9, GoesOn
<1>8. CASE Post(j)
  <2> DEFINE s == Content(run[j])
             store == [id |-> Len(board) + 1,
                       rev |-> IF run[j].pc = "post" THEN run[j].rev + 1 ELSE run[j].rev]
  <2>1. /\ board' = Append(board, s) /\ Done(j, store, FALSE)
        /\ UNCHANGED <<flaws, deaths, overlaps, missed>>
        /\ run[j].pc = "post" \/ (run[j].pc = "update" /\ Target(run[j]) = 0)
    BY <1>8 DEF Post, Posting
  <2>2. /\ s \in Summaries /\ store \in Known /\ store.id \in 0..Len(board) + 1
        /\ FALSE \in BOOLEAN /\ Len(board) + 1 \in Nat /\ Len(board) + 1 >= Len(board)
    BY <1>1, RunType DEF Known
  <2>3. store.id = Len(board) + 1 /\ store.id # 0 /\ Held(j) = 0
    BY <1>1, <2>1 DEF Held
  <2> HIDE DEF s, store
  <2>4. /\ \A i \in Jobs : i # j => run'[i] = run[i]
        /\ run'[j].store = store
        /\ \/ run'[j].pc = "update" /\ run'[j].existing = store
           \/ run'[j].pc = "end"
    BY <2>1, <2>2, DoneType
  <2>5. Held(j)' = store.id /\ run'[j].pc # "idle"
    BY <2>3, <2>4 DEF Held, Target
  <2>6. Live' \subseteq Live \cup {store.id}
    BY <2>1, <2>2, <2>3, LiveStep
  <2>7. Active' = Active /\ j \in Active
    BY <1>3, <2>1, <2>4, <2>5, ActiveStep
  <2>8. \A i \in Active : i # j => Held(i)' = Held(i)
    BY <2>4, ActiveStep DEF Active
  <2>9. Spare' \subseteq Spare
    BY <1>2, <2>3, <2>5, <2>6, <2>7, <2>8 DEF Spare
  <2>10. Causes' = Causes
    BY <2>1 DEF Causes
  <2> QED BY <1>2, <2>7, <2>9, <2>10, GoesOn
<1>9. CASE PostFails(j)
  <2>1. /\ Done(j, run[j].store, TRUE) /\ flaws' = flaws + 1
        /\ UNCHANGED <<deaths, overlaps, missed>>
        /\ board' = board \/ board' = Append(board, Content(run[j]))
        /\ run[j].pc = "post" \/ (run[j].pc = "update" /\ Target(run[j]) = 0)
    BY <1>9 DEF PostFails, Posting
  <2>2. /\ Content(run[j]) \in Summaries /\ run[j].store \in Known
        /\ run[j].store.id \in 0..Len(board) /\ TRUE \in BOOLEAN
    BY RunType
  <2>3. Held(j) = 0
    BY <2>1 DEF Held
  <2>4. (\A i \in Jobs : i # j => run'[i] = run[i]) /\ run'[j].pc # "idle"
    BY <1>1, <2>1, <2>2, DoneType
  <2>5. Live' \subseteq Live \cup {Len(board) + 1}
    BY <2>1, <2>2, LiveStep
  <2>6. Active' = Active /\ j \in Active
    BY <1>3, <2>1, <2>4, ActiveStep
  <2>7. \A i \in Active : i # j => Held(i)' = Held(i)
    BY <2>4, ActiveStep DEF Active
  <2>8. Spare' \subseteq Spare \cup {Len(board) + 1}
    BY <1>2, <2>3, <2>5, <2>6, <2>7 DEF Spare
  <2>9. Causes' \in Nat /\ Causes' >= Causes /\ Causes' >= Causes + 1
    BY <1>1, <2>1 DEF Causes
  <2> QED BY <2>6, <2>8, <2>9, GoesOn
<1>10. CASE Finish(j)
  <2>1. /\ run' = [run EXCEPT ![j] = Idle(run[j].n, run[j].warned)] /\ cache' = run[j].store
        /\ UNCHANGED <<board, flaws, deaths, overlaps, missed>> /\ run[j].pc = "end"
    BY <1>10 DEF Finish
  <2>2. /\ RunOn(Idle(run[j].n, run[j].warned), Len(board))
        /\ Idle(run[j].n, run[j].warned).pc = "idle"
    BY <1>1, RunType, IdleOn
  <2>3. run'[j].pc = "idle" /\ \A i \in Jobs : i # j => run'[i] = run[i]
    BY <1>1, <2>1, <2>2
  <2>4. Active' = Active \ {j} /\ j \in Active /\ Live' = Live
    BY <1>3, <2>1, <2>3, ActiveStep, LiveStep
  <2>5. \A i \in Active' : Held(i)' = Held(i)
    BY <2>3, <2>4, ActiveStep DEF Active
  <2>6. Held(j) = cache'.id
    BY <2>1 DEF Held
  <2>7. Causes' = Causes
    BY <2>1 DEF Causes
  <2> QED BY <1>2, <2>4, <2>5, <2>6, <2>7, Leaves
<1>11. CASE Crash(j)
  <2>1. /\ run' = [run EXCEPT ![j] = Idle(run[j].n, TRUE)] /\ deaths' = deaths + 1
        /\ UNCHANGED <<board, flaws, overlaps, missed>> /\ run[j].pc # "idle"
    BY <1>11 DEF Crash
  <2>2. Idle(run[j].n, TRUE).pc = "idle"
    BY <1>1, RunType, IdleOn
  <2>3. run'[j].pc = "idle" /\ \A i \in Jobs : i # j => run'[i] = run[i]
    BY <1>1, <2>1, <2>2
  <2>4. Active' = Active \ {j} /\ j \in Active /\ Live' = Live
    BY <1>3, <2>1, <2>3, ActiveStep, LiveStep
  <2>5. \A i \in Active' : Held(i)' = Held(i)
    BY <2>3, <2>4, ActiveStep DEF Active
  <2>6. Causes' \in Nat /\ Causes' >= Causes /\ Causes' >= Causes + 1
    BY <1>1, <2>1 DEF Causes
  <2> QED BY <2>4, <2>5, <2>6, Leaves
<1> QED BY <1>4, <1>5, <1>6, <1>7, <1>8, <1>9, <1>10, <1>11 DEF JobStep, Start

LEMMA AccountedDelete ==
  ASSUME TypeOK, TypeOK', Accounted, NEW c \in DOMAIN board, Delete(c)
  PROVE  Accounted'
<1>1. UNCHANGED <<cache, run, flaws, deaths, overlaps, missed>>
  BY DEF Delete
<1>2. Live' \subseteq Live
  <2>1. /\ Len(board') = Len(board) /\ ~ board'[c].live
        /\ \A d \in DOMAIN board : d # c => board'[d] = board[d]
    BY TypeDelete
  <2>2. DOMAIN board' = DOMAIN board
    BY <2>1 DEF TypeOK
  <2> QED BY <2>1, <2>2 DEF Live
<1>3. Active' = Active /\ Causes' = Causes /\ \A i \in Jobs : Held(i)' = Held(i)
  BY <1>1 DEF Active, Causes, Held, Target
<1>4. Spare' \subseteq Spare
  BY <1>2, <1>3 DEF Spare, Active
<1>5. Causes \in Nat
  BY LiveFinite
<1>6. CASE Active # {}
  BY <1>3, <1>4, <1>5, <1>6, GoesOn
<1>7. CASE Active = {}
  <2>1. /\ IsFiniteSet(Live \ {cache.id}) /\ Cardinality(Live \ {cache.id}) <= Causes
    BY <1>7, LiveFinite DEF Accounted
  <2>2. Live' \ {cache'.id} \subseteq Live \ {cache.id}
    BY <1>1, <1>2
  <2>3. Cardinality(Live' \ {cache'.id}) <= Causes
    <3>1. /\ Cardinality(Live' \ {cache'.id}) <= Cardinality(Live \ {cache.id})
          /\ Cardinality(Live' \ {cache'.id}) \in Nat
          /\ Cardinality(Live \ {cache.id}) \in Nat
      BY <2>1, <2>2, Inside
    <3> QED BY <1>5, <2>1, <3>1
  <2> QED BY <1>3, <1>7, <2>3 DEF Accounted
<1> QED BY <1>6, <1>7

(* However many reviews run, die, overlap, fail or do not find the summary, *)
(* and whatever people delete and write, each summary beside the first has  *)
(* a cause of its own.                                                      *)
THEOREM DuplicatesAccounted == Spec => []DuplicatesHaveCause
<1>1. Init => TypeOK /\ Accounted
  <2> SUFFICES ASSUME Init PROVE TypeOK /\ Accounted
    OBVIOUS
  <2>1. TypeOK
    BY TypeInit
  <2>2. Active = {} /\ Live = {} /\ Causes = 0
    BY DEF Init, Active, Live, Causes, Idle
  <2>3. Live \ {cache.id} = {}
    BY <2>2
  <2> QED BY <2>1, <2>2, <2>3, FS_EmptySet DEF Accounted
<1>2. TypeOK /\ Accounted /\ [Next]_vars => (TypeOK /\ Accounted)'
  <2> SUFFICES ASSUME TypeOK, Accounted, [Next]_vars PROVE TypeOK' /\ Accounted'
    OBVIOUS
  <2>1. ASSUME NEW j \in Jobs, JobStep(j) PROVE TypeOK' /\ Accounted'
    BY <2>1, TypeStep, AccountedStep
  <2>2. ASSUME NEW c \in DOMAIN board, Delete(c) PROVE TypeOK' /\ Accounted'
    BY <2>2, TypeDelete, AccountedDelete
  <2>3. CASE UNCHANGED vars \/ Remark
    <3>1. TypeOK' /\ UNCHANGED <<missed, board, cache, run, flaws, deaths, overlaps>>
      BY <2>3, TypeRemark DEF vars, setting, TypeOK
    <3>2. Accounted'
      BY <3>1 DEF Accounted, Active, Spare, Live, Held, Target, Causes
    <3> QED BY <3>1, <3>2
  <2> QED BY <2>1, <2>2, <2>3 DEF Next
<1>3. TypeOK /\ Accounted => DuplicatesHaveCause
  BY AccountedBounds
<1> QED BY <1>1, <1>2, <1>3, PTL DEF Spec

----------------------------------------------------------------------------
(* What each step does, in the form that the other invariants need          *)

(* The run of j after the summary of its phase is written, or given up.     *)
After(j, store) ==
  /\ \A i \in Jobs : i # j => run'[i] = run[i]
  /\ run'[j].n = run[j].n /\ run'[j].rev = run[j].rev /\ run'[j].scanned = run[j].scanned
  /\ run'[j].store = store
  /\ \/ run[j].phase = "preliminary" /\ run'[j].pc = "update" /\ run'[j].existing = store
     \/ run[j].phase = "final" /\ run'[j].pc = "end"

LEMMA UpdateEffect ==
  ASSUME TypeOK, NEW j \in Jobs, Update(j)
  PROVE  LET t == Target(run[j]) IN
         /\ t # 0 /\ t \in DOMAIN board /\ run[j].pc = "update"
         /\ DOMAIN board' = DOMAIN board /\ board'[t] = Content(run[j])
         /\ \A c \in DOMAIN board : c # t => board'[c] = board[c]
         /\ After(j, [id |-> t, rev |-> run[j].rev])
         /\ UNCHANGED <<cache, runs, flaws, deaths, overlaps, missed>>
<1> DEFINE t == Target(run[j])
           s == Content(run[j])
           store == [id |-> t, rev |-> run[j].rev]
<1>1. /\ board' = [board EXCEPT ![t] = s] /\ Done(j, store, FALSE) /\ t # 0
      /\ UNCHANGED <<cache, runs, flaws, deaths, overlaps, missed>> /\ run[j].pc = "update"
  BY DEF Update, Updating
<1>2. /\ t \in DOMAIN board /\ s \in Summaries /\ store \in Known
      /\ store.id \in 0..Len(board) /\ FALSE \in BOOLEAN
      /\ Len(board) \in Nat /\ Len(board) >= Len(board)
  BY <1>1, RunType DEF Known, TypeOK
<1> HIDE DEF t, s, store
<1>3. /\ DOMAIN board' = DOMAIN board /\ board'[t] = s
      /\ \A c \in DOMAIN board : c # t => board'[c] = board[c]
  BY <1>1, <1>2, Replaced
<1>4. After(j, store)
  BY <1>1, <1>2, DoneType DEF After
<1> QED BY <1>1, <1>2, <1>3, <1>4 DEF t, s, store

LEMMA PostEffect ==
  ASSUME TypeOK, NEW j \in Jobs, Post(j)
  PROVE  LET new == Len(board) + 1
             rev == IF run[j].pc = "post" THEN run[j].rev + 1 ELSE run[j].rev IN
         /\ run[j].pc \in {"update", "post"}
         /\ DOMAIN board' = DOMAIN board \cup {new} /\ board'[new] = Content(run[j])
         /\ \A c \in DOMAIN board : board'[c] = board[c] /\ c # new
         /\ After(j, [id |-> new, rev |-> rev])
         /\ UNCHANGED <<cache, runs, flaws, deaths, overlaps, missed>>
<1> DEFINE s == Content(run[j])
           store == [id |-> Len(board) + 1,
                     rev |-> IF run[j].pc = "post" THEN run[j].rev + 1 ELSE run[j].rev]
<1>1. /\ board' = Append(board, s) /\ Done(j, store, FALSE)
      /\ UNCHANGED <<cache, runs, flaws, deaths, overlaps, missed>>
      /\ run[j].pc \in {"update", "post"}
  BY DEF Post, Posting
<1>2. /\ s \in Summaries /\ store \in Known /\ store.id \in 0..Len(board) + 1
      /\ FALSE \in BOOLEAN /\ Len(board) + 1 \in Nat /\ Len(board) + 1 >= Len(board)
  <2>1. Len(board) \in Nat
    BY DEF TypeOK
  <2> QED BY <2>1, RunType DEF Known
<1> HIDE DEF s, store
<1>3. /\ DOMAIN board' = DOMAIN board \cup {Len(board) + 1} /\ board'[Len(board) + 1] = s
      /\ \A c \in DOMAIN board : board'[c] = board[c] /\ c # Len(board) + 1
  BY <1>1, <1>2, Added
<1>4. After(j, store)
  BY <1>1, <1>2, DoneType DEF After
<1> QED BY <1>1, <1>3, <1>4 DEF s, store

LEMMA PostFailsEffect ==
  ASSUME TypeOK, NEW j \in Jobs, PostFails(j)
  PROVE  /\ run[j].pc \in {"update", "post"} /\ DOMAIN board \subseteq DOMAIN board'
         /\ \A c \in DOMAIN board : board'[c] = board[c]
         /\ After(j, run[j].store) /\ flaws' = flaws + 1
         /\ run'[j].pc = "end" => run'[j].warned
         /\ UNCHANGED <<cache, runs, deaths, overlaps>>
<1>1. /\ Done(j, run[j].store, TRUE) /\ flaws' = flaws + 1
      /\ UNCHANGED <<cache, runs, deaths, overlaps>>
      /\ board' = board \/ board' = Append(board, Content(run[j]))
      /\ run[j].pc \in {"update", "post"}
  BY DEF PostFails, Posting
<1>2. /\ Content(run[j]) \in Summaries /\ run[j].store \in Known
      /\ run[j].store.id \in 0..Len(board) /\ TRUE \in BOOLEAN
      /\ Len(board) \in Nat /\ Len(board) >= Len(board)
  BY RunType DEF TypeOK
<1>3. /\ DOMAIN board \subseteq DOMAIN board'
      /\ \A c \in DOMAIN board : board'[c] = board[c]
  BY <1>1, <1>2, Added
<1>4. After(j, run[j].store)
  BY <1>1, <1>2, DoneType DEF After
<1>5. run'[j].pc = "end" => run'[j].warned
  <2> DEFINE first == [run[j] EXCEPT !.pc = "update", !.phase = "final",
                                    !.store = run[j].store, !.existing = run[j].store]
             last == [run[j] EXCEPT !.pc = "end", !.store = run[j].store, !.warned = TRUE]
  <2>1. run[j] \in Runs /\ run \in [Jobs -> Runs]
    BY DEF TypeOK
  <2>2. run' = [run EXCEPT ![j] = IF run[j].phase = "preliminary" THEN first ELSE last]
    BY <1>1 DEF Done
  <2>3. first.pc = "update" /\ last.warned = TRUE
    BY <2>1 DEF Runs
  <2> HIDE DEF first, last
  <2>4. run'[j] = first \/ run'[j] = last
    BY <2>1, <2>2
  <2> QED BY <2>3, <2>4
<1> QED BY <1>1, <1>3, <1>4, <1>5

LEMMA UpdateFailsEffect ==
  ASSUME TypeOK, NEW j \in Jobs, UpdateFails(j) \/ UpdateDeleted(j)
  PROVE  LET t == Target(run[j]) IN
         /\ run[j].pc = "update" /\ t # 0 /\ t \in DOMAIN board /\ DOMAIN board' = DOMAIN board
         /\ \A c \in DOMAIN board :
              board'[c] = board[c] \/ (c = t /\ board'[c] = Content(run[j]))
         /\ \A i \in Jobs : i # j => run'[i] = run[i]
         /\ run'[j].pc = "post" /\ run'[j].n = run[j].n /\ run'[j].rev = run[j].rev
         /\ run'[j].store = run[j].store /\ run'[j].existing = run[j].existing
         /\ run'[j].scanned = run[j].scanned
         /\ UNCHANGED <<cache, runs, deaths, overlaps>> /\ flaws' >= flaws /\ flaws' \in Nat
<1> DEFINE t == Target(run[j])
<1>1. /\ run' = [run EXCEPT ![j].pc = "post"]
      /\ UNCHANGED <<cache, runs, deaths, overlaps>> /\ t # 0 /\ run[j].pc = "update"
      /\ board' = board \/ board' = [board EXCEPT ![t] = Content(run[j])]
      /\ flaws' = flaws \/ flaws' = flaws + 1
  BY DEF UpdateFails, UpdateDeleted, Updating
<1>2. t \in DOMAIN board /\ Content(run[j]) \in Summaries
  BY <1>1, RunType
<1>3. Len(board) \in Nat /\ Len(board) >= Len(board)
  BY DEF TypeOK
<1> HIDE DEF t
<1>4. /\ DOMAIN board' = DOMAIN board
      /\ \A c \in DOMAIN board :
           board'[c] = board[c] \/ (c = t /\ board'[c] = Content(run[j]))
  <2>1. CASE board' = board
    BY <2>1
  <2>2. CASE board' = [board EXCEPT ![t] = Content(run[j])]
    BY <1>2, <2>2, Replaced
  <2> QED BY <1>1, <2>1, <2>2
<1>5. /\ \A i \in Jobs : i # j => run'[i] = run[i]
      /\ run'[j].pc = "post" /\ run'[j].n = run[j].n /\ run'[j].rev = run[j].rev
      /\ run'[j].store = run[j].store /\ run'[j].existing = run[j].existing
      /\ run'[j].scanned = run[j].scanned
  BY <1>1, <1>3, ToPost
<1>6. flaws' >= flaws /\ flaws' \in Nat
  BY <1>1 DEF TypeOK
<1> QED BY <1>1, <1>2, <1>4, <1>5, <1>6, Zenon DEF t

LEMMA FinishEffect ==
  ASSUME TypeOK, NEW j \in Jobs, Finish(j)
  PROVE  /\ run[j].pc = "end" /\ run'[j].pc = "idle" /\ run'[j].n = run[j].n
         /\ run'[j].warned = run[j].warned /\ cache' = run[j].store
         /\ \A i \in Jobs : i # j => run'[i] = run[i]
         /\ UNCHANGED <<board, runs, flaws, deaths, overlaps, missed>>
<1>1. /\ run' = [run EXCEPT ![j] = Idle(run[j].n, run[j].warned)] /\ cache' = run[j].store
      /\ UNCHANGED <<board, runs, flaws, deaths, overlaps, missed>> /\ run[j].pc = "end"
  BY DEF Finish
<1>2. /\ Idle(run[j].n, run[j].warned).pc = "idle"
      /\ Idle(run[j].n, run[j].warned).n = run[j].n
      /\ Idle(run[j].n, run[j].warned).warned = run[j].warned
  BY RunType, IdleOn
<1>3. run \in [Jobs -> Runs]
  BY DEF TypeOK
<1>4. run'[j] = Idle(run[j].n, run[j].warned) /\ \A i \in Jobs : i # j => run'[i] = run[i]
  BY <1>1, <1>3
<1> QED BY <1>1, <1>2, <1>4

LEMMA CrashEffect ==
  ASSUME TypeOK, NEW j \in Jobs, Crash(j)
  PROVE  /\ run[j].pc # "idle" /\ run'[j].pc = "idle" /\ run'[j].n = run[j].n
         /\ run'[j].warned /\ deaths' = deaths + 1
         /\ \A i \in Jobs : i # j => run'[i] = run[i]
         /\ UNCHANGED <<board, cache, runs, flaws, overlaps>>
<1>1. /\ run' = [run EXCEPT ![j] = Idle(run[j].n, TRUE)] /\ deaths' = deaths + 1
      /\ UNCHANGED <<board, cache, runs, flaws, overlaps>> /\ run[j].pc # "idle"
  BY DEF Crash
<1>2. /\ Idle(run[j].n, TRUE).pc = "idle" /\ Idle(run[j].n, TRUE).n = run[j].n
      /\ Idle(run[j].n, TRUE).warned = TRUE
  BY RunType, IdleOn
<1>3. run \in [Jobs -> Runs]
  BY DEF TypeOK
<1>4. run'[j] = Idle(run[j].n, TRUE) /\ \A i \in Jobs : i # j => run'[i] = run[i]
  BY <1>1, <1>3
<1> QED BY <1>1, <1>2, <1>4

----------------------------------------------------------------------------
(* The last review's summary is on the pull request                         *)

Written(c) == c \in DOMAIN board /\ board[c].of = runs /\ board[c].final

(* Without overlaps one job is at work, the last one; a job that did not    *)
(* give up knows, at its end, the summary that it wrote, and leaves one.    *)
Told ==
  overlaps = 0 =>
    /\ \A i, k \in Active : i = k
    /\ \A j \in Jobs : run[j].n <= runs
    /\ \A j \in Active : run[j].n = runs
    /\ \A i, k \in Jobs : run[i].n = runs /\ run[k].n = runs /\ runs > 0 => i = k
    /\ \A j \in Jobs : run[j].pc = "end" => run[j].warned \/ Written(run[j].store.id)
    /\ \A j \in Jobs :
         run[j].pc = "idle" /\ run[j].n = runs /\ runs > 0 =>
           \/ run[j].warned
           \/ \E c \in DOMAIN board : Written(c) /\ (flaws + deaths + missed = 0 => Live \subseteq {c})

(* When nothing went wrong, the one job at work holds the only summary.     *)
LEMMA HoldsTheOnly ==
  ASSUME TypeOK, Accounted, NEW j \in Active, overlaps = 0, flaws + deaths + missed = 0,
         \A i, k \in Active : i = k
  PROVE  Live \subseteq {Held(j)}
<1>1. Active = {j}
  OBVIOUS
<1>2. Cardinality(Active) = 1
  BY <1>1, FS_Singleton
<1>3. Causes = 0
  BY DEF Causes, TypeOK
<1>4. Cardinality(Spare) + 1 <= 1
  BY <1>2, <1>3 DEF Accounted
<1>5. Spare = {}
  BY <1>4, LiveFinite, FS_EmptySet
<1> QED BY <1>1, <1>5 DEF Spare

LEMMA ToldStep ==
  ASSUME TypeOK, TypeOK', Accounted, Told, NEW j \in Jobs, JobStep(j), overlaps' = 0
  PROVE  Told'
<1> DEFINE Ended(k) == run[k].pc = "end" => run[k].warned \/ Written(run[k].store.id)
           Left(k) == run[k].pc = "idle" /\ run[k].n = runs /\ runs > 0 =>
             \/ run[k].warned
             \/ \E c \in DOMAIN board :
                  Written(c) /\ (flaws + deaths + missed = 0 => Live \subseteq {c})
<1>1. runs \in Nat /\ flaws \in Nat /\ deaths \in Nat /\ overlaps \in Nat
  BY DEF TypeOK
<1>2. overlaps = 0
  <2>1. CASE Start(j)
    BY <1>1, <2>1, Started DEF Begin
  <2>2. CASE ~ Start(j)
    BY <2>2 DEF JobStep, Start, Update, UpdateDeleted, UpdateFails, Post, PostFails, Finish, Crash
  <2> QED BY <2>1, <2>2
<1>3. /\ \A i, k \in Active : i = k
      /\ \A i \in Jobs : run[i].n <= runs
      /\ \A i \in Active : run[i].n = runs
      /\ \A i, k \in Jobs : run[i].n = runs /\ run[k].n = runs /\ runs > 0 => i = k
      /\ \A i \in Jobs : Ended(i) /\ Left(i)
  BY <1>2 DEF Told
<1>4. \A i \in Jobs : run[i].n \in Nat /\ (i \in Active <=> run[i].pc # "idle")
  BY RunType DEF Active
<1>5. CASE Start(j)
  <2>1. PICK existing \in Known, scanned \in Known :
           /\ existing.id \in 0..Len(board) /\ scanned.id \in 0..Len(board)
           /\ Ready(j) /\ Begin(j, existing, scanned)
    BY <1>5, Started
  <2>2. runs' = runs + 1 /\ Active = {}
    BY <1>1, <1>2, <2>1 DEF Begin, Active
  <2>3. run'[j] = Begun(existing, scanned) /\ \A i \in Jobs : i # j => run'[i] = run[i]
    BY <2>1, BeginType
  <2>4. run'[j].pc = "update" /\ run'[j].n = runs + 1
    BY <2>3 DEF Begun
  <2>5. Active' = {j}
    BY <2>2, <2>3, <2>4, ActiveStep
  <2>6. \A i \in Jobs : i # j => run'[i].n < runs' /\ run'[i].pc = "idle"
    BY <1>1, <1>3, <1>4, <2>2, <2>3
  <2>7. \A i \in Jobs : run'[i].n <= runs'
    BY <1>1, <1>4, <2>2, <2>3, <2>4, <2>6
  <2>8. \A i, k \in Jobs : run'[i].n = runs' /\ run'[k].n = runs' /\ runs' > 0 => i = k
    BY <1>1, <1>4, <2>2, <2>3, <2>6
  <2>9. \A i \in Jobs : run'[i].pc # "end" /\ (run'[i].pc = "idle" => run'[i].n # runs')
    <3>1. \A i \in Jobs : i # j => run'[i].n # runs'
      BY <1>1, <1>4, <2>2, <2>3, <2>6
    <3> QED BY <2>4, <2>6, <3>1
  <2> QED BY <2>2, <2>4, <2>5, <2>7, <2>8, <2>9 DEF Told
<1>6. ASSUME runs' = runs, run'[j].n = run[j].n, \A i \in Jobs : i # j => run'[i] = run[i],
             run'[j].pc # "idle", run[j].pc # "idle", Ended(j)'
      PROVE  Told'
  <2>1. Active' = Active /\ j \in Active
    BY <1>4, <1>6, ActiveStep
  <2>2. run[j].n = runs /\ \A i \in Jobs : run'[i].n = run[i].n
    BY <1>3, <1>6, <2>1
  <2>3. \A i \in Jobs : i # j => run'[i].pc = "idle" /\ ~ (run'[i].n = runs' /\ runs' > 0)
    BY <1>3, <1>4, <1>6, <2>1, <2>2
  <2>4. \A i \in Jobs : Ended(i)' /\ Left(i)'
    BY <1>6, <2>3
  <2>5. /\ \A i, k \in Active' : i = k
        /\ \A i \in Jobs : run'[i].n <= runs'
        /\ \A i \in Active' : run'[i].n = runs'
        /\ \A i, k \in Jobs : run'[i].n = runs' /\ run'[k].n = runs' /\ runs' > 0 => i = k
    BY <1>3, <1>6, <2>1, <2>2 DEF Active
  <2> QED BY <2>4, <2>5 DEF Told
<1>7. ASSUME runs' = runs, run'[j].n = run[j].n, \A i \in Jobs : i # j => run'[i] = run[i],
             run'[j].pc = "idle", run[j].pc # "idle", Left(j)'
      PROVE  Told'
  <2>1. Active' = {} /\ j \in Active
    BY <1>3, <1>4, <1>7, ActiveStep
  <2>2. run[j].n = runs /\ \A i \in Jobs : run'[i].n = run[i].n
    BY <1>3, <1>7, <2>1
  <2>3. \A i \in Jobs : i # j => run'[i].pc = "idle" /\ ~ (run'[i].n = runs' /\ runs' > 0)
    BY <1>3, <1>4, <1>7, <2>1, <2>2
  <2>4. \A i \in Jobs : Ended(i)' /\ Left(i)'
    BY <1>7, <2>3
  <2>5. /\ \A i \in Jobs : run'[i].n <= runs'
        /\ \A i, k \in Jobs : run'[i].n = runs' /\ run'[k].n = runs' /\ runs' > 0 => i = k
    BY <1>3, <1>7, <2>2
  <2> QED BY <2>1, <2>4, <2>5 DEF Told
<1>8. CASE Update(j)
  <2>1. /\ Target(run[j]) \in DOMAIN board' /\ board'[Target(run[j])] = Content(run[j])
        /\ After(j, [id |-> Target(run[j]), rev |-> run[j].rev]) /\ runs' = runs
        /\ run[j].pc = "update"
    BY <1>8, UpdateEffect
  <2>2. run[j].n = runs /\ run'[j].pc # "idle"
    BY <1>3, <1>4, <2>1 DEF After
  <2>3. Ended(j)'
    <3> SUFFICES ASSUME run'[j].pc = "end" PROVE Written(run[j].store.id)'
      OBVIOUS
    <3>1. run'[j].store.id = Target(run[j]) /\ run[j].phase = "final"
      BY <2>1 DEF After
    <3>2. Content(run[j]).of = runs /\ Content(run[j]).final
      BY <2>2, <3>1 DEF Content
    <3> QED BY <2>1, <3>1, <3>2 DEF Written
  <2> HIDE DEF Ended
  <2> QED BY <1>6, <2>1, <2>2, <2>3 DEF After
<1>9. CASE UpdateDeleted(j) \/ UpdateFails(j)
  <2>1. /\ run[j].pc = "update" /\ run'[j].pc = "post" /\ run'[j].n = run[j].n
        /\ runs' = runs /\ \A i \in Jobs : i # j => run'[i] = run[i]
    BY <1>9, UpdateFailsEffect
  <2>2. Ended(j)'
    BY <2>1
  <2> HIDE DEF Ended
  <2> QED BY <1>6, <2>1, <2>2
<1>10. CASE Post(j)
  <2> DEFINE new == Len(board) + 1
             store == [id |-> new, rev |-> IF run[j].pc = "post" THEN run[j].rev + 1 ELSE run[j].rev]
  <2>1. /\ new \in DOMAIN board' /\ board'[new] = Content(run[j])
        /\ After(j, store) /\ runs' = runs /\ run[j].pc # "idle"
    BY <1>10, PostEffect
  <2>2. run[j].n = runs /\ run'[j].pc # "idle"
    BY <1>3, <1>4, <2>1 DEF After
  <2>3. Ended(j)'
    <3> SUFFICES ASSUME run'[j].pc = "end" PROVE Written(run[j].store.id)'
      OBVIOUS
    <3>1. run'[j].store.id = new /\ run[j].phase = "final"
      BY <2>1 DEF After
    <3>2. Content(run[j]).of = runs /\ Content(run[j]).final
      BY <2>2, <3>1 DEF Content
    <3> QED BY <2>1, <3>1, <3>2 DEF Written
  <2> HIDE DEF Ended, new, store
  <2> QED BY <1>6, <2>1, <2>2, <2>3 DEF After
<1>11. CASE PostFails(j)
  <2>1. /\ After(j, run[j].store) /\ runs' = runs /\ run[j].pc # "idle"
        /\ run'[j].pc = "end" => run'[j].warned
    BY <1>11, PostFailsEffect
  <2>2. Ended(j)'
    BY <2>1
  <2>3. run'[j].pc # "idle"
    BY <2>1 DEF After
  <2> HIDE DEF Ended
  <2> QED BY <1>6, <2>1, <2>2, <2>3 DEF After
<1>12. CASE Finish(j)
  <2>1. /\ run[j].pc = "end" /\ run'[j].pc = "idle" /\ run'[j].n = run[j].n
        /\ \A i \in Jobs : i # j => run'[i] = run[i]
        /\ UNCHANGED <<board, runs, flaws, deaths, missed>>
    BY <1>12, FinishEffect
  <2>2. run'[j].warned = run[j].warned
    BY <1>12, FinishEffect
  <2>3. CASE run[j].warned
    <3>1. Left(j)'
      BY <2>2, <2>3
    <3> HIDE DEF Left
    <3> QED BY <1>7, <2>1, <3>1
  <2>4. CASE ~ run[j].warned
    <3>1. Written(run[j].store.id)
      BY <1>3, <2>1, <2>4
    <3>2. j \in Active /\ Held(j) = run[j].store.id
      BY <1>4, <2>1 DEF Held
    <3>3. flaws + deaths + missed = 0 => Live \subseteq {run[j].store.id}
      <4> SUFFICES ASSUME flaws + deaths + missed = 0 PROVE Live \subseteq {Held(j)}
        BY <3>2
      <4> QED BY <1>2, <1>3, <3>2, HoldsTheOnly
    <3>4. Left(j)'
      <4>1. Live' = Live
        BY <2>1, LiveStep
      <4>2. \E c \in DOMAIN board' :
              /\ c \in DOMAIN board' /\ board'[c].of = runs' /\ board'[c].final
              /\ (flaws' + deaths' + missed' = 0 => Live' \subseteq {c})
        BY <2>1, <3>1, <3>3, <4>1 DEF Written
      <4> QED BY <4>2 DEF Written
    <3> HIDE DEF Left
    <3> QED BY <1>7, <2>1, <3>4
  <2> QED BY <2>3, <2>4
<1>13. CASE Crash(j)
  <2>1. /\ run[j].pc # "idle" /\ run'[j].pc = "idle" /\ run'[j].n = run[j].n
        /\ \A i \in Jobs : i # j => run'[i] = run[i] /\ runs' = runs
    BY <1>13, CrashEffect
  <2>2. Left(j)'
    BY <1>13, CrashEffect
  <2>3. runs' = runs
    BY <1>13, CrashEffect
  <2> HIDE DEF Left
  <2> QED BY <1>7, <2>1, <2>2, <2>3
<1> QED BY <1>5, <1>8, <1>9, <1>10, <1>11, <1>12, <1>13 DEF JobStep, Start

LEMMA ToldDelete ==
  ASSUME TypeOK, Told, NEW c \in DOMAIN board, Delete(c)
  PROVE  Told'
<1>1. UNCHANGED <<run, runs, flaws, deaths, overlaps, missed>>
  BY DEF Delete
<1>2. /\ DOMAIN board' = DOMAIN board
      /\ \A d \in DOMAIN board : board'[d].of = board[d].of /\ board'[d].final = board[d].final
      /\ Live' \subseteq Live
  <2>1. /\ Len(board') = Len(board) /\ board'[c].of = board[c].of
        /\ board'[c].final = board[c].final
        /\ \A d \in DOMAIN board : d # c => board'[d] = board[d]
    BY TypeDelete
  <2>2. ~ board'[c].live /\ \A d \in DOMAIN board : d # c => board'[d] = board[d]
    BY TypeDelete
  <2>3. TypeOK'
    BY TypeDelete
  <2>4. DOMAIN board' = DOMAIN board
    BY <2>1, <2>3 DEF TypeOK
  <2>5. Live' \subseteq Live
    BY <2>2, <2>4 DEF Live
  <2> QED BY <2>1, <2>4, <2>5
<1>3. \A d : Written(d) => Written(d)'
  BY <1>1, <1>2 DEF Written
<1>4. Active' = Active
  BY <1>1 DEF Active
<1> SUFFICES ASSUME overlaps = 0 PROVE Told'
  BY <1>1 DEF Told
<1>5. \A j \in Jobs : run[j].pc = "end" => run[j].warned \/ Written(run[j].store.id)'
  <2> SUFFICES ASSUME NEW j \in Jobs, run[j].pc = "end", ~ run[j].warned
               PROVE  Written(run[j].store.id)'
    OBVIOUS
  <2>1. Written(run[j].store.id)
    BY DEF Told
  <2> QED BY <1>1, <1>2, <2>1 DEF Written
<1>6. ASSUME NEW j \in Jobs, run[j].pc = "idle", run[j].n = runs, runs > 0, ~ run[j].warned
      PROVE  \E d \in DOMAIN board' :
               Written(d)' /\ (flaws' + deaths' + missed' = 0 => Live' \subseteq {d})
  <2>1. PICK d \in DOMAIN board : Written(d) /\ (flaws + deaths + missed = 0 => Live \subseteq {d})
    BY <1>6 DEF Told
  <2>2. Written(d)' /\ (flaws' + deaths' + missed' = 0 => Live' \subseteq {d}) /\ d \in DOMAIN board'
    BY <1>1, <1>2, <1>3, <2>1
  <2> QED BY <2>2
<1>7. /\ \A i, k \in Active' : i = k
      /\ \A j \in Jobs : run'[j].n <= runs'
      /\ \A j \in Active' : run'[j].n = runs'
      /\ \A i, k \in Jobs : run'[i].n = runs' /\ run'[k].n = runs' /\ runs' > 0 => i = k
  BY <1>1, <1>4 DEF Told
<1>8. \A j \in Jobs : run'[j].pc = "end" => run'[j].warned \/ Written(run[j].store.id)'
  BY <1>1, <1>5
<1>9. \A j \in Jobs : run'[j].pc = "idle" /\ run'[j].n = runs' /\ runs' > 0 =>
        \/ run'[j].warned
        \/ \E d \in DOMAIN board' : Written(d)' /\ (flaws' + deaths' + missed' = 0 => Live' \subseteq {d})
  BY <1>1, <1>6
<1> QED BY <1>7, <1>8, <1>9 DEF Told

(* The invariant that SummaryIsLatest follows from.                         *)
LEMMA AlwaysTold == Spec => [](TypeOK /\ Accounted /\ Told)
<1>1. Init => TypeOK /\ Accounted /\ Told
  <2> SUFFICES ASSUME Init PROVE TypeOK /\ Accounted /\ Told
    OBVIOUS
  <2>1. TypeOK
    BY TypeInit
  <2>2. Active = {} /\ Live = {} /\ Causes = 0 /\ runs = 0
    BY DEF Init, Active, Live, Causes, Idle
  <2>3. Live \ {cache.id} = {}
    BY <2>2
  <2>4. \A j \in Jobs : run[j].pc = "idle" /\ run[j].n = 0
    BY DEF Init, Idle
  <2>5. Told
    BY <2>2, <2>4 DEF Told
  <2> QED BY <2>1, <2>2, <2>3, <2>5, FS_EmptySet DEF Accounted
<1>2. TypeOK /\ Accounted /\ Told /\ [Next]_vars => (TypeOK /\ Accounted /\ Told)'
  <2> SUFFICES ASSUME TypeOK, Accounted, Told, [Next]_vars
               PROVE  TypeOK' /\ Accounted' /\ Told'
    OBVIOUS
  <2>1. ASSUME NEW j \in Jobs, JobStep(j) PROVE TypeOK' /\ Accounted' /\ Told'
    <3>1. TypeOK' /\ Accounted'
      BY <2>1, TypeStep, AccountedStep
    <3>2. CASE overlaps' = 0
      BY <2>1, <3>1, <3>2, ToldStep
    <3>3. CASE overlaps' # 0
      BY <3>1, <3>3 DEF Told
    <3> QED BY <3>1, <3>2, <3>3
  <2>2. ASSUME NEW c \in DOMAIN board, Delete(c) PROVE TypeOK' /\ Accounted' /\ Told'
    BY <2>2, TypeDelete, AccountedDelete, ToldDelete
  <2>3. CASE UNCHANGED vars \/ Remark
    <3>1. TypeOK' /\ UNCHANGED <<missed, board, cache, run, runs, flaws, deaths, overlaps>>
      BY <2>3, TypeRemark DEF vars, setting, TypeOK
    <3>2. Accounted'
      BY <3>1 DEF Accounted, Active, Spare, Live, Held, Target, Causes
    <3>3. Told'
      BY <3>1 DEF Told, Active, Live, Written
    <3> QED BY <3>1, <3>2, <3>3
  <2> QED BY <2>1, <2>2, <2>3 DEF Next
<1> QED BY <1>1, <1>2, PTL DEF Spec

(* In words: whatever calls fail, jobs die and summaries are deleted, the   *)
(* review that ended last and did not warn is the one the pull request      *)
(* tells of, alone if nothing failed and every scan reached the summary.    *)
THEOREM LatestIsShown == Spec => []SummaryIsLatest
<1>1. TypeOK /\ Told => SummaryIsLatest
  <2> SUFFICES ASSUME TypeOK, Told, NEW j \in Jobs, \A i \in Jobs : run[i].pc = "idle",
                      overlaps = 0, runs > 0, run[j].n = runs, ~ run[j].warned
               PROVE  \E c \in DOMAIN board :
                        /\ board[c].of = runs /\ board[c].final
                        /\ flaws + deaths + missed = 0 => Live \subseteq {c}
    BY DEF SummaryIsLatest
  <2> QED BY DEF Told, Written
<1> QED BY <1>1, AlwaysTold, PTL

----------------------------------------------------------------------------
(* Revisions                                                                *)

(* While no job overlapped and none died, no summary that the store, the    *)
(* job at work or its scan knows of shows more than the next revision.      *)
Rising ==
  overlaps = 0 /\ deaths = 0 =>
    /\ \A j \in Active : run[j].store.id # 0 =>
         board[run[j].store.id].rev <= run[j].rev /\ run[j].rev <= run[j].store.rev + 1
    /\ \A j \in Jobs : run[j].pc \in {"update", "post"} =>
         /\ run[j].store = run[j].existing
         /\ Target(run[j]) # 0 => board[Target(run[j])].rev <= run[j].rev
    /\ Active = {} /\ cache.id # 0 => board[cache.id].rev <= cache.rev + 1

LEMMA RisingStep ==
  ASSUME TypeOK, TypeOK', Told, Rising, NEW j \in Jobs, JobStep(j),
         overlaps' = 0, deaths' = 0
  PROVE  /\ Rising'
         /\ \A c \in DOMAIN board : board'[c].rev >= board[c].rev
<1> DEFINE Stored(k) == run[k].store.id # 0 =>
             board[run[k].store.id].rev <= run[k].rev /\ run[k].rev <= run[k].store.rev + 1
           Aimed(k) == run[k].pc \in {"update", "post"} =>
             /\ run[k].store = run[k].existing
             /\ Target(run[k]) # 0 => board[Target(run[k])].rev <= run[k].rev
<1>1. /\ runs \in Nat /\ flaws \in Nat /\ deaths \in Nat /\ overlaps \in Nat
      /\ Len(board) \in Nat /\ DOMAIN board = 1..Len(board)
      /\ \A c \in DOMAIN board : board[c].rev \in Nat
  <2>1. board \in Seq(Summaries)
    BY DEF TypeOK
  <2>2. /\ Len(board) \in Nat /\ DOMAIN board = 1..Len(board)
        /\ \A c \in DOMAIN board : board[c] \in Summaries
    BY <2>1
  <2>3. \A c \in DOMAIN board : board[c].rev \in Nat
    BY <2>2 DEF Summaries
  <2>4. runs \in Nat /\ flaws \in Nat /\ deaths \in Nat /\ overlaps \in Nat
    BY DEF TypeOK
  <2> QED BY <2>2, <2>3, <2>4
<1>2. overlaps = 0 /\ deaths = 0
  <2>1. CASE Start(j)
    BY <1>1, <2>1, Started DEF Begin
  <2>2. CASE Crash(j)
    <3>1. deaths' = deaths + 1
      BY <2>2 DEF Crash
    <3> QED BY <1>1, <3>1
  <2>3. CASE ~ Start(j) /\ ~ Crash(j)
    BY <2>3 DEF JobStep, Start, Update, UpdateDeleted, UpdateFails, Post, PostFails, Finish
  <2> QED BY <2>1, <2>2, <2>3
<1>3. /\ \A i, k \in Active : i = k
      /\ \A i \in Active : Stored(i)
      /\ \A i \in Jobs : Aimed(i)
      /\ Active = {} /\ cache.id # 0 => board[cache.id].rev <= cache.rev + 1
  BY <1>2 DEF Told, Rising
<1>4. /\ \A i \in Jobs : i \in Active <=> run[i].pc # "idle"
      /\ run[j].rev \in Nat /\ run[j].store \in Known /\ run[j].store.rev \in Nat
      /\ run[j].store.id # 0 => run[j].store.id \in DOMAIN board
      /\ Target(run[j]) # 0 => Target(run[j]) \in DOMAIN board
  BY <1>1, RunType DEF Active, Known
(* The job goes on, and what it knows is right.                             *)
<1>5. ASSUME \A i \in Jobs : i # j => run'[i] = run[i], run'[j].pc # "idle",
             run[j].pc # "idle" \/ Active = {}, Stored(j)', Aimed(j)'
      PROVE  Rising'
  <2>1. Active' = {j} /\ \A i \in Jobs : i # j => run'[i].pc = "idle"
    BY <1>3, <1>4, <1>5, ActiveStep
  <2>2. (\A i \in Active' : Stored(i)') /\ \A i \in Jobs : Aimed(i)'
    BY <1>5, <2>1
  <2> QED BY <2>1, <2>2 DEF Rising
<1>6. CASE Start(j)
  <2>1. PICK existing \in Known, scanned \in Known :
           /\ existing.id \in 0..Len(board) /\ scanned.id \in 0..Len(board)
           /\ Ready(j) /\ Begin(j, existing, scanned)
           /\ \/ /\ existing = cache /\ cache.id # 0 /\ scanned = None
                 /\ flaws' = flaws /\ missed' = missed
              \/ /\ existing = None /\ scanned \in Scan /\ flaws' = flaws
                 /\ \/ missed' = missed /\ (scanned.id # 0 \/ Live = {})
                    \/ missed' = missed + 1
              \/ /\ existing = None /\ scanned = None /\ missed' = missed
                 /\ flaws' = flaws + 1 /\ flaws + deaths < MaxFlaws
    BY <1>6, Started
  <2>2. board' = board /\ Active = {}
    BY <1>1, <1>2, <2>1 DEF Begin, Active
  <2>3. run'[j] = Begun(existing, scanned) /\ \A i \in Jobs : i # j => run'[i] = run[i]
    BY <2>1, BeginType
  <2>4. /\ run'[j].pc = "update" /\ run'[j].store = existing /\ run'[j].existing = existing
        /\ run'[j].scanned = scanned /\ run'[j].rev = Revision(existing, scanned)
    BY <2>3 DEF Begun
  <2>5. /\ existing.id # 0 => existing = cache /\ cache.rev \in Nat
        /\ scanned.id # 0 => existing.id = 0 /\ scanned.rev = board[scanned.id].rev
             /\ scanned.id \in DOMAIN board
    <3>1. \/ existing = cache /\ scanned = None
          \/ existing = None /\ scanned \in Scan
          \/ existing = None /\ scanned = None
      BY <2>1
    <3>2. None.id = 0 /\ cache \in Known /\ cache.rev \in Nat
      <4>1. cache \in Known
        BY DEF TypeOK
      <4> QED BY <4>1 DEF None, Known
    <3>3. scanned \in Scan /\ scanned.id # 0 =>
            scanned.id \in Live /\ scanned.rev = board[scanned.id].rev
      BY ScanType
    <3> QED BY <3>1, <3>2, <3>3 DEF Live
  <2>6. Stored(j)'
    BY <1>3, <2>2, <2>4, <2>5 DEF Revision
  <2>7. Aimed(j)'
    BY <1>1, <1>3, <2>2, <2>4, <2>5 DEF Revision, Target
  <2> HIDE DEF Stored, Aimed
  <2>8. Rising'
    BY <1>5, <2>2, <2>3, <2>4, <2>6, <2>7
  <2> QED BY <1>1, <2>2, <2>8
<1>7. CASE Update(j)
  <2> DEFINE t == Target(run[j])
  <2>1. /\ t # 0 /\ t \in DOMAIN board /\ run[j].pc = "update"
        /\ board'[t] = Content(run[j]) /\ \A c \in DOMAIN board : c # t => board'[c] = board[c]
        /\ After(j, [id |-> t, rev |-> run[j].rev])
    BY <1>7, UpdateEffect
  <2>2. board'[t].rev = run[j].rev /\ board[t].rev <= run[j].rev
    BY <1>3, <2>1 DEF Content
  <2>3. \A c \in DOMAIN board : board'[c].rev >= board[c].rev
    BY <1>1, <1>4, <2>1, <2>2
  <2>4. /\ run'[j].rev = run[j].rev /\ run'[j].store.id = t /\ run'[j].store.rev = run[j].rev
        /\ run'[j].pc = "update" => run'[j].existing = run'[j].store
        /\ run'[j].pc \in {"update", "end"}
    BY <2>1 DEF After
  <2> HIDE DEF t
  <2>5. Stored(j)'
    BY <1>4, <2>2, <2>4
  <2>6. Aimed(j)'
    <3>1. run'[j].pc = "update" => Target(run'[j]) = t
      BY <2>1, <2>4 DEF Target
    <3> QED BY <1>4, <2>2, <2>4, <3>1 DEF Target
  <2> HIDE DEF Stored, Aimed
  <2>7. Rising'
    BY <1>5, <2>1, <2>4, <2>5, <2>6 DEF After
  <2> QED BY <2>3, <2>7
<1>8. CASE UpdateDeleted(j) \/ UpdateFails(j)
  <2> DEFINE t == Target(run[j])
  <2>1. /\ run[j].pc = "update" /\ t # 0 /\ t \in DOMAIN board
        /\ \A c \in DOMAIN board :
             board'[c] = board[c] \/ (c = t /\ board'[c] = Content(run[j]))
        /\ \A i \in Jobs : i # j => run'[i] = run[i]
        /\ run'[j].pc = "post" /\ run'[j].rev = run[j].rev
        /\ run'[j].store = run[j].store /\ run'[j].existing = run[j].existing
        /\ run'[j].scanned = run[j].scanned
    BY <1>8, UpdateFailsEffect
  <2>2. Content(run[j]).rev = run[j].rev /\ board[t].rev <= run[j].rev
    BY <1>3, <2>1 DEF Content
  <2>3. \A c \in DOMAIN board :
          board'[c].rev = board[c].rev \/ (c = t /\ board'[c].rev = run[j].rev)
    BY <2>1, <2>2
  <2>4. \A c \in DOMAIN board : board'[c].rev >= board[c].rev
    BY <1>1, <1>4, <2>2, <2>3
  <2>5. \A c \in DOMAIN board : board[c].rev <= run[j].rev => board'[c].rev <= run[j].rev
    BY <1>1, <1>4, <2>3
  <2>6. Target(run'[j]) = t /\ Stored(j) /\ Aimed(j)
    BY <1>3, <1>4, <2>1 DEF Target
  <2>7. Stored(j)'
    BY <1>4, <2>1, <2>5, <2>6
  <2>8. Aimed(j)'
    BY <2>1, <2>2, <2>5, <2>6 DEF Target
  <2> HIDE DEF Stored, Aimed, t
  <2>9. Rising'
    BY <1>5, <2>1, <2>7, <2>8
  <2> QED BY <2>4, <2>9
<1>9. CASE Post(j)
  <2> DEFINE new == Len(board) + 1
             rev == IF run[j].pc = "post" THEN run[j].rev + 1 ELSE run[j].rev
  <2>1. /\ run[j].pc \in {"update", "post"} /\ board'[new] = Content(run[j])
        /\ \A c \in DOMAIN board : board'[c] = board[c]
        /\ After(j, [id |-> new, rev |-> rev])
    BY <1>9, PostEffect
  <2>2. board'[new].rev = run[j].rev /\ new # 0 /\ rev \in Nat /\ run[j].rev <= rev
    BY <1>1, <1>4, <2>1 DEF Content
  <2>3. \A c \in DOMAIN board : board'[c].rev >= board[c].rev
    BY <1>1, <2>1
  <2> HIDE DEF rev, new
  <2>4. /\ run'[j].rev = run[j].rev /\ run'[j].store.id = new /\ run'[j].store.rev = rev
        /\ run'[j].pc = "update" => run'[j].existing = run'[j].store
        /\ run'[j].pc \in {"update", "end"}
    BY <2>1 DEF After
  <2>5. Stored(j)'
    BY <1>4, <2>2, <2>4
  <2>6. Aimed(j)'
    <3>1. run'[j].pc = "update" => Target(run'[j]) = new
      BY <2>2, <2>4 DEF Target
    <3> QED BY <1>4, <2>2, <2>4, <3>1 DEF Target
  <2> HIDE DEF Stored, Aimed
  <2>7. Rising'
    BY <1>5, <2>1, <2>4, <2>5, <2>6 DEF After
  <2> QED BY <2>3, <2>7
<1>10. CASE PostFails(j)
  <2>1. /\ run[j].pc \in {"update", "post"}
        /\ \A c \in DOMAIN board : board'[c] = board[c]
        /\ After(j, run[j].store)
    BY <1>10, PostFailsEffect
  <2>2. \A c \in DOMAIN board : board'[c].rev >= board[c].rev
    BY <1>1, <2>1
  <2>3. /\ run'[j].rev = run[j].rev /\ run'[j].store = run[j].store
        /\ run'[j].pc = "update" => run'[j].existing = run[j].store
        /\ run'[j].pc \in {"update", "end"} /\ run'[j].scanned = run[j].scanned
    BY <2>1 DEF After
  <2>4. Stored(j) /\ Aimed(j) /\ run[j].store = run[j].existing
    BY <1>3, <1>4, <2>1
  <2>5. Stored(j)'
    BY <1>4, <2>1, <2>3, <2>4
  <2>6. Aimed(j)'
    <3>1. run'[j].pc = "update" => Target(run'[j]) = Target(run[j])
      BY <2>3, <2>4 DEF Target
    <3> QED BY <1>4, <2>1, <2>3, <2>4, <3>1
  <2> HIDE DEF Stored, Aimed
  <2>7. Rising'
    BY <1>5, <2>1, <2>3, <2>5, <2>6 DEF After
  <2> QED BY <2>2, <2>7
<1>11. CASE Finish(j)
  <2>1. /\ run[j].pc = "end" /\ run'[j].pc = "idle" /\ cache' = run[j].store /\ board' = board
        /\ \A i \in Jobs : i # j => run'[i] = run[i]
    BY <1>11, FinishEffect
  <2>2. Active' = {} /\ \A i \in Jobs : run'[i].pc = "idle"
    BY <1>3, <1>4, <2>1, ActiveStep
  <2>3. cache'.id # 0 => board'[cache'.id].rev <= cache'.rev + 1
    <3>1. run[j].store.id # 0 =>
            board[run[j].store.id].rev <= run[j].rev /\ run[j].rev <= run[j].store.rev + 1
      <4>1. run[j].pc = "end"
        BY <2>1
      <4> HIDE DEF Stored, Aimed
      <4>2. Stored(j)
        BY <1>3, <1>4, <4>1
      <4> QED BY <4>2 DEF Stored
    <3>2. ASSUME run[j].store.id # 0
          PROVE  /\ board[run[j].store.id].rev \in Nat /\ run[j].rev \in Nat
                 /\ run[j].store.rev \in Nat
      <4>1. run[j].store.id \in 1..Len(board) /\ run[j].rev \in Nat
            /\ run[j].store \in Known
        BY <1>1, <3>2, RunType
      <4>2. board[run[j].store.id] \in Summaries
        BY <4>1 DEF TypeOK
      <4> QED BY <4>1, <4>2 DEF Summaries, Known
    <3> QED BY <2>1, <3>1, <3>2
  <2>4. Rising'
    BY <2>2, <2>3 DEF Rising
  <2> QED BY <1>1, <2>1, <2>4
<1>12. CASE Crash(j)
  BY <1>1, <1>2, <1>12, CrashEffect
<1> QED BY <1>6, <1>7, <1>8, <1>9, <1>10, <1>11, <1>12 DEF JobStep, Start

LEMMA RisingDelete ==
  ASSUME TypeOK, Rising, NEW c \in DOMAIN board, Delete(c)
  PROVE  Rising' /\ \A d \in DOMAIN board : board'[d].rev = board[d].rev
<1>1. UNCHANGED <<cache, run, deaths, overlaps>>
  BY DEF Delete
<1>2. \A d \in DOMAIN board : board'[d].rev = board[d].rev
  BY TypeDelete
<1>3. /\ cache.id # 0 => cache.id \in DOMAIN board
      /\ \A j \in Jobs : run[j].store.id # 0 => run[j].store.id \in DOMAIN board
      /\ \A j \in Jobs : Target(run[j]) # 0 => Target(run[j]) \in DOMAIN board
  BY RunType DEF TypeOK
<1>4. Active' = Active
  BY <1>1 DEF Active
<1> SUFFICES ASSUME overlaps = 0, deaths = 0 PROVE Rising'
  BY <1>1, <1>2 DEF Rising
<1>5. \A j \in Active : run[j].store.id # 0 =>
        board'[run[j].store.id].rev <= run[j].rev /\ run[j].rev <= run[j].store.rev + 1
  BY <1>2, <1>3 DEF Rising, Active
<1>6. \A j \in Jobs : run[j].pc \in {"update", "post"} =>
        /\ run[j].store = run[j].existing
        /\ Target(run[j]) # 0 => board'[Target(run[j])].rev <= run[j].rev
  BY <1>2, <1>3 DEF Rising
<1>7. Active = {} /\ cache.id # 0 => board'[cache.id].rev <= cache.rev + 1
  BY <1>2, <1>3 DEF Rising
<1> QED BY <1>1, <1>4, <1>5, <1>6, <1>7 DEF Rising, Target

(* No call that fails or is lost makes a review take a revision that the    *)
(* pull request has shown already for an older one.                         *)
THEOREM RevisionsNeverGoBack == Spec => RevisionsGrow
<1> DEFINE Grows == overlaps' = 0 /\ deaths' = 0 =>
                      \A c \in DOMAIN board : board'[c].rev >= board[c].rev
<1>1. Init => Rising
  <2> SUFFICES ASSUME Init PROVE Rising
    OBVIOUS
  <2>1. Active = {} /\ cache.id = 0 /\ \A j \in Jobs : run[j].pc = "idle"
    BY DEF Init, Active, Idle, None
  <2> QED BY <2>1 DEF Rising
<1>2. TypeOK /\ TypeOK' /\ Told /\ Rising /\ [Next]_vars => Rising' /\ [Grows]_vars
  <2> SUFFICES ASSUME TypeOK, TypeOK', Told, Rising, [Next]_vars
               PROVE  Rising' /\ [Grows]_vars
    OBVIOUS
  <2>1. ASSUME NEW j \in Jobs, JobStep(j) PROVE Rising' /\ [Grows]_vars
    <3>1. CASE overlaps' = 0 /\ deaths' = 0
      BY <2>1, <3>1, RisingStep
    <3>2. CASE ~ (overlaps' = 0 /\ deaths' = 0)
      BY <3>2 DEF Rising
    <3> QED BY <3>1, <3>2
  <2>2. ASSUME NEW c \in DOMAIN board, Delete(c) PROVE Rising' /\ [Grows]_vars
    <3>1. \A d \in DOMAIN board : board[d].rev \in Nat
      <4>1. \A d \in DOMAIN board : board[d] \in Summaries
        BY DEF TypeOK
      <4> QED BY <4>1 DEF Summaries
    <3> QED BY <2>2, <3>1, RisingDelete
  <2>3. CASE UNCHANGED vars
    BY <2>3 DEF vars, Rising, Active, Target
  <2>4. CASE Remark
    <3>1. UNCHANGED <<board, cache, run, deaths, overlaps>>
      BY <2>4, TypeRemark
    <3>2. \A d \in DOMAIN board : board'[d].rev >= board[d].rev
      <4>1. \A d \in DOMAIN board : board[d] \in Summaries
        BY DEF TypeOK
      <4> QED BY <3>1, <4>1 DEF Summaries
    <3>3. Rising'
      BY <3>1 DEF Rising, Active, Target
    <3> QED BY <3>2, <3>3
  <2> QED BY <2>1, <2>2, <2>3, <2>4 DEF Next
<1>3. RevisionsGrow <=> [][Grows]_vars
  BY DEF RevisionsGrow
<1> HIDE DEF Grows
<1> QED BY <1>1, <1>2, <1>3, AlwaysTold, PTL DEF Spec
=============================================================================
