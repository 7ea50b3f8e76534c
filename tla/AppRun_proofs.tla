---------------------------- MODULE AppRun_proofs ----------------------------
(***************************************************************************)
(* The app keeps the promise of AppConsole and its screen agrees with the  *)
(* console, for any number of rows and runs. The blocks a run puts on the  *)
(* main queue are numbered: 2k - 1 names row k in the status line, 2k puts *)
(* it on screen, 2 * Rows + 1 ends the run. The invariant says that the    *)
(* queue holds consecutive blocks: the next one is where the screen is,    *)
(* the last one where the worker is.                                       *)
(***************************************************************************)
EXTENDS AppRun, SequenceTheorems, TLAPS

Results == [row : 1..Rows, outcome : Outcomes]
Blocks == [kind : {"label"}, row : 1..Rows] \cup [kind : {"append"}, result : Results]
          \cup {FinishBlock}
Lines == [kind : {"header", "marker"}, run : Nat]
         \cup [kind : {"row"}, run : Nat, row : 1..Rows, outcome : Outcomes]
         \cup [kind : {"verdict"}, run : Nat, over : SUBSET Results]
Pcs == {"none", "announce", "run", "post", "finish", "ended"}
Workers == [pc : Pcs, at : 0..Rows, report : Seq(Results)]

AppTypes ==
    /\ e2e \in BOOLEAN /\ running \in BOOLEAN /\ idleOff \in BOOLEAN
    /\ results \in Seq(Results) /\ label \in 0..Rows
    /\ mainQueue \in Seq(Blocks)
    /\ runs \in 0..MaxRuns
    /\ workers \in [1..MaxRuns -> Workers]
    /\ console \in Seq(Lines)

\* Where a worker stands, by its counters.
Placed(w) ==
    /\ w.pc \in {"announce", "run"} => w.at < Rows
    /\ w.pc = "post" => w.at > 0 /\ Len(w.report) = 1 /\ w.report[1].row = w.at
    /\ w.pc # "post" => w.report = <<>>
    /\ w.pc \in {"finish", "ended"} => w.at = Rows
    /\ e2e => w.pc \notin {"announce", "post"}

\* Whose turn it is: only the last run's worker works, and between runs
\* nothing is left of the run before.
Turns ==
    /\ idleOff = running
    /\ \A r \in 1..MaxRuns : r # runs => ~Working(r)
    /\ running => runs > 0
    /\ runs > 0 => workers[runs].pc # "none" /\ Placed(workers[runs])
    /\ ~running => mainQueue = <<>> /\ label = 0 /\ \A r \in 1..MaxRuns : ~Working(r)

\* How many blocks the worker has put on the queue.
Posted(w) ==
    CASE w.pc \in {"announce", "finish"} -> 2 * w.at
      [] w.pc = "run" -> 2 * w.at + 1
      [] w.pc = "post" -> 2 * w.at - 1
      [] w.pc = "ended" -> 2 * Rows + 1

Numbered(b, number) ==
    /\ b.kind = "label" => number = 2 * b.row - 1
    /\ b.kind = "append" => number = 2 * b.result.row
    /\ b.kind = "finish" => number = 2 * Rows + 1

\* A run of the workload list.
Lockstep ==
    (running /\ ~e2e) =>
        /\ label \in {Len(results), Len(results) + 1}
        /\ label + Len(results) + Len(mainQueue) = Posted(workers[runs])
        /\ \A j \in 1..Len(mainQueue) : Numbered(mainQueue[j], label + Len(results) + j)

\* A femtovg run: the only block is the last one.
NoRows ==
    e2e =>
        /\ results = <<>>
        /\ running => mainQueue = IF workers[runs].pc = "ended" THEN <<FinishBlock>> ELSE <<>>

\* A run's rows on the console are on screen, in the queue or in the worker's hands.
Pending(q) == {q[j].result : j \in {k \in DOMAIN q : q[k].kind = "append"}}
InHand(w) == {w.report[j] : j \in DOMAIN w.report}

Contents ==
    /\ \A j \in DOMAIN console : console[j].run <= runs
    /\ \A j \in DOMAIN results : results[j].row = j
    /\ runs = 0 => results = <<>>
    /\ (~e2e /\ runs > 0) =>
          Promise!RowsOf(console, runs) = OnScreen \cup Pending(mainQueue) \cup InHand(workers[runs])

AppInv == AppTypes /\ Turns /\ Lockstep /\ NoRows /\ Contents

-----------------------------------------------------------------------------
(* Sets made from a sequence, when it grows or shrinks. *)

LEMMA PendingAppend ==
  ASSUME NEW q \in Seq(Blocks), NEW b \in Blocks
  PROVE  Pending(Append(q, b)) = Pending(q) \cup IF b.kind = "append" THEN {b.result} ELSE {}
<1> DEFINE p == Append(q, b)
<1>1. DOMAIN p = DOMAIN q \cup {Len(q) + 1} /\ p[Len(q) + 1] = b /\ \A k \in DOMAIN q : p[k] = q[k]
  OBVIOUS
<1>2. {k \in DOMAIN p : p[k].kind = "append"}
        = {k \in DOMAIN q : q[k].kind = "append"} \cup IF b.kind = "append" THEN {Len(q) + 1} ELSE {}
  BY <1>1
<1> HIDE DEF p
<1>3. Pending(p) = Pending(q) \cup IF b.kind = "append" THEN {b.result} ELSE {}
  BY <1>1, <1>2 DEF Pending
<1> QED BY <1>3 DEF p

LEMMA PendingTail ==
  ASSUME NEW q \in Seq(Blocks), q # <<>>
  PROVE  Pending(q) = Pending(Tail(q)) \cup IF Head(q).kind = "append" THEN {Head(q).result} ELSE {}
<1> DEFINE t == Tail(q)
<1>1. /\ DOMAIN t = 1..(Len(q) - 1) /\ DOMAIN q = 1..Len(q) /\ Len(q) \in Nat \ {0}
      /\ Head(q) = q[1] /\ \A k \in DOMAIN t : t[k] = q[k + 1]
  OBVIOUS
<1> HIDE DEF t
<1>2. ASSUME NEW x \in Pending(q) PROVE x \in Pending(t) \cup IF Head(q).kind = "append" THEN {Head(q).result} ELSE {}
  <2>1. PICK k \in DOMAIN q : q[k].kind = "append" /\ x = q[k].result BY <1>2 DEF Pending
  <2>2. CASE k = 1 BY <1>1, <2>1, <2>2
  <2>3. CASE k # 1
    <3>1. k - 1 \in DOMAIN t /\ t[k - 1] = q[k] BY <1>1, <2>3
    <3> QED BY <3>1, <2>1 DEF Pending
  <2> QED BY <2>2, <2>3
<1>3. ASSUME NEW x \in Pending(t) PROVE x \in Pending(q)
  <2>1. PICK k \in DOMAIN t : t[k].kind = "append" /\ x = t[k].result BY <1>3 DEF Pending
  <2>2. k + 1 \in DOMAIN q /\ t[k] = q[k + 1] BY <1>1
  <2> QED BY <2>1, <2>2 DEF Pending
<1>4. Head(q).kind = "append" => Head(q).result \in Pending(q)
  BY <1>1 DEF Pending
<1>5. Pending(q) = Pending(t) \cup IF Head(q).kind = "append" THEN {Head(q).result} ELSE {}
  BY <1>2, <1>3, <1>4
<1> QED BY <1>5 DEF t

LEMMA RowsOfAppend ==
  ASSUME NEW c \in Seq(Lines), NEW x \in Lines, NEW r
  PROVE  Promise!RowsOf(Append(c, x), r) =
           Promise!RowsOf(c, r)
             \cup IF x.kind = "row" /\ x.run = r THEN {[row |-> x.row, outcome |-> x.outcome]} ELSE {}
<1> DEFINE p == Append(c, x)
<1>1. DOMAIN p = DOMAIN c \cup {Len(c) + 1} /\ p[Len(c) + 1] = x /\ \A k \in DOMAIN c : p[k] = c[k]
  OBVIOUS
<1>2. {k \in DOMAIN p : p[k].kind = "row" /\ p[k].run = r}
        = {k \in DOMAIN c : c[k].kind = "row" /\ c[k].run = r}
            \cup IF x.kind = "row" /\ x.run = r THEN {Len(c) + 1} ELSE {}
  BY <1>1
<1>3. \A k \in DOMAIN c : k # Len(c) + 1 OBVIOUS
<1> HIDE DEF p
<1>4. Promise!RowsOf(p, r) =
           Promise!RowsOf(c, r)
             \cup IF x.kind = "row" /\ x.run = r THEN {[row |-> x.row, outcome |-> x.outcome]} ELSE {}
  BY <1>1, <1>2, <1>3 DEF Promise!RowsOf
<1> QED BY <1>4 DEF p

-----------------------------------------------------------------------------
(* Every step keeps the invariant. *)

LEMMA AppInitially == Init => AppInv
<1> SUFFICES ASSUME Init PROVE AppInv OBVIOUS
<1> USE RowsAssumption, RunsAssumption DEF Init
<1>1. NoWorker \in Workers BY DEF NoWorker, Workers, Pcs
<1>2. AppTypes
  <2>1. e2e \in BOOLEAN /\ running \in BOOLEAN /\ idleOff \in BOOLEAN OBVIOUS
  <2>2. results \in Seq(Results) /\ mainQueue \in Seq(Blocks) /\ console \in Seq(Lines) OBVIOUS
  <2>3. label \in 0..Rows /\ runs \in 0..MaxRuns OBVIOUS
  <2>4. workers \in [1..MaxRuns -> Workers] BY <1>1
  <2> QED BY <2>1, <2>2, <2>3, <2>4 DEF AppTypes
<1>3. Turns
  <2>1. \A r \in 1..MaxRuns : ~Working(r) BY DEF Working, NoWorker
  <2>2. idleOff = running /\ ~running OBVIOUS
  <2>3. ~(runs > 0) /\ mainQueue = <<>> /\ label = 0 OBVIOUS
  <2> QED BY <2>1, <2>2, <2>3 DEF Turns
<1>4. Lockstep BY DEF Lockstep
<1>5. NoRows BY DEF NoRows
<1>6. Contents BY DEF Contents
<1> QED BY <1>2, <1>3, <1>4, <1>5, <1>6 DEF AppInv

\* A worker that works is the last run's.
LEMMA TheWorker ==
  ASSUME AppInv, NEW r \in 1..MaxRuns, Working(r)
  PROVE  /\ r = runs /\ running /\ runs > 0 /\ idleOff
         /\ workers[r] \in Workers /\ Placed(workers[r])
BY DEF AppInv, AppTypes, Turns

\* The control part for a step of the working worker that keeps running.
LEMMA WorkerMoves ==
  ASSUME AppInv, NEW r \in 1..MaxRuns, Working(r), NEW w \in Workers,
         workers' = [workers EXCEPT ![r] = w],
         w.pc # "none", Placed(w),
         UNCHANGED <<e2e, running, idleOff, runs>>
  PROVE  Turns' /\ workers' \in [1..MaxRuns -> Workers] /\ workers'[runs'] = w
<1>1. r = runs /\ running /\ runs > 0 BY TheWorker
<1>2. workers \in [1..MaxRuns -> Workers] BY DEF AppInv, AppTypes
<1>3. workers' \in [1..MaxRuns -> Workers] /\ workers'[r] = w BY <1>2
<1>4. \A s \in 1..MaxRuns : s # r => workers'[s] = workers[s] BY <1>2
<1>5. Placed(w)' BY <1>3 DEF Placed
<1>6. Turns' BY <1>1, <1>3, <1>4, <1>5 DEF AppInv, Turns, Working, Placed
<1> QED BY <1>1, <1>3, <1>6

\* Lockstep when the worker puts one more block on the queue.
LEMMA LockstepGrows ==
  ASSUME Lockstep, NEW b \in Blocks, NEW posted \in Nat,
         running, ~e2e,
         mainQueue \in Seq(Blocks), results \in Seq(Results), label \in Nat,
         mainQueue' = Append(mainQueue, b),
         Posted(workers[runs]) = posted, Posted(workers[runs])' = posted + 1,
         Numbered(b, posted + 1),
         UNCHANGED <<results, label>>
  PROVE  Lockstep'
<1> DEFINE o == label + Len(results)
<1>1. o \in Nat /\ o + Len(mainQueue) = posted /\ label \in {Len(results), Len(results) + 1}
  BY DEF Lockstep
<1>2. /\ Len(mainQueue') = Len(mainQueue) + 1 /\ Len(mainQueue) \in Nat
      /\ mainQueue'[Len(mainQueue) + 1] = b
      /\ \A j \in 1..Len(mainQueue) : mainQueue'[j] = mainQueue[j]
  OBVIOUS
<1>3. \A j \in 1..Len(mainQueue) : Numbered(mainQueue[j], o + j) BY DEF Lockstep
<1>4. o' = o OBVIOUS
<1>5. \A j \in 1..Len(mainQueue') : Numbered(mainQueue[j], o + j)'
  <2> SUFFICES ASSUME NEW j \in 1..Len(mainQueue') PROVE Numbered(mainQueue'[j], o + j)
    BY <1>4 DEF Numbered
  <2>1. CASE j \in 1..Len(mainQueue) BY <1>2, <1>3, <2>1
  <2>2. CASE j = Len(mainQueue) + 1 BY <1>1, <1>2, <2>2
  <2> QED BY <1>2, <2>1, <2>2
<1>6. o' + Len(mainQueue') = posted + 1 BY <1>1, <1>2, <1>4
<1> QED BY <1>1, <1>5, <1>6 DEF Lockstep

LEMMA RunAllKept == ASSUME AppInv, RunAll PROVE AppInv'
<1> USE RowsAssumption, RunsAssumption
<1> DEFINE w == [pc |-> NextRow(0), at |-> 0, report |-> <<>>]
<1>1. runs + 1 \in 1..MaxRuns /\ runs' = runs + 1 /\ runs \in Nat BY DEF AppInv, AppTypes, RunAll
<1>2. w \in Workers /\ w.pc \notin {"none", "ended", "post"} /\ (w.pc = "announce" => ~e2e)
  BY DEF Workers, Pcs, NextRow
<1>3. workers \in [1..MaxRuns -> Workers] BY DEF AppInv, AppTypes
<1>4. workers' \in [1..MaxRuns -> Workers] /\ workers'[runs'] = w
  BY <1>1, <1>2, <1>3 DEF RunAll
<1>5. \A s \in 1..MaxRuns : s # runs' => workers'[s] = workers[s] BY <1>1, <1>3 DEF RunAll
<1>6. Promise!HeaderLine(runs + 1) \in Lines BY <1>1 DEF Promise!HeaderLine, Lines
<1>7. mainQueue = <<>> /\ label = 0 /\ \A s \in 1..MaxRuns : ~Working(s)
  BY DEF AppInv, Turns, RunAll, MayRun
<1>8. AppTypes' BY <1>1, <1>4, <1>6 DEF AppInv, AppTypes, RunAll
<1>9. Turns'
  <2>1. Placed(workers[runs])' BY <1>2, <1>4 DEF Placed, RunAll, NextRow
  <2>2. \A s \in 1..MaxRuns : s # runs' => ~Working(s)' BY <1>5, <1>7 DEF Working
  <2> QED BY <1>1, <1>2, <1>4, <2>1, <2>2 DEF Turns, RunAll
<1>10. Lockstep'
  <2>1. ~e2e => Posted(workers[runs])' = 0 BY <1>4 DEF Posted, NextRow
  <2>2. label' = 0 /\ results' = <<>> /\ mainQueue' = <<>> /\ e2e' = e2e BY <1>7 DEF RunAll
  <2> HIDE DEF w
  <2> QED BY <2>1, <2>2 DEF Lockstep
<1>11. NoRows' BY <1>2, <1>4, <1>7 DEF NoRows, RunAll
<1>12. Contents'
  <2>1. console \in Seq(Lines) /\ \A j \in DOMAIN console : console[j].run <= runs
    BY DEF AppInv, AppTypes, Contents
  <2>2. console' = Append(console, Promise!HeaderLine(runs + 1)) BY DEF RunAll
  <2>3. Promise!RowsOf(console, runs + 1) = {}
    <3>1. \A j \in DOMAIN console : console[j].run # runs + 1
      <4>1. \A j \in DOMAIN console : console[j] \in Lines BY <2>1
      <4>2. \A x \in Lines : x.run \in Nat BY DEF Lines
      <4> QED BY <1>1, <2>1, <4>1, <4>2
    <3> QED BY <3>1 DEF Promise!RowsOf
  <2>4. Promise!RowsOf(console', runs') = {}
    BY <1>1, <1>6, <2>1, <2>2, <2>3, RowsOfAppend DEF Promise!HeaderLine
  <2>5. results' = <<>> /\ mainQueue' = <<>> BY <1>7 DEF RunAll
  <2>6. OnScreen' = {} /\ Pending(mainQueue)' = {} /\ InHand(workers[runs])' = {}
    BY <1>4, <2>5 DEF OnScreen, Pending, InHand
  <2>7. \A j \in DOMAIN console' : console'[j].run <= runs'
    <3>1. \A j \in DOMAIN console : console[j] \in Lines BY <2>1
    <3>2. \A x \in Lines : x.run \in Nat BY DEF Lines
    <3> QED BY <1>1, <1>6, <2>1, <2>2, <3>1, <3>2 DEF Promise!HeaderLine
  <2> QED BY <2>4, <2>5, <2>6, <2>7 DEF Contents
<1> QED BY <1>8, <1>9, <1>10, <1>11, <1>12 DEF AppInv

LEMMA AnnounceKept == ASSUME AppInv, NEW r \in 1..MaxRuns, Announce(r) PROVE AppInv'
<1> USE RowsAssumption, RunsAssumption
<1> DEFINE w == [workers[r] EXCEPT !.pc = "run"]
           b == LabelBlock(workers[r].at + 1)
<1>1. Working(r) /\ workers[r].pc = "announce" BY DEF Announce, Working
<1>2. r = runs /\ running /\ workers[r] \in Workers /\ Placed(workers[r]) BY <1>1, TheWorker
<1>3. /\ w \in Workers /\ w.pc = "run" /\ w.at = workers[r].at /\ w.report = workers[r].report
      /\ workers[r].at \in 0..Rows /\ workers[r].at < Rows /\ ~e2e /\ workers[r].report = <<>>
  BY <1>1, <1>2 DEF Workers, Pcs, Placed
<1>4. workers' = [workers EXCEPT ![r] = w] BY DEF Announce, AppInv, AppTypes
<1> HIDE DEF w
<1>5. Placed(w) BY <1>3 DEF Placed
<1>6. Turns' /\ workers' \in [1..MaxRuns -> Workers] /\ workers'[runs'] = w
  BY <1>1, <1>3, <1>4, <1>5, WorkerMoves DEF Announce
<1>7. b \in Blocks /\ b.kind = "label" /\ b.row = workers[r].at + 1 BY <1>3 DEF LabelBlock, Blocks
<1>8. mainQueue \in Seq(Blocks) /\ mainQueue' = Append(mainQueue, b)
  BY DEF Announce, AppInv, AppTypes
<1> HIDE DEF b
<1>9. UNCHANGED <<e2e, running, results, label, idleOff, runs, console>> BY DEF Announce
<1>10. AppTypes' BY <1>6, <1>7, <1>8, <1>9 DEF AppInv, AppTypes
<1>11. Lockstep'
  <2>1. Posted(workers[runs]) = 2 * w.at BY <1>1, <1>2, <1>3 DEF Posted
  <2>2. Posted(workers[runs])' = 2 * w.at + 1 BY <1>3, <1>6 DEF Posted
  <2>3. Lockstep /\ label \in Nat /\ results \in Seq(Results) BY DEF AppInv, AppTypes
  <2>4. Numbered(b, 2 * w.at + 1) BY <1>3, <1>7 DEF Numbered
  <2>5. 2 * w.at \in Nat BY <1>3
  <2> QED BY <1>2, <1>3, <1>7, <1>8, <1>9, <2>1, <2>2, <2>3, <2>4, <2>5, LockstepGrows
<1>12. NoRows' BY <1>3, <1>9 DEF NoRows
<1>13. Contents'
  <2>1. Pending(mainQueue') = Pending(mainQueue) BY <1>7, <1>8, PendingAppend
  <2>2. InHand(w) = InHand(workers[r]) BY <1>3 DEF InHand
  <2>3. OnScreen' = OnScreen BY <1>9 DEF OnScreen
  <2> QED BY <1>2, <1>6, <1>9, <2>1, <2>2, <2>3 DEF AppInv, Contents
<1> QED BY <1>6, <1>10, <1>11, <1>12, <1>13 DEF AppInv

LEMMA RunWorkloadKept == ASSUME AppInv, NEW r \in 1..MaxRuns, RunWorkload(r) PROVE AppInv'
<1> USE RowsAssumption, RunsAssumption
<1>1. Working(r) /\ workers[r].pc = "run" /\ ~e2e BY DEF RunWorkload, Working
<1>2. /\ r = runs /\ running /\ runs \in Nat
      /\ workers[r] \in Workers /\ Placed(workers[r])
  BY <1>1, TheWorker DEF AppInv, AppTypes
<1>3. workers[r].at \in 0..Rows /\ workers[r].at < Rows /\ workers[r].report = <<>>
  BY <1>1, <1>2 DEF Workers, Placed
<1> DEFINE k == workers[r].at + 1
<1>4. k \in 1..Rows BY <1>3
<1>5. PICK o \in Outcomes :
        /\ console' = Append(console, Promise!RowLine(r, k, o))
        /\ workers' = [workers EXCEPT ![r] =
                          [pc |-> "post", at |-> k, report |-> <<[row |-> k, outcome |-> o]>>]]
  BY DEF RunWorkload
<1> DEFINE x == [row |-> k, outcome |-> o]
           w == [pc |-> "post", at |-> k, report |-> <<x>>]
           line == Promise!RowLine(r, k, o)
<1>6. x \in Results /\ x.row = k BY <1>4 DEF Results
<1>7. line \in Lines /\ line.kind = "row" /\ line.run = r /\ [row |-> line.row, outcome |-> line.outcome] = x
  BY <1>2, <1>4 DEF Lines, Promise!RowLine
<1>8. w \in Workers /\ w.pc = "post" /\ w.at = k /\ w.report = <<x>>
  BY <1>4, <1>6 DEF Workers, Pcs
<1>9. UNCHANGED <<e2e, running, results, label, idleOff, mainQueue, runs>> BY DEF RunWorkload
<1>10. workers' = [workers EXCEPT ![r] = w] /\ console' = Append(console, line) BY <1>5
<1> HIDE DEF x, w, line, k
<1>11. Placed(w) BY <1>1, <1>4, <1>6, <1>8 DEF Placed
<1>12. Turns' /\ workers' \in [1..MaxRuns -> Workers] /\ workers'[runs'] = w
  BY <1>1, <1>8, <1>9, <1>10, <1>11, WorkerMoves
<1>13. AppTypes' BY <1>7, <1>9, <1>10, <1>12 DEF AppInv, AppTypes
<1>14. Lockstep'
  <2>1. Posted(workers[runs]) = 2 * k - 1 BY <1>1, <1>2, <1>3 DEF Posted, k
  <2>2. Posted(workers[runs])' = 2 * k - 1 BY <1>8, <1>12 DEF Posted
  <2> QED BY <1>9, <2>1, <2>2 DEF AppInv, Lockstep, Numbered
<1>15. NoRows' BY <1>1, <1>9 DEF NoRows
<1>16. Contents'
  <2>1. console \in Seq(Lines) BY DEF AppInv, AppTypes
  <2>2. Promise!RowsOf(console', runs) = Promise!RowsOf(console, runs) \cup {x}
    BY <1>2, <1>7, <1>10, <2>1, RowsOfAppend
  <2>3. InHand(w) = {x} BY <1>8 DEF InHand
  <2>4. InHand(workers[r]) = {} BY <1>3 DEF InHand
  <2>5. OnScreen' = OnScreen BY <1>9 DEF OnScreen
  <2>6. \A j \in DOMAIN console' : console'[j].run <= runs
    BY <1>2, <1>7, <1>10, <2>1 DEF AppInv, Contents
  <2> QED BY <1>2, <1>9, <1>12, <2>2, <2>3, <2>4, <2>5, <2>6 DEF AppInv, Contents
<1> QED BY <1>12, <1>13, <1>14, <1>15, <1>16 DEF AppInv

LEMMA PostResultKept == ASSUME AppInv, NEW r \in 1..MaxRuns, PostResult(r) PROVE AppInv'
<1> USE RowsAssumption, RunsAssumption
<1>1. Working(r) /\ workers[r].pc = "post" BY DEF PostResult, Working
<1>2. r = runs /\ running /\ workers[r] \in Workers /\ Placed(workers[r]) BY <1>1, TheWorker
<1> DEFINE k == workers[r].at
           x == workers[r].report[1]
           w == [pc |-> NextRow(k), at |-> k, report |-> <<>>]
           b == AppendBlock(x)
<1>3. /\ k \in 1..Rows /\ ~e2e
      /\ workers[r].report \in Seq(Results) /\ Len(workers[r].report) = 1 /\ x.row = k
  BY <1>1, <1>2 DEF Workers, Placed
<1>4. x \in Results /\ Head(workers[r].report) = x BY <1>3
<1>5. /\ w \in Workers /\ w.pc = (IF k = Rows THEN "finish" ELSE "announce")
      /\ w.at = k /\ w.report = <<>>
  BY <1>3 DEF Workers, Pcs, NextRow
<1>6. b \in Blocks /\ b.kind = "append" /\ b.result = x BY <1>4 DEF AppendBlock, Blocks
<1>7. /\ UNCHANGED <<e2e, running, results, label, idleOff, runs, console>>
      /\ workers' = [workers EXCEPT ![r] = w] /\ mainQueue' = Append(mainQueue, b)
      /\ mainQueue \in Seq(Blocks)
  BY <1>4 DEF PostResult, AppInv, AppTypes
<1>8. InHand(workers[r]) = {x} BY <1>3 DEF InHand
<1> HIDE DEF w, b, x, k
<1>9. Placed(w) BY <1>3, <1>5 DEF Placed
<1>10. Turns' /\ workers' \in [1..MaxRuns -> Workers] /\ workers'[runs'] = w
  BY <1>1, <1>5, <1>7, <1>9, WorkerMoves
<1>11. AppTypes' BY <1>6, <1>7, <1>10 DEF AppInv, AppTypes
<1>12. Lockstep'
  <2>1. Posted(workers[runs]) = 2 * k - 1 BY <1>1, <1>2 DEF Posted, k
  <2>2. Posted(workers[runs])' = 2 * k BY <1>5, <1>10 DEF Posted
  <2>3. Lockstep /\ label \in Nat /\ results \in Seq(Results) BY DEF AppInv, AppTypes
  <2>4. Numbered(b, 2 * k) BY <1>3, <1>6 DEF Numbered
  <2>5. 2 * k - 1 \in Nat /\ (2 * k - 1) + 1 = 2 * k BY <1>3
  <2> QED BY <1>2, <1>3, <1>6, <1>7, <2>1, <2>2, <2>3, <2>4, <2>5, LockstepGrows
<1>13. NoRows' BY <1>3, <1>7 DEF NoRows
<1>14. Contents'
  <2>1. Pending(mainQueue') = Pending(mainQueue) \cup {x} BY <1>6, <1>7, PendingAppend
  <2>2. InHand(w) = {} BY <1>5 DEF InHand
  <2>3. OnScreen' = OnScreen BY <1>7 DEF OnScreen
  <2> QED BY <1>2, <1>7, <1>8, <1>10, <2>1, <2>2, <2>3 DEF AppInv, Contents
<1> QED BY <1>10, <1>11, <1>12, <1>13, <1>14 DEF AppInv

LEMMA RunE2eCellKept == ASSUME AppInv, NEW r \in 1..MaxRuns, RunE2eCell(r) PROVE AppInv'
<1> USE RowsAssumption, RunsAssumption
<1>1. Working(r) /\ workers[r].pc = "run" /\ e2e BY DEF RunE2eCell, Working
<1>2. /\ r = runs /\ running /\ runs \in Nat
      /\ workers[r] \in Workers /\ Placed(workers[r])
  BY <1>1, TheWorker DEF AppInv, AppTypes
<1> DEFINE k == workers[r].at + 1
           w == [pc |-> NextRow(k), at |-> k, report |-> <<>>]
<1>3. k \in 1..Rows /\ workers[r].report = <<>> BY <1>1, <1>2 DEF Workers, Placed
<1>4. /\ w \in Workers /\ w.pc = (IF k = Rows THEN "finish" ELSE "run")
      /\ w.at = k /\ w.report = <<>>
  <2>1. NextRow(k) = (IF k = Rows THEN "finish" ELSE "run") BY <1>1 DEF NextRow
  <2>2. NextRow(k) \in Pcs /\ k \in 0..Rows BY <1>3, <2>1 DEF Pcs
  <2> QED BY <2>1, <2>2 DEF Workers
<1>5. /\ UNCHANGED <<e2e, running, results, label, idleOff, mainQueue, runs>>
      /\ workers' = [workers EXCEPT ![r] = w]
  BY DEF RunE2eCell, AppInv, AppTypes
<1>6. console' = console \/ \E o \in Outcomes : console' = Append(console, Promise!RowLine(r, k, o))
  BY DEF RunE2eCell
<1> HIDE DEF w, k
<1>7. Placed(w) BY <1>3, <1>4 DEF Placed
<1>8. Turns' /\ workers' \in [1..MaxRuns -> Workers] /\ workers'[runs'] = w
  BY <1>1, <1>4, <1>5, <1>7, WorkerMoves
<1>9. /\ console' \in Seq(Lines)
      /\ \A j \in DOMAIN console' : console'[j].run <= runs
  <2>1. console \in Seq(Lines) /\ \A j \in DOMAIN console : console[j].run <= runs
    BY DEF AppInv, AppTypes, Contents
  <2>2. CASE console' = console BY <2>1, <2>2
  <2>3. ASSUME NEW o \in Outcomes, console' = Append(console, Promise!RowLine(r, k, o))
        PROVE  /\ console' \in Seq(Lines)
               /\ \A j \in DOMAIN console' : console'[j].run <= runs
    <3>1. Promise!RowLine(r, k, o) \in Lines /\ Promise!RowLine(r, k, o).run = runs
      BY <1>2, <1>3 DEF Lines, Promise!RowLine
    <3> QED BY <1>2, <2>1, <2>3, <3>1
  <2> QED BY <1>6, <2>2, <2>3
<1>10. AppTypes' BY <1>5, <1>8, <1>9 DEF AppInv, AppTypes
<1>11. Lockstep' BY <1>1, <1>5 DEF Lockstep
<1>12. NoRows' BY <1>1, <1>2, <1>4, <1>5, <1>8 DEF AppInv, NoRows
<1>13. Contents' BY <1>1, <1>5, <1>9 DEF AppInv, Contents
<1> QED BY <1>8, <1>10, <1>11, <1>12, <1>13 DEF AppInv

LEMMA FinishWorkerKept == ASSUME AppInv, NEW r \in 1..MaxRuns, FinishWorker(r) PROVE AppInv'
<1> USE RowsAssumption, RunsAssumption
<1>1. Working(r) /\ workers[r].pc = "finish" BY DEF FinishWorker, Working
<1>2. /\ r = runs /\ running /\ runs \in Nat
      /\ workers[r] \in Workers /\ Placed(workers[r])
  BY <1>1, TheWorker DEF AppInv, AppTypes
<1> DEFINE w == [workers[r] EXCEPT !.pc = "ended"]
<1>3. w \in Workers /\ w.pc = "ended" /\ w.at = Rows /\ workers[r].at = Rows
      /\ w.report = <<>> /\ workers[r].report = <<>>
  BY <1>1, <1>2 DEF Workers, Pcs, Placed
<1>4. /\ UNCHANGED <<e2e, running, results, label, idleOff, runs>>
      /\ workers' = [workers EXCEPT ![r] = w] /\ mainQueue' = Append(mainQueue, FinishBlock)
      /\ mainQueue \in Seq(Blocks)
  BY DEF FinishWorker, WithFinish, AppInv, AppTypes
<1>5. console' = IF e2e THEN Append(console, Promise!MarkerLine(r)) ELSE console
  BY DEF FinishWorker
<1> HIDE DEF w
<1>6. Placed(w) BY <1>3 DEF Placed
<1>7. Turns' /\ workers' \in [1..MaxRuns -> Workers] /\ workers'[runs'] = w
  BY <1>1, <1>3, <1>4, <1>6, WorkerMoves
<1>8. FinishBlock \in Blocks /\ FinishBlock.kind = "finish" BY DEF FinishBlock, Blocks
<1>9. Promise!MarkerLine(r) \in Lines /\ Promise!MarkerLine(r).run = runs
      /\ Promise!MarkerLine(r).kind = "marker"
  BY <1>2 DEF Lines, Promise!MarkerLine
<1>10. /\ console' \in Seq(Lines)
       /\ \A j \in DOMAIN console' : console'[j].run <= runs
  <2>1. console \in Seq(Lines) /\ \A j \in DOMAIN console : console[j].run <= runs
    BY DEF AppInv, AppTypes, Contents
  <2> QED BY <1>2, <1>5, <1>9, <2>1
<1>11. AppTypes' BY <1>4, <1>7, <1>8, <1>10 DEF AppInv, AppTypes
<1>12. Lockstep'
  <2> SUFFICES ASSUME ~e2e PROVE Lockstep' BY <1>4 DEF Lockstep
  <2>1. Posted(workers[runs]) = 2 * Rows BY <1>1, <1>2, <1>3 DEF Posted
  <2>2. Posted(workers[runs])' = 2 * Rows + 1 BY <1>3, <1>7 DEF Posted
  <2>3. Lockstep /\ label \in Nat /\ results \in Seq(Results) BY DEF AppInv, AppTypes
  <2>4. Numbered(FinishBlock, 2 * Rows + 1) BY <1>8 DEF Numbered
  <2>5. 2 * Rows \in Nat OBVIOUS
  <2> QED BY <1>2, <1>4, <1>8, <2>1, <2>2, <2>3, <2>4, <2>5, LockstepGrows
<1>13. NoRows'
  <2> SUFFICES ASSUME e2e PROVE NoRows' BY <1>4 DEF NoRows
  <2>1. results = <<>> /\ mainQueue = <<>> BY <1>1, <1>2 DEF AppInv, NoRows
  <2>2. mainQueue' = <<FinishBlock>> BY <1>4, <2>1
  <2> QED BY <1>3, <1>4, <1>7, <2>1, <2>2 DEF NoRows
<1>14. Contents'
  <2>1. Pending(mainQueue') = Pending(mainQueue) BY <1>4, <1>8, PendingAppend
  <2>2. InHand(w) = InHand(workers[r]) BY <1>3 DEF InHand
  <2>3. OnScreen' = OnScreen BY <1>4 DEF OnScreen
  <2>4. ~e2e => console' = console BY <1>5
  <2> QED BY <1>2, <1>4, <1>7, <1>10, <2>1, <2>2, <2>3, <2>4 DEF AppInv, Contents
<1> QED BY <1>7, <1>11, <1>12, <1>13, <1>14 DEF AppInv

\* A block is queued only while a run is under way; its head's number.
LEMMA TheHead ==
  ASSUME AppInv, mainQueue # <<>>
  PROVE  /\ running /\ runs \in 1..MaxRuns /\ Placed(workers[runs]) /\ workers[runs] \in Workers
         /\ workers[runs].pc # "none"
         /\ mainQueue \in Seq(Blocks) /\ Head(mainQueue) \in Blocks
         /\ Tail(mainQueue) \in Seq(Blocks)
         /\ ~e2e => Numbered(Head(mainQueue), label + Len(results) + 1)
         /\ e2e => mainQueue = <<FinishBlock>> /\ workers[runs].pc = "ended"
<1> USE RowsAssumption, RunsAssumption
<1>1. running /\ runs > 0 BY DEF AppInv, Turns
<1>2. runs \in 1..MaxRuns /\ workers[runs] \in Workers BY <1>1 DEF AppInv, AppTypes
<1>3. Placed(workers[runs]) /\ workers[runs].pc # "none" BY <1>1 DEF AppInv, Turns
<1>4. mainQueue \in Seq(Blocks) BY DEF AppInv, AppTypes
<1>5. Head(mainQueue) = mainQueue[1] /\ 1 \in 1..Len(mainQueue) /\ Head(mainQueue) \in Blocks
      /\ Tail(mainQueue) \in Seq(Blocks)
  BY <1>4
<1>6. ~e2e => Numbered(Head(mainQueue), label + Len(results) + 1)
  BY <1>1, <1>5 DEF AppInv, Lockstep
<1>7. e2e => mainQueue = <<FinishBlock>> /\ workers[runs].pc = "ended"
  BY <1>1 DEF AppInv, NoRows
<1> QED BY <1>1, <1>2, <1>3, <1>4, <1>5, <1>6, <1>7

\* Lockstep when the main thread has run the next block and moved the screen.
LEMMA LockstepShrinks ==
  ASSUME Lockstep, running, ~e2e,
         mainQueue \in Seq(Blocks), mainQueue # <<>>, mainQueue' = Tail(mainQueue),
         results \in Seq(Results), label \in Nat,
         results' \in Seq(Results), label' \in {Len(results'), Len(results') + 1},
         label' + Len(results') = label + Len(results) + 1,
         UNCHANGED <<runs, workers>>
  PROVE  Lockstep'
<1> DEFINE o == label + Len(results)
<1>1. o \in Nat /\ o + Len(mainQueue) = Posted(workers[runs]) BY DEF Lockstep
<1>2. \A j \in 1..Len(mainQueue) : Numbered(mainQueue[j], o + j) BY DEF Lockstep
<1>3. /\ Len(mainQueue) \in Nat \ {0} /\ Len(mainQueue') = Len(mainQueue) - 1
      /\ \A j \in 1..Len(mainQueue') : mainQueue'[j] = mainQueue[j + 1]
  OBVIOUS
<1>4. o' = o + 1 OBVIOUS
<1>5. \A j \in 1..Len(mainQueue') : Numbered(mainQueue[j], o + j)'
  <2> SUFFICES ASSUME NEW j \in 1..Len(mainQueue') PROVE Numbered(mainQueue'[j], o' + j)
    BY DEF Numbered
  <2>1. j + 1 \in 1..Len(mainQueue) /\ mainQueue'[j] = mainQueue[j + 1] BY <1>3
  <2>2. o' + j = o + (j + 1) BY <1>1, <1>3, <1>4
  <2> QED BY <1>2, <2>1, <2>2
<1>6. Posted(workers[runs])' = Posted(workers[runs]) BY DEF Posted
<1>7. o' + Len(mainQueue') = o + Len(mainQueue) BY <1>1, <1>3, <1>4
<1> QED BY <1>1, <1>5, <1>6, <1>7 DEF Lockstep

LEMMA SetLabelKept == ASSUME AppInv, SetLabel PROVE AppInv'
<1> USE RowsAssumption, RunsAssumption
<1> DEFINE b == Head(mainQueue)
           o == label + Len(results)
<1>1. /\ mainQueue # <<>> /\ b.kind = "label" /\ mainQueue' = Tail(mainQueue) /\ label' = b.row
      /\ UNCHANGED <<e2e, running, results, idleOff, runs, workers, console>>
  BY DEF SetLabel
<1>2. /\ running /\ runs \in 1..MaxRuns
      /\ mainQueue \in Seq(Blocks) /\ b \in Blocks /\ Tail(mainQueue) \in Seq(Blocks)
  BY <1>1, TheHead
<1>3. ~e2e
  <2>1. Head(<<FinishBlock>>).kind = "finish" BY DEF FinishBlock
  <2> QED BY <1>1, <2>1, TheHead
<1>4. b.row \in 1..Rows /\ o + 1 = 2 * b.row - 1
  BY <1>1, <1>2, <1>3, TheHead DEF Blocks, FinishBlock, Numbered
<1>5. Lockstep /\ results \in Seq(Results) /\ label \in 0..Rows BY DEF AppInv, AppTypes
<1>6. label \in {Len(results), Len(results) + 1} BY <1>2, <1>3, <1>5 DEF Lockstep
<1>7. label = Len(results) /\ label' = Len(results) + 1 BY <1>1, <1>4, <1>5, <1>6
<1>8. AppTypes' BY <1>1, <1>2, <1>4 DEF AppInv, AppTypes
<1>9. Turns' BY <1>1, <1>2 DEF AppInv, Turns, Working, Placed
<1>10. Lockstep' BY <1>1, <1>2, <1>3, <1>5, <1>7, LockstepShrinks
<1>11. NoRows' BY <1>1, <1>3 DEF NoRows
<1>12. Contents'
  <2>1. Pending(mainQueue') = Pending(mainQueue) BY <1>1, <1>2, PendingTail
  <2>2. OnScreen' = OnScreen BY <1>1 DEF OnScreen
  <2> QED BY <1>1, <2>1, <2>2 DEF AppInv, Contents
<1> QED BY <1>8, <1>9, <1>10, <1>11, <1>12 DEF AppInv

LEMMA AppendResultKept == ASSUME AppInv, AppendResult PROVE AppInv'
<1> USE RowsAssumption, RunsAssumption
<1> DEFINE b == Head(mainQueue)
           o == label + Len(results)
<1>1. /\ mainQueue # <<>> /\ b.kind = "append" /\ mainQueue' = Tail(mainQueue)
      /\ results' = Append(results, b.result)
      /\ UNCHANGED <<e2e, running, label, idleOff, runs, workers, console>>
  BY DEF AppendResult
<1>2. /\ running /\ runs \in 1..MaxRuns
      /\ mainQueue \in Seq(Blocks) /\ b \in Blocks /\ Tail(mainQueue) \in Seq(Blocks)
  BY <1>1, TheHead
<1>3. ~e2e
  <2>1. Head(<<FinishBlock>>).kind = "finish" BY DEF FinishBlock
  <2> QED BY <1>1, <2>1, TheHead
<1>4. b.result \in Results /\ o + 1 = 2 * b.result.row
  BY <1>1, <1>2, <1>3, TheHead DEF Blocks, FinishBlock, Numbered
<1>5. b.result.row \in 1..Rows BY <1>4 DEF Results
<1>6. Lockstep /\ results \in Seq(Results) /\ label \in 0..Rows BY DEF AppInv, AppTypes
<1>7. label \in {Len(results), Len(results) + 1} BY <1>2, <1>3, <1>6 DEF Lockstep
<1>8. label = Len(results) + 1 /\ b.result.row = Len(results) + 1
  BY <1>4, <1>5, <1>6, <1>7
<1> HIDE DEF b
<1>9. results' \in Seq(Results) /\ Len(results') = Len(results) + 1
      /\ DOMAIN results' = DOMAIN results \cup {Len(results) + 1}
      /\ results'[Len(results) + 1] = b.result
      /\ \A j \in DOMAIN results : results'[j] = results[j] /\ j # Len(results) + 1
  BY <1>1, <1>4, <1>6
<1>10. AppTypes' BY <1>1, <1>2, <1>9 DEF AppInv, AppTypes
<1>11. Turns' BY <1>1, <1>2 DEF AppInv, Turns, Working, Placed
<1>12. Lockstep'
  <2>1. label' = Len(results') /\ label' + Len(results') = o + 1 BY <1>1, <1>6, <1>8, <1>9
  <2> QED BY <1>1, <1>2, <1>3, <1>6, <1>9, <2>1, LockstepShrinks
<1>13. NoRows' BY <1>1, <1>3 DEF NoRows
<1>14. Contents'
  <2>1. Pending(mainQueue) = Pending(mainQueue') \cup {b.result}
    BY <1>1, <1>2, PendingTail DEF b
  <2>2. OnScreen' = OnScreen \cup {b.result} BY <1>9 DEF OnScreen
  <2>3. \A j \in DOMAIN results' : results'[j].row = j BY <1>8, <1>9 DEF AppInv, Contents
  <2> QED BY <1>1, <1>2, <2>1, <2>2, <2>3 DEF AppInv, Contents
<1> QED BY <1>10, <1>11, <1>12, <1>13, <1>14 DEF AppInv

\* When the last block of a run is next it is the only one left, and what the
\* worker reported is on screen.
LEMMA TheLastBlock ==
  ASSUME AppInv, mainQueue # <<>>, Head(mainQueue).kind = "finish"
  PROVE  /\ Tail(mainQueue) = <<>> /\ workers[runs].pc = "ended"
         /\ workers[runs].at = Rows
         /\ ~e2e => Promise!RowsOf(console, runs) = OnScreen
<1> USE RowsAssumption, RunsAssumption
<1> DEFINE w == workers[runs]
           o == label + Len(results)
<1>1. /\ running /\ runs \in 1..MaxRuns /\ Placed(w) /\ w \in Workers /\ w.pc # "none"
      /\ mainQueue \in Seq(Blocks)
  BY TheHead
<1>2. CASE e2e
  <2>1. mainQueue = <<FinishBlock>> /\ w.pc = "ended" BY <1>2, TheHead
  <2>2. Tail(mainQueue) = <<>> BY <2>1
  <2>3. w.at = Rows BY <1>1, <2>1 DEF Placed
  <2> QED BY <1>2, <2>1, <2>2, <2>3
<1>3. CASE ~e2e
  <2>1. o + 1 = 2 * Rows + 1 BY <1>3, TheHead DEF Numbered
  <2>2. o \in Nat /\ Len(mainQueue) \in Nat \ {0}
    <3>1. results \in Seq(Results) /\ label \in Nat BY DEF AppInv, AppTypes
    <3> QED BY <1>1, <3>1
  <2> HIDE DEF o
  <2>3. Posted(w) = o + Len(mainQueue) BY <1>1, <1>3 DEF AppInv, Lockstep, o
  <2>4. w.at \in 0..Rows /\ w.pc \in Pcs BY <1>1 DEF Workers
  <2>5. o = 2 * Rows /\ Posted(w) \in Nat /\ Posted(w) >= 2 * Rows + 1 BY <2>1, <2>2, <2>3
  <2>6. w.pc = "ended"
    <3>1. w.pc \in {"announce", "run"} => Posted(w) < 2 * Rows BY <1>1, <2>4 DEF Placed, Posted
    <3>2. w.pc = "post" => Posted(w) < 2 * Rows BY <2>4 DEF Posted
    <3>3. w.pc = "finish" => Posted(w) <= 2 * Rows BY <2>4 DEF Posted
    <3>4. w.pc \notin {"announce", "run", "post", "finish"} BY <2>5, <3>1, <3>2, <3>3
    <3> QED BY <1>1, <2>4, <3>4 DEF Pcs
  <2>7. Posted(w) = 2 * Rows + 1 BY <2>6 DEF Posted
  <2>8. Len(mainQueue) = 1
    <3> DEFINE l == Len(mainQueue)
               d == 2 * Rows
    <3>1. l \in Nat /\ d \in Nat /\ o = d BY <2>2, <2>5
    <3>2. o + l = d + 1 BY <2>3, <2>7
    <3> HIDE DEF l, d
    <3>3. l = 1 BY <3>1, <3>2
    <3> QED BY <3>3 DEF l
  <2>9. Tail(mainQueue) = <<>>
    <3>1. Tail(mainQueue) \in Seq(Blocks) BY TheHead
    <3>2. Len(Tail(mainQueue)) = 0 BY <1>1, <2>8
    <3> QED BY <3>1, <3>2, EmptySeq
  <2>10. Pending(mainQueue) = {}
    <3>1. Pending(<<>>) = {} BY DEF Pending
    <3> QED BY <1>1, <2>9, <3>1, PendingTail
  <2>11. w.at = Rows /\ w.report = <<>> BY <1>1, <2>6 DEF Placed
  <2>12. InHand(w) = {} BY <2>11 DEF InHand
  <2>13. Promise!RowsOf(console, runs) = OnScreen \cup Pending(mainQueue) \cup InHand(w)
    BY <1>1, <1>3 DEF AppInv, Contents
  <2> QED BY <2>6, <2>9, <2>10, <2>11, <2>12, <2>13
<1> QED BY <1>2, <1>3

LEMMA FinishRunKept == ASSUME AppInv, FinishRun PROVE AppInv'
<1> USE RowsAssumption, RunsAssumption
<1> DEFINE v == Promise!VerdictLine(runs, OnScreen)
           m == Promise!MarkerLine(runs)
<1>1. /\ mainQueue # <<>> /\ Head(mainQueue).kind = "finish"
      /\ running' = FALSE /\ label' = 0 /\ idleOff' = FALSE
      /\ UNCHANGED <<e2e, results, runs, workers>>
  BY DEF FinishRun, AllowSleep
<1>2. mainQueue' = <<>> /\ workers[runs].pc = "ended"
      /\ (~e2e => Promise!RowsOf(console, runs) = OnScreen)
  BY <1>1, TheLastBlock DEF FinishRun
<1>3. /\ runs \in 1..MaxRuns /\ runs \in Nat
      /\ console \in Seq(Lines) /\ \A j \in DOMAIN console : console[j].run <= runs
      /\ results \in Seq(Results)
  BY <1>1, TheHead DEF AppInv, AppTypes, Contents
<1>4. console' = IF e2e THEN console ELSE Append(Append(console, v), m)
  <2>1. console' = IF e2e THEN console ELSE console \o <<v, m>> BY DEF FinishRun
  <2>2. OnScreen \in SUBSET Results BY <1>3 DEF OnScreen
  <2>3. v \in Lines /\ m \in Lines
    BY <1>3, <2>2 DEF Lines, Promise!VerdictLine, Promise!MarkerLine
  <2> HIDE DEF v, m
  <2>4. console \o <<v, m>> = Append(Append(console, v), m) BY <1>3, <2>3
  <2> QED BY <2>1, <2>4
<1>5. v \in Lines /\ v.run = runs /\ v.kind = "verdict" /\ m \in Lines /\ m.run = runs /\ m.kind = "marker"
  <2>1. OnScreen \in SUBSET Results BY <1>3 DEF OnScreen
  <2> QED BY <1>3, <2>1 DEF Lines, Promise!VerdictLine, Promise!MarkerLine
<1> HIDE DEF v, m
<1>6. console' \in Seq(Lines) /\ \A j \in DOMAIN console' : console'[j].run <= runs
  BY <1>3, <1>4, <1>5
<1>7. AppTypes'
  <2>1. mainQueue' \in Seq(Blocks) /\ label' \in 0..Rows BY <1>1, <1>2
  <2>2. running' \in BOOLEAN /\ idleOff' \in BOOLEAN BY <1>1
  <2> QED BY <1>1, <1>6, <2>1, <2>2 DEF AppInv, AppTypes
<1>8. Turns'
  <2>1. \A r \in 1..MaxRuns : ~Working(r)'
    BY <1>1, <1>2 DEF AppInv, Turns, Working
  <2> QED BY <1>1, <1>2, <2>1 DEF AppInv, Turns, Placed
<1>9. Lockstep' BY <1>1 DEF Lockstep
<1>10. NoRows' BY <1>1 DEF AppInv, NoRows
<1>11. Contents'
  <2>1. Promise!RowsOf(console', runs) = Promise!RowsOf(console, runs)
    <3>1. \A c \in Seq(Lines), x \in Lines :
             x.kind # "row" => Promise!RowsOf(Append(c, x), runs) = Promise!RowsOf(c, runs)
      <4> SUFFICES ASSUME NEW c \in Seq(Lines), NEW x \in Lines, x.kind # "row"
                   PROVE  Promise!RowsOf(Append(c, x), runs) = Promise!RowsOf(c, runs)
        OBVIOUS
      <4> DEFINE new == IF x.kind = "row" /\ x.run = runs THEN {[row |-> x.row, outcome |-> x.outcome]} ELSE {}
      <4>1. new = {} OBVIOUS
      <4>2. Promise!RowsOf(Append(c, x), runs) = Promise!RowsOf(c, runs) \cup new BY RowsOfAppend
      <4> QED BY <4>1, <4>2
    <3>2. Append(console, v) \in Seq(Lines) BY <1>3, <1>5
    <3>3. v.kind # "row" /\ m.kind # "row" BY <1>5
    <3>4. Promise!RowsOf(Append(Append(console, v), m), runs) = Promise!RowsOf(console, runs)
      BY <1>3, <1>5, <3>1, <3>2, <3>3
    <3> QED BY <1>4, <3>4
  <2>2. OnScreen' = OnScreen BY <1>1 DEF OnScreen
  <2>3. Pending(mainQueue') = {} BY <1>2 DEF Pending
  <2>4. InHand(workers[runs]) = {}
    BY <1>1, <1>2, TheHead DEF Placed, InHand
  <2> QED BY <1>1, <1>2, <1>6, <2>1, <2>2, <2>3, <2>4 DEF AppInv, Contents
<1> QED BY <1>7, <1>8, <1>9, <1>10, <1>11 DEF AppInv

LEMMA AppKept == AppInv /\ [Next]_vars => AppInv'
<1> SUFFICES ASSUME AppInv, [Next]_vars PROVE AppInv' OBVIOUS
<1>1. CASE RunAll BY <1>1, RunAllKept
<1>2. CASE MainBlock
  BY <1>2, SetLabelKept, AppendResultKept, FinishRunKept DEF MainBlock
<1>3. ASSUME NEW r \in 1..MaxRuns, Work(r) PROVE AppInv'
  BY <1>3, AnnounceKept, RunWorkloadKept, PostResultKept, RunE2eCellKept, FinishWorkerKept
  DEF Work
<1>4. CASE UNCHANGED vars
  BY <1>4 DEF vars, AppInv, AppTypes, Turns, Placed, Working, Lockstep, Posted, Numbered,
              NoRows, Contents, OnScreen
<1> QED BY <1>1, <1>2, <1>3, <1>4 DEF Next, Idle

\* The invariant the theorems below rest on holds in every state.
THEOREM AppIsConsistent == Spec => []AppInv
<1>1. Init => AppInv BY AppInitially
<1>2. AppInv /\ [Next]_vars => AppInv' BY AppKept
<1> QED BY <1>1, <1>2, PTL DEF Spec

\* For any number of rows and runs: what is on screen is a prefix of the
\* catalog, without repeats, taken from the current run's console lines, and
\* the status line is at most one row ahead of it, though the two travel
\* through the main queue in separate blocks.
THEOREM ScreenAlwaysMatches == Spec => []ScreenMatchesConsole
<1>1. AppInv => ScreenMatchesConsole
  <2> SUFFICES ASSUME AppInv PROVE ScreenMatchesConsole OBVIOUS
  <2>1. \A j \in DOMAIN results : results[j].row = j BY DEF AppInv, Contents
  <2>2. OnScreen \subseteq Promise!RowsOf(console, runs)
    <3>1. runs \in Nat BY RunsAssumption DEF AppInv, AppTypes
    <3>2. CASE e2e \/ runs = 0
      <4>1. results = <<>> BY <3>2 DEF AppInv, NoRows, Contents
      <4> QED BY <4>1 DEF OnScreen
    <3>3. CASE ~e2e /\ runs > 0 BY <3>3 DEF AppInv, Contents
    <3> QED BY <3>1, <3>2, <3>3
  <2>3. (running /\ ~e2e) => Len(results) \in {label - 1, label}
    <3>1. results \in Seq(Results) /\ label \in Nat BY RowsAssumption DEF AppInv, AppTypes
    <3> QED BY <3>1 DEF AppInv, Lockstep
  <2> QED BY <2>1, <2>2, <2>3 DEF ScreenMatchesConsole
<1> QED BY <1>1, AppIsConsistent, PTL

\* For any number of runs: one worker at a time, the screen kept awake while
\* it works and allowed to sleep after the run.
THEOREM OneWorkerAlways == Spec => []OneWakefulWorker
<1>1. AppInv => OneWakefulWorker
  <2> SUFFICES ASSUME AppInv PROVE OneWakefulWorker OBVIOUS
  <2>1. \A r \in 1..MaxRuns : Working(r) => r = runs /\ idleOff BY TheWorker
  <2>2. ~running => ~idleOff BY DEF AppInv, AppTypes, Turns
  <2> QED BY <2>1, <2>2 DEF OneWakefulWorker
<1> QED BY <1>1, AppIsConsistent, PTL

-----------------------------------------------------------------------------
(* The app implements AppConsole. *)

Reporting ==
    \E r \in 1..MaxRuns : workers[r].pc \notin {"none", "ended"}
                    \/ (~e2e /\ r = runs /\ running)
At == IF runs = 0 THEN 0 ELSE workers[runs].at

\* In E2E mode the run is over for the reader when the worker is, otherwise
\* when the main thread has run its last block.
Meaning ==
    /\ Reporting <=> running /\ (e2e => workers[runs].pc # "ended")
    /\ running => runs \in 1..MaxRuns

LEMMA ReportingMeans == AppInv => Meaning
<1> SUFFICES ASSUME AppInv PROVE Meaning OBVIOUS
<1>1. running => runs \in 1..MaxRuns BY RunsAssumption DEF AppInv, AppTypes, Turns
<1>2. ASSUME Reporting PROVE running /\ (e2e => workers[runs].pc # "ended")
  <2>1. PICK r \in 1..MaxRuns : Working(r) \/ (~e2e /\ r = runs /\ running)
    BY <1>2 DEF Reporting, Working
  <2>2. CASE Working(r) BY <2>2, TheWorker DEF Working
  <2>3. CASE ~e2e /\ r = runs /\ running BY <2>3
  <2> QED BY <2>1, <2>2, <2>3
<1>3. ASSUME running, e2e => workers[runs].pc # "ended" PROVE Reporting
  <2>1. workers[runs].pc # "none" BY <1>3 DEF AppInv, Turns
  <2> QED BY <1>1, <1>3, <2>1 DEF Reporting
<1> QED BY <1>1, <1>2, <1>3 DEF Meaning

LEMMA ReportingMeansNext == AppInv' => Meaning'
<1>1. AppInv => Meaning BY ReportingMeans
<1> QED BY <1>1, PTL

\* A step of the worker of the current run, seen from the console.
LEMMA WorkerSeen ==
  ASSUME AppInv, AppInv', NEW r \in 1..MaxRuns, Working(r), UNCHANGED <<e2e, running, runs>>
  PROVE  /\ r = runs /\ running /\ Reporting /\ At = workers[r].at /\ At' = workers'[r].at
         /\ workers[r] \in Workers /\ Placed(workers[r])
         /\ Reporting' <=> (e2e => workers'[r].pc # "ended")
<1>1. r = runs /\ running /\ runs # 0 /\ workers[r] \in Workers /\ Placed(workers[r]) BY TheWorker
<1>2. Reporting BY DEF Reporting, Working
<1>3. At = workers[r].at /\ At' = workers'[r].at BY <1>1 DEF At
<1>4. Reporting' <=> running' /\ (e2e' => workers'[runs'].pc # "ended")
  BY ReportingMeansNext DEF Meaning
<1> QED BY <1>1, <1>2, <1>3, <1>4

LEMMA SeenRunAll == AppInv /\ AppInv' /\ RunAll => Promise!Begin
<1> SUFFICES ASSUME AppInv, AppInv', RunAll PROVE Promise!Begin OBVIOUS
<1>1. ~running /\ running' /\ runs < MaxRuns /\ runs' = runs + 1 /\ e2e' = e2e
      /\ console' = Append(console, Promise!HeaderLine(runs + 1))
  BY DEF RunAll, MayRun
<1>2. runs \in 0..MaxRuns /\ workers \in [1..MaxRuns -> Workers] BY DEF AppInv, AppTypes
<1>3. runs' \in 1..MaxRuns /\ runs' # 0 BY <1>1, <1>2, RunsAssumption
<1>4. workers'[runs'] = [pc |-> NextRow(0), at |-> 0, report |-> <<>>]
  BY <1>1, <1>2, <1>3 DEF RunAll
<1>5. ~Reporting BY <1>1, ReportingMeans DEF Meaning
<1>6. Reporting' BY <1>1, <1>4, ReportingMeansNext DEF Meaning, NextRow
<1>7. At' = 0 BY <1>3, <1>4 DEF At
<1> QED BY <1>1, <1>5, <1>6, <1>7 DEF Promise!Begin, Reporting, At

\* A step the console does not show.
LEMMA Unseen ==
  ASSUME UNCHANGED <<e2e, console, runs>>, Reporting' <=> Reporting, At' = At
  PROVE  UNCHANGED Promise!vars
BY DEF Promise!vars, Reporting, At

LEMMA SeenRow ==
  ASSUME NEW r \in 1..MaxRuns, AppInv, AppInv', RunWorkload(r) \/ RunE2eCell(r)
  PROVE  Promise!Row
<1>1. Working(r) /\ workers[r].pc = "run" /\ UNCHANGED <<e2e, running, runs>>
  BY DEF RunWorkload, RunE2eCell, Working
<1>2. /\ r = runs /\ Reporting /\ At = workers[r].at /\ At' = workers'[r].at
      /\ Reporting' <=> (e2e => workers'[r].pc # "ended")
      /\ At < Rows
  BY <1>1, WorkerSeen DEF Placed
<1>3. workers \in [1..MaxRuns -> Workers] BY DEF AppInv, AppTypes
<1>4. At' = At + 1 /\ Reporting'
  <2>1. CASE RunWorkload(r)
    <3>1. ~e2e /\ workers'[r].at = workers[r].at + 1 BY <1>3, <2>1 DEF RunWorkload
    <3> QED BY <1>2, <3>1
  <2>2. CASE RunE2eCell(r)
    <3>1. workers'[r] = [pc |-> NextRow(workers[r].at + 1), at |-> workers[r].at + 1, report |-> <<>>]
      BY <1>3, <2>2 DEF RunE2eCell
    <3>2. workers'[r].pc # "ended" /\ workers'[r].at = workers[r].at + 1 BY <3>1 DEF NextRow
    <3> QED BY <1>2, <3>2
  <2> QED BY <2>1, <2>2
<1>5. \/ \E o \in Outcomes : console' = Append(console, Promise!RowLine(runs, At + 1, o))
      \/ e2e /\ console' = console
  BY <1>2 DEF RunWorkload, RunE2eCell
<1> QED BY <1>1, <1>2, <1>4, <1>5 DEF Promise!Row, Reporting, At

LEMMA SeenHandOver ==
  ASSUME NEW r \in 1..MaxRuns, AppInv, AppInv', Announce(r) \/ PostResult(r)
  PROVE  UNCHANGED Promise!vars
<1>1. Working(r) /\ UNCHANGED <<e2e, running, runs, console>> /\ workers[r].pc \in {"announce", "post"}
  BY DEF Announce, PostResult, Working
<1>2. /\ Reporting /\ At = workers[r].at /\ At' = workers'[r].at
      /\ Reporting' <=> (e2e => workers'[r].pc # "ended")
      /\ ~e2e
  BY <1>1, WorkerSeen DEF Placed
<1>3. workers \in [1..MaxRuns -> Workers] BY DEF AppInv, AppTypes
<1>4. workers'[r].at = workers[r].at
  <2>1. CASE Announce(r)
    <3>1. workers'[r] = [workers[r] EXCEPT !.pc = "run"] BY <1>3, <2>1 DEF Announce
    <3>2. workers[r] \in Workers BY <1>3
    <3> QED BY <3>1, <3>2 DEF Workers
  <2>2. CASE PostResult(r) BY <1>3, <2>2 DEF PostResult
  <2> QED BY <2>1, <2>2
<1> QED BY <1>1, <1>2, <1>4, Unseen

LEMMA SeenFinishWorker ==
  ASSUME NEW r \in 1..MaxRuns, AppInv, AppInv', FinishWorker(r)
  PROVE  Promise!Close \/ UNCHANGED Promise!vars
<1>1. Working(r) /\ UNCHANGED <<e2e, running, runs>> /\ workers[r].pc = "finish"
  BY DEF FinishWorker, Working
<1>2. /\ r = runs /\ Reporting /\ At = workers[r].at /\ At' = workers'[r].at
      /\ Reporting' <=> (e2e => workers'[r].pc # "ended")
      /\ At = Rows /\ workers[r] \in Workers
  BY <1>1, WorkerSeen DEF Placed
<1>3. workers'[r].pc = "ended" /\ workers'[r].at = workers[r].at
  <2>1. workers'[r] = [workers[r] EXCEPT !.pc = "ended"]
    BY DEF AppInv, AppTypes, FinishWorker
  <2> QED BY <1>2, <2>1 DEF Workers
<1>4. CASE e2e
  <2>1. console' = Append(console, Promise!MarkerLine(runs)) BY <1>2, <1>4 DEF FinishWorker
  <2>2. ~Reporting' /\ At' = At BY <1>2, <1>3, <1>4
  <2> QED BY <1>1, <1>2, <1>4, <2>1, <2>2 DEF Promise!Close, Reporting, At
<1>5. CASE ~e2e
  <2>1. console' = console BY <1>5 DEF FinishWorker
  <2> QED BY <1>1, <1>2, <1>3, <1>5, <2>1, Unseen
<1> QED BY <1>4, <1>5

LEMMA SeenFinishRun ==
  ASSUME AppInv, AppInv', FinishRun
  PROVE  Promise!Close \/ UNCHANGED Promise!vars
<1>1. /\ mainQueue # <<>> /\ Head(mainQueue).kind = "finish"
      /\ ~running' /\ UNCHANGED <<e2e, runs, workers>>
  BY DEF FinishRun
<1>2. running /\ runs \in 1..MaxRuns BY <1>1, TheHead
<1>3. /\ workers[runs].pc = "ended" /\ workers[runs].at = Rows
      /\ ~e2e => Promise!RowsOf(console, runs) = OnScreen
  BY <1>1, TheLastBlock
<1>4. At = Rows /\ At' = At BY <1>1, <1>2, <1>3, RunsAssumption DEF At
<1>5. ~Reporting' BY <1>1, ReportingMeansNext DEF Meaning
<1>6. Reporting <=> ~e2e BY <1>2, <1>3, ReportingMeans DEF Meaning
<1>7. CASE e2e
  <2>1. console' = console BY <1>7 DEF FinishRun
  <2> QED BY <1>1, <1>4, <1>5, <1>6, <1>7, <2>1, Unseen
<1>8. CASE ~e2e
  <2>1. console' = console \o <<Promise!VerdictLine(runs, Promise!RowsOf(console, runs)),
                                Promise!MarkerLine(runs)>>
    BY <1>3, <1>8 DEF FinishRun
  <2> QED BY <1>1, <1>4, <1>5, <1>6, <1>8, <2>1 DEF Promise!Close, Reporting, At
<1> QED BY <1>7, <1>8

LEMMA SeenOnScreen ==
  ASSUME AppInv, AppInv', SetLabel \/ AppendResult
  PROVE  UNCHANGED Promise!vars
<1>1. UNCHANGED <<e2e, running, runs, workers, console>> BY DEF SetLabel, AppendResult
<1>2. At' = At /\ (Reporting' <=> Reporting) BY <1>1 DEF At, Reporting
<1> QED BY <1>1, <1>2, Unseen

\* Every step of the app is one the console's reader may see, or none.
LEMMA EveryStepSeen == AppInv /\ AppInv' /\ [Next]_vars => [Promise!Next]_(Promise!vars)
<1> SUFFICES ASSUME AppInv, AppInv', [Next]_vars PROVE Promise!Next \/ UNCHANGED Promise!vars
  OBVIOUS
<1>1. CASE RunAll BY <1>1, SeenRunAll DEF Promise!Next
<1>2. CASE MainBlock BY <1>2, SeenOnScreen, SeenFinishRun DEF MainBlock, Promise!Next
<1>3. ASSUME NEW r \in 1..MaxRuns, Work(r) PROVE Promise!Next \/ UNCHANGED Promise!vars
  <2>1. CASE Announce(r) \/ PostResult(r) BY <2>1, SeenHandOver
  <2>2. CASE RunWorkload(r) \/ RunE2eCell(r) BY <2>2, SeenRow DEF Promise!Next
  <2>3. CASE FinishWorker(r) BY <2>3, SeenFinishWorker DEF Promise!Next
  <2> QED BY <1>3, <2>1, <2>2, <2>3 DEF Work
<1>4. CASE UNCHANGED vars BY <1>4 DEF vars, Promise!vars
<1> QED BY <1>1, <1>2, <1>3, <1>4 DEF Next, Idle

\* For any number of rows and runs the console keeps the promise the launcher
\* and the summary rely on: whatever the order in which the main thread and the
\* worker run, no row of a run comes after its marker, the rows come in catalog
\* order, and the verdict runAll prints is over all of them.
THEOREM AppKeepsPromise == Spec => KeepsPromise
<1>1. Init => Promise!Init
  <2> SUFFICES ASSUME Init PROVE Promise!Init OBVIOUS
  <2>1. ~running /\ runs = 0 /\ console = <<>> /\ e2e \in BOOLEAN BY DEF Init
  <2>2. \A r \in 1..MaxRuns : workers[r].pc = "none" BY DEF Init, NoWorker
  <2>3. ~Reporting /\ At = 0 BY <2>1, <2>2 DEF Reporting, At
  <2> QED BY <2>1, <2>3 DEF Promise!Init, Reporting, At
<1>2. AppInv /\ AppInv' /\ [Next]_vars => [Promise!Next]_(Promise!vars) BY EveryStepSeen
<1>3. Spec => []AppInv BY AppIsConsistent
<1> QED BY <1>1, <1>2, <1>3, PTL DEF Spec, KeepsPromise, Promise!Spec
=============================================================================
