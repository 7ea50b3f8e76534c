---------------------------- MODULE Harness_proofs ----------------------------
(***************************************************************************)
(* Proofs about what a case runs in.                                       *)
(*                                                                         *)
(* Measure: the iteration count stays in its bounds for every budget and   *)
(* duration, the CPU accounting of a window is right for every             *)
(* interleaving with the other threads of the process, and the statistics  *)
(* of a report describe its samples, however many there are.               *)
(*                                                                         *)
(* AdapterLifecycle: a runner that keeps to AdapterDiscipline uses, frees  *)
(* and measures its native objects as it should, whatever fails and        *)
(* however often its calls are repeated.                                   *)
(***************************************************************************)
EXTENDS Measure, AdapterLifecycle, AdapterDiscipline, Lists_proofs, FiniteSetTheorems

-----------------------------------------------------------------------------
(* The arithmetic.                                                         *)

\* AtLeast1 is a positive number, never below its argument.
LEMMA AtLeast1Bounds ==
    ASSUME NEW t \in Nat
    PROVE  AtLeast1(t) \in Nat \ {0} /\ AtLeast1(t) >= t
BY DEF AtLeast1

\* The budget is a number of ticks, set by the variable or by the caller.
LEMMA TargetIsNat == Target \in Nat
BY TargetAssumption DEF Target

\* A quotient times its divisor stays within the dividend.
LEMMA QuotientFits ==
    ASSUME NEW a \in Nat, NEW b \in Nat \ {0}
    PROVE  a \div b \in Nat /\ (a \div b) * b <= a
BY SMT

\* Multiplying keeps the order of two numbers.
LEMMA Monotone ==
    ASSUME NEW a \in Nat, NEW b \in Nat, NEW c \in Nat, a <= b
    PROVE  a * c <= b * c
BY SMT

\* pick_iters never returns 0, never more than MaxIters, and more than one
\* call only as many as fit the budget at the speed of the warm-up.
THEOREM PickItersBounds ==
    ASSUME NEW t \in Nat
    PROVE  /\ PickIters(t) \in 1..MaxIters
           /\ PickIters(t) = 1 \/ PickIters(t) * AtLeast1(t) <= Target
<1> DEFINE b == AtLeast1(t)
           q == Target \div b
           raw == AtLeast1(q)
<1>1. b \in Nat \ {0} BY AtLeast1Bounds
<1>2. q \in Nat /\ q * b <= Target BY <1>1, TargetIsNat, QuotientFits
<1>3. raw \in Nat \ {0} BY <1>2, AtLeast1Bounds
<1>4. PickIters(t) = IF raw > MaxIters THEN MaxIters ELSE raw BY DEF PickIters
<1>5. PickIters(t) \in 1..MaxIters BY <1>3, <1>4, MaxItersAssumption
<1>6. CASE q = 0
  <2>1. raw = 1 BY <1>6 DEF AtLeast1
  <2>2. PickIters(t) = 1 BY <2>1, <1>4, MaxItersAssumption
  <2>. QED BY <2>2, <1>5
<1>7. CASE q # 0
  <2>1. raw = q BY <1>7 DEF AtLeast1
  <2>2. PickIters(t) \in Nat /\ PickIters(t) <= q BY <2>1, <1>2, <1>4, MaxItersAssumption
  <2>3. PickIters(t) * b <= q * b BY <2>2, <1>1, <1>2, Monotone
  <2>4. PickIters(t) * b \in Nat /\ q * b \in Nat BY <2>2, <1>1, <1>2
  <2>5. PickIters(t) * b <= Target BY <2>3, <2>4, <1>2, TargetIsNat
  <2>. QED BY <2>5, <1>5
<1>. QED BY <1>6, <1>7

\* The indices Window::finish takes are inside the sorted samples, and at least
\* 99 % of them are at or before the second.
THEOREM IndicesInRange ==
    ASSUME NEW len \in Nat \ {0}
    PROVE  /\ MedianIndex(len) \in 0..(len - 1)
           /\ P99Index(len) \in 0..(len - 1)
           /\ 100 * (P99Index(len) + 1) >= 99 * len
BY SMT DEF MedianIndex, P99Index

-----------------------------------------------------------------------------
(* The sorted samples, by counting.                                        *)

Below(s, v) == Cardinality({i \in DOMAIN s : s[i] < v})
UpTo(s, v) == Cardinality({i \in DOMAIN s : s[i] <= v})

\* A sequence has as many positions as its length says.
LEMMA Positions ==
    ASSUME NEW s \in Seq(Nat)
    PROVE  IsFiniteSet(DOMAIN s) /\ Cardinality(DOMAIN s) = Len(s)
<1>1. DOMAIN s = 1..Len(s) /\ Len(s) \in Nat BY LenProperties
<1>2. /\ IsFiniteSet(1..Len(s))
      /\ Cardinality(1..Len(s)) = IF 1 > Len(s) THEN 0 ELSE Len(s) - 1 + 1
  BY <1>1, FS_Interval
<1>. QED BY <1>1, <1>2

\* Any set of positions is finite, and a larger set has no fewer members.
LEMMA Counting ==
    ASSUME NEW s \in Seq(Nat), NEW A, NEW B, A \subseteq B, B \subseteq DOMAIN s
    PROVE  /\ Cardinality(A) \in Nat /\ Cardinality(B) \in Nat
           /\ Cardinality(A) <= Cardinality(B) /\ Cardinality(B) <= Len(s)
           /\ Cardinality(A) = Cardinality(B) => A = B
<1>2. IsFiniteSet(DOMAIN s) /\ Cardinality(DOMAIN s) = Len(s) BY Positions
<1>3. IsFiniteSet(B) /\ Cardinality(B) <= Cardinality(DOMAIN s)
  <2>1. B \in SUBSET DOMAIN s OBVIOUS
  <2>. QED BY <1>2, <2>1, FS_Subset
<1>4. /\ IsFiniteSet(A) /\ Cardinality(A) <= Cardinality(B)
      /\ Cardinality(A) = Cardinality(B) => A = B
  BY <1>3, FS_Subset
<1>. QED BY <1>2, <1>3, <1>4, FS_CardinalityType

\* The counts are numbers of positions, and what is not below v is at least v.
LEMMA Counts ==
    ASSUME NEW s \in Seq(Nat), NEW v \in Nat
    PROVE  /\ Below(s, v) \in Nat /\ UpTo(s, v) \in Nat
           /\ Below(s, v) <= UpTo(s, v) /\ UpTo(s, v) <= Len(s)
           /\ Cardinality({i \in DOMAIN s : s[i] >= v}) = Len(s) - Below(s, v)
<1> DEFINE D == DOMAIN s
           B == {i \in D : s[i] < v}
           U == {i \in D : s[i] <= v}
           A == {i \in D : s[i] >= v}
<1>1. \A i \in D : s[i] \in Nat BY ElementOfSeq, LenProperties
<1>2. B \subseteq U /\ U \subseteq D BY <1>1
<1>4. IsFiniteSet(D) /\ Cardinality(D) = Len(s) BY Positions
<1>5. A = D \ B BY <1>1
<1>6. Cardinality(A) = Cardinality(D) - Cardinality(D \cap B)
  BY <1>4, <1>5, FS_Difference
<1>7. D \cap B = B OBVIOUS
<1>. QED BY <1>2, <1>4, <1>6, <1>7, Counting DEF Below, UpTo

\* No more samples count up to a value than below a greater one.
LEMMA UpToBelow ==
    ASSUME NEW s \in Seq(Nat), NEW u \in Nat, NEW v \in Nat, u < v
    PROVE  UpTo(s, u) <= Below(s, v)
<1>1. \A i \in DOMAIN s : s[i] \in Nat BY ElementOfSeq, LenProperties
<1>2. {i \in DOMAIN s : s[i] <= u} \subseteq {i \in DOMAIN s : s[i] < v} BY <1>1
<1>. QED BY <1>2, Counting DEF UpTo, Below

\* Some sample among those at a set of positions is the largest: the one up to
\* which most samples count.
LEMMA LargestSample ==
    ASSUME NEW s \in Seq(Nat), NEW I, I \subseteq DOMAIN s, I # {}
    PROVE  \E j \in I : \A i \in I : s[i] <= s[j]
<1>0. \A i \in DOMAIN s : s[i] \in Nat BY ElementOfSeq, LenProperties
<1> DEFINE T == {Len(s) - UpTo(s, s[i]) : i \in I}
<1>1. T \subseteq Nat
  <2>. SUFFICES ASSUME NEW i \in I PROVE Len(s) - UpTo(s, s[i]) \in Nat OBVIOUS
  <2>1. s[i] \in Nat BY <1>0
  <2>2. UpTo(s, s[i]) \in Nat /\ UpTo(s, s[i]) <= Len(s) BY <2>1, Counts
  <2>3. Len(s) \in Nat BY LenProperties
  <2>. QED BY <2>2, <2>3
<1>2. T # {} OBVIOUS
<1>3. PICK m \in T : \A k \in T : m <= k BY <1>1, <1>2, Least
<1>4. PICK j \in I : m = Len(s) - UpTo(s, s[j]) OBVIOUS
<1>5. ASSUME NEW i \in I PROVE s[i] <= s[j]
  <2>1. SUFFICES ASSUME s[j] < s[i] PROVE FALSE BY <1>0
  <2>2. s[i] \in Nat /\ s[j] \in Nat BY <1>0
  <2>3. UpTo(s, s[j]) <= Below(s, s[i]) BY <2>1, <2>2, UpToBelow
  <2>4. Below(s, s[i]) < UpTo(s, s[i])
    <3> DEFINE B == {k \in DOMAIN s : s[k] < s[i]}
               U == {k \in DOMAIN s : s[k] <= s[i]}
    <3>1. B \subseteq U BY <1>0
    <3>2. i \in U /\ i \notin B BY <2>2
    <3>3. Cardinality(B) # Cardinality(U) BY <3>1, <3>2, Counting
    <3>. QED BY <3>1, <3>3, Counting DEF Below, UpTo
  <2>5. Len(s) - UpTo(s, s[j]) <= Len(s) - UpTo(s, s[i]) BY <1>3, <1>4
  <2>6. Len(s) \in Nat BY LenProperties
  <2>7. /\ UpTo(s, s[j]) \in Nat /\ UpTo(s, s[i]) \in Nat /\ Below(s, s[i]) \in Nat
    BY <2>2, Counts
  <2>. QED BY <2>3, <2>4, <2>5, <2>6, <2>7
<1>. QED BY <1>5

\* Ranked is defined at every position: it is one of the samples, with at most k
\* samples below it and more than k up to it.
THEOREM RankedIsASample ==
    ASSUME NEW s \in Seq(Nat), NEW k \in 0..(Len(s) - 1)
    PROVE  /\ Ranked(s, k) \in Nat
           /\ Below(s, Ranked(s, k)) <= k /\ k < UpTo(s, Ranked(s, k))
<1>0. /\ \A i \in DOMAIN s : s[i] \in Nat
      /\ DOMAIN s = 1..Len(s) /\ Len(s) \in Nat
      /\ k \in Nat /\ k < Len(s)
  BY ElementOfSeq, LenProperties
<1> DEFINE V == {s[i] : i \in DOMAIN s}
           T == {v \in V : k < UpTo(s, v)}
<1>1. T \subseteq Nat BY <1>0
<1>2. T # {}
  <2>0. 1 \in DOMAIN s BY <1>0
  <2>1. PICK j \in DOMAIN s : \A i \in DOMAIN s : s[i] <= s[j] BY <2>0, LargestSample
  <2>2. {i \in DOMAIN s : s[i] <= s[j]} = DOMAIN s BY <2>1
  <2>3. UpTo(s, s[j]) = Len(s) BY <2>2, Positions DEF UpTo
  <2>4. s[j] \in V OBVIOUS
  <2>. QED BY <1>0, <2>3, <2>4
<1>3. PICK m \in T : \A v \in T : m <= v BY <1>1, <1>2, Least
<1>4. m \in V /\ m \in Nat /\ k < UpTo(s, m) BY <1>1
<1>5. Below(s, m) <= k
  <2>0. Below(s, m) \in Nat BY <1>4, Counts
  <2>1. SUFFICES ASSUME k < Below(s, m) PROVE FALSE BY <1>0, <2>0
  <2> DEFINE B == {i \in DOMAIN s : s[i] < m}
  <2>2. B # {} 
    <3>1. SUFFICES ASSUME B = {} PROVE FALSE OBVIOUS
    <3>2. Below(s, m) = 0 BY <3>1, FS_EmptySet DEF Below
    <3>. QED BY <3>2, <2>1, <1>0
  <2>3. PICK j \in B : \A i \in B : s[i] <= s[j] BY <2>2, LargestSample
  <2>4. j \in DOMAIN s /\ s[j] < m /\ s[j] \in Nat BY <1>0
  <2>5. B = {i \in DOMAIN s : s[i] <= s[j]} BY <1>0, <1>4, <2>3, <2>4
  <2>6. UpTo(s, s[j]) = Below(s, m) BY <2>5 DEF UpTo, Below
  <2>7. s[j] \in T BY <2>1, <2>4, <2>6
  <2>8. m <= s[j] BY <1>3, <2>7
  <2>. QED BY <1>4, <2>4, <2>8
<1>6. \E v \in V : Below(s, v) <= k /\ k < UpTo(s, v) BY <1>4, <1>5
<1>7. Ranked(s, k) = CHOOSE v \in V : Below(s, v) <= k /\ k < UpTo(s, v)
  BY DEF Ranked, Below, UpTo
<1> HIDE DEF V
<1>8. /\ Ranked(s, k) \in V
      /\ Below(s, Ranked(s, k)) <= k /\ k < UpTo(s, Ranked(s, k))
  BY <1>6, <1>7
<1>. QED BY <1>8, <1>0 DEF V

\* A later position holds no smaller sample.
LEMMA RankedIsSorted ==
    ASSUME NEW s \in Seq(Nat), NEW k \in 0..(Len(s) - 1), NEW l \in 0..(Len(s) - 1), k <= l
    PROVE  Ranked(s, k) <= Ranked(s, l)
<1> DEFINE u == Ranked(s, k)
           v == Ranked(s, l)
<1>1. u \in Nat /\ Below(s, u) <= k BY RankedIsASample
<1>2. v \in Nat /\ l < UpTo(s, v) BY RankedIsASample
<1> HIDE DEF u, v
<1>3. SUFFICES ASSUME v < u PROVE FALSE BY <1>1, <1>2 DEF u, v
<1>4. UpTo(s, v) <= Below(s, u) BY <1>1, <1>2, <1>3, UpToBelow
<1>5. Below(s, u) \in Nat /\ UpTo(s, v) \in Nat BY <1>1, <1>2, Counts
<1>6. k \in Nat /\ l \in Nat BY LenProperties
<1>. QED BY <1>1, <1>2, <1>4, <1>5, <1>6

-----------------------------------------------------------------------------
(* The accounting invariant. Types leaves out the three statistics of the  *)
(* report, which the CPU accounting does not depend on.                    *)

Types ==
    /\ kind \in Kinds /\ asked \in Nat
    /\ pc \in {"warmup", "open1", "open2", "call", "close1", "close2", "finish",
               "reported", "failed"}
    /\ warm \in Nat /\ n \in Nat
    /\ mine \in Nat /\ others \in Nat /\ gone \in Nat /\ fast \in Nat
    /\ opening \in Reading /\ closing \in Reading
    /\ began \in Nat /\ timed \in Nat /\ threadEnded \in BOOLEAN

CpuOpen == pc \in {"open2", "call", "close1", "close2", "finish", "reported"}
FastOpen == pc \in {"call", "close1", "close2", "finish", "reported"}
FastClosed == pc \in {"close2", "finish", "reported"}
CpuClosed == pc \in {"finish", "reported"}

\* What was spent before the window cannot be read after its opening as new.
BeforeWindow ==
    /\ began <= Process
    /\ CpuOpen => began <= opening.cpu + gone
    /\ CpuClosed => closing.cpu + began <= opening.cpu + Process

\* While no thread ends, the sum of the live threads grows by the timed calls.
InsideWindow ==
    /\ pc \in {"warmup", "open1"} => timed = 0
    /\ (CpuOpen /\ ~CpuClosed /\ ~threadEnded) => opening.cpu + timed <= mine + others
    /\ (CpuClosed /\ ~threadEnded) => opening.cpu + timed <= closing.cpu

\* And P-core time by no more than CPU time does.
Nested ==
    /\ (FastOpen /\ ~FastClosed /\ ~threadEnded) =>
          fast + opening.cpu <= mine + others + opening.fast
    /\ (pc = "close2" /\ ~threadEnded) =>
          closing.fast + opening.cpu <= mine + others + opening.fast
    /\ (CpuClosed /\ ~threadEnded) =>
          closing.fast + opening.cpu <= closing.cpu + opening.fast

Reported ==
    \/ report = NoReport
    \/ /\ pc = "reported"
       /\ report.cpu = Since(closing.cpu, opening.cpu)
       /\ report.fast = Since(closing.fast, opening.fast)

AccountInv == Types /\ SizedToBudget /\ BeforeWindow /\ InsideWindow /\ Nested /\ Reported

USE DEF machine, ghosts

\* A measurement that has not begun has an empty account.
LEMMA Initially == Init => AccountInv
<1>. SUFFICES ASSUME Init PROVE AccountInv OBVIOUS
<1>1. opening \in Reading /\ closing \in Reading BY DEF Init, NoReading, Reading
<1>2. asked \in Nat BY AskedAssumption DEF Init
<1>3. Types BY <1>1, <1>2 DEF Init, Types
<1>. QED BY <1>3 DEF Init, AccountInv, SizedToBudget, BeforeWindow, InsideWindow, Nested,
                     Reported, Process, CpuOpen, FastOpen, FastClosed, CpuClosed

\* What one reading of an opening or closing window does to its two fields.
LEMMA ReadingUpdate ==
    ASSUME NEW r \in Reading, NEW v \in Nat
    PROVE  /\ [r EXCEPT !["cpu"] = v] \in Reading
           /\ [r EXCEPT !["cpu"] = v].cpu = v
           /\ [r EXCEPT !["cpu"] = v].fast = r.fast
           /\ [r EXCEPT !["fast"] = v] \in Reading
           /\ [r EXCEPT !["fast"] = v].fast = v
           /\ [r EXCEPT !["fast"] = v].cpu = r.cpu
BY DEF Reading

\* Both fields of a reading are numbers.
LEMMA ReadingFields == ASSUME NEW r \in Reading PROVE r.cpu \in Nat /\ r.fast \in Nat
BY DEF Reading

\* The two steps of Window::start: the thread times, then the rusage.
LEMMA OpenStep ==
    ASSUME Types, OpenWindow
    PROVE  /\ opening' \in Reading
           /\ \/ /\ pc = "open1" /\ pc' = "open2"
                 /\ opening'.cpu = mine + others /\ opening'.fast = opening.fast
              \/ /\ pc = "open2" /\ pc' = "call"
                 /\ opening'.fast = fast /\ opening'.cpu = opening.cpu
<1>1. pc \in {"open1", "open2"} BY DEF OpenWindow, OpeningReads
<1>2. CounterNow["cpu"] = mine + others /\ CounterNow["fast"] = fast BY DEF CounterNow
<1>3. mine + others \in Nat /\ fast \in Nat BY DEF Types
<1>4. CASE pc = "open1"
  <2>1. OpeningReads[pc] = "cpu" BY <1>4 DEF OpeningReads
  <2>2. opening' = [opening EXCEPT !["cpu"] = mine + others] BY <2>1, <1>2 DEF OpenWindow
  <2>3. opening \in Reading BY DEF Types
  <2>4. /\ opening' \in Reading
        /\ opening'.cpu = mine + others /\ opening'.fast = opening.fast
    BY <2>2, <2>3, <1>3, ReadingUpdate
  <2>5. pc' = "open2" BY <1>4 DEF OpenWindow
  <2>. QED BY <1>4, <2>4, <2>5
<1>5. CASE pc = "open2"
  <2>1. OpeningReads[pc] = "fast" BY <1>5 DEF OpeningReads
  <2>2. opening' = [opening EXCEPT !["fast"] = fast] BY <2>1, <1>2 DEF OpenWindow
  <2>3. opening \in Reading BY DEF Types
  <2>4. /\ opening' \in Reading
        /\ opening'.fast = fast /\ opening'.cpu = opening.cpu
    BY <2>2, <2>3, <1>3, ReadingUpdate
  <2>5. pc' = "call" BY <1>5 DEF OpenWindow
  <2>. QED BY <1>5, <2>4, <2>5
<1>. QED BY <1>1, <1>4, <1>5

\* The two readings of Window::finish: the rusage, then the thread times.
LEMMA CloseStep ==
    ASSUME Types, CloseWindow
    PROVE  /\ closing' \in Reading
           /\ \/ /\ pc = "close1" /\ pc' = "close2"
                 /\ closing'.fast = fast /\ closing'.cpu = closing.cpu
              \/ /\ pc = "close2" /\ pc' = "finish"
                 /\ closing'.cpu = mine + others /\ closing'.fast = closing.fast
<1>1. pc \in {"close1", "close2"} BY DEF CloseWindow, ClosingReads
<1>2. CounterNow["cpu"] = mine + others /\ CounterNow["fast"] = fast BY DEF CounterNow
<1>3. mine + others \in Nat /\ fast \in Nat BY DEF Types
<1>4. CASE pc = "close1"
  <2>1. ClosingReads[pc] = "fast" BY <1>4 DEF ClosingReads
  <2>2. closing' = [closing EXCEPT !["fast"] = fast] BY <2>1, <1>2 DEF CloseWindow
  <2>3. closing \in Reading BY DEF Types
  <2>4. /\ closing' \in Reading
        /\ closing'.fast = fast /\ closing'.cpu = closing.cpu
    BY <2>2, <2>3, <1>3, ReadingUpdate
  <2>5. pc' = "close2" BY <1>4 DEF CloseWindow
  <2>. QED BY <1>4, <2>4, <2>5
<1>5. CASE pc = "close2"
  <2>1. ClosingReads[pc] = "cpu" BY <1>5 DEF ClosingReads
  <2>2. closing' = [closing EXCEPT !["cpu"] = mine + others] BY <2>1, <1>2 DEF CloseWindow
  <2>3. closing \in Reading BY DEF Types
  <2>4. /\ closing' \in Reading
        /\ closing'.cpu = mine + others /\ closing'.fast = closing.fast
    BY <2>2, <2>3, <1>3, ReadingUpdate
  <2>5. pc' = "finish" BY <1>5 DEF CloseWindow
  <2>. QED BY <1>5, <2>4, <2>5
<1>. QED BY <1>1, <1>4, <1>5

\* The fields the invariant compares are numbers, in both states of a step.
LEMMA Fields ==
    ASSUME Types
    PROVE  /\ opening.cpu \in Nat /\ opening.fast \in Nat
           /\ closing.cpu \in Nat /\ closing.fast \in Nat
BY ReadingFields DEF Types

\* A loop that is sized gets its count from pick_iters.
LEMMA SizeBounds ==
    ASSUME Types, Size, kind # "once", asked = 0
    PROVE  n' \in 1..MaxIters /\ (n' = 1 \/ n' * AtLeast1(warm) <= Target)
<1>1. n' = PickIters(warm) BY DEF Size
<1>2. warm \in Nat BY DEF Types
<1>. QED BY <1>1, <1>2, PickItersBounds

\* The count is a number, whoever chose it.
LEMMA SizeStep == ASSUME Types, Size PROVE n' \in Nat
<1>1. CASE kind = "once" BY <1>1 DEF Size
<1>2. CASE kind # "once" /\ asked > 0 BY <1>2 DEF Size, Types
<1>3. CASE kind # "once" /\ asked = 0 BY <1>3, SizeBounds, MaxItersAssumption
<1>. QED BY <1>1, <1>2, <1>3 DEF Types

\* A call's CPU time is on the P-cores in full or not at all.
LEMMA SpendStep ==
    ASSUME Types, NEW t \in Nat, NEW d \in Nat, NEW onP \in BOOLEAN, Spend(t, d, onP)
    PROVE  /\ mine' \in Nat /\ fast' \in Nat
           /\ mine' = mine + t + d
           /\ fast' <= fast + t + d
BY DEF Types, Spend

\* The time of dropping a sample's instance is a number of ticks.
LEMMA DropsAreTimes == DropsOf(kind) \subseteq Nat
BY TimesAssumption DEF DropsOf

\* Every step of the bench thread and of the others keeps the account.
LEMMA Inductive == AccountInv /\ [Next]_vars => AccountInv'
<1>. SUFFICES ASSUME AccountInv, [Next]_vars PROVE AccountInv'
  OBVIOUS
<1>. USE DEF Process, CpuOpen, FastOpen, FastClosed, CpuClosed
<1>0. Types /\ SizedToBudget /\ BeforeWindow /\ InsideWindow /\ Nested /\ Reported
  BY DEF AccountInv
<1>1. CASE Warmup
  <2>. PICK t \in CpuTimes, w \in Waits, d \in DropsOf(kind), onP \in BOOLEAN :
             Spend(t, d, onP) /\ warm' = t + w
    BY <1>1 DEF Warmup
  <2>1. t \in Nat /\ w \in Nat /\ d \in Nat BY TimesAssumption, DropsAreTimes
  <2>2. mine' \in Nat /\ fast' \in Nat /\ mine' = mine + t + d
    BY <1>0, <2>1, SpendStep
  <2>3. /\ pc = "warmup" /\ pc' = pc /\ warm' = t + w
        /\ UNCHANGED <<kind, asked, n, others, gone, opening, closing, report, began, timed,
                       threadEnded>>
    BY <1>1 DEF Warmup
  <2>4. Types' BY <1>0, <2>1, <2>2, <2>3 DEF Types
  <2>5. BeforeWindow' BY <1>0, <2>1, <2>2, <2>3 DEF Types, BeforeWindow
  <2>. QED BY <1>0, <2>3, <2>4, <2>5
         DEF AccountInv, SizedToBudget, InsideWindow, Nested, Reported
<1>2. CASE Size
  <2>1. /\ pc = "warmup" /\ pc' = "open1" /\ began' = mine + others + gone
        /\ UNCHANGED <<kind, asked, warm, mine, others, gone, fast, opening, closing, report,
                       timed, threadEnded>>
    BY <1>2 DEF Size
  <2>2. n' \in Nat BY <1>0, <1>2, SizeStep
  <2>3. Types' BY <1>0, <2>1, <2>2 DEF Types
  <2>4. SizedToBudget' BY <1>0, <1>2, <2>1, SizeBounds DEF SizedToBudget
  <2>. QED BY <1>0, <2>1, <2>3, <2>4
         DEF AccountInv, Types, BeforeWindow, InsideWindow, Nested, Reported
<1>3. CASE OpenWindow
  <2>1. UNCHANGED <<kind, asked, warm, n, mine, others, gone, fast, closing, report,
                    began, timed, threadEnded>>
    BY <1>3 DEF OpenWindow
  <2>2. /\ opening' \in Reading
        /\ \/ /\ pc = "open1" /\ pc' = "open2"
              /\ opening'.cpu = mine + others /\ opening'.fast = opening.fast
           \/ /\ pc = "open2" /\ pc' = "call"
              /\ opening'.fast = fast /\ opening'.cpu = opening.cpu
    BY <1>0, <1>3, OpenStep
  <2>3. Types' BY <1>0, <2>1, <2>2 DEF Types
  <2>4. /\ opening.cpu \in Nat /\ opening.fast \in Nat
        /\ mine \in Nat /\ others \in Nat /\ gone \in Nat /\ fast \in Nat
        /\ began \in Nat /\ timed \in Nat
    BY <1>0, Fields DEF Types
  <2>5. BeforeWindow' BY <1>0, <2>1, <2>2, <2>4 DEF BeforeWindow
  <2>6. InsideWindow' BY <1>0, <2>1, <2>2, <2>4 DEF InsideWindow
  <2>7. Nested' BY <1>0, <2>1, <2>2, <2>4 DEF InsideWindow, Nested
  <2>. QED BY <1>0, <2>1, <2>2, <2>3, <2>5, <2>6, <2>7 DEF AccountInv, SizedToBudget, Reported
<1>4. CASE TimedCall
  <2>. PICK t \in CpuTimes, w \in Waits, d \in DropsOf(kind), onP \in BOOLEAN :
             Spend(t, d, onP) /\ timed' = timed + t
    BY <1>4 DEF TimedCall
  <2>1. t \in Nat /\ d \in Nat BY TimesAssumption, DropsAreTimes
  <2>2. mine' \in Nat /\ fast' \in Nat /\ mine' = mine + t + d /\ fast' <= fast + t + d
    BY <1>0, <2>1, SpendStep
  <2>3. /\ pc = "call" /\ pc' = pc
        /\ UNCHANGED <<kind, asked, warm, n, others, gone, opening, closing, report, began,
                       threadEnded>>
    BY <1>4 DEF TimedCall
  <2>4. Types' BY <1>0, <2>1, <2>2, <2>3 DEF Types
  <2>5. /\ opening.cpu \in Nat /\ opening.fast \in Nat
        /\ mine \in Nat /\ others \in Nat /\ gone \in Nat /\ fast \in Nat
        /\ began \in Nat /\ timed \in Nat
    BY <1>0, Fields DEF Types
  <2>6. BeforeWindow' BY <1>0, <2>1, <2>2, <2>3, <2>5 DEF BeforeWindow
  <2>7. InsideWindow' BY <1>0, <2>1, <2>2, <2>3, <2>5 DEF InsideWindow
  <2>8. Nested' BY <1>0, <2>1, <2>2, <2>3, <2>5 DEF Nested
  <2>. QED BY <1>0, <2>3, <2>4, <2>6, <2>7, <2>8 DEF AccountInv, SizedToBudget, Reported
<1>5. CASE CallFails
  <2>1. /\ pc \in {"warmup", "call"} /\ pc' = "failed"
        /\ UNCHANGED <<kind, asked, warm, n, mine, others, gone, fast, opening, closing,
                       report, began, timed, threadEnded>>
    BY <1>5 DEF CallFails
  <2>2. Types' BY <1>0, <2>1 DEF Types
  <2>. QED BY <1>0, <2>1, <2>2
         DEF AccountInv, SizedToBudget, BeforeWindow, InsideWindow, Nested, Reported
<1>6. CASE EndLoop
  <2>1. /\ pc = "call" /\ pc' = "close1"
        /\ UNCHANGED <<kind, asked, warm, n, mine, others, gone, fast, opening, closing,
                       report, began, timed, threadEnded>>
    BY <1>6 DEF EndLoop
  <2>2. Types' BY <1>0, <2>1 DEF Types
  <2>. QED BY <1>0, <2>1, <2>2
         DEF AccountInv, SizedToBudget, BeforeWindow, InsideWindow, Nested, Reported
<1>7. CASE CloseWindow
  <2>1. UNCHANGED <<kind, asked, warm, n, mine, others, gone, fast, opening, report,
                    began, timed, threadEnded>>
    BY <1>7 DEF CloseWindow
  <2>2. /\ closing' \in Reading
        /\ \/ /\ pc = "close1" /\ pc' = "close2"
              /\ closing'.fast = fast /\ closing'.cpu = closing.cpu
           \/ /\ pc = "close2" /\ pc' = "finish"
              /\ closing'.cpu = mine + others /\ closing'.fast = closing.fast
    BY <1>0, <1>7, CloseStep
  <2>3. Types' BY <1>0, <2>1, <2>2 DEF Types
  <2>4. /\ opening.cpu \in Nat /\ opening.fast \in Nat
        /\ closing.cpu \in Nat /\ closing.fast \in Nat
        /\ mine \in Nat /\ others \in Nat /\ gone \in Nat /\ fast \in Nat
        /\ began \in Nat /\ timed \in Nat
    BY <1>0, Fields DEF Types
  <2>5. BeforeWindow' BY <1>0, <2>1, <2>2, <2>4 DEF BeforeWindow
  <2>6. InsideWindow' BY <1>0, <2>1, <2>2, <2>4 DEF InsideWindow
  <2>7. Nested' BY <1>0, <2>1, <2>2, <2>4 DEF Nested
  <2>. QED BY <1>0, <2>1, <2>2, <2>3, <2>5, <2>6, <2>7 DEF AccountInv, SizedToBudget, Reported
<1>8. CASE Finish
  <2>1. /\ pc = "finish" /\ pc' = "reported"
        /\ UNCHANGED <<kind, asked, warm, n, mine, others, gone, fast, opening, closing,
                       began, timed, threadEnded>>
    BY <1>8 DEF Finish
  <2>2. /\ report'.cpu = Since(closing.cpu, opening.cpu)
        /\ report'.fast = Since(closing.fast, opening.fast)
    BY <1>8 DEF Finish
  <2>3. Reported' BY <2>1, <2>2 DEF Reported, Since
  <2>4. Types' BY <1>0, <2>1 DEF Types
  <2>. QED BY <1>0, <2>1, <2>3, <2>4
         DEF AccountInv, SizedToBudget, BeforeWindow, InsideWindow, Nested
<1>9. CASE OthersRun
  <2>1. /\ others' = others + 1 /\ fast' \in {fast, fast + 1}
        /\ UNCHANGED <<kind, asked, pc, warm, n, mine, gone, opening, closing, report,
                       began, timed, threadEnded>>
    BY <1>9 DEF OthersRun
  <2>2. Types' BY <1>0, <2>1 DEF Types
  <2>3. /\ opening.cpu \in Nat /\ opening.fast \in Nat
        /\ closing.cpu \in Nat /\ closing.fast \in Nat
        /\ mine \in Nat /\ others \in Nat /\ gone \in Nat /\ fast \in Nat
        /\ began \in Nat /\ timed \in Nat
    BY <1>0, Fields DEF Types
  <2>4. BeforeWindow' BY <1>0, <2>1, <2>3 DEF BeforeWindow
  <2>5. InsideWindow' BY <1>0, <2>1, <2>3 DEF InsideWindow
  <2>6. Nested' BY <1>0, <2>1, <2>3 DEF Nested
  <2>. QED BY <1>0, <2>1, <2>2, <2>4, <2>5, <2>6 DEF AccountInv, SizedToBudget, Reported
<1>10. CASE ThreadEnds
  <2>. PICK c \in 1..others : others' = others - c /\ gone' = gone + c
    BY <1>10 DEF ThreadEnds
  <2>1. /\ threadEnded' = (threadEnded \/ pc # "warmup")
        /\ UNCHANGED <<kind, asked, pc, warm, n, mine, fast, opening, closing, report,
                       began, timed>>
    BY <1>10 DEF ThreadEnds
  <2>2. c \in Nat /\ c <= others /\ others \in Nat /\ gone \in Nat BY <1>0 DEF Types
  <2>3. Types' BY <1>0, <2>1, <2>2 DEF Types
  <2>4. /\ opening.cpu \in Nat /\ closing.cpu \in Nat /\ mine \in Nat /\ began \in Nat
    BY <1>0, Fields DEF Types
  <2>5. BeforeWindow' BY <1>0, <2>1, <2>2, <2>4 DEF BeforeWindow
  <2>6. threadEnded' \/ pc' = "warmup" BY <1>0, <2>1 DEF Types
  <2>7. InsideWindow' /\ Nested' BY <1>0, <2>1, <2>6 DEF InsideWindow, Nested
  <2>. QED BY <1>0, <2>1, <2>3, <2>5, <2>7 DEF AccountInv, SizedToBudget, Reported
<1>11. CASE UNCHANGED vars
  BY <1>0, <1>11 DEF vars, AccountInv, Types, SizedToBudget, BeforeWindow, InsideWindow,
                     Nested, Reported
<1>. QED BY <1>1, <1>2, <1>3, <1>4, <1>5, <1>6, <1>7, <1>8, <1>9, <1>10, <1>11
       DEF Next, Bench, Done

\* The account holds in every behaviour, whatever the other threads do.
THEOREM AccountAlways == Spec => []AccountInv
BY Initially, Inductive, PTL DEF Spec

\* Every loop sized by pick_iters has its count in bounds and in the budget.
THEOREM AlwaysSizedToBudget == Spec => []SizedToBudget
<1>1. AccountInv => SizedToBudget BY DEF AccountInv
<1>. QED BY <1>1, AccountAlways, PTL

\* Window never charges a case with CPU time spent before it was opened.
THEOREM WarmupNeverCharged == Spec => []WarmupIsNotCharged
<1>1. AccountInv => WarmupIsNotCharged
  <2>. SUFFICES ASSUME AccountInv, report.done PROVE report.cpu <= Process - began
    BY DEF WarmupIsNotCharged
  <2>1. Types /\ BeforeWindow /\ Reported BY DEF AccountInv
  <2>2. pc = "reported" /\ report.cpu = Since(closing.cpu, opening.cpu)
    BY <2>1 DEF Reported, NoReport
  <2>3. began <= Process /\ closing.cpu + began <= opening.cpu + Process
    BY <2>1, <2>2 DEF BeforeWindow, CpuClosed
  <2>4. Process \in Nat /\ began \in Nat BY <2>1 DEF Types, Process
  <2>. QED BY <2>1, <2>2, <2>3, <2>4, Fields DEF Since
<1>. QED BY <1>1, AccountAlways, PTL

\* Window charges a case with all the CPU time of its timed calls, as long as
\* no thread takes its own out of the sum by ending.
THEOREM TimedCallsAlwaysCharged == Spec => []TimedCallsAreCharged
<1>1. AccountInv => TimedCallsAreCharged
  <2>. SUFFICES ASSUME AccountInv, report.done, ~threadEnded PROVE report.cpu >= timed
    BY DEF TimedCallsAreCharged
  <2>1. Types /\ InsideWindow /\ Reported BY DEF AccountInv
  <2>2. pc = "reported" /\ report.cpu = Since(closing.cpu, opening.cpu)
    BY <2>1 DEF Reported, NoReport
  <2>3. opening.cpu + timed <= closing.cpu BY <2>1, <2>2 DEF InsideWindow, CpuClosed
  <2>4. timed \in Nat BY <2>1 DEF Types
  <2>. QED BY <2>1, <2>2, <2>3, <2>4, Fields DEF Since
<1>. QED BY <1>1, AccountAlways, PTL

\* Between the two bounds the CPU time of a report is that of its timed calls.
THEOREM CpuAlwaysTheTimedCalls == Spec => []CpuIsTheTimedCalls
BY WarmupNeverCharged, TimedCallsAlwaysCharged, PTL DEF CpuIsTheTimedCalls

\* The P-core share of a report never exceeds 1, by the order of its readings.
THEOREM FastAlwaysWithinCpu == Spec => []FastWithinCpu
<1>1. AccountInv => FastWithinCpu
  <2>. SUFFICES ASSUME AccountInv, report.done, ~threadEnded PROVE report.fast <= report.cpu
    BY DEF FastWithinCpu
  <2>1. Types /\ Nested /\ InsideWindow /\ Reported BY DEF AccountInv
  <2>2. /\ pc = "reported" /\ report.cpu = Since(closing.cpu, opening.cpu)
        /\ report.fast = Since(closing.fast, opening.fast)
    BY <2>1 DEF Reported, NoReport
  <2>3. closing.fast + opening.cpu <= closing.cpu + opening.fast
    BY <2>1, <2>2 DEF Nested, CpuClosed
  <2>. QED BY <2>1, <2>2, <2>3, Fields DEF Since
<1>. QED BY <1>1, AccountAlways, PTL

-----------------------------------------------------------------------------
(* The samples of a report.                                                *)

\* What finish puts in a report of these samples.
Statistics(s) ==
    [iterations |-> Len(s),
     min |-> Ranked(s, 0),
     median |-> Ranked(s, MedianIndex(Len(s))),
     p99 |-> Ranked(s, P99Index(Len(s)))]

\* A loop makes at least one call, one sample each, and only once it has made
\* them all is the window closed.
OneSampleEach ==
    /\ samples \in Seq(Nat)
    /\ pc \in {"warmup", "open1", "open2"} => samples = <<>>
    /\ pc \notin {"warmup", "failed"} => n >= 1
    /\ pc = "call" => Len(samples) <= n
    /\ pc \in {"close1", "close2", "finish", "reported"} => Len(samples) = n

StatisticsReported ==
    \/ report = NoReport
    \/ /\ pc = "reported"
       /\ report.iterations = Statistics(samples).iterations
       /\ report.min = Statistics(samples).min
       /\ report.median = Statistics(samples).median
       /\ report.p99 = Statistics(samples).p99

SamplesInv == OneSampleEach /\ StatisticsReported

\* A loop of any kind makes at least one call.
LEMMA SizedAtLeastOne == ASSUME Types, Size PROVE n' >= 1
<1>1. CASE kind = "once" BY <1>1 DEF Size
<1>2. CASE kind # "once" /\ asked > 0 BY <1>2 DEF Size, Types
<1>3. CASE kind # "once" /\ asked = 0 BY <1>3, SizeBounds, MaxItersAssumption
<1>. QED BY <1>1, <1>2, <1>3 DEF Types

\* A timed call adds its own duration to the samples.
LEMMA SampleStep ==
    ASSUME OneSampleEach, n \in Nat, TimedCall
    PROVE  samples' \in Seq(Nat) /\ Len(samples') = Len(samples) + 1 /\ Len(samples') <= n
<1>. PICK t \in CpuTimes, w \in Waits : samples' = Append(samples, t + w)
  BY DEF TimedCall
<1>1. t + w \in Nat BY TimesAssumption
<1>2. samples \in Seq(Nat) BY DEF OneSampleEach
<1>3. samples' \in Seq(Nat) /\ Len(samples') = Len(samples) + 1
  BY <1>1, <1>2, AppendProperties
<1>4. Len(samples) < n /\ Len(samples) \in Nat BY <1>2, LenProperties DEF TimedCall
<1>. QED BY <1>3, <1>4

\* Every step keeps one sample for each call made, and the report of them.
LEMMA SamplesInductive ==
    Types /\ Reported /\ SamplesInv /\ [Next]_vars => SamplesInv'
<1>. SUFFICES ASSUME Types, Reported, SamplesInv, [Next]_vars PROVE SamplesInv'
  OBVIOUS
<1>0. OneSampleEach /\ StatisticsReported /\ n \in Nat BY DEF SamplesInv, Types
<1>1. CASE Warmup
  <2>1. pc = "warmup" /\ pc' = pc /\ UNCHANGED <<n, samples, report>> BY <1>1 DEF Warmup
  <2>. QED BY <1>0, <2>1 DEF SamplesInv, OneSampleEach, StatisticsReported
<1>2. CASE Size
  <2>1. pc = "warmup" /\ pc' = "open1" /\ UNCHANGED <<samples, report>> BY <1>2 DEF Size
  <2>2. n' >= 1 BY <1>2, SizedAtLeastOne
  <2>. QED BY <1>0, <2>1, <2>2 DEF SamplesInv, OneSampleEach, StatisticsReported
<1>3. CASE OpenWindow
  <2>1. /\ \/ pc = "open1" /\ pc' = "open2"
           \/ pc = "open2" /\ pc' = "call"
        /\ UNCHANGED <<n, samples, report>>
    BY <1>3, OpenStep DEF OpenWindow
  <2>2. Len(<<>>) = 0 OBVIOUS
  <2>. QED BY <1>0, <2>1, <2>2 DEF SamplesInv, OneSampleEach, StatisticsReported
<1>4. CASE TimedCall
  <2>1. pc = "call" /\ pc' = pc /\ UNCHANGED <<n, report>> BY <1>4 DEF TimedCall
  <2>2. samples' \in Seq(Nat) /\ Len(samples') <= n BY <1>0, <1>4, SampleStep
  <2>. QED BY <1>0, <2>1, <2>2 DEF SamplesInv, OneSampleEach, StatisticsReported
<1>5. CASE CallFails
  <2>1. pc \in {"warmup", "call"} /\ pc' = "failed" /\ UNCHANGED <<n, samples, report>>
    BY <1>5 DEF CallFails
  <2>. QED BY <1>0, <2>1 DEF SamplesInv, OneSampleEach, StatisticsReported
<1>6. CASE EndLoop
  <2>1. /\ pc = "call" /\ pc' = "close1" /\ Len(samples) = n
        /\ UNCHANGED <<n, samples, report>>
    BY <1>6 DEF EndLoop
  <2>. QED BY <1>0, <2>1 DEF SamplesInv, OneSampleEach, StatisticsReported
<1>7. CASE CloseWindow
  <2>1. /\ \/ pc = "close1" /\ pc' = "close2"
           \/ pc = "close2" /\ pc' = "finish"
        /\ UNCHANGED <<n, samples, report>>
    BY <1>7, CloseStep DEF CloseWindow
  <2>. QED BY <1>0, <2>1 DEF SamplesInv, OneSampleEach, StatisticsReported
<1>8. CASE Finish
  <2>1. pc = "finish" /\ pc' = "reported" /\ UNCHANGED <<n, samples>> BY <1>8 DEF Finish
  <2>2. Len(samples) = n BY <1>0, <2>1 DEF OneSampleEach
  <2>3. /\ report'.iterations = Len(samples)
        /\ report'.min = Ranked(samples, 0)
        /\ report'.median = Ranked(samples, MedianIndex(Len(samples)))
        /\ report'.p99 = Ranked(samples, P99Index(Len(samples)))
    BY <1>8, <2>2 DEF Finish
  <2>4. StatisticsReported' BY <2>1, <2>3 DEF StatisticsReported, Statistics
  <2>. QED BY <1>0, <2>1, <2>4 DEF SamplesInv, OneSampleEach
<1>9. CASE OthersRun \/ ThreadEnds
  <2>1. UNCHANGED <<pc, n, samples, report>> BY <1>9 DEF OthersRun, ThreadEnds
  <2>. QED BY <1>0, <2>1 DEF SamplesInv, OneSampleEach, StatisticsReported
<1>10. CASE UNCHANGED vars
  BY <1>0, <1>10 DEF vars, SamplesInv, OneSampleEach, StatisticsReported
<1>. QED BY <1>1, <1>2, <1>3, <1>4, <1>5, <1>6, <1>7, <1>8, <1>9, <1>10
       DEF Next, Bench, Done

\* One sample is kept for each call in every behaviour.
LEMMA SamplesAlways == Spec => []SamplesInv
<1>1. Init => SamplesInv
  <2>. SUFFICES ASSUME Init PROVE SamplesInv OBVIOUS
  <2>1. samples = <<>> /\ <<>> \in Seq(Nat) BY EmptySeq DEF Init
  <2>. QED BY <2>1 DEF Init, SamplesInv, OneSampleEach, StatisticsReported
<1>2. AccountInv => Types /\ Reported BY DEF AccountInv
<1>. QED BY <1>1, <1>2, AccountAlways, SamplesInductive, PTL DEF Spec

\* The statistics of any samples are what their names say: everything is at or
\* above the least, half of the samples on each side of the median, 99 % up to
\* the 99th percentile, and the three are in order.
THEOREM StatisticsDescribe ==
    ASSUME NEW s \in Seq(Nat), Len(s) >= 1
    PROVE  /\ Below(s, Statistics(s).min) = 0 /\ UpTo(s, Statistics(s).min) > 0
           /\ 2 * UpTo(s, Statistics(s).median) >= Len(s)
           /\ 2 * (Len(s) - Below(s, Statistics(s).median)) >= Len(s)
           /\ 100 * UpTo(s, Statistics(s).p99) >= 99 * Len(s)
           /\ Statistics(s).min <= Statistics(s).median
           /\ Statistics(s).median <= Statistics(s).p99
           /\ Statistics(s).min \in Nat /\ Statistics(s).median \in Nat
           /\ Statistics(s).p99 \in Nat
<1> DEFINE l == Len(s)
           m == MedianIndex(l)
           p == P99Index(l)
<1>1. l \in Nat \ {0} BY LenProperties
<1>2. /\ 0 \in 0..(l - 1) /\ m \in 0..(l - 1) /\ p \in 0..(l - 1)
      /\ 100 * (p + 1) >= 99 * l
  BY <1>1, IndicesInRange
<1>3. 0 <= m /\ m <= p /\ 2 * (m + 1) >= l /\ 2 * m <= l
  BY <1>1 DEF MedianIndex, P99Index
<1>4. /\ Statistics(s).min = Ranked(s, 0)
      /\ Statistics(s).median = Ranked(s, m)
      /\ Statistics(s).p99 = Ranked(s, p)
  BY DEF Statistics
<1> DEFINE b(k) == Below(s, Ranked(s, k))
           u(k) == UpTo(s, Ranked(s, k))
<1> HIDE DEF m, p
<1>5. \A k \in 0..(l - 1) :
         /\ Ranked(s, k) \in Nat
         /\ b(k) \in Nat /\ u(k) \in Nat /\ b(k) <= k /\ k < u(k)
  BY RankedIsASample, Counts
<1>6. Ranked(s, 0) <= Ranked(s, m) /\ Ranked(s, m) <= Ranked(s, p)
  BY <1>2, <1>3, RankedIsSorted
<1> HIDE DEF b, u, l
<1>7. b(0) = 0 /\ u(0) > 0 BY <1>2, <1>5
<1>8. /\ b(m) \in Nat /\ u(m) \in Nat /\ u(p) \in Nat /\ m \in Nat /\ p \in Nat
      /\ b(m) <= m /\ m < u(m) /\ p < u(p)
  BY <1>1, <1>2, <1>5
<1>9. 2 * u(m) >= l /\ 2 * (l - b(m)) >= l /\ 100 * u(p) >= 99 * l
  BY <1>1, <1>2, <1>3, <1>8
<1>. QED BY <1>2, <1>4, <1>5, <1>6, <1>7, <1>9 DEF b, u, l

\* Window::finish reports one iteration per sample, and three statistics that
\* describe them, for loops of any length and any durations.
THEOREM StatisticsAlwaysDescribe == Spec => []StatisticsDescribeSamples
<1>1. Types /\ SamplesInv => StatisticsDescribeSamples
  <2>. SUFFICES ASSUME Types, SamplesInv, report.done PROVE StatisticsDescribeSamples
    BY DEF StatisticsDescribeSamples
  <2>1. /\ pc = "reported"
        /\ report.iterations = Len(samples)
        /\ report.min = Statistics(samples).min
        /\ report.median = Statistics(samples).median
        /\ report.p99 = Statistics(samples).p99
    BY DEF SamplesInv, StatisticsReported, Statistics, NoReport
  <2>2. samples \in Seq(Nat) /\ Len(samples) >= 1
    BY <2>1 DEF SamplesInv, OneSampleEach
  <2> DEFINE atLeast(v) == Cardinality({i \in DOMAIN samples : samples[i] >= v})
  <2>3. /\ Below(samples, report.min) = 0 /\ UpTo(samples, report.min) > 0
        /\ 2 * UpTo(samples, report.median) >= Len(samples)
        /\ 2 * (Len(samples) - Below(samples, report.median)) >= Len(samples)
        /\ 100 * UpTo(samples, report.p99) >= 99 * Len(samples)
        /\ report.min <= report.median /\ report.median <= report.p99
        /\ report.min \in Nat /\ report.median \in Nat
    BY <2>1, <2>2, StatisticsDescribe
  <2>4. /\ atLeast(report.min) = Len(samples) - Below(samples, report.min)
        /\ atLeast(report.median) = Len(samples) - Below(samples, report.median)
    BY <2>2, <2>3, Counts
  <2>5. atLeast(report.min) = Len(samples) BY <2>2, <2>3, <2>4, LenProperties
  <2>. QED BY <2>1, <2>3, <2>4, <2>5 DEF StatisticsDescribeSamples, UpTo
<1>2. AccountInv => Types BY DEF AccountInv
<1>. QED BY <1>1, <1>2, AccountAlways, SamplesAlways, PTL

-----------------------------------------------------------------------------
(* The types the account leaves out.                                       *)

RestTyped ==
    /\ warmups \in 0..2
    /\ elapsed \in Nat
    /\ report \in RunReport \cup {NoReport}

\* A report is made of numbers.
LEMMA FinishMakesAReport ==
    ASSUME Types, OneSampleEach, Finish
    PROVE  report' \in RunReport
<1>1. samples \in Seq(Nat) /\ Len(samples) >= 1 /\ n \in Nat
  BY DEF Types, OneSampleEach, Finish
<1>2. /\ Ranked(samples, 0) \in Nat
      /\ Ranked(samples, MedianIndex(Len(samples))) \in Nat
      /\ Ranked(samples, P99Index(Len(samples))) \in Nat
  BY <1>1, StatisticsDescribe DEF Statistics
<1>3. Since(closing.cpu, opening.cpu) \in Nat /\ Since(closing.fast, opening.fast) \in Nat
  BY Fields DEF Since
<1>. QED BY <1>1, <1>2, <1>3 DEF Finish, RunReport

\* Every step keeps them.
LEMMA RestInductive ==
    Types /\ OneSampleEach /\ RestTyped /\ [Next]_vars => RestTyped'
<1>. SUFFICES ASSUME Types, OneSampleEach, RestTyped, [Next]_vars PROVE RestTyped'
  OBVIOUS
<1>1. CASE Warmup
  BY <1>1 DEF Warmup, RestTyped
<1>2. CASE TimedCall
  <2>. PICK t \in CpuTimes, w \in Waits : elapsed' = elapsed + t + w BY <1>2 DEF TimedCall
  <2>1. t \in Nat /\ w \in Nat BY TimesAssumption
  <2>2. UNCHANGED <<warmups, report>> BY <1>2 DEF TimedCall
  <2>. QED BY <2>1, <2>2 DEF RestTyped
<1>3. CASE Finish
  <2>1. UNCHANGED <<warmups, elapsed>> BY <1>3 DEF Finish
  <2>. QED BY <1>3, <2>1, FinishMakesAReport DEF RestTyped
<1>4. CASE Size \/ OpenWindow \/ CallFails \/ EndLoop \/ CloseWindow \/ OthersRun \/ ThreadEnds
  <2>1. UNCHANGED <<warmups, elapsed, report>>
    BY <1>4 DEF Size, OpenWindow, CallFails, EndLoop, CloseWindow, OthersRun, ThreadEnds
  <2>. QED BY <2>1 DEF RestTyped
<1>5. CASE UNCHANGED vars
  BY <1>5 DEF vars, RestTyped
<1>. QED BY <1>1, <1>2, <1>3, <1>4, <1>5 DEF Next, Bench, Done

\* The types of every variable, the statistics of a report included, hold in
\* every behaviour.
THEOREM AlwaysTyped == Spec => []TypeOK
<1>1. Init => RestTyped
  <2>. SUFFICES ASSUME Init PROVE RestTyped OBVIOUS
  <2>1. Warmups(kind) \in 0..2 BY DEF Init, Kinds, Warmups
  <2>. QED BY <2>1 DEF Init, RestTyped
<1>2. AccountInv => Types BY DEF AccountInv
<1>3. SamplesInv => OneSampleEach /\ samples \in Seq(Nat) BY DEF SamplesInv, OneSampleEach
<1>4. Spec => []RestTyped
  BY <1>1, <1>2, <1>3, AccountAlways, SamplesAlways, RestInductive, PTL DEF Spec
<1>5. Types /\ samples \in Seq(Nat) /\ RestTyped => TypeOK BY DEF Types, RestTyped, TypeOK
<1>. QED BY <1>2, <1>3, <1>4, <1>5, AccountAlways, SamplesAlways, PTL

-----------------------------------------------------------------------------
(* The native objects of a runner.                                         *)

\* The objects are as the context c has them.
Describes(c) ==
    /\ \A h \in Handles : objects[h] \in c.objects[h]
    /\ owner = c.owner
    /\ guards = c.guards
    /\ meter = c.meter
    /\ c.fresh \subseteq fresh

\* What is known of the objects when everything is.
Exactly == [h \in Handles |-> {objects[h]}]

\* At every step a runner finds what its recipe says it does, after any
\* failures and repetitions, and while it returns what is still to be released
\* is there to be released, once and in order.
AsForeseen ==
    /\ runner \in Runners
    /\ objects \in [Handles -> States] /\ owner \in [Handles -> Handles \cup {"none"}]
    /\ runner \in Careful => \A p \in MustOutlive : Live(p[1]) => Live(p[2])
    /\ phase = "run" => ok /\ at \in 1..Len(Steps) + 1 /\ Describes(Context(runner, at))
    /\ phase # "run" =>
          /\ Releasable(Exactly, owner, release)
          /\ (ok \/ runner \in Careful) => Complete(Exactly, owner, release)
          /\ runner \in Careful => meter = "off" /\ Ordered(Exactly, owner, release, MustOutlive)
    /\ phase = "done" => release = <<>>

\* The context of the step a runner is at.
Here == Context(runner, at)

\* Every runner keeps to the discipline.
LEMMA RunnerDisciplined ==
    ASSUME AsForeseen
    PROVE  /\ Len(Steps) \in Nat
           /\ Disciplined(runner)
           /\ MustOutlive = NeedsOf(runner)
           /\ MustOutlive \subseteq Handles \X Handles
BY DisciplineAssumption, NeedsAssumption DEF AsForeseen, Steps, MustOutlive, NeedsOf

\* What is known at a step of a runner that has not failed.
LEMMA StepAllowed ==
    ASSUME AsForeseen, phase = "run", at <= Len(Steps)
    PROVE  /\ at \in 1..Len(Steps)
           /\ ok
           /\ Describes(Here)
           /\ Founded(runner, Here)
           /\ Allowed(runner, Here, Now)
           /\ Covers(Context(runner, at + 1), After(Here, Now))
           /\ Founded(runner, Context(runner, at + 1))
<1>1. at \in 1..Len(Steps) /\ at + 1 \in 1..Len(Steps) + 1 /\ at \in 1..Len(Steps) + 1
  BY RunnerDisciplined DEF AsForeseen
<1>. QED BY <1>1, RunnerDisciplined DEF AsForeseen, Disciplined, Here, Now, Steps

\* Where what is built stands on what is there, dependencies outlive.
LEMMA FoundedOutlives ==
    ASSUME NEW r \in Careful, NEW c, Founded(r, c), NeedsOf(r) \subseteq Handles \X Handles,
           NEW o, \A h \in Handles : o[h] \in c.objects[h]
    PROVE  \A p \in NeedsOf(r) : o[p[1]] = "live" => o[p[2]] = "live"
<1>. SUFFICES ASSUME NEW p \in NeedsOf(r), o[p[1]] = "live" PROVE o[p[2]] = "live" OBVIOUS
<1>1. p[1] \in Handles /\ p[2] \in Handles OBVIOUS
<1>. QED BY <1>1 DEF Founded, Known


\* The step ends in what d describes.
Brings(d) ==
    /\ \A h \in Handles : objects'[h] \in d.objects[h]
    /\ owner' = d.owner
    /\ guards' = d.guards
    /\ meter' = d.meter
    /\ d.fresh \subseteq fresh'

\* What d describes, anything that covers it describes too.
LEMMA BringsToCover ==
    ASSUME NEW c, NEW d, Covers(d, c), Brings(c)
    PROVE  Describes(d)' /\ Brings(d)
BY DEF Covers, Brings, Describes

\* A runner that arrives where its recipe says is as foreseen.
LEMMA Arrives ==
    ASSUME AsForeseen, phase = "run", NEW i \in 1..Len(Steps) + 1,
           objects' \in [Handles -> States], owner' \in [Handles -> Handles \cup {"none"}],
           Brings(Context(runner, i)),
           at' = i, UNCHANGED <<runner, phase, ok>>
    PROVE  AsForeseen'
<1>1. Steps' = Steps /\ MustOutlive' = MustOutlive BY DEF Steps, MustOutlive
<1>2. Describes(Context(runner, at))' BY BringsToCover DEF Brings, Describes
<1>3. ASSUME runner \in Careful
      PROVE  \A p \in MustOutlive : objects'[p[1]] = "live" => objects'[p[2]] = "live"
  <2>1. Founded(runner, Context(runner, i)) BY RunnerDisciplined DEF Disciplined, Steps
  <2>. QED BY <1>3, <2>1, RunnerDisciplined, FoundedOutlives DEF Brings
<1>. QED BY <1>1, <1>2, <1>3 DEF AsForeseen, Live

\* A step that goes well, as its recipe says, leads to the next one.
LEMMA Onward ==
    ASSUME AsForeseen, phase = "run", at <= Len(Steps),
           objects' \in [Handles -> States], owner' \in [Handles -> Handles \cup {"none"}],
           Brings(After(Here, Now)),
           at' = at + 1, UNCHANGED <<runner, phase, ok>>
    PROVE  AsForeseen'
<1>1. at + 1 \in 1..Len(Steps) + 1 BY StepAllowed, RunnerDisciplined
<1>2. Brings(Context(runner, at + 1)) BY StepAllowed, BringsToCover
<1>. QED BY <1>1, <1>2, Arrives

-----------------------------------------------------------------------------
(* Leaving.                                                                *)

\* A plan that suits what is known of the objects suits what they are.
LEMMA PlanSuits ==
    ASSUME objects \in [Handles -> States], NEW c, Describes(c), NEW plan, NEW needs,
           needs \subseteq Handles \X Handles
    PROVE  /\ Releasable(c.objects, c.owner, plan) => Releasable(Exactly, owner, plan)
           /\ Complete(c.objects, c.owner, plan) => Complete(Exactly, owner, plan)
           /\ (Ordered(c.objects, c.owner, plan, needs) /\ plan \in Seq(Handles)) =>
                 Ordered(Exactly, owner, plan, needs)
<1>1. \A h \in Handles : Exactly[h] \subseteq c.objects[h] BY DEF Exactly, Describes
<1>2. owner = c.owner BY DEF Describes
<1>3. ASSUME Releasable(c.objects, c.owner, plan) PROVE Releasable(Exactly, owner, plan)
  <2>1. \A i \in DOMAIN plan : plan[i] \in Handles BY <1>3 DEF Releasable
  <2>. QED BY <1>1, <1>2, <1>3, <2>1 DEF Releasable
<1>4. Complete(c.objects, c.owner, plan) => Complete(Exactly, owner, plan)
  BY <1>1, <1>2 DEF Complete
<1>5. ASSUME Ordered(c.objects, c.owner, plan, needs) PROVE Ordered(Exactly, owner, plan, needs)
  <2>1. \A p \in needs : Exactly[p[1]] \subseteq c.objects[p[1]] BY <1>1
  <2>. QED BY <1>2, <1>5, <2>1 DEF Ordered
<1>. QED BY <1>3, <1>4, <1>5

\* What a runner leaves with when it may leave.
LEMMA Leaving ==
    ASSUME AsForeseen, NEW c, Describes(c), NEW plan, NEW well \in BOOLEAN,
           MayLeave(runner, c, plan, well),
           phase' = "release", release' = plan, ok' => well, runner \in Careful => meter' = "off",
           UNCHANGED <<runner, objects, owner>>
    PROVE  AsForeseen'
<1>1. Exactly' = Exactly /\ MustOutlive' = MustOutlive BY DEF Exactly, MustOutlive
<1>2. objects \in [Handles -> States] /\ plan \in Seq(Handles) BY DEF AsForeseen, MayLeave, Releasable
<1>3. /\ Releasable(Exactly, owner, plan)
      /\ (well \/ runner \in Careful) => Complete(Exactly, owner, plan)
      /\ runner \in Careful => Ordered(Exactly, owner, plan, MustOutlive)
  BY <1>2, PlanSuits, RunnerDisciplined DEF MayLeave
<1>4. runner \in Careful => \A p \in MustOutlive : objects[p[1]] = "live" => objects[p[2]] = "live"
  BY DEF AsForeseen, Live
<1>. QED BY <1>1, <1>2, <1>3, <1>4 DEF AsForeseen, Live

\* A failing step may be one that may leave.
LEMMA FailKept ==
    ASSUME AsForeseen, phase = "run", at <= Len(Steps), NEW undo, Fail(undo),
           MayLeave(runner, Here, undo \o Held(guards), FALSE)
    PROVE  AsForeseen'
<1>1. Describes(Here) BY StepAllowed
<1>. QED BY <1>1, Leaving DEF Fail

\* What the code frees by hand before it returns an error.
LEMMA UndoneThenGuards ==
    ASSUME AsForeseen, phase = "run", at <= Len(Steps)
    PROVE  /\ Now.op \in {"take", "use", "call", "give"} =>
                 MayLeave(runner, Here, Now.undo \o Held(guards), FALSE)
           /\ Now.op = "check" => MayLeave(runner, Here, <<>> \o Held(guards), FALSE)
<1>1. guards = Here.guards BY StepAllowed DEF Describes
<1>2. ASSUME Now.op = "check" PROVE <<>> \o Held(guards) = Held(guards)
  <2>1. Held(guards) \in Seq(Handles) BY <1>1, <1>2, StepAllowed DEF Allowed, MayLeave, Releasable
  <2>. QED BY <2>1
<1>. QED BY <1>1, <1>2, StepAllowed DEF Allowed

-----------------------------------------------------------------------------
(* One lemma per action.                                                   *)

LEMMA AcquireKept == ASSUME AsForeseen, Acquire PROVE AsForeseen'
<1>1. /\ phase = "run" /\ at <= Len(Steps) /\ Acquires(Now)
      /\ Now.op \in {"take", "create", "may"}
  BY DEF Acquire, Running, Acquires
<1>2. /\ Describes(Here) /\ MayAcquire(runner, Here, Now) BY <1>1, StepAllowed DEF Allowed
<1>3. PICK got \in BOOLEAN :
        /\ Now.op = "create" => got
        /\ IF got \/ Now.op = "may"
           THEN /\ objects' = [objects EXCEPT ![Now.h] = IF got THEN "live" ELSE "null"]
                /\ fresh' = fresh \cup {Now.h}
                /\ guards' = Guarded(Now.guard)
                /\ at' = at + 1
                /\ UNCHANGED <<runner, phase, ok, left, owner, release, meter>>
           ELSE Fail(Now.undo)
  BY DEF Acquire
<1>4. CASE got \/ Now.op = "may"
  <2>1. objects' \in [Handles -> States] BY <1>2, <1>3, <1>4 DEF AsForeseen, States, MayAcquire
  <2>2. ASSUME NEW h \in Handles PROVE objects'[h] \in ObjectsAfter(Here, Now)[h]
    BY <1>1, <1>2, <1>3, <1>4 DEF ObjectsAfter, Acquires, Frees, AsForeseen, Describes, MayAcquire
  <2>3. owner' = OwnerAfter(Here, Now)
    BY <1>1, <1>2, <1>3, <1>4 DEF OwnerAfter, Frees, AsForeseen, Describes
  <2>4. guards' = GuardsAfter(Here, Now)
    BY <1>1, <1>2, <1>3, <1>4 DEF GuardsAfter, Guarded, Describes
  <2>5. Brings(After(Here, Now))
    BY <1>1, <1>2, <1>3, <1>4, <2>2, <2>3, <2>4 DEF Brings, After, Describes
  <2>. QED BY <1>1, <1>3, <1>4, <2>1, <2>5, Onward DEF AsForeseen
<1>5. CASE ~(got \/ Now.op = "may")
  BY <1>1, <1>3, <1>5, UndoneThenGuards, FailKept
<1>. QED BY <1>4, <1>5

LEMMA CheckNullsKept == ASSUME AsForeseen, CheckNulls PROVE AsForeseen'
<1>1. phase = "run" /\ at <= Len(Steps) /\ Now.op = "check" BY DEF CheckNulls, Running
<1>2. Describes(Here) /\ Now.uses \subseteq Handles BY <1>1, StepAllowed DEF Allowed
<1>3. CASE \A h \in Now.uses : objects[h] = "live"
  <2>1. at' = at + 1 /\ UNCHANGED <<runner, phase, ok, objects, owner, guards, meter, fresh>>
    BY <1>3 DEF CheckNulls
  <2>2. ASSUME NEW h \in Handles PROVE objects'[h] \in ObjectsAfter(Here, Now)[h]
    BY <1>1, <1>2, <1>3, <2>1 DEF ObjectsAfter, Acquires, Frees, Describes
  <2>3. owner' = OwnerAfter(Here, Now) BY <1>1, <1>2, <2>1 DEF OwnerAfter, Frees, AsForeseen, Describes
  <2>4. Brings(After(Here, Now))
    BY <1>1, <1>2, <2>1, <2>2, <2>3 DEF Brings, After, GuardsAfter, Acquires, Describes
  <2>. QED BY <1>1, <2>1, <2>4, Onward DEF AsForeseen
<1>4. CASE ~(\A h \in Now.uses : objects[h] = "live")
  BY <1>1, <1>4, UndoneThenGuards, FailKept DEF CheckNulls
<1>. QED BY <1>3, <1>4

LEMMA NewGuardKept == ASSUME AsForeseen, NewGuard PROVE AsForeseen'
<1>1. /\ phase = "run" /\ at <= Len(Steps) /\ Now.op = "guard"
      /\ at' = at + 1 /\ guards' = Guarded(Now.guard)
      /\ UNCHANGED <<runner, phase, ok, objects, owner, meter, fresh>>
  BY DEF NewGuard, Running
<1>2. Describes(Here) BY <1>1, StepAllowed
<1>3. ASSUME NEW h \in Handles PROVE objects'[h] \in ObjectsAfter(Here, Now)[h]
  BY <1>1, <1>2 DEF ObjectsAfter, Acquires, Frees, Describes
<1>4. owner' = OwnerAfter(Here, Now) BY <1>1, <1>2 DEF OwnerAfter, Frees, AsForeseen, Describes
<1>5. Brings(After(Here, Now))
  BY <1>1, <1>2, <1>3, <1>4 DEF Brings, After, GuardsAfter, Guarded, Acquires, Describes
<1>. QED BY <1>1, <1>5, Onward DEF AsForeseen

LEMMA UseObjectKept == ASSUME AsForeseen, UseObject PROVE AsForeseen'
<1>1. phase = "run" /\ at <= Len(Steps) /\ Now.op \in {"use", "call"} BY DEF UseObject, Running
<1>2. Describes(Here) BY <1>1, StepAllowed
<1>3. CASE at' = at + 1 /\ UNCHANGED <<runner, phase, ok, objects, owner, guards, meter, fresh>>
  <2>1. ASSUME NEW h \in Handles PROVE objects'[h] \in ObjectsAfter(Here, Now)[h]
    BY <1>1, <1>2, <1>3 DEF ObjectsAfter, Acquires, Frees, Describes
  <2>2. owner' = OwnerAfter(Here, Now) BY <1>1, <1>2, <1>3 DEF OwnerAfter, Frees, AsForeseen, Describes
  <2>3. Brings(After(Here, Now))
    BY <1>1, <1>2, <1>3, <2>1, <2>2 DEF Brings, After, GuardsAfter, Acquires, Describes
  <2>. QED BY <1>1, <1>3, <2>3, Onward DEF AsForeseen
<1>4. CASE Fail(Now.undo) BY <1>1, <1>4, UndoneThenGuards, FailKept
<1>. QED BY <1>3, <1>4 DEF UseObject

LEMMA HandOverKept == ASSUME AsForeseen, HandOver PROVE AsForeseen'
<1>1. phase = "run" /\ at <= Len(Steps) /\ Now.op \in {"give", "hand"} BY DEF HandOver, Running
<1>2. Describes(Here) BY <1>1, StepAllowed
<1>3. CASE /\ owner' = [x \in Handles |-> IF x = Now.h \/ owner[x] = Now.h
                                          THEN CHOOSE o \in Now.uses : TRUE ELSE owner[x]]
           /\ at' = at + 1
           /\ UNCHANGED <<runner, phase, ok, objects, guards, meter, fresh>>
  <2>1. ASSUME NEW h \in Handles PROVE objects'[h] \in ObjectsAfter(Here, Now)[h]
    BY <1>1, <1>2, <1>3 DEF ObjectsAfter, Acquires, Frees, Describes
  <2>2. owner' = OwnerAfter(Here, Now)
    BY <1>1, <1>2, <1>3 DEF OwnerAfter, Frees, GoesWith, Describes
  <2>3. Brings(After(Here, Now))
    BY <1>1, <1>2, <1>3, <2>1, <2>2 DEF Brings, After, GuardsAfter, Acquires, Describes
  <2>4. Now.uses \subseteq Handles /\ Now.uses # {} BY <1>1, StepAllowed DEF Allowed, MayUse
  <2>5. (CHOOSE o \in Now.uses : TRUE) \in Handles BY <2>4
  <2>6. owner' \in [Handles -> Handles \cup {"none"}] BY <1>3, <2>5 DEF AsForeseen
  <2>. QED BY <1>1, <1>3, <2>3, <2>6, Onward DEF AsForeseen
<1>4. CASE Now.op = "give" /\ Fail(Now.undo) BY <1>1, <1>4, UndoneThenGuards, FailKept
<1>. QED BY <1>3, <1>4 DEF HandOver

\* Freeing what may be freed, as the recipe says.
LEMMA FreeingKept ==
    ASSUME AsForeseen, phase = "run", at <= Len(Steps), Frees(Now), NEW g, NEW gone_to,
           g = Freeing(Here, Now), gone_to = IF Now.op = "forget" THEN "null" ELSE "freed",
           Freed(g, gone_to),
           guards' = GuardsAfter(Here, Now), at' = at + 1, UNCHANGED <<runner, phase, ok, meter, fresh>>
    PROVE  AsForeseen'
<1>1. Describes(Here) /\ MayFree(runner, Here, Now) BY StepAllowed DEF Allowed
<1>2. Now.op \in {"free", "forget", "drop"} /\ ~Acquires(Now) BY DEF Frees, Acquires
<1>3. g \in Handles /\ objects[g] # "freed" BY <1>1 DEF MayFree, Describes
<1>4. objects' = [x \in Handles |->
                    IF GoesWith(g, x, Here.owner) /\ objects[x] = "live" THEN gone_to ELSE objects[x]]
  BY <1>1, <1>3 DEF Freed, GoesWith, Describes
<1>5. owner' = [x \in Handles |-> IF GoesWith(g, x, Here.owner) THEN "none" ELSE owner[x]]
  BY <1>1 DEF Freed, GoesWith, Describes
<1>6. objects' \in [Handles -> States] BY <1>4 DEF AsForeseen, States
<1>7. owner' \in [Handles -> Handles \cup {"none"}] BY <1>5 DEF AsForeseen
<1>8. ASSUME NEW h \in Handles PROVE objects'[h] \in ObjectsAfter(Here, Now)[h]
  <2>1. ObjectsAfter(Here, Now)[h] =
          IF GoesWith(g, h, Here.owner)
          THEN {IF o = "live" THEN gone_to ELSE o : o \in Here.objects[h]}
          ELSE Here.objects[h]
    BY <1>2 DEF ObjectsAfter, Frees
  <2>2. objects[h] \in Here.objects[h] BY <1>1 DEF Describes
  <2>. QED BY <1>4, <2>1, <2>2
<1>9. owner' = OwnerAfter(Here, Now) BY <1>1, <1>2, <1>5 DEF OwnerAfter, Frees, Describes
<1>10. Brings(After(Here, Now))
  BY <1>1, <1>2, <1>8, <1>9 DEF Brings, After, Describes
<1>. QED BY <1>6, <1>7, <1>10, Onward

LEMMA FreeByHandKept == ASSUME AsForeseen, FreeByHand PROVE AsForeseen'
<1>1. phase = "run" /\ at <= Len(Steps) /\ Now.op \in {"free", "forget"} BY DEF FreeByHand, Running
<1>2. guards' = GuardsAfter(Here, Now)
  BY <1>1, StepAllowed DEF FreeByHand, GuardsAfter, Describes
<1>3. Now.h = Freeing(Here, Now) BY <1>1 DEF Freeing
<1>. QED BY <1>1, <1>2, <1>3, FreeingKept DEF FreeByHand, Frees

LEMMA DropGuardKept == ASSUME AsForeseen, DropGuard PROVE AsForeseen'
<1>1. phase = "run" /\ at <= Len(Steps) /\ Now.op = "drop" BY DEF DropGuard, Running
<1>2. guards = Here.guards BY <1>1, StepAllowed DEF Describes
<1>3. guards' = GuardsAfter(Here, Now) BY <1>1, <1>2 DEF DropGuard, GuardsAfter
<1>4. Head(Last(guards)) = Freeing(Here, Now) BY <1>1, <1>2 DEF Freeing
<1>. QED BY <1>1, <1>3, <1>4, FreeingKept DEF DropGuard, Frees

LEMMA SetMeterKept == ASSUME AsForeseen, SetMeter PROVE AsForeseen'
<1>1. /\ phase = "run" /\ at <= Len(Steps) /\ Now.op = "meter"
      /\ at' = at + 1 /\ meter' = Now.h /\ fresh' = {}
      /\ UNCHANGED <<runner, phase, ok, objects, owner, guards>>
  BY DEF SetMeter, Running
<1>2. Describes(Here) BY <1>1, StepAllowed
<1>3. ASSUME NEW h \in Handles PROVE objects'[h] \in ObjectsAfter(Here, Now)[h]
  BY <1>1, <1>2 DEF ObjectsAfter, Acquires, Frees, Describes
<1>4. owner' = OwnerAfter(Here, Now) BY <1>1, <1>2 DEF OwnerAfter, Frees, AsForeseen, Describes
<1>5. Brings(After(Here, Now))
  BY <1>1, <1>2, <1>3, <1>4 DEF Brings, After, GuardsAfter, Acquires, Describes
<1>. QED BY <1>1, <1>5, Onward DEF AsForeseen

\* Going round again arrives where the context allows for it.
LEMMA RepeatOrGoOnKept == ASSUME AsForeseen, RepeatOrGoOn PROVE AsForeseen'
<1>1. /\ phase = "run" /\ at <= Len(Steps) /\ Now.op = "repeat"
      /\ UNCHANGED <<runner, phase, ok, objects, owner, guards, meter, fresh>>
  BY DEF RepeatOrGoOn, Running
<1>2. Describes(Here) BY <1>1, StepAllowed
<1>3. CASE at' = at - Now.back
  <2>1. at \in 1..Len(Steps) BY <1>1, StepAllowed
  <2>2. at - Now.back \in 1..at /\ Covers(Context(runner, at - Now.back), Here)
    BY <1>1, <2>1, RunnerDisciplined DEF Disciplined, Steps, Now, Here
  <2>3. Brings(Here) BY <1>1, <1>2 DEF Brings, Describes
  <2>4. at - Now.back \in 1..Len(Steps) + 1 BY <2>1, <2>2, RunnerDisciplined
  <2>. QED BY <1>1, <1>3, <2>2, <2>3, <2>4, BringsToCover, Arrives DEF AsForeseen
<1>4. CASE at' = at + 1
  <2>1. ASSUME NEW h \in Handles PROVE objects'[h] \in ObjectsAfter(Here, Now)[h]
    BY <1>1, <1>2 DEF ObjectsAfter, Acquires, Frees, Describes
  <2>2. owner' = OwnerAfter(Here, Now) BY <1>1, <1>2 DEF OwnerAfter, Frees, AsForeseen, Describes
  <2>3. Brings(After(Here, Now))
    BY <1>1, <1>2, <2>1, <2>2 DEF Brings, After, GuardsAfter, Acquires, Describes
  <2>. QED BY <1>1, <1>4, <2>3, Onward DEF AsForeseen
<1>. QED BY <1>3, <1>4 DEF RepeatOrGoOn

LEMMA ReturnKept == ASSUME AsForeseen, Return PROVE AsForeseen'
<1>1. /\ phase = "run" /\ at > Len(Steps) /\ phase' = "release" /\ release' = Held(guards)
      /\ UNCHANGED <<runner, ok, objects, owner, meter>>
  BY DEF Return
<1>2. at = Len(Steps) + 1 /\ Describes(Here) BY <1>1, RunnerDisciplined DEF AsForeseen, Here
<1>3. /\ MayLeave(runner, Here, Held(Here.guards), TRUE)
      /\ runner \in Careful => Here.meter = "off"
  BY <1>2, RunnerDisciplined DEF Disciplined, Here, Steps
<1>4. guards = Here.guards /\ meter = Here.meter BY <1>2 DEF Describes
<1>. QED BY <1>1, <1>2, <1>3, <1>4, Leaving

-----------------------------------------------------------------------------
(* Releasing the first of a plan leaves a plan for the rest.               *)

LEMMA ReleaseNextKept == ASSUME AsForeseen, ReleaseNext PROVE AsForeseen'
<1> DEFINE q == release
           g == Head(release)
           t == Tail(release)
<1>1. /\ phase = "release" /\ q # <<>> /\ Freed(g, "freed") /\ release' = t
      /\ UNCHANGED <<runner, phase, ok, at, left, guards, meter, fresh>>
  BY DEF ReleaseNext
<1>2. Releasable(Exactly, owner, q) BY <1>1 DEF AsForeseen
<1>3. /\ q \in Seq(Handles) /\ t \in Seq(Handles) /\ Len(q) \in Nat /\ Len(q) >= 1
      /\ g = q[1] /\ g \in Handles
      /\ DOMAIN q = 1..Len(q) /\ DOMAIN t = 1..Len(q) - 1
      /\ \A i \in 1..Len(q) - 1 : t[i] = q[i + 1]
  BY <1>1, <1>2 DEF Releasable
<1>4. \A i \in DOMAIN q : q[i] \in Handles /\ objects[q[i]] # "freed" /\ owner[q[i]] = "none"
  <2>1. \A i \in DOMAIN q : q[i] \in Handles BY <1>3
  <2>. QED BY <1>2, <2>1 DEF Releasable, Exactly
<1>5. /\ objects' = [x \in Handles |-> IF GoesWith(g, x, owner) /\ objects[x] = "live"
                                       THEN "freed" ELSE objects[x]]
      /\ owner' = [x \in Handles |-> IF GoesWith(g, x, owner) THEN "none" ELSE owner[x]]
  BY <1>1, <1>3, <1>4 DEF Freed, GoesWith
<1>6. objects' \in [Handles -> States] BY <1>5 DEF AsForeseen, States
<1>7. owner' \in [Handles -> Handles \cup {"none"}] BY <1>5 DEF AsForeseen
<1>8. \A i \in DOMAIN t : ~GoesWith(g, t[i], owner)
  <2>1. "none" \notin Handles BY DEF Handles
  <2>. QED BY <1>2, <1>3, <1>4, <2>1 DEF Releasable, GoesWith
<1>9. Releasable(Exactly, owner, release)'
  <2>1. \A i, j \in DOMAIN t : t[i] = t[j] => i = j BY <1>2, <1>3 DEF Releasable
  <2>2. ASSUME NEW i \in DOMAIN t PROVE objects'[t[i]] # "freed" /\ owner'[t[i]] = "none"
    <3>1. i + 1 \in DOMAIN q /\ t[i] = q[i + 1] BY <1>3
    <3>. QED BY <1>4, <1>5, <1>8, <3>1
  <2>3. \A i \in DOMAIN t : t[i] \in Handles BY <1>3
  <2>4. \A i \in DOMAIN t : "freed" \notin Exactly'[t[i]] BY <2>2, <2>3 DEF Exactly
  <2>. QED BY <1>1, <1>3, <2>1, <2>2, <2>4 DEF Releasable
\* What is still live did not go with g.
<1>10. ASSUME NEW h \in Handles, objects'[h] = "live"
       PROVE  objects[h] = "live" /\ ~GoesWith(g, h, owner) /\ owner'[h] = owner[h]
  BY <1>5, <1>10
<1>11. ASSUME Complete(Exactly, owner, q) PROVE Complete(Exactly, owner, release)'
  <2> SUFFICES ASSUME NEW h \in Handles, objects'[h] = "live"
               PROVE  \E i \in DOMAIN t : GoesWith(t[i], h, owner')
    BY <1>1 DEF Complete, Exactly
  <2>1. PICK i \in DOMAIN q : GoesWith(q[i], h, owner) BY <1>10, <1>11 DEF Complete, Exactly
  <2>2. i # 1 BY <1>3, <1>10, <2>1
  <2>3. i - 1 \in DOMAIN t /\ t[i - 1] = q[i] BY <1>3, <2>2
  <2>. QED BY <1>10, <2>1, <2>3 DEF GoesWith
<1>12. ASSUME runner \in Careful
       PROVE  /\ Ordered(Exactly, owner, release, MustOutlive)'
              /\ \A p \in MustOutlive : objects'[p[1]] = "live" => objects'[p[2]] = "live"
  <2>1. /\ Ordered(Exactly, owner, q, MustOutlive)
        /\ \A p \in MustOutlive : objects[p[1]] = "live" => objects[p[2]] = "live"
    BY <1>1, <1>12 DEF AsForeseen, Live
  <2>2. MustOutlive' = MustOutlive /\ \A p \in MustOutlive : p[1] \in Handles /\ p[2] \in Handles
    BY <1>1, RunnerDisciplined DEF MustOutlive
  <2>3. ASSUME NEW p \in MustOutlive, objects'[p[1]] = "live" PROVE objects'[p[2]] = "live"
    <3>1. ASSUME GoesWith(g, p[2], owner) PROVE FALSE
      <4>1. 1 \in DOMAIN q /\ "live" \in Exactly[p[1]] BY <1>3, <1>10, <2>2, <2>3 DEF Exactly
      <4>2. \E j \in 1..1 : GoesWith(q[j], p[1], owner) BY <1>3, <2>1, <3>1, <4>1 DEF Ordered
      <4>. QED BY <1>3, <1>10, <2>2, <2>3, <4>2
    <3>. QED BY <1>5, <1>10, <2>1, <2>2, <2>3, <3>1
  <2>4. ASSUME NEW p \in MustOutlive, NEW i \in DOMAIN t, objects'[p[1]] = "live",
               GoesWith(t[i], p[2], owner')
        PROVE  \E j \in 1..i : GoesWith(t[j], p[1], owner')
    <3>1. t[i] \in Handles /\ i + 1 \in DOMAIN q /\ t[i] = q[i + 1] /\ i \in Nat BY <1>3
    <3>2. GoesWith(q[i + 1], p[2], owner)
      <4>1. "none" \notin Handles BY DEF Handles
      <4>. QED BY <1>5, <1>8, <2>2, <2>4, <3>1, <4>1 DEF GoesWith
    <3>3. PICK j \in 1..i + 1 : GoesWith(q[j], p[1], owner)
      <4>1. "live" \in Exactly[p[1]] BY <1>10, <2>2, <2>4 DEF Exactly
      <4>. QED BY <2>1, <3>1, <3>2, <4>1 DEF Ordered
    <3>4. j # 1 BY <1>3, <1>10, <2>2, <2>4, <3>3
    <3>5. j - 1 \in 1..i /\ t[j - 1] = q[j] BY <1>3, <3>1, <3>4
    <3>. QED BY <1>10, <2>2, <2>4, <3>3, <3>5 DEF GoesWith
  <2>5. \A p \in MustOutlive : "live" \in Exactly'[p[1]] => objects'[p[1]] = "live"
    BY <2>2 DEF Exactly
  <2>. QED BY <1>1, <2>2, <2>3, <2>4, <2>5 DEF Ordered
<1>13. MustOutlive' = MustOutlive BY <1>1 DEF MustOutlive
<1>. QED BY <1>1, <1>6, <1>7, <1>9, <1>11, <1>12, <1>13 DEF AsForeseen, Live

LEMMA ReturnedKept == ASSUME AsForeseen, Returned PROVE AsForeseen'
<1>1. Exactly' = Exactly /\ MustOutlive' = MustOutlive BY DEF Returned, Exactly, MustOutlive
<1>. QED BY <1>1 DEF Returned, AsForeseen, Live

LEMMA ForeseenInitially == RunnerInit => AsForeseen
<1>. SUFFICES ASSUME RunnerInit PROVE AsForeseen OBVIOUS
<1>1. runner \in Runners /\ Len(Steps) \in Nat /\ Disciplined(runner)
  BY DisciplineAssumption DEF RunnerInit, Steps
<1>2. Covers(Context(runner, at), AtEntry) BY <1>1 DEF Disciplined, RunnerInit
<1>3. Describes(AtEntry) BY DEF Describes, AtEntry, RunnerInit
<1>4. Describes(Context(runner, at)) BY <1>2, <1>3 DEF Covers, Describes
<1>5. objects \in [Handles -> States] /\ owner \in [Handles -> Handles \cup {"none"}]
  BY DEF RunnerInit, States
<1>6. \A p \in MustOutlive : p[1] \in Handles BY <1>1, NeedsAssumption DEF MustOutlive, NeedsOf
<1>7. \A p \in MustOutlive : ~Live(p[1]) BY <1>6 DEF RunnerInit, Live
<1>. QED BY <1>1, <1>4, <1>5, <1>7 DEF AsForeseen, RunnerInit

\* Whatever a runner does next, whatever fails and however often it goes round.
LEMMA ForeseenKept == AsForeseen /\ [RunnerNext]_runner_vars => AsForeseen'
<1>. SUFFICES ASSUME AsForeseen, [RunnerNext]_runner_vars PROVE AsForeseen' OBVIOUS
<1>1. CASE UNCHANGED runner_vars
  <2>1. /\ Exactly' = Exactly /\ MustOutlive' = MustOutlive /\ Steps' = Steps
        /\ \A c : Describes(c)' = Describes(c)
    BY <1>1 DEF Exactly, MustOutlive, Steps, Describes, runner_vars
  <2>. QED BY <1>1, <2>1 DEF AsForeseen, Live, runner_vars
<1>2. CASE Ended BY <1>1, <1>2 DEF Ended
<1>. QED
  BY <1>1, <1>2, AcquireKept, CheckNullsKept, NewGuardKept, UseObjectKept, HandOverKept,
     FreeByHandKept, DropGuardKept, SetMeterKept, RepeatOrGoOnKept, ReturnKept, ReleaseNextKept,
     ReturnedKept
  DEF RunnerNext

\* What a runner relies on at a step is there (AsForeseen): every runner finds
\* its objects as its recipe has them, for any number of repetitions.
THEOREM RunnersAlwaysForeseen == RunnerSpec => []AsForeseen
BY ForeseenInitially, ForeseenKept, PTL DEF RunnerSpec

-----------------------------------------------------------------------------
(* What it comes to.                                                       *)

\* No call into a runtime is given an object that is not there, and no object
\* is freed twice, by hand and by its guard or by two owners.
THEOREM UsesAlwaysLive == RunnerSpec => []UsesAreLive
<1>1. AsForeseen => UsesAreLive
  <2>. SUFFICES ASSUME AsForeseen PROVE UsesAreLive OBVIOUS
  <2>1. \A h \in Handles : objects[h] # "twice" BY DEF AsForeseen, States
  <2>2. ASSUME Running({"use", "call", "give", "hand"}), NEW h \in Now.uses PROVE Live(h)
    BY <2>2, StepAllowed DEF Running, Allowed, MayUse, Known, Describes, Live
  <2>3. ASSUME Running({"take", "create", "may"}), NEW p \in MustOutlive, p[1] = Now.h
        PROVE  Live(p[2])
    <3>1. p \in NeedsOf(runner) /\ p[2] \in Handles BY <2>3, RunnerDisciplined
    <3>. QED BY <2>3, <3>1, StepAllowed DEF Running, Allowed, Acquires, MayAcquire, Known, Describes, Live
  <2>. QED BY <2>1, <2>2, <2>3 DEF UsesAreLive
<1>. QED BY <1>1, RunnersAlwaysForeseen, PTL

\* In the careful runners an object is there as long as anything built on it,
\* on the way out as well.
THEOREM DependenciesAlwaysOutlive == RunnerSpec => []DependenciesOutlive
<1>1. AsForeseen => DependenciesOutlive BY DEF AsForeseen, DependenciesOutlive
<1>. QED BY <1>1, RunnersAlwaysForeseen, PTL

\* Everything is freed after a success, by a careful runner after a failure too,
\* and no sample overwrites a handle it has not freed.
THEOREM NothingEverLeaks == RunnerSpec => []NothingLeaks
<1>1. AsForeseen => NothingLeaks
  <2>. SUFFICES ASSUME AsForeseen PROVE NothingLeaks OBVIOUS
  <2>1. ASSUME phase = "done", ok \/ runner \in Careful, NEW h \in Handles PROVE ~Live(h)
    <3>1. Complete(Exactly, owner, release) /\ release = <<>> BY <2>1 DEF AsForeseen
    <3>. QED BY <3>1 DEF Complete, Exactly, Live
  <2>2. ASSUME Running({"take", "create", "may"}) PROVE ~Live(Now.h)
    BY <2>2, StepAllowed DEF Running, Allowed, Acquires, MayAcquire, Describes, Live
  <2>. QED BY <2>1, <2>2 DEF NothingLeaks
<1>. QED BY <1>1, RunnersAlwaysForeseen, PTL

\* Only a step of the function itself runs while something is measured, and it
\* frees nothing then; inside a window it creates nothing either.
LEMMA MeasuredStep ==
    ASSUME AsForeseen, RunnerNext, runner \in Careful, meter # "off", meter' = meter
    PROVE  /\ \A h \in Handles : objects[h] = "live" => objects'[h] = "live"
           /\ meter = "window" => objects' = objects
<1>1. phase = "run" BY DEF AsForeseen
<1>2. ASSUME objects' = objects
      PROVE  /\ \A h \in Handles : objects[h] = "live" => objects'[h] = "live"
             /\ meter = "window" => objects' = objects
  BY <1>2
<1>3. \A undo : ~Fail(undo) BY DEF Fail
<1>4. ASSUME Acquire
      PROVE  /\ \A h \in Handles : objects[h] = "live" => objects'[h] = "live"
             /\ meter # "window"
  <2>1. Running({"take", "create", "may"}) BY <1>4 DEF Acquire
  <2>2. MayAcquire(runner, Here, Now) /\ Describes(Here)
    BY <2>1, StepAllowed DEF Running, Allowed, Acquires
  <2>3. objects[Now.h] # "live" /\ meter # "window" BY <2>2 DEF MayAcquire, Describes
  <2>4. \E o : objects' = [objects EXCEPT ![Now.h] = o] BY <1>3, <1>4 DEF Acquire
  <2>5. objects \in [Handles -> States] BY DEF AsForeseen
  <2>. QED BY <2>3, <2>4, <2>5
<1>5. ASSUME Running({"free", "forget", "drop"}), NEW after, Freed(Freeing(Here, Now), after)
      PROVE  objects' = objects
  <2>1. MayFree(runner, Here, Now) /\ Describes(Here)
    BY <1>5, StepAllowed DEF Running, Allowed, Frees
  <2>2. \A h \in Handles : GoesWith(Freeing(Here, Now), h, owner) => objects[h] # "live"
    BY <2>1 DEF MayFree, Describes
  <2>3. objects[Freeing(Here, Now)] # "freed" BY <2>1 DEF MayFree, Describes
  <2>4. objects \in [Handles -> States] BY DEF AsForeseen
  <2>. QED BY <1>5, <2>2, <2>3, <2>4 DEF Freed, GoesWith
<1>6. ASSUME FreeByHand PROVE objects' = objects
  <2>1. Running({"free", "forget"}) BY <1>6 DEF FreeByHand
  <2>2. Running({"free", "forget", "drop"}) /\ Freeing(Here, Now) = Now.h
    BY <2>1 DEF Running, Freeing
  <2>. QED BY <1>5, <1>6, <2>2 DEF FreeByHand
<1>7. ASSUME DropGuard PROVE objects' = objects
  <2>1. Running({"drop"}) BY <1>7 DEF DropGuard
  <2>2. Running({"free", "forget", "drop"}) BY <2>1 DEF Running
  <2>3. Freeing(Here, Now) = Head(Last(guards))
    BY <2>1, StepAllowed DEF Running, Freeing, Describes
  <2>. QED BY <1>5, <1>7, <2>2, <2>3 DEF DropGuard
<1>8. CASE CheckNulls \/ NewGuard \/ UseObject \/ HandOver \/ SetMeter \/ RepeatOrGoOn \/ Return
  BY <1>2, <1>3, <1>8
  DEF CheckNulls, NewGuard, UseObject, HandOver, SetMeter, RepeatOrGoOn, Return
<1>9. CASE ReleaseNext \/ Returned \/ Ended BY <1>1, <1>9 DEF ReleaseNext, Returned, Ended
<1>. QED BY <1>2, <1>4, <1>6, <1>7, <1>8, <1>9 DEF RunnerNext

\* What is timed is a call on an instance of the sample's own; nothing is freed
\* while a sample's clock runs, and a window holds nothing but calls.
THEOREM TeardownIsNeverMeasured == RunnerSpec => TeardownIsNotMeasured
<1> DEFINE Timed == (Recipes[runner].kind = "samples" /\ Running({"call"})) =>
                        meter = "clock" /\ Now.uses \subseteq fresh
           Spared == (runner \in Careful /\ meter # "off" /\ meter' = meter) =>
                       /\ \A h \in Handles : Live(h) => Live(h)'
                       /\ meter = "window" => objects' = objects
<1>1. AsForeseen => Timed
  <2>. SUFFICES ASSUME AsForeseen, Recipes[runner].kind = "samples", Running({"call"})
                PROVE  meter = "clock" /\ Now.uses \subseteq fresh
    OBVIOUS
  <2>. QED BY StepAllowed DEF Running, Allowed, MayUse, Describes
<1>2. AsForeseen /\ [RunnerNext]_runner_vars => [Spared]_runner_vars
  BY MeasuredStep DEF Live
<1>. HIDE DEF Timed, Spared
<1>3. RunnerSpec => []Timed BY <1>1, RunnersAlwaysForeseen, PTL
<1>4. RunnerSpec => [][Spared]_runner_vars BY <1>2, RunnersAlwaysForeseen, PTL DEF RunnerSpec
<1>. QED BY <1>3, <1>4, PTL DEF TeardownIsNotMeasured, Timed, Spared
=============================================================================
