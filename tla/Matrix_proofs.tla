---------------------------- MODULE Matrix_proofs ----------------------------
(***************************************************************************)
(* What is proved of a pass on the M4, for every list of runtimes and      *)
(* cases, every outcome, and as many starts of a script as one likes: the  *)
(* lines of a process are those of the cases it was to run, in order, and  *)
(* what is recorded with a case is that case's.                            *)
(***************************************************************************)
EXTENDS Matrix, MatrixPlans, Lists_proofs, FiniteSetTheorems

-----------------------------------------------------------------------------
(* The plans.                                                              *)

Rts == Range(RuntimesList)
Needle == {Exactly(c) : c \in Range(Cases) \cup {Heavy}}
LaunchSet ==
    [part : {"timing", "memory", "pmu"}, rt : Rts, needles : SUBSET Needle, rep : Nat,
     threads : BOOLEAN]

\* A plan is of one pass. A memory launch is for one case; a PMU launch runs
\* every case on a thread of its own, and no other one of the mode and the
\* runtime runs a case of it.
WellPlanned(p) ==
    /\ p \in Seq(LaunchSet)
    /\ \A l1, l2 \in Range(p) : l1.part = l2.part
    /\ \A l \in Range(p) : l.part = "memory" => \E c : l.needles = {Exactly(c)}
    /\ \A l \in Range(p) : l.part = "pmu" => l.threads
    /\ \A i, j \in DOMAIN p : \A c \in CaseIds :
          (/\ p[i].part = "pmu" /\ p[j].part = "pmu"
           /\ p[i].rt = p[j].rt /\ p[i].rep = p[j].rep
           /\ Selected(p[i], c) /\ Selected(p[j], c)) => i = j

\* The runtimes are numbered from 1.
LEMMA RuntimesNumbered ==
    /\ Len(RuntimesList) \in Nat /\ DOMAIN RuntimesList = 1..Len(RuntimesList)
    /\ \A i \in DOMAIN RuntimesList : RuntimesList[i] \in Rts
BY RuntimesAssumption, LenProperties, ElementOfSeq DEF Rts

\* The timing pass's launches.
LEMMA TimingIsWell == WellPlanned(TimingPlan)
<1> DEFINE T(rt, rep) == [part |-> "timing", rt |-> rt, needles |-> {}, rep |-> rep,
                          threads |-> FALSE]
           X == {l \in LaunchSet : l.part = "timing"}
           inner(rep) == [i \in DOMAIN RuntimesList |-> T(RuntimesList[i], rep)]
           outer == [rep \in 1..N |-> inner(rep)]
<1>1. \A rt \in Rts, rep \in Nat : T(rt, rep) \in X BY DEF LaunchSet
<1>2. N \in Nat BY CountsAssumption
<1>3. ASSUME NEW rep \in 1..N PROVE inner(rep) \in Seq(X)
  <2>1. rep \in Nat BY <1>2
  <2> HIDE DEF T, X
  <2>2. inner(rep) \in [1..Len(RuntimesList) -> X] BY <1>1, <2>1, RuntimesNumbered
  <2>. QED BY <2>2, RuntimesNumbered, SeqDef
<1>4. TimingPlan = FlattenSeq(outer) BY DEF TimingPlan
<1> HIDE DEF X, inner
<1>5. outer \in [1..N -> Seq(X)] BY <1>3
<1> HIDE DEF outer
<1>6. TimingPlan \in Seq(X) BY <1>2, <1>4, <1>5, FlattenFunction
<1>7. /\ DOMAIN TimingPlan = 1..Len(TimingPlan)
      /\ \A i \in DOMAIN TimingPlan : TimingPlan[i] \in X
  BY <1>6, LenProperties, ElementOfSeq
<1>8. X \subseteq LaunchSet /\ \A l \in X : l.part = "timing" BY DEF X
<1>9. TimingPlan \in Seq(LaunchSet) BY <1>6, <1>8, SeqMonotonic
<1>10. \A i \in DOMAIN TimingPlan : TimingPlan[i].part = "timing" BY <1>7, <1>8
<1>11. \A l \in Range(TimingPlan) : l.part = "timing" BY <1>10 DEF Range
<1>. QED BY <1>9, <1>10, <1>11 DEF WellPlanned

\* The memory pass's launches.
LEMMA MemoryIsWell == WellPlanned(MemoryPlan)
<1> DEFINE M(rt, c) == [part |-> "memory", rt |-> rt, needles |-> {Exactly(c)}, rep |-> 0,
                        threads |-> FALSE]
           X == {l \in LaunchSet : l.part = "memory" /\ \E c : l.needles = {Exactly(c)}}
           inner(rt) == [j \in DOMAIN Cases |-> M(rt, Cases[j])]
           outer == [i \in DOMAIN RuntimesList |-> inner(RuntimesList[i])]
<1>1. \A rt \in Rts, c \in Range(Cases) : M(rt, c) \in X BY DEF LaunchSet, Needle
<1>2. /\ Len(Cases) \in Nat /\ DOMAIN Cases = 1..Len(Cases)
      /\ \A j \in DOMAIN Cases : Cases[j] \in Range(Cases)
  BY CasesAssumption, LenProperties, ElementOfSeq
<1>3. ASSUME NEW rt \in Rts PROVE inner(rt) \in Seq(X)
  <2> HIDE DEF M, X
  <2>1. inner(rt) \in [1..Len(Cases) -> X] BY <1>1, <1>2
  <2>. QED BY <1>2, <2>1, SeqDef
<1>4. MemoryPlan = FlattenSeq(outer) BY DEF MemoryPlan
<1> HIDE DEF X, inner
<1>5. outer \in [1..Len(RuntimesList) -> Seq(X)] BY <1>3, RuntimesNumbered
<1> HIDE DEF outer
<1>6. MemoryPlan \in Seq(X) BY <1>4, <1>5, RuntimesNumbered, FlattenFunction
<1>7. /\ DOMAIN MemoryPlan = 1..Len(MemoryPlan)
      /\ \A i \in DOMAIN MemoryPlan : MemoryPlan[i] \in X
  BY <1>6, LenProperties, ElementOfSeq
<1>8. /\ X \subseteq LaunchSet
      /\ \A l \in X : l.part = "memory" /\ \E c : l.needles = {Exactly(c)}
  BY DEF X
<1>9. MemoryPlan \in Seq(LaunchSet) BY <1>6, <1>8, SeqMonotonic
<1>10. \A i \in DOMAIN MemoryPlan :
          MemoryPlan[i].part = "memory" /\ \E c : MemoryPlan[i].needles = {Exactly(c)}
  BY <1>7, <1>8
<1>11. \A l \in Range(MemoryPlan) : l.part = "memory" /\ \E c : l.needles = {Exactly(c)}
  BY <1>10 DEF Range
<1>. QED BY <1>9, <1>10, <1>11 DEF WellPlanned

\* The capture of a group of cases.
Capture(mode, rt, g) ==
    [part |-> "pmu", rt |-> rt, needles |-> Groups[g], rep |-> mode, threads |-> TRUE]
Captures(mode, rt) == {Capture(mode, rt, g) : g \in 1..2}

\* The PMU pass's launches: every capture once.
LEMMA PmuMembers ==
    /\ PmuPlan \in Seq(LaunchSet) /\ IsInjective(PmuPlan)
    /\ Range(PmuPlan) = UNION {Captures(mode, rt) : mode \in 1..Modes, rt \in Rts}
<1> DEFINE M == Len(RuntimesList)
           Two(mode, rt) == [g \in DOMAIN Groups |-> Capture(mode, rt, g)]
           inner(mode) == [i \in DOMAIN RuntimesList |-> Two(mode, RuntimesList[i])]
           outer == [mode \in 1..Modes |-> FlattenSeq(inner(mode))]
           InMode(mode) == UNION {Captures(mode, rt) : rt \in Rts}
<1>1. Modes \in Nat BY CountsAssumption
<1>2. DOMAIN Groups = 1..2 /\ Groups[1] # Groups[2] /\ \A g \in 1..2 : Groups[g] \subseteq Needle
  <2>1. DOMAIN Groups = 1..2 BY DEF Groups
  <2>2. Groups[2] = {Exactly(Heavy)} /\ Groups[1] = {Exactly(c) : c \in Range(Cases) \ {Heavy, LeftOut}}
    BY DEF Groups
  <2>3. Exactly(Heavy) \notin Groups[1] BY <2>2 DEF Exactly
  <2>4. Groups[1] \subseteq Needle /\ Groups[2] \subseteq Needle BY <2>2 DEF Needle
  <2>. QED BY <2>1, <2>2, <2>3, <2>4
<1>3. ASSUME NEW mode \in 1..Modes, NEW rt \in Rts
      PROVE  /\ Two(mode, rt) \in Seq(LaunchSet) /\ IsInjective(Two(mode, rt))
             /\ Range(Two(mode, rt)) = Captures(mode, rt)
  <2>1. mode \in Nat BY <1>1
  <2>2. \A g \in 1..2 : Capture(mode, rt, g) \in LaunchSet BY <1>2, <2>1 DEF Capture, LaunchSet
  <2>3. Two(mode, rt) \in [1..2 -> LaunchSet] BY <1>2, <2>2
  <2>4. Two(mode, rt) \in Seq(LaunchSet)
    <3> HIDE DEF Two
    <3>. QED BY <2>3, SeqDef
  <2>5. Capture(mode, rt, 1) # Capture(mode, rt, 2) BY <1>2 DEF Capture
  <2>6. \A g \in 1..2 : g = 1 \/ g = 2 OBVIOUS
  <2>7. IsInjective(Two(mode, rt)) BY <1>2, <2>5, <2>6 DEF IsInjective
  <2>8. Range(Two(mode, rt)) = Captures(mode, rt) BY <1>2 DEF Range, Captures
  <2>. QED BY <2>4, <2>7, <2>8
<1>4. \A mode, rt : \A l \in Captures(mode, rt) : l.rep = mode /\ l.rt = rt
  BY DEF Capture, Captures
<1> HIDE DEF Two
<1>5. ASSUME NEW mode \in 1..Modes
      PROVE  /\ FlattenSeq(inner(mode)) \in Seq(LaunchSet)
             /\ IsInjective(FlattenSeq(inner(mode)))
             /\ Range(FlattenSeq(inner(mode))) = InMode(mode)
  <2> DEFINE t == inner(mode)
  <2>1. /\ t \in [1..M -> Seq(LaunchSet)] /\ M \in Nat /\ DOMAIN t = 1..M
        /\ \A i \in 1..M : t[i] = Two(mode, RuntimesList[i]) /\ RuntimesList[i] \in Rts
    BY <1>3, RuntimesNumbered
  <2> HIDE DEF t, M
  <2>2. \A i \in 1..M : IsInjective(t[i]) /\ Range(t[i]) = Captures(mode, RuntimesList[i])
    BY <1>3, <2>1
  <2>3. \A i, j \in 1..M : i # j => RuntimesList[i] # RuntimesList[j]
    BY RuntimesAssumption, RuntimesNumbered DEF IsInjective, M
  <2>4. \A i, j \in 1..M : i # j =>
           Captures(mode, RuntimesList[i]) \cap Captures(mode, RuntimesList[j]) = {}
    BY <1>4, <2>3
  <2>5. Apart(t) BY <2>1, <2>2, <2>4 DEF Apart
  <2>6. UNION {Range(t[i]) : i \in 1..M} = InMode(mode)
    <3>1. \A rt \in Rts : \E i \in 1..M : rt = RuntimesList[i]
      BY RuntimesNumbered DEF Rts, Range, M
    <3>2. \A rt \in Rts : \E i \in 1..M : Captures(mode, rt) = Range(t[i]) BY <2>2, <3>1
    <3>3. \A i \in 1..M : Range(t[i]) \subseteq InMode(mode) BY <2>1, <2>2
    <3>. QED BY <3>2, <3>3
  <2>7. /\ FlattenSeq(t) \in Seq(LaunchSet)
        /\ Range(FlattenSeq(t)) = UNION {Range(t[i]) : i \in 1..M}
        /\ IsInjective(FlattenSeq(t))
    BY <2>1, <2>5, FlattenFunction
  <2>. QED BY <2>6, <2>7 DEF t
<1>6. PmuPlan = FlattenSeq(outer) BY DEF PmuPlan, Two, Capture
<1> HIDE DEF inner
<1>7. outer \in [1..Modes -> Seq(LaunchSet)] /\ DOMAIN outer = 1..Modes BY <1>5
<1>8. \A mode \in 1..Modes : IsInjective(outer[mode]) /\ Range(outer[mode]) = InMode(mode)
  BY <1>5
<1>9. \A mode : \A l \in InMode(mode) : l.rep = mode BY <1>4
<1> HIDE DEF outer, InMode
<1>10. \A i, j \in 1..Modes : i # j => InMode(i) \cap InMode(j) = {} BY <1>9
<1>11. Apart(outer) BY <1>7, <1>8, <1>10 DEF Apart
<1>12. /\ PmuPlan \in Seq(LaunchSet)
       /\ Range(PmuPlan) = UNION {Range(outer[i]) : i \in 1..Modes}
       /\ IsInjective(PmuPlan)
  BY <1>1, <1>6, <1>7, <1>11, FlattenFunction
<1>13. UNION {Range(outer[i]) : i \in 1..Modes} = UNION {InMode(i) : i \in 1..Modes}
  BY <1>8
<1> DEFINE U == UNION {Captures(mode, rt) : mode \in 1..Modes, rt \in Rts}
<1>14. UNION {InMode(i) : i \in 1..Modes} = U BY DEF InMode
<1> HIDE DEF U
<1>15. Range(PmuPlan) = U BY <1>12, <1>13, <1>14
<1>. QED BY <1>12, <1>15 DEF U

\* A case runs in one capture of a mode and a runtime.
LEMMA PmuIsWell == WellPlanned(PmuPlan)
<1>1. /\ PmuPlan \in Seq(LaunchSet) /\ IsInjective(PmuPlan)
      /\ DOMAIN PmuPlan = 1..Len(PmuPlan)
  BY PmuMembers, LenProperties
<1>2. \A l \in Range(PmuPlan) : \E mode \in 1..Modes, rt \in Rts, g \in 1..2 : l = Capture(mode, rt, g)
  BY PmuMembers DEF Captures
<1>3. \A l \in Range(PmuPlan) : l.part = "pmu" /\ l.threads BY <1>2 DEF Capture
<1>4. ASSUME NEW l1 \in Range(PmuPlan), NEW l2 \in Range(PmuPlan), NEW c,
             l1.rt = l2.rt, l1.rep = l2.rep, Selected(l1, c), Selected(l2, c)
      PROVE  l1 = l2
  <2>1. PICK g1 \in 1..2 : l1.needles = Groups[g1] /\ l1 = Capture(l1.rep, l1.rt, g1)
    BY <1>2 DEF Capture
  <2>2. PICK g2 \in 1..2 : l2.needles = Groups[g2] /\ l2 = Capture(l2.rep, l2.rt, g2)
    BY <1>2 DEF Capture
  <2>3. ASSUME NEW l, NEW g \in 1..2, l.needles = Groups[g], Selected(l, c)
        PROVE  g = IF c = Heavy THEN 2 ELSE 1
    <3>1. Groups[1] # {} /\ Groups[2] # {} BY GroupsAssumption DEF Groups
    <3>2. PICK needle \in Groups[g] : Hits(needle, c)
      BY <2>3, <3>1 DEF Selected
    <3>3. CASE g = 1
      <4>1. PICK d \in Range(Cases) \ {Heavy, LeftOut} : needle = Exactly(d)
        BY <3>2, <3>3 DEF Groups
      <4>2. c = d BY <3>2, <4>1 DEF Hits, Exactly
      <4>. QED BY <3>3, <4>2
    <3>4. CASE g = 2
      <4>1. needle = Exactly(Heavy) BY <3>2, <3>4 DEF Groups
      <4>2. c = Heavy BY <3>2, <4>1 DEF Hits, Exactly
      <4>. QED BY <3>4, <4>2
    <3>. QED BY <3>3, <3>4
  <2>4. g1 = g2 BY <1>4, <2>1, <2>2, <2>3
  <2>. QED BY <1>4, <2>1, <2>2, <2>4
<1>5. \A i \in DOMAIN PmuPlan : PmuPlan[i] \in Range(PmuPlan) BY DEF Range
<1>6. ASSUME NEW i \in DOMAIN PmuPlan, NEW j \in DOMAIN PmuPlan, NEW c,
             PmuPlan[i].rt = PmuPlan[j].rt, PmuPlan[i].rep = PmuPlan[j].rep,
             Selected(PmuPlan[i], c), Selected(PmuPlan[j], c)
      PROVE  i = j
  <2>1. PmuPlan[i] = PmuPlan[j] BY <1>4, <1>5, <1>6
  <2>. QED BY <1>1, <2>1 DEF IsInjective
<1>. QED BY <1>1, <1>3, <1>6 DEF WellPlanned

\* The scripts' plans.
M4Plans == Plans \subseteq {TimingPlan, MemoryPlan, PmuPlan}

LEMMA PlansAreWell == ASSUME M4Plans PROVE \A p \in Plans : WellPlanned(p)
BY TimingIsWell, MemoryIsWell, PmuIsWell DEF M4Plans
-----------------------------------------------------------------------------
(* The inductive invariant.                                                *)

Here == <<runs, next>>

\* A line or unit of an earlier launch than the one to come.
Past(launch) ==
    /\ launch[1] \in Nat \ {0} /\ launch[2] \in DOMAIN plan
    /\ launch[1] <= runs
    /\ launch[1] = runs => launch[2] < next

Typed ==
    /\ plan \in Plans
    /\ runs \in Nat \ {0} /\ next \in Nat \ {0}
    /\ pc \in {"launch", "case", "run", "report", "ended"}
    /\ pc # "launch" => next \in DOMAIN plan
    /\ todo \in Seq(CaseIds) /\ before \in Nat
    /\ IsList(spent) /\ IsList(lines) /\ IsList(captured)

\* A process has only worked for cases it was to run, each on its thread.
Process ==
    pc # "launch" =>
        /\ IsInjective(todo)
        /\ \A c \in Range(todo) : Selected(Launch, c)
        /\ \A u \in Range(spent) :
              /\ u.launch = Here /\ u.case \in CaseIds /\ Selected(Launch, u.case)
              /\ u.thread = ThreadOf(Launch, u.case)

\* Of the cases still to run only the first may have begun, and all its work
\* is behind the counters' reading.
AtCase ==
    /\ pc \in {"run", "report"} => todo # <<>>
    /\ pc = "run" => before = Len(spent)
    /\ pc = "report" =>
          \/ outcome = "n/a" /\ Len(spent) = before
          \/ Len(spent) = before + 1 /\ spent[before + 1].case = Case
    /\ pc # "launch" =>
          \A i \in DOMAIN spent :
              spent[i].case \in Range(todo) =>
                  pc = "ended" \/ (pc = "report" /\ i = before + 1)
    /\ (pc = "ended" /\ todo # <<>>) => ~KnownCrash(Launch.rt, Case)

\* What holds of a line for good.
LineOk(l) ==
    LET of == plan[l.launch[2]]
    IN  /\ l.launch = <<l.launch[1], l.launch[2]>>
        /\ l.rt = of.rt /\ l.rep = of.rep
        /\ l.case \in CaseIds /\ Selected(of, l.case)
        /\ (l.ok /\ l.case \in Referenced) => l.result = "right"
        /\ of.part = "memory" => l.peak \subseteq {l.case}
        /\ \A u \in l.usage : u.case = l.case /\ u.launch = l.launch
        /\ l.ok => l.usage # {}

LinesOk ==
    \A l \in Range(lines) :
        /\ LineOk(l)
        /\ Past(l.launch) \/ (pc # "launch" /\ l.launch = Here)
        /\ (pc # "launch" /\ l.launch = Here) =>
              /\ l.case \notin Range(todo)
              /\ l.ok => l.usage = {u \in Range(spent) : u.case = l.case}

\* A line of a capture is of an earlier launch, and has what the case's line
\* has.
CapturedOk ==
    \A t \in Range(captured) :
        LET of == plan[t.launch[2]]
        IN  /\ Past(t.launch)
            /\ of.part = "pmu" /\ t.rt = of.rt /\ t.mode = of.rep
            /\ t.launch = <<t.launch[1], t.launch[2]>>
            /\ t.units # {}
            /\ \A u \in t.units :
                  /\ t.thread = CaseThread(u.case)
                  /\ u.case \in CaseIds /\ Selected(of, u.case)
            /\ \A l \in Range(lines) :
                  (l.launch = t.launch /\ l.ok /\ t.thread = CaseThread(l.case)) =>
                      t.units = l.usage

\* The lines of the process under way are those of its first cases.
Mine == Among(lines, {l \in Range(lines) : l.launch = Here})
CasesOf(s) == [i \in DOMAIN s |-> s[i].case]
InOrder == pc # "launch" => CasesOf(Mine) \o todo = Selection(Launch)

Inv == Typed /\ Process /\ AtCase /\ LinesOk /\ CapturedOk /\ InOrder
-----------------------------------------------------------------------------
(* The invariant holds.                                                    *)

\* A launch runs the cases it selects, each once.
LEMMA SelectionMembers ==
    ASSUME NEW l
    PROVE  /\ Selection(l) \in Seq(CaseIds) /\ IsInjective(Selection(l))
           /\ Range(Selection(l)) = {c \in CaseIds : Selected(l, c)}
<1> DEFINE S == {c \in CaseIds : Selected(l, c)}
<1>1. /\ Among(AllCases, S) \in Seq(CaseIds) /\ IsInjective(Among(AllCases, S))
      /\ Range(Among(AllCases, S)) = Range(AllCases) \cap S
  BY AllCasesAssumption, AmongMembers, AmongInjective
<1>. QED BY <1>1 DEF Selection, CaseIds

\* The launch under way is one of the plan's.
LEMMA LaunchPlanned ==
    ASSUME M4Plans, Typed, pc # "launch"
    PROVE  WellPlanned(plan) /\ next \in DOMAIN plan /\ Launch \in Range(plan)
<1>1. WellPlanned(plan) /\ next \in DOMAIN plan BY PlansAreWell DEF Typed
<1>. QED BY <1>1 DEF Launch, Range

\* What is past is not under way.
LEMMA PastIsOver == ASSUME Typed, NEW x, Past(x) PROVE x # Here
BY DEF Past, Here, Typed

\* The pass begins so.
LEMMA InitInv == Init => Inv
<1>. SUFFICES ASSUME Init PROVE Inv OBVIOUS
<1>1. /\ pc = "launch" /\ todo = <<>> /\ spent = <<>> /\ lines = <<>> /\ captured = <<>>
      /\ runs = 1 /\ next = 1 /\ before = 0 /\ plan \in Plans
  BY DEF Init
<1>2. <<>> \in Seq(CaseIds) BY EmptySeq
<1>3. Typed BY <1>1, <1>2, EmptyIsList DEF Typed
<1>4. Process /\ AtCase /\ InOrder BY <1>1 DEF Process, AtCase, InOrder
<1>5. LinesOk /\ CapturedOk BY <1>1, EmptyIsList DEF LinesOk, CapturedOk
<1>. QED BY <1>3, <1>4, <1>5 DEF Inv

\* The files as they are stay right if no launch begins or ends.
FilesKept == UNCHANGED <<plan, runs, next, lines, captured>>

LEMMA CapturedKept == ASSUME CapturedOk, FilesKept PROVE CapturedOk'
BY DEF CapturedOk, FilesKept, Past

LEMMA LinesKept ==
    ASSUME LinesOk, FilesKept, pc # "launch", pc' # "launch",
           \A l \in Range(lines) :
              l.launch = Here =>
                  /\ l.case \notin Range(todo')
                  /\ l.ok => l.usage = {u \in Range(spent') : u.case = l.case}
    PROVE  LinesOk'
BY DEF LinesOk, LineOk, FilesKept, Past, Here

LEMMA OrderKept ==
    ASSUME InOrder, FilesKept, pc # "launch", todo' = todo PROVE InOrder'
BY DEF InOrder, FilesKept, Mine, CasesOf, Here, Launch

\* A process begins with all it has to run.
LEMMA StartInv == ASSUME Inv, Start, M4Plans PROVE Inv'
<1>1. /\ pc = "launch" /\ pc' = "case" /\ todo' = Selection(Launch) /\ spent' = <<>>
      /\ before' = 0 /\ plan' = plan /\ runs' = runs /\ next' = next /\ lines' = lines
      /\ captured' = captured /\ next <= Len(plan)
  BY DEF Start, files
<1>2. next \in DOMAIN plan
  <2>1. WellPlanned(plan) BY PlansAreWell DEF Inv, Typed
  <2>2. DOMAIN plan = 1..Len(plan) /\ Len(plan) \in Nat BY <2>1, LenProperties DEF WellPlanned
  <2>. QED BY <1>1, <2>2 DEF Inv, Typed
<1>3. /\ Selection(Launch) \in Seq(CaseIds) /\ IsInjective(Selection(Launch))
      /\ \A c \in Range(Selection(Launch)) : Selected(Launch, c)
  BY SelectionMembers
<1>4. Launch' = Launch BY <1>1 DEF Launch
<1>5. Typed' BY <1>1, <1>2, <1>3, EmptyIsList DEF Inv, Typed
<1>6. Process' BY <1>1, <1>3, <1>4, EmptyIsList DEF Process
<1>7. AtCase' BY <1>1 DEF AtCase
<1>8. \A l \in Range(lines) : LineOk(l) /\ Past(l.launch) BY <1>1 DEF Inv, LinesOk
<1>9. \A l \in Range(lines) : l.launch # Here BY <1>8, PastIsOver DEF Inv
<1>10. LinesOk' BY <1>1, <1>8, <1>9 DEF LinesOk, LineOk, Past, Here
<1>11. CapturedOk' BY <1>1, CapturedKept DEF Inv, FilesKept
<1>12. InOrder'
  <2>1. {l \in Range(lines) : l.launch = Here} = {} BY <1>9
  <2>2. Mine = <<>> BY <2>1, AmongNone DEF Mine, Inv, Typed, IsList
  <2>3. Mine' = Mine BY <1>1 DEF Mine, Here
  <2>4. CasesOf(<<>>) = <<>> BY DEF CasesOf
  <2>5. <<>> \o Selection(Launch) = Selection(Launch) BY <1>3, ConcatEmptySeq
  <2>6. Selection(Launch)' = Selection(Launch) BY <1>4 DEF Selection, Selected
  <2>7. CasesOf(Mine') \o todo' = Selection(Launch) BY <1>1, <2>2, <2>3, <2>4, <2>5
  <2>. QED BY <1>4, <2>6, <2>7 DEF InOrder, CasesOf
<1>. QED BY <1>5, <1>6, <1>7, <1>10, <1>11, <1>12 DEF Inv

\* The steps that leave the cases and the units of work alone.
LEMMA StayInv == ASSUME Inv, Begin \/ NotRun \/ Exit PROVE Inv'
<1>1. /\ pc \in {"case", "run"} /\ pc' \in {"run", "report", "ended"}
      /\ todo' = todo /\ spent' = spent
      /\ plan' = plan /\ runs' = runs /\ next' = next /\ lines' = lines
      /\ captured' = captured
      /\ pc' = "run" => todo # <<>> /\ before' = Len(spent)
      /\ pc' = "report" => todo # <<>> /\ outcome' = "n/a" /\ before' = Len(spent)
      /\ pc' = "ended" => todo = <<>> /\ before' = before
  BY DEF Begin, NotRun, Exit, files, Inv, AtCase, UsageBefore
<1>2. Len(spent) \in Nat BY LenProperties DEF Inv, Typed, IsList
<1>3. Launch' = Launch /\ Here' = Here BY <1>1 DEF Launch, Here
<1>4. Typed' BY <1>1, <1>2 DEF Inv, Typed
<1>5. Process' BY <1>1, <1>3 DEF Inv, Process
<1>6. AtCase' BY <1>1 DEF Inv, AtCase
<1>7. LinesOk' BY <1>1, LinesKept DEF Inv, LinesOk, FilesKept
<1>8. CapturedOk' BY <1>1, CapturedKept DEF Inv, FilesKept
<1>9. InOrder' BY <1>1, OrderKept DEF Inv, FilesKept
<1>. QED BY <1>4, <1>5, <1>6, <1>7, <1>8, <1>9 DEF Inv

\* A case's work is its own, on its thread.
LEMMA RunCaseInv == ASSUME Inv, RunCase PROVE Inv'
<1> DEFINE u == [case |-> Case, launch |-> <<runs, next>>, thread |-> ThreadOf(Launch, Case)]
<1>1. /\ pc = "run" /\ pc' \in {"report", "ended"} /\ todo' = todo /\ before' = before
      /\ spent' = Append(spent, u) /\ plan' = plan /\ runs' = runs /\ next' = next
      /\ lines' = lines /\ captured' = captured /\ ~KnownCrash(Launch.rt, Case)
  BY DEF RunCase, files
<1>2. /\ todo # <<>> /\ todo \in Seq(CaseIds) /\ before = Len(spent) /\ IsInjective(todo)
      /\ IsList(spent)
  BY <1>1 DEF Inv, Typed, AtCase, Process
<1>3. Case \in Range(todo) /\ Case \in CaseIds BY <1>2, TailMembers DEF Case
<1>4. Selected(Launch, Case) BY <1>1, <1>3 DEF Inv, Process
<1>5. u.case = Case /\ u.launch = Here /\ u.thread = ThreadOf(Launch, Case) BY DEF Here
<1> HIDE DEF u
<1>6. /\ IsList(spent') /\ Range(spent') = Range(spent) \cup {u}
      /\ Len(spent) \in Nat /\ Len(spent') = Len(spent) + 1
      /\ DOMAIN spent = 1..Len(spent) /\ DOMAIN spent' = 1..(Len(spent) + 1)
      /\ spent'[Len(spent) + 1] = u /\ \A i \in 1..Len(spent) : spent'[i] = spent[i]
  BY <1>1, <1>2, AppendIsList
<1>7. Launch' = Launch /\ Here' = Here /\ Case' = Case BY <1>1 DEF Launch, Here, Case
<1>8. Typed' BY <1>1, <1>6 DEF Inv, Typed
<1>9. Process'
  <2>1. \A v \in Range(spent') :
           /\ v.launch = Here /\ v.case \in CaseIds /\ Selected(Launch, v.case)
           /\ v.thread = ThreadOf(Launch, v.case)
    BY <1>1, <1>3, <1>4, <1>5, <1>6 DEF Inv, Process
  <2>2. \A c \in Range(todo) : Selected(Launch, c) BY <1>1 DEF Inv, Process
  <2>. QED BY <1>1, <1>2, <1>7, <2>1, <2>2 DEF Process, Selected, Hits, ThreadOf
<1>10. AtCase'
  <2>1. \A i \in DOMAIN spent : spent[i].case \notin Range(todo) BY <1>1 DEF Inv, AtCase
  <2>2. ASSUME NEW i \in DOMAIN spent', spent'[i].case \in Range(todo)
        PROVE  pc' = "ended" \/ (pc' = "report" /\ i = before + 1)
    <3>1. i = Len(spent) + 1 \/ i \in 1..Len(spent) BY <1>6
    <3>2. i \notin 1..Len(spent) BY <1>6, <2>1, <2>2
    <3>. QED BY <1>1, <1>2, <3>1, <3>2
  <2>3. Len(spent') = before + 1 /\ spent'[before + 1].case = Case BY <1>2, <1>5, <1>6
  <2>. QED BY <1>1, <1>2, <1>7, <2>2, <2>3 DEF AtCase, KnownCrash
<1>11. LinesOk'
  <2>1. ASSUME NEW l \in Range(lines), l.launch = Here
        PROVE  /\ l.case \notin Range(todo)
               /\ l.ok => l.usage = {v \in Range(spent') : v.case = l.case}
    <3>1. /\ l.case \notin Range(todo)
          /\ l.ok => l.usage = {v \in Range(spent) : v.case = l.case}
      BY <1>1, <2>1 DEF Inv, LinesOk
    <3>2. u.case # l.case BY <1>3, <1>5, <3>1
    <3>. QED BY <1>6, <3>1, <3>2
  <2>. QED BY <1>1, <2>1, LinesKept DEF Inv, FilesKept
<1>12. CapturedOk' BY <1>1, CapturedKept DEF Inv, FilesKept
<1>13. InOrder' BY <1>1, OrderKept DEF Inv, FilesKept
<1>. QED BY <1>8, <1>9, <1>10, <1>11, <1>12, <1>13 DEF Inv

\* A memory launch selects one case.
LEMMA MemorySelectsOne ==
    ASSUME M4Plans, Typed, pc # "launch", Launch.part = "memory",
           NEW c, NEW d, Selected(Launch, c), Selected(Launch, d)
    PROVE  c = d
<1>1. PICK e : Launch.needles = {Exactly(e)} BY LaunchPlanned DEF WellPlanned
<1>2. ASSUME NEW d1, Selected(Launch, d1) PROVE d1 = e
  <2>1. Launch.needles # {} BY <1>1
  <2>2. PICK needle \in Launch.needles : Hits(needle, d1) BY <1>2, <2>1 DEF Selected
  <2>3. needle = Exactly(e) BY <1>1
  <2>. QED BY <2>2, <2>3 DEF Hits, Exactly
<1>. QED BY <1>2

\* A case's line is about the case.
LEMMA ReportInv == ASSUME Inv, Report, M4Plans PROVE Inv'
<1> DEFINE usage == Range(SubSeq(spent, before + 1, Len(spent)))
           peak == {unit.case : unit \in Range(spent)}
           x == [rt |-> Launch.rt, case |-> Case, rep |-> Launch.rep,
                 ok |-> Accepted(Case, outcome), usage |-> usage, peak |-> peak,
                 launch |-> <<runs, next>>, result |-> outcome]
<1>1. /\ pc = "report" /\ pc' = "case" /\ lines' = Append(lines, x) /\ todo' = Tail(todo)
      /\ before' = before /\ spent' = spent /\ plan' = plan /\ runs' = runs /\ next' = next
      /\ captured' = captured
  BY DEF Report
<1>2. /\ todo # <<>> /\ todo \in Seq(CaseIds) /\ IsInjective(todo) /\ before \in Nat
      /\ IsList(spent) /\ IsList(lines) /\ next \in DOMAIN plan
  BY <1>1 DEF Inv, Typed, AtCase, Process
<1>3. /\ x.rt = Launch.rt /\ x.case = Case /\ x.rep = Launch.rep
      /\ x.ok = Accepted(Case, outcome) /\ x.usage = usage /\ x.peak = peak
      /\ x.launch = Here /\ x.result = outcome
  BY DEF Here
<1>4. DOMAIN spent = 1..Len(spent) /\ Len(spent) \in Nat /\ \A u \in Range(spent) : \E i \in DOMAIN spent : u = spent[i]
  BY <1>2, LenProperties DEF IsList, Range
<1>5. /\ \/ outcome = "n/a" /\ Len(spent) = before
         \/ Len(spent) = before + 1 /\ spent[before + 1].case = Case
      /\ \A i \in DOMAIN spent : spent[i].case \in Range(todo) => i = before + 1
  BY <1>1 DEF Inv, AtCase
<1>6. /\ Case \in Range(todo) /\ Case \in CaseIds
      /\ Tail(todo) \in Seq(CaseIds) /\ IsInjective(Tail(todo))
      /\ Range(Tail(todo)) = Range(todo) \ {Case}
  BY <1>2, TailMembers DEF Case
<1>7. usage = {u \in Range(spent) : u.case = Case}
  <2>1. CASE Len(spent) = before
    <3>1. before + 1 \in Int /\ Len(spent) \in Int /\ Len(spent) < before + 1 BY <1>2, <2>1
    <3>2. SubSeq(spent, before + 1, Len(spent)) = <<>> BY <3>1, SubSeqEmpty
    <3>3. usage = {} BY <3>2, EmptyIsList
    <3>4. \A i \in DOMAIN spent : i # before + 1 BY <1>2, <1>4, <2>1
    <3>5. \A u \in Range(spent) : u.case # Case BY <1>4, <1>5, <1>6, <3>4
    <3>. QED BY <3>3, <3>5
  <2>2. CASE Len(spent) = before + 1 /\ spent[before + 1].case = Case
    <3> DEFINE n == before + 1
               t == SubSeq(spent, n, n)
               S == {spent[n]}
    <3>1. n \in Int /\ n \in DOMAIN spent BY <1>2, <1>4, <2>2
    <3>2. \A i \in n..n : spent[i] \in S BY <3>1
    <3> HIDE DEF n, S
    <3>3. /\ t \in Seq(S) /\ Len(t) = IF n <= n THEN n - n + 1 ELSE 0
          /\ \A i \in 1..(n - n + 1) : t[i] = spent[n + i - 1]
      BY <3>1, <3>2, SubSeqProperties
    <3>4. n - n + 1 = 1 /\ n + 1 - 1 = n /\ n <= n BY <3>1
    <3>5. Len(t) = 1 /\ t[1] = spent[n] BY <3>3, <3>4
    <3>6. DOMAIN t = 1..1 BY <3>3, <3>5, LenProperties
    <3>7. usage = {spent[n]} BY <2>2, <3>5, <3>6 DEF Range, n
    <3>8. \A u \in Range(spent) : u.case = Case => u = spent[n] BY <1>4, <1>5, <1>6 DEF n
    <3>9. spent[n] \in Range(spent) /\ spent[n].case = Case BY <2>2, <3>1 DEF Range, n
    <3>. QED BY <3>7, <3>8, <3>9
  <2>. QED BY <1>5, <2>1, <2>2
<1>8. x.ok => usage # {}
  <2>1. x.ok => outcome # "n/a" BY <1>3 DEF Accepted
  <2>2. SUFFICES ASSUME outcome # "n/a" PROVE usage # {} BY <2>1
  <2>3. before + 1 \in DOMAIN spent /\ spent[before + 1].case = Case
    <3>1. Len(spent) = before + 1 /\ spent[before + 1].case = Case BY <1>5, <2>2
    <3>2. before + 1 \in 1..(before + 1) BY <1>2
    <3>. QED BY <1>4, <3>1, <3>2
  <2>4. spent[before + 1] \in Range(spent) BY <2>3 DEF Range
  <2>. QED BY <1>7, <2>3, <2>4
<1>9. Launch.part = "memory" => peak \subseteq {Case}
  <2>1. \A u \in Range(spent) : Selected(Launch, u.case) BY <1>1 DEF Inv, Process
  <2>2. Selected(Launch, Case) BY <1>1, <1>6 DEF Inv, Process
  <2>. QED BY <1>1, <2>1, <2>2, MemorySelectsOne DEF Inv
<1>10. /\ \A u \in usage : u.case = Case /\ u.launch = Here
       /\ (x.ok /\ Case \in Referenced) => outcome = "right"
       /\ Selected(Launch, Case)
  BY <1>1, <1>3, <1>6, <1>7 DEF Inv, Process, Accepted
<1> HIDE DEF usage, peak, x
<1>11. LineOk(x)
  <2>1. x.launch[1] = runs /\ x.launch[2] = next BY <1>3 DEF Here
  <2>. QED BY <1>3, <1>6, <1>8, <1>9, <1>10, <2>1 DEF LineOk, Launch, Here
<1>12. IsList(lines') /\ Range(lines') = Range(lines) \cup {x} BY <1>1, <1>2, AppendIsList
<1>13. Launch' = Launch /\ Here' = Here BY <1>1 DEF Launch, Here
<1>14. Typed' BY <1>1, <1>6, <1>12 DEF Inv, Typed
<1>15. Process' BY <1>1, <1>6, <1>13 DEF Inv, Process, ThreadOf, Selected, Hits
<1>16. AtCase'
  <2>1. ASSUME NEW i \in DOMAIN spent, spent[i].case \in Range(Tail(todo)) PROVE FALSE
    <3>1. i = before + 1 /\ spent[i].case # Case BY <1>5, <1>6, <2>1
    <3>2. before + 1 \in 1..Len(spent) BY <1>4, <2>1, <3>1
    <3>3. before \in Nat /\ Len(spent) \in Nat BY <1>2, <1>4
    <3>4. Len(spent) # before BY <3>2, <3>3
    <3>. QED BY <1>5, <3>1, <3>4
  <2>. QED BY <1>1, <2>1 DEF AtCase
<1>17. LinesOk'
  <2>1. ASSUME NEW l \in Range(lines')
        PROVE  /\ LineOk(l)
               /\ Past(l.launch) \/ l.launch = Here
               /\ l.launch = Here =>
                    /\ l.case \notin Range(Tail(todo))
                    /\ l.ok => l.usage = {u \in Range(spent) : u.case = l.case}
    <3>1. CASE l = x BY <1>3, <1>6, <1>7, <1>11, <3>1
    <3>2. CASE l \in Range(lines) BY <1>1, <1>6, <3>2 DEF Inv, LinesOk
    <3>. QED BY <1>12, <2>1, <3>1, <3>2
  <2>2. \A l : LineOk(l)' = LineOk(l) BY <1>1 DEF LineOk, Selected, Hits
  <2>3. \A y : Past(y)' = Past(y) BY <1>1 DEF Past
  <2>4. pc' # "launch" BY <1>1
  <2>. QED BY <1>1, <1>13, <2>1, <2>2, <2>3, <2>4 DEF LinesOk
<1>18. CapturedOk'
  <2>1. \A t \in Range(captured) : t.launch # Here BY PastIsOver DEF Inv, CapturedOk
  <2>2. \A t \in Range(captured) : x.launch # t.launch BY <1>3, <2>1
  <2>. QED BY <1>1, <1>12, <2>2 DEF Inv, CapturedOk, Past
<1>19. InOrder'
  <2> DEFINE X == Range(lines) \cup {x}
             S == {l \in Range(lines) : l.launch = Here}
             T == {l \in Range(lines') : l.launch = Here}
             m == Among(lines, S)
  <2>1. lines \in Seq(X) /\ x \in X /\ x \in T BY <1>2, <1>3, <1>12, SeqMonotonic DEF IsList
  <2>2. Range(lines) \cap S = Range(lines) \cap T BY <1>12
  <2> HIDE DEF S, T, X
  <2>3. Among(lines', T) = Append(Among(lines, T), x) BY <1>1, <2>1, AmongAppend
  <2>4. Among(lines, T) = m BY <2>1, <2>2, AmongAgree
  <2>5. m \in Seq(X) /\ Range(m) \subseteq Range(lines) BY <2>1, AmongMembers
  <2> HIDE DEF m
  <2>6. Mine = m /\ Mine' = Append(m, x) BY <1>13, <2>3, <2>4 DEF Mine, S, T, m
  <2>7. /\ DOMAIN m = 1..Len(m) /\ Len(m) \in Nat /\ \A i \in 1..Len(m) : m[i] \in Range(lines)
    BY <2>5, LenProperties DEF Range
  <2>8. \A l \in Range(lines) : l.case \in CaseIds BY DEF Inv, LinesOk, LineOk
  <2>9. CasesOf(m) \in Seq(CaseIds)
    <3>1. CasesOf(m) \in [1..Len(m) -> CaseIds] BY <2>7, <2>8 DEF CasesOf
    <3>. QED BY <2>7, <3>1, SeqDef
  <2>10. CasesOf(Append(m, x)) = Append(CasesOf(m), Case)
    <3> DEFINE p == Append(m, x)
               c == CasesOf(m)
               q == Append(c, Case)
    <3>1. /\ Len(p) = Len(m) + 1 /\ p[Len(m) + 1] = x /\ \A i \in 1..Len(m) : p[i] = m[i]
          /\ p \in Seq(X) /\ DOMAIN p = 1..(Len(m) + 1)
      BY <2>1, <2>5, AppendProperties, LenProperties
    <3>2. DOMAIN c = 1..Len(m) /\ \A i \in 1..Len(m) : c[i] = m[i].case BY <2>7 DEF CasesOf
    <3>3. c \in Seq(CaseIds) BY <2>9
    <3> HIDE DEF p, c
    <3>4. Len(c) = Len(m) BY <2>7, <3>2, <3>3, LenProperties
    <3>5. /\ Len(q) = Len(m) + 1 /\ q[Len(m) + 1] = Case
          /\ \A i \in 1..Len(m) : q[i] = c[i]
          /\ q \in Seq(CaseIds) /\ DOMAIN q = 1..(Len(m) + 1)
      BY <1>6, <3>3, <3>4, AppendProperties, LenProperties
    <3>6. q \in [1..(Len(m) + 1) -> CaseIds] BY <3>5, LenProperties
    <3> HIDE DEF q
    <3>7. /\ DOMAIN CasesOf(p) = 1..(Len(m) + 1)
          /\ \A i \in 1..(Len(m) + 1) : CasesOf(p)[i] = p[i].case
      BY <3>1 DEF CasesOf
    <3>8. \A i \in 1..(Len(m) + 1) : i \in 1..Len(m) \/ i = Len(m) + 1 BY <2>7
    <3>9. \A i \in 1..(Len(m) + 1) : p[i].case = q[i] BY <1>3, <3>1, <3>2, <3>5, <3>8
    <3>10. CasesOf(p) = [i \in 1..(Len(m) + 1) |-> q[i]] BY <3>1, <3>9 DEF CasesOf
    <3>11. CasesOf(p) = q BY <3>6, <3>10
    <3>. QED BY <3>11 DEF p, q, c
  <2>11. CasesOf(m) \o todo = Selection(Launch) BY <1>1, <2>6 DEF Inv, InOrder
  <2>12. Append(CasesOf(m), Case) \o Tail(todo) = CasesOf(m) \o todo
    BY <1>2, <2>9, MoveOne DEF Case
  <2>13. CasesOf(Mine)' = CasesOf(Append(m, x)) BY <2>6 DEF CasesOf
  <2>14. Selection(Launch)' = Selection(Launch) BY <1>13 DEF Selection, Selected
  <2>. QED BY <1>1, <2>10, <2>11, <2>12, <2>13, <2>14 DEF InOrder
<1>. QED BY <1>14, <1>15, <1>16, <1>17, <1>18, <1>19 DEF Inv

\* The threads of a process that ran each case on one are told apart by case.
LEMMA ThreadsAreCases ==
    ASSUME NEW l, l.threads, NEW c PROVE ThreadOf(l, c) = CaseThread(c)
BY DEF ThreadOf, RunnerThread, CaseThread

\* A finite set in some order.
LEMMA SetInOrder ==
    ASSUME NEW S, IsFiniteSet(S)
    PROVE  IsList(SetToSeq(S)) /\ Range(SetToSeq(S)) \subseteq S
<1> DEFINE n == Cardinality(S)
           F == [1..n -> S]
<1>1. n \in Nat /\ ExistsBijection(1..n, S) BY FS_CardinalityType
<1>2. \E f \in F : IsInjective(f)
  BY <1>1 DEF ExistsBijection, Bijection, Injection
<1>3. SetToSeq(S) \in F BY <1>2 DEF SetToSeq
<1>4. SetToSeq(S) \in Seq(S) BY <1>1, <1>3, SeqDef
<1>. QED BY <1>4, SeqIsList

\* The lines of a process's threads.
ThreadLine(t) ==
    [rt |-> Launch.rt, mode |-> Launch.rep, thread |-> t, launch |-> <<runs, next>>,
     units |-> {unit \in Range(spent) : unit.thread = t}]

LEMMA CaseLinesFinite ==
    ASSUME IsList(spent)
    PROVE  /\ CaseLines = {ThreadLine(spent[i].thread) : i \in DOMAIN spent}
           /\ IsFiniteSet(CaseLines)
<1> DEFINE n == Len(spent)
           f == [i \in 1..n |-> ThreadLine(spent[i].thread)]
           names == {unit.thread : unit \in Range(spent)}
           T == {ThreadLine(spent[i].thread) : i \in DOMAIN spent}
<1>1. n \in Nat /\ DOMAIN spent = 1..n BY LenProperties DEF IsList
<1>2. CaseLines = {ThreadLine(t) : t \in names} BY DEF CaseLines, ThreadLine
<1>3. names = {spent[i].thread : i \in DOMAIN spent} BY DEF Range
<1> HIDE DEF names
<1>4. CaseLines = T BY <1>2, <1>3
<1>5. f \in Surjection(1..n, T)
  <2>1. f \in [1..n -> T] BY <1>1
  <2>2. \A t \in T : \E i \in 1..n : f[i] = t BY <1>1
  <2>. QED BY <2>1, <2>2 DEF Surjection
<1>6. IsFiniteSet(1..n) BY <1>1, FS_Interval
<1> HIDE DEF f, T, n
<1>7. IsFiniteSet(T) BY <1>5, <1>6, FS_Surjection
<1>. QED BY <1>4, <1>7 DEF T

\* The script goes on with the next process: what this one did is past, and the
\* capture has what its lines say.
LEMMA GoOnInv == ASSUME Inv, GoOn, M4Plans PROVE Inv'
<1>1. /\ pc = "ended" /\ pc' = "launch" /\ next' = next + 1 /\ todo' = <<>>
      /\ plan' = plan /\ runs' = runs /\ lines' = lines /\ spent' = spent /\ before' = before
      /\ captured' = IF Launch.part = "pmu" THEN captured \o SetToSeq(CaseLines) ELSE captured
  BY DEF GoOn
<1>2. /\ IsList(spent) /\ IsList(captured) /\ runs \in Nat \ {0} /\ next \in Nat \ {0}
      /\ next \in DOMAIN plan /\ before \in Nat /\ plan \in Plans
  BY <1>1 DEF Inv, Typed
<1>3. /\ IsList(captured')
      /\ \A t \in Range(captured') : t \in Range(captured) \/ (Launch.part = "pmu" /\ t \in CaseLines)
  <2>1. IsList(SetToSeq(CaseLines)) /\ Range(SetToSeq(CaseLines)) \subseteq CaseLines
    BY <1>2, CaseLinesFinite, SetInOrder
  <2> DEFINE new == SetToSeq(CaseLines)
  <2> HIDE DEF new
  <2>2. IsList(captured \o new) /\ Range(captured \o new) = Range(captured) \cup Range(new)
    BY <1>2, <2>1, ConcatIsList DEF new
  <2>3. Range(new) \subseteq CaseLines BY <2>1 DEF new
  <2>4. captured' = IF Launch.part = "pmu" THEN captured \o new ELSE captured BY <1>1 DEF new
  <2>. QED BY <1>2, <2>2, <2>3, <2>4
<1>a. WellPlanned(plan) BY <1>2, PlansAreWell
<1>b. \A i \in DOMAIN plan : i \in Nat BY <1>a, LenProperties DEF WellPlanned
<1>4. ASSUME NEW y, Past(y) \/ y = Here PROVE Past(y)'
  <2>1. CASE Past(y)
    <3>1. y[2] \in Nat /\ (y[1] = runs => y[2] < next + 1) BY <1>2, <1>b, <2>1 DEF Past
    <3>. QED BY <1>1, <2>1, <3>1 DEF Past
  <2>2. CASE y = Here
    <3>1. y[1] = runs /\ y[2] = next BY <2>2 DEF Here
    <3>. QED BY <1>1, <1>2, <3>1 DEF Past
  <2>. QED BY <1>4, <2>1, <2>2
<1>6. Typed' BY <1>1, <1>2, <1>3, EmptySeq DEF Inv, Typed
<1>7. Process' /\ AtCase' /\ InOrder' BY <1>1 DEF Process, AtCase, InOrder
<1>8. LinesOk'
  <2>1. \A l \in Range(lines) : LineOk(l) /\ (Past(l.launch) \/ l.launch = Here)
    BY DEF Inv, LinesOk
  <2>2. \A l : LineOk(l)' = LineOk(l) BY <1>1 DEF LineOk, Selected, Hits
  <2>3. \A l \in Range(lines) : Past(l.launch)' BY <1>4, <2>1
  <2>. QED BY <1>1, <2>1, <2>2, <2>3 DEF LinesOk
<1>9. ASSUME Launch.part = "pmu", NEW t \in CaseLines
      PROVE  /\ t.launch = Here /\ t.rt = Launch.rt /\ t.mode = Launch.rep /\ t.units # {}
             /\ \A u \in t.units :
                   /\ t.thread = CaseThread(u.case)
                   /\ u.case \in CaseIds /\ Selected(Launch, u.case)
             /\ \A l \in Range(lines) :
                   (l.launch = t.launch /\ l.ok /\ t.thread = CaseThread(l.case)) =>
                       t.units = l.usage
  <2>1. PICK i \in DOMAIN spent : t = ThreadLine(spent[i].thread)
    BY <1>2, <1>9, CaseLinesFinite
  <2>2. /\ t.launch = Here /\ t.rt = Launch.rt /\ t.mode = Launch.rep
        /\ t.thread = spent[i].thread
        /\ t.units = {u \in Range(spent) : u.thread = t.thread}
    BY <2>1 DEF ThreadLine, Here
  <2>3. spent[i] \in t.units BY <2>2 DEF Range
  <2>4. Launch.threads BY <1>1, <1>9, LaunchPlanned DEF Inv, WellPlanned
  <2>5. \A u \in Range(spent) :
           u.thread = CaseThread(u.case) /\ u.case \in CaseIds /\ Selected(Launch, u.case)
    BY <1>1, <2>4, ThreadsAreCases DEF Inv, Process
  <2>6. ASSUME NEW l \in Range(lines), l.launch = t.launch, l.ok,
               t.thread = CaseThread(l.case)
        PROVE  t.units = l.usage
    <3>1. l.usage = {u \in Range(spent) : u.case = l.case}
      BY <1>1, <2>2, <2>6 DEF Inv, LinesOk
    <3>2. \A c, d : CaseThread(c) = CaseThread(d) => c = d BY DEF CaseThread
    <3>3. \A u \in Range(spent) : u.thread = t.thread <=> u.case = l.case
      BY <2>5, <2>6, <3>2
    <3>. QED BY <2>2, <3>1, <3>3
  <2>. QED BY <2>2, <2>3, <2>5, <2>6
<1>10. CapturedOk'
  <2> DEFINE Right(t) ==
               LET of == plan[t.launch[2]]
               IN  /\ of.part = "pmu" /\ t.rt = of.rt /\ t.mode = of.rep
                   /\ t.launch = <<t.launch[1], t.launch[2]>>
                   /\ t.units # {}
                   /\ \A u \in t.units :
                         /\ t.thread = CaseThread(u.case)
                         /\ u.case \in CaseIds /\ Selected(of, u.case)
                   /\ \A l \in Range(lines) :
                         (l.launch = t.launch /\ l.ok /\ t.thread = CaseThread(l.case)) =>
                             t.units = l.usage
  <2>1. ASSUME NEW t \in Range(captured) PROVE Past(t.launch) /\ Right(t)
    BY DEF Inv, CapturedOk
  <2>2. ASSUME Launch.part = "pmu", NEW t \in CaseLines PROVE t.launch = Here /\ Right(t)
    <3>1. /\ t.launch = Here /\ t.rt = Launch.rt /\ t.mode = Launch.rep /\ t.units # {}
          /\ \A u \in t.units :
                /\ t.thread = CaseThread(u.case)
                /\ u.case \in CaseIds /\ Selected(Launch, u.case)
          /\ \A l \in Range(lines) :
                (l.launch = t.launch /\ l.ok /\ t.thread = CaseThread(l.case)) =>
                    t.units = l.usage
      BY <1>9, <2>2
    <3>2. t.launch[1] = runs /\ t.launch[2] = next BY <3>1 DEF Here
    <3>3. plan[t.launch[2]] = Launch BY <3>2 DEF Launch
    <3>4. t.launch = <<t.launch[1], t.launch[2]>> BY <3>1, <3>2 DEF Here
    <3>. QED BY <2>2, <3>1, <3>3, <3>4
  <2> HIDE DEF Right
  <2>3. \A t \in Range(captured') : Right(t) /\ (Past(t.launch) \/ t.launch = Here)
    BY <1>3, <2>1, <2>2
  <2>4. \A t \in Range(captured') : Past(t.launch)' BY <1>4, <2>3
  <2>5. \A t \in Range(captured') : Right(t)' BY <1>1, <2>3 DEF Right, Selected, Hits
  <2>. QED BY <2>4, <2>5 DEF Right, CapturedOk
<1>. QED BY <1>6, <1>7, <1>8, <1>10 DEF Inv

\* The pass again: all there is is past.
LEMMA AgainInv == ASSUME Inv, Again PROVE Inv'
<1>1. /\ pc = "launch" /\ pc' = "launch" /\ runs' = runs + 1 /\ next' = 1
      /\ plan' = plan /\ todo' = todo /\ before' = before /\ spent' = spent /\ lines' = lines
      /\ captured' = captured
  BY DEF Again, files
<1>2. runs \in Nat \ {0} BY DEF Inv, Typed
<1>3. Typed' BY <1>1, <1>2 DEF Inv, Typed
<1>4. Process' /\ AtCase' /\ InOrder' BY <1>1 DEF Process, AtCase, InOrder
<1>5. ASSUME NEW y, Past(y) PROVE Past(y)'
  <2>1. y[1] \in Nat /\ y[1] <= runs BY <1>5 DEF Past
  <2>2. y[1] <= runs + 1 /\ y[1] # runs + 1 BY <1>2, <2>1
  <2>. QED BY <1>1, <1>5, <2>2 DEF Past
<1>6. \A l : LineOk(l)' = LineOk(l) BY <1>1 DEF LineOk, Selected, Hits
<1>7. LinesOk' BY <1>1, <1>5, <1>6 DEF Inv, LinesOk
<1>8. CapturedOk' BY <1>1, <1>5 DEF Inv, CapturedOk, Selected, Hits
<1>. QED BY <1>3, <1>4, <1>7, <1>8 DEF Inv

\* Every step keeps the invariant.
LEMMA NextInv == ASSUME Inv, [Next]_vars, M4Plans PROVE Inv'
<1>1. CASE Start BY <1>1, StartInv
<1>2. CASE Begin \/ NotRun \/ Exit BY <1>2, StayInv
<1>3. CASE RunCase BY <1>3, RunCaseInv
<1>4. CASE Report BY <1>4, ReportInv
<1>5. CASE GoOn BY <1>5, GoOnInv
<1>6. CASE Again BY <1>6, AgainInv
<1>7. CASE UNCHANGED vars
  <2>1. FilesKept /\ UNCHANGED <<pc, todo, before, outcome, spent>>
    BY <1>7 DEF vars, FilesKept
  <2>2. Typed' /\ Process' /\ AtCase'
    BY <2>1 DEF Inv, Typed, Process, AtCase, FilesKept, Launch, Here, Case
  <2>3. LinesOk' BY <2>1 DEF Inv, LinesOk, LineOk, Past, Here, FilesKept
  <2>4. CapturedOk' BY <2>1, CapturedKept DEF Inv
  <2>5. InOrder' BY <2>1 DEF Inv, InOrder, FilesKept, Mine, CasesOf, Here, Launch
  <2>. QED BY <2>2, <2>3, <2>4, <2>5 DEF Inv
<1>. QED BY <1>1, <1>2, <1>3, <1>4, <1>5, <1>6, <1>7 DEF Next, Done

\* Whatever the runtimes come to and however often a script is started, the
\* files and the process under way are as the invariant says.
THEOREM FilesAlwaysAgree == ASSUME M4Plans PROVE Spec => []Inv
<1>1. Inv /\ [Next]_vars => Inv' BY NextInv
<1>. QED BY InitInv, <1>1, PTL DEF Spec
-----------------------------------------------------------------------------
(* What the files say.                                                     *)

\* OnlyNewCrashesCostRows (cases.rs, known_crash): every case a process was to
\* run has its line or is still to run, in order, and only one that is not a
\* known crash takes a process down early.
THEOREM CrashesAlwaysNew == ASSUME M4Plans PROVE Spec => []OnlyNewCrashesCostRows
<1>1. Inv => OnlyNewCrashesCostRows
  <2>. SUFFICES ASSUME Inv, pc # "launch"
                PROVE  /\ CasesOf(Mine) \o todo = Selection(Launch)
                       /\ (pc = "ended" /\ todo # <<>>) => <<Launch.rt, Case>> \notin KnownCrashes
    BY DEF OnlyNewCrashesCostRows, CasesOf, Mine, Here
  <2>. QED BY DEF Inv, InOrder, AtCase, KnownCrash
<1>. QED BY FilesAlwaysAgree, <1>1, PTL

\* LinesAreTheCases (main's loop, load_pmu): a line's result, peak and
\* instructions and a thread's units of work are of the case they name.
THEOREM LinesAlwaysTheCases == ASSUME M4Plans PROVE Spec => []LinesAreTheCases
<1>1. Inv => LinesAreTheCases
  <2>. SUFFICES ASSUME Inv PROVE LinesAreTheCases OBVIOUS
  <2>1. \A i \in DOMAIN lines : lines[i] \in Range(lines) BY DEF Range
  <2>2. \A i \in DOMAIN lines : LineOk(lines[i]) BY <2>1 DEF Inv, LinesOk
  <2>3. \A i \in DOMAIN captured : captured[i] \in Range(captured) BY DEF Range
  <2>4. \A i \in DOMAIN captured : \A u \in captured[i].units : captured[i].thread = CaseThread(u.case)
    BY <2>3 DEF Inv, CapturedOk
  <2>. QED BY <2>2, <2>4 DEF LinesAreTheCases, LineOk
<1>. QED BY FilesAlwaysAgree, <1>1, PTL

\* The line that counts is one of those that fit.
LEMMA LastOfAmong ==
    ASSUME NEW s, IsList(s), NEW S, Among(s, S) # <<>>
    PROVE  Last(Among(s, S)) \in Range(s) \cap S
<1> DEFINE t == Among(s, S)
           X == Range(s)
<1>1. t \in Seq(X) /\ Range(t) = X \cap S BY AmongMembers DEF IsList
<1>2. t # <<>> OBVIOUS
<1> HIDE DEF t, X
<1>3. Len(t) \in Nat /\ DOMAIN t = 1..Len(t) /\ Len(t) # 0 BY <1>1, <1>2, LenProperties, EmptySeq
<1>4. Len(t) \in DOMAIN t BY <1>3
<1>5. t[Len(t)] \in Range(t) BY <1>4 DEF Range
<1>. QED BY <1>1, <1>5 DEF Last, t, X

\* RatioOfOneCapture (load_pmu): in one pass into one directory the counts and
\* the instructions of a case in a mode are of one process.
THEOREM RatioAlwaysOfOneCapture == ASSUME M4Plans PROVE Spec => []RatioOfOneCapture
<1>1. Inv /\ M4Plans => RatioOfOneCapture
  <2> DEFINE S(launch, c) == {t \in Range(captured) :
                 t.rt = launch.rt /\ t.thread = CaseThread(c) /\ t.mode = launch.rep}
             R(launch, c) == {l \in Range(lines) :
                 l.rt = launch.rt /\ l.case = c /\ l.ok /\ ModeOf(l.rep) = launch.rep}
  <2>. SUFFICES ASSUME Inv, M4Plans, runs = 1, NEW launch \in Range(plan), NEW c \in CaseIds,
                       launch.part = "pmu",
                       Counts(launch.rt, c, launch.rep) # <<>>,
                       Instructions(launch.rt, c, launch.rep) # <<>>
                PROVE  Last(Counts(launch.rt, c, launch.rep)).units =
                           Last(Instructions(launch.rt, c, launch.rep)).usage
    BY DEF RatioOfOneCapture
  <2>1. /\ Counts(launch.rt, c, launch.rep) = Among(captured, S(launch, c))
        /\ Instructions(launch.rt, c, launch.rep) = Among(lines, R(launch, c))
    BY DEF Counts, Instructions
  <2>2. IsList(captured) /\ IsList(lines) /\ WellPlanned(plan)
    BY PlansAreWell DEF Inv, Typed
  <2> DEFINE t == Last(Counts(launch.rt, c, launch.rep))
             l == Last(Instructions(launch.rt, c, launch.rep))
  <2>3. t \in Range(captured) /\ t \in S(launch, c) BY <2>1, <2>2, LastOfAmong
  <2>4. l \in Range(lines) /\ l \in R(launch, c) BY <2>1, <2>2, LastOfAmong
  <2>5. t.rt = launch.rt /\ t.thread = CaseThread(c) /\ t.mode = launch.rep BY <2>3
  <2>6. l.rt = launch.rt /\ l.case = c /\ l.ok /\ l.rep = launch.rep BY <2>4 DEF ModeOf
  <2> HIDE DEF t, l, S, R
  <2> DEFINE i == t.launch[2]
             j == l.launch[2]
  <2>7. /\ Past(t.launch) /\ t.launch = <<t.launch[1], i>>
        /\ plan[i].part = "pmu" /\ t.rt = plan[i].rt /\ t.mode = plan[i].rep
        /\ t.units # {}
        /\ \A u \in t.units : t.thread = CaseThread(u.case) /\ Selected(plan[i], u.case)
        /\ (l.launch = t.launch /\ l.ok /\ t.thread = CaseThread(l.case)) => t.units = l.usage
    BY <2>3, <2>4 DEF Inv, CapturedOk
  <2>8. /\ l.launch = <<l.launch[1], j>> /\ l.rt = plan[j].rt /\ l.rep = plan[j].rep
        /\ Selected(plan[j], l.case)
        /\ Past(l.launch) \/ (pc # "launch" /\ l.launch = Here)
    BY <2>4 DEF Inv, LinesOk, LineOk
  <2>9. t.launch[1] = 1 /\ i \in DOMAIN plan BY <2>7 DEF Past
  <2>10. l.launch[1] = 1 /\ j \in DOMAIN plan
    <3>1. CASE Past(l.launch) BY <3>1 DEF Past
    <3>2. CASE pc # "launch" /\ l.launch = Here BY <3>2 DEF Here, Inv, Typed
    <3>. QED BY <2>8, <3>1, <3>2
  <2>11. Selected(plan[i], c)
    <3>1. PICK u \in t.units : CaseThread(c) = CaseThread(u.case) /\ Selected(plan[i], u.case)
      BY <2>5, <2>7
    <3>2. u.case = c BY <3>1 DEF CaseThread
    <3>. QED BY <3>1, <3>2
  <2>12. plan[j].part = "pmu"
    <3>1. plan[i] \in Range(plan) /\ plan[j] \in Range(plan) BY <2>9, <2>10 DEF Range
    <3>. QED BY <2>2, <2>7, <3>1 DEF WellPlanned
  <2>13. i = j BY <2>2, <2>5, <2>6, <2>7, <2>8, <2>9, <2>10, <2>11, <2>12 DEF WellPlanned
  <2>14. l.launch = t.launch BY <2>7, <2>8, <2>9, <2>10, <2>13
  <2>15. t.units = l.usage BY <2>5, <2>6, <2>7, <2>14
  <2>. QED BY <2>15 DEF t, l
<1>. QED BY FilesAlwaysAgree, <1>1, PTL
=============================================================================
