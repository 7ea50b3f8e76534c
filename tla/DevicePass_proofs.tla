-------------------------- MODULE DevicePass_proofs --------------------------
(***************************************************************************)
(* What is proved of the device pass: a log holds, line by line, the start *)
(* of what its launch had to run (LogsAgree), because what is under way    *)
(* between the app and the log is what comes next (Stream). From that: no  *)
(* retry loses a result, a marker means a complete log, and the summary    *)
(* has every case once and puts a missing one down to a launch that was to *)
(* run it.                                                                 *)
(***************************************************************************)
EXTENDS DevicePass, Lists_proofs, FiniteSetTheorems

-----------------------------------------------------------------------------
(* The launches of a pass.                                                 *)

Runtimes == Range(RuntimesList)
LaunchSet ==
    [rep : 1..Reps, rt : Runtimes, part : Nat, want : SUBSET Needles, leave : SUBSET Needles]

Whole(rep, rt, leave) == LaunchFor(rep, rt, Len(Heavy) + 1, {}, leave)
OfNeedle(rep, rt, i) == LaunchFor(rep, rt, i, {i}, {})

\* The launches of a runtime in a rep.
LaunchesIn(rep, rt) ==
    IF rt \in Split
    THEN {Whole(rep, rt, Needles)} \cup {OfNeedle(rep, rt, i) : i \in Needles}
    ELSE {Whole(rep, rt, {})}

\* The needles are numbered from 1.
LEMMA NeedlesNumbered == Len(Heavy) \in Nat /\ Needles = 1..Len(Heavy)
BY HeavyAssumption, LenProperties DEF Needles

\* A launch is one of the pass's.
LEMMA LaunchesTyped ==
    ASSUME NEW rep \in 1..Reps, NEW rt \in Runtimes
    PROVE  LaunchesIn(rep, rt) \subseteq LaunchSet
<1>1. Needles \subseteq Nat /\ Len(Heavy) + 1 \in Nat BY NeedlesNumbered
<1>2. \A leave \in SUBSET Needles : Whole(rep, rt, leave) \in LaunchSet
  BY <1>1 DEF Whole, LaunchFor, LaunchSet
<1>3. \A i \in Needles : OfNeedle(rep, rt, i) \in LaunchSet
  BY <1>1 DEF OfNeedle, LaunchFor, LaunchSet
<1>. QED BY <1>2, <1>3 DEF LaunchesIn

\* A runtime's launches in a rep are those, each once.
LEMMA LaunchesOfMembers ==
    ASSUME NEW rep \in 1..Reps, NEW rt \in Runtimes
    PROVE  /\ LaunchesOf(rep, rt) \in Seq(LaunchSet)
           /\ Range(LaunchesOf(rep, rt)) = LaunchesIn(rep, rt)
           /\ IsInjective(LaunchesOf(rep, rt))
<1>1. \A l \in LaunchSet : /\ <<l>> \in Seq(LaunchSet)
                           /\ Range(<<l>>) = {l} /\ IsInjective(<<l>>)
  BY DEF Range, IsInjective
<1>2. CASE rt \in Split
  <2> DEFINE s == <<Whole(rep, rt, Needles)>>
             t == [i \in Needles |-> OfNeedle(rep, rt, i)]
  <2>1. LaunchesOf(rep, rt) = s \o t
    BY <1>2 DEF LaunchesOf, Whole, OfNeedle, HeavyLeftOut
  <2>2. \A i \in Needles : OfNeedle(rep, rt, i) \in LaunchSet
    BY <1>2, LaunchesTyped DEF LaunchesIn
  <2>3. t \in Seq(LaunchSet) /\ DOMAIN t = Needles
    BY <2>2, NeedlesNumbered
  <2>4. Range(t) = {OfNeedle(rep, rt, i) : i \in Needles} BY DEF Range
  <2>5. IsInjective(t) BY DEF IsInjective, OfNeedle, LaunchFor
  <2>6. Whole(rep, rt, Needles) \in LaunchSet BY <1>2, LaunchesTyped DEF LaunchesIn
  <2>7. s \in Seq(LaunchSet) /\ Range(s) = {Whole(rep, rt, Needles)} /\ IsInjective(s)
    BY <1>1, <2>6
  <2>8. Range(s) \cap Range(t) = {}
    <3>1. \A i \in Needles : Whole(rep, rt, Needles) # OfNeedle(rep, rt, i)
      BY DEF Whole, OfNeedle, LaunchFor
    <3>. QED BY <2>4, <2>7, <3>1
  <2> HIDE DEF s, t
  <2>9. /\ s \o t \in Seq(LaunchSet)
        /\ Range(s \o t) = Range(s) \cup Range(t)
        /\ IsInjective(s \o t)
    BY <2>3, <2>5, <2>7, <2>8, ConcatMembers
  <2>. QED BY <1>2, <2>1, <2>4, <2>7, <2>9 DEF LaunchesIn
<1>3. CASE rt \notin Split
  <2>1. Whole(rep, rt, {}) \in LaunchSet BY <1>3, LaunchesTyped DEF LaunchesIn
  <2>2. LaunchesOf(rep, rt) = <<Whole(rep, rt, {})>> BY <1>3 DEF LaunchesOf, Whole
  <2>. QED BY <1>1, <1>3, <2>1, <2>2 DEF LaunchesIn
<1>. QED BY <1>2, <1>3

\* The launches of one (rep, runtime) name it.
LEMMA LaunchesNamed ==
    ASSUME NEW rep, NEW rt, NEW l \in LaunchesIn(rep, rt)
    PROVE  l.rep = rep /\ l.rt = rt
BY DEF LaunchesIn, Whole, OfNeedle, LaunchFor

\* The pass makes every launch of every runtime in every rep, each once, and
\* no other.
LEMMA LaunchesMembers ==
    /\ Launches \in Seq(LaunchSet)
    /\ Range(Launches) = UNION {LaunchesIn(rep, rt) : rep \in 1..Reps, rt \in Runtimes}
    /\ IsInjective(Launches)
<1> DEFINE M == Len(RuntimesList)
           inner(rep) == [i \in DOMAIN RuntimesList |-> LaunchesOf(rep, RuntimesList[i])]
           outer == [rep \in 1..Reps |-> FlattenSeq(inner(rep))]
           InRep(rep) == UNION {LaunchesIn(rep, rt) : rt \in Runtimes}
<1>1. /\ M \in Nat /\ DOMAIN RuntimesList = 1..M
      /\ \A i \in 1..M : RuntimesList[i] \in Runtimes
  BY RuntimesAssumption, LenProperties, ElementOfSeq DEF Runtimes
<1>2. ASSUME NEW rep \in 1..Reps
      PROVE  /\ FlattenSeq(inner(rep)) \in Seq(LaunchSet)
             /\ Range(FlattenSeq(inner(rep))) = InRep(rep)
             /\ IsInjective(FlattenSeq(inner(rep)))
  <2> DEFINE t == inner(rep)
  <2>1. DOMAIN t = 1..M /\ Len(t) = M /\ \A i \in 1..M : t[i] = LaunchesOf(rep, RuntimesList[i])
    BY <1>1
  <2>2. \A i \in 1..M : /\ t[i] \in Seq(LaunchSet)
                        /\ Range(t[i]) = LaunchesIn(rep, RuntimesList[i])
                        /\ IsInjective(t[i])
    BY <1>1, <2>1, LaunchesOfMembers
  <2>3. t \in Seq(Seq(LaunchSet))
    <3>1. t \in [1..M -> Seq(LaunchSet)] BY <1>1, <2>2
    <3>. QED BY <1>1, <3>1, SeqDef
  <2> HIDE DEF t
  <2>4. Apart(t)
    <3>1. ASSUME NEW i \in 1..M, NEW j \in 1..M, i # j
          PROVE  LaunchesIn(rep, RuntimesList[i]) \cap LaunchesIn(rep, RuntimesList[j]) = {}
      <4>1. RuntimesList[i] # RuntimesList[j]
        BY <1>1, <3>1, RuntimesAssumption DEF IsInjective
      <4>. QED BY <4>1, LaunchesNamed
    <3>. QED BY <2>1, <2>2, <3>1 DEF Apart
  <2>5. UNION {Range(t[i]) : i \in 1..M} = InRep(rep)
    <3>1. \A i \in 1..M : Range(t[i]) \subseteq InRep(rep) BY <1>1, <2>2
    <3>2. \A rt \in Runtimes : \E i \in 1..M : rt = RuntimesList[i] BY <1>1 DEF Runtimes, Range
    <3>3. \A rt \in Runtimes : \E i \in 1..M : LaunchesIn(rep, rt) = Range(t[i])
      BY <2>2, <3>2
    <3>. QED BY <3>1, <3>3
  <2>6. /\ FlattenSeq(t) \in Seq(LaunchSet)
        /\ Range(FlattenSeq(t)) = UNION {Range(t[i]) : i \in 1..Len(t)}
        /\ IsInjective(FlattenSeq(t))
    BY <2>3, <2>4, FlattenMembers
  <2>. QED BY <2>1, <2>5, <2>6 DEF t
<1>3. Launches = FlattenSeq(outer) BY DEF Launches
<1>4. \A rep \in 1..Reps : outer[rep] = FlattenSeq(inner(rep)) OBVIOUS
<1>5. Reps \in Nat /\ DOMAIN outer = 1..Reps BY RepsAssumption
<1> HIDE DEF inner, outer
<1>6. outer \in Seq(Seq(LaunchSet)) /\ Len(outer) = Reps
  <2>1. outer = [rep \in 1..Reps |-> outer[rep]] BY DEF outer
  <2>2. outer \in [1..Reps -> Seq(LaunchSet)] BY <1>2, <1>4, <2>1
  <2>3. outer \in Seq(Seq(LaunchSet)) BY <1>5, <2>2, SeqDef
  <2>4. Len(outer) = Reps BY <1>5, <2>3, LenProperties
  <2>. QED BY <2>3, <2>4
<1>7. \A rep \in 1..Reps : \A l \in InRep(rep) : l.rep = rep BY LaunchesNamed
<1>8. Apart(outer)
  <2>1. \A i, j \in 1..Reps : i # j => InRep(i) \cap InRep(j) = {} BY <1>7
  <2>2. \A i \in 1..Reps : Range(outer[i]) = InRep(i) /\ IsInjective(outer[i]) BY <1>2, <1>4
  <2> HIDE DEF InRep
  <2>. QED BY <1>5, <2>1, <2>2 DEF Apart
<1>9. UNION {Range(outer[i]) : i \in 1..Reps} =
         UNION {LaunchesIn(rep, rt) : rep \in 1..Reps, rt \in Runtimes}
  <2>1. \A i \in 1..Reps : Range(outer[i]) = InRep(i) BY <1>2, <1>4
  <2>. QED BY <2>1
<1>10. /\ FlattenSeq(outer) \in Seq(LaunchSet)
       /\ Range(FlattenSeq(outer)) = UNION {Range(outer[i]) : i \in 1..Len(outer)}
       /\ IsInjective(FlattenSeq(outer))
  BY <1>6, <1>8, FlattenMembers
<1>11. Range(Launches) = UNION {LaunchesIn(rep, rt) : rep \in 1..Reps, rt \in Runtimes}
  <2> DEFINE U == UNION {LaunchesIn(rep, rt) : rep \in 1..Reps, rt \in Runtimes}
  <2>1. UNION {Range(outer[i]) : i \in 1..Reps} = U BY <1>9
  <2> HIDE DEF U
  <2>2. Range(Launches) = U BY <1>3, <1>6, <1>10, <2>1
  <2>. QED BY <2>2 DEF U
<1>12. Launches \in Seq(LaunchSet) /\ IsInjective(Launches) BY <1>3, <1>10
<1>. QED BY <1>11, <1>12
-----------------------------------------------------------------------------
(* The inductive invariant.                                                *)

Lines == {Header, Marker} \cup {RowLine(c) : c \in Cases} \cup {SignalLine(s) : s \in Signals}

Typed ==
    /\ pc \in {"launch", "poll", "alive", "stop", "kill", "judge", "done"}
    /\ n \in Nat
    /\ logs \in [DOMAIN Launches -> Log]
    /\ app \in [state : {"none", "running", "suspended"}, todo : Seq(Lines)]
    /\ console \in BOOLEAN
    /\ pipe \in Seq(Lines)

\* Nobody writes to a log that is being judged or has not had its turn, and
\* the log of a launch that is made anew is one nobody will miss.
Places ==
    /\ pc # "done" => n \in DOMAIN Launches
    /\ pc \in {"launch", "judge", "done"} => ~console
    /\ ~console => pipe = <<>>
    /\ pc = "launch" => logs[n].rows = <<>> /\ logs[n].signal # "os"
    /\ \A k \in DOMAIN Launches : k > n => logs[k] = EmptyLog

\* A log holds the first lines of its launch's script.
Agrees(log, l) ==
    /\ log.marker => log.header /\ Len(log.rows) = Len(Plan(l))
    /\ log.rows # <<>> => log.header
    /\ Len(log.rows) <= Len(Plan(l))
    /\ \A i \in 1..Len(log.rows) : log.rows[i] = Plan(l)[i]

LogsAgree == \A k \in DOMAIN Launches : Agrees(logs[k], Launches[k])

\* The number of script lines a log holds.
Delivered(log) ==
    (IF log.header THEN 1 ELSE 0) + Len(log.rows) + (IF log.marker THEN 1 ELSE 0)

\* The first m lines of q are what follows the first d lines of s.
Follows(q, m, s, d) ==
    /\ d + m <= Len(s)
    /\ \A i \in 1..m : q[i] = s[d + i]

\* What is under way to the log and what the app has yet to write continue the
\* log; when the app is gone, a line that says so may be the last under way.
Stream ==
    console =>
        LET s == Script(Launches[n])
            d == Delivered(logs[n])
        IN  /\ pipe # <<>> \/ app.state # "none" => logs[n].signal = "none"
            /\ app.state # "none" =>
                  /\ Follows(pipe, Len(pipe), s, d)
                  /\ Follows(app.todo, Len(app.todo), s, d + Len(pipe))
            /\ app.state = "none" /\ pipe # <<>> =>
                  /\ pipe[Len(pipe)] \in {SignalLine(v) : v \in Signals}
                  /\ Follows(pipe, Len(pipe) - 1, s, d)

Inv == Typed /\ Places /\ LogsAgree /\ Stream
-----------------------------------------------------------------------------
(* What a launch is to write.                                              *)

\* A launch is planned the cases it covers.
LEMMA PlanMembers ==
    ASSUME NEW l
    PROVE  Plan(l) \in Seq(Cases) /\ Range(Plan(l)) = {c \in Cases : Covers(l, c)}
<1> DEFINE S == {c \in Cases : Covers(l, c)}
<1>1. Among(Catalog, S) \in Seq(Cases) /\ Range(Among(Catalog, S)) = Range(Catalog) \cap S
  BY CatalogAssumption, AmongMembers
<1>. QED BY <1>1 DEF Plan, Cases

\* The script is the filter line, the planned rows in order and the marker.
LEMMA ScriptLines ==
    ASSUME NEW l
    PROVE  LET m == Len(Plan(l))
           IN  /\ m \in Nat
               /\ Script(l) \in Seq(Lines) /\ Len(Script(l)) = m + 2
               /\ Script(l)[1] = Header
               /\ \A i \in 1..m : Script(l)[i + 1] = RowLine(Plan(l)[i])
               /\ Script(l)[m + 2] = Marker
<1> DEFINE m == Len(Plan(l))
           h == <<Header>>
           r == RowLines(l)
           e == <<Marker>>
<1>1. m \in Nat /\ DOMAIN Plan(l) = 1..m /\ \A i \in 1..m : Plan(l)[i] \in Cases
  BY PlanMembers, LenProperties, ElementOfSeq
<1>2. \A i \in 1..m : RowLine(Plan(l)[i]) \in Lines BY <1>1 DEF Lines
<1>3. /\ r \in Seq(Lines) /\ Len(r) = m
      /\ \A i \in 1..m : r[i] = RowLine(Plan(l)[i])
  <2>1. r = [i \in 1..m |-> RowLine(Plan(l)[i])] BY <1>1 DEF RowLines
  <2> HIDE DEF r, m
  <2>2. r \in [1..m -> Lines] BY <1>2, <2>1
  <2>3. r \in Seq(Lines) BY <1>1, <2>2, SeqDef
  <2>4. DOMAIN r = 1..m BY <2>1
  <2>5. Len(r) = m BY <1>1, <2>3, <2>4, LenProperties
  <2>. QED BY <2>1, <2>3, <2>5
<1>4. /\ h \in Seq(Lines) /\ Len(h) = 1 /\ h[1] = Header
      /\ e \in Seq(Lines) /\ Len(e) = 1 /\ e[1] = Marker
  BY DEF Lines
<1>5. Script(l) = (h \o r) \o e BY DEF Script
<1> HIDE DEF h, r, e, m
<1> DEFINE hr == h \o r
<1>a. /\ h \o r \in Seq(Lines) /\ Len(h \o r) = Len(h) + Len(r)
      /\ \A i \in 1..(Len(h) + Len(r)) : (h \o r)[i] = IF i <= Len(h) THEN h[i] ELSE r[i - Len(h)]
  BY <1>3, <1>4, ConcatProperties
<1>6. /\ hr \in Seq(Lines) /\ Len(hr) = 1 + m
      /\ \A i \in 1..(1 + m) : hr[i] = IF i <= 1 THEN h[i] ELSE r[i - 1]
  BY <1>3, <1>4, <1>a
<1> HIDE DEF hr
<1>b. /\ hr \o e \in Seq(Lines) /\ Len(hr \o e) = Len(hr) + Len(e)
      /\ \A i \in 1..(Len(hr) + Len(e)) :
            (hr \o e)[i] = IF i <= Len(hr) THEN hr[i] ELSE e[i - Len(hr)]
  BY <1>4, <1>6, ConcatProperties
<1>7. /\ hr \o e \in Seq(Lines) /\ Len(hr \o e) = (1 + m) + 1
      /\ \A i \in 1..((1 + m) + 1) : (hr \o e)[i] = IF i <= 1 + m THEN hr[i] ELSE e[i - (1 + m)]
  BY <1>4, <1>6, <1>b
<1>8. Script(l) = hr \o e BY <1>5 DEF hr
<1>9. Script(l)[1] = Header
  <2>1. 1 \in 1..((1 + m) + 1) /\ 1 <= 1 + m /\ 1 \in 1..(1 + m) BY <1>1 DEF m
  <2>. QED BY <1>4, <1>6, <1>7, <1>8, <2>1
<1>10. ASSUME NEW i \in 1..m PROVE Script(l)[i + 1] = RowLine(Plan(l)[i])
  <2>1. /\ i + 1 \in 1..((1 + m) + 1) /\ i + 1 <= 1 + m /\ i + 1 \in 1..(1 + m)
        /\ ~(i + 1 <= 1) /\ (i + 1) - 1 = i
    BY <1>1 DEF m
  <2>. QED BY <1>3, <1>6, <1>7, <1>8, <2>1
<1>11. Script(l)[m + 2] = Marker
  <2>1. /\ m + 2 \in 1..((1 + m) + 1) /\ ~(m + 2 <= 1 + m) /\ (m + 2) - (1 + m) = 1
    BY <1>1 DEF m
  <2>. QED BY <1>4, <1>7, <1>8, <2>1
<1>12. m \in Nat /\ Len(Script(l)) = m + 2 /\ Script(l) \in Seq(Lines)
  BY <1>1, <1>7, <1>8 DEF m
<1>. QED BY <1>9, <1>10, <1>11, <1>12 DEF m

\* The log of a launch that has written nothing.
LEMMA EmptyLogAgrees ==
    ASSUME NEW l
    PROVE  EmptyLog \in Log /\ Agrees(EmptyLog, l) /\ Delivered(EmptyLog) = 0
<1>1. Len(Plan(l)) \in Nat BY ScriptLines
<1>2. Len(<<>>) = 0 /\ <<>> \in Seq(Cases) BY EmptySeq
<1>. QED BY <1>1, <1>2 DEF EmptyLog, Log, Signals, Agrees, Delivered

\* The lines of a log are counted.
LEMMA DeliveredCounts == ASSUME NEW log \in Log PROVE Delivered(log) \in Nat
<1> DEFINE k == Len(log.rows)
<1>1. log.rows \in Seq(Cases) BY DEF Log
<1>2. k \in Nat BY <1>1, LenProperties
<1> HIDE DEF k
<1> DEFINE a == IF log.header THEN 1 ELSE 0
           b == IF log.marker THEN 1 ELSE 0
<1>3. a \in Nat /\ b \in Nat OBVIOUS
<1> HIDE DEF a, b
<1>4. a + k + b \in Nat BY <1>2, <1>3
<1>. QED BY <1>4 DEF Delivered, a, b, k

\* A log that has the first d lines of the script and gets the next one has
\* the first d + 1.
LEMMA NextLine ==
    ASSUME NEW l, NEW log \in Log, Agrees(log, l), Delivered(log) + 1 <= Len(Script(l))
    PROVE  LET new == Written(log, Script(l)[Delivered(log) + 1])
           IN  /\ new \in Log /\ Agrees(new, l)
               /\ Delivered(new) = Delivered(log) + 1
               /\ new.signal = log.signal
               /\ RowsIn(log) \subseteq RowsIn(new)
<1> DEFINE m == Len(Plan(l))
           d == Delivered(log)
           line == Script(l)[d + 1]
           k == Len(log.rows)
<1>1. /\ m \in Nat /\ Len(Script(l)) = m + 2 /\ Script(l)[1] = Header
      /\ \A i \in 1..m : Script(l)[i + 1] = RowLine(Plan(l)[i])
      /\ Script(l)[m + 2] = Marker
  BY ScriptLines
<1>2. /\ log.header \in BOOLEAN /\ log.marker \in BOOLEAN
      /\ log.rows \in Seq(Cases) /\ log.signal \in Signals
  BY DEF Log
<1>3. k \in Nat /\ DOMAIN log.rows = 1..k /\ k <= m BY <1>2, LenProperties DEF Agrees
<1>4. \A i \in 1..m : Plan(l)[i] \in Cases BY PlanMembers, ElementOfSeq
<1>5. log.rows = <<>> <=> k = 0 BY <1>2, EmptySeq
<1>6. CASE ~log.header
  <2>1. k = 0 /\ ~log.marker BY <1>5, <1>6 DEF Agrees
  <2>2. d = 0 BY <1>6, <2>1 DEF Delivered
  <2>3. Written(log, line) = [log EXCEPT !.header = TRUE]
    BY <1>1, <2>2 DEF Written, Header
  <2> DEFINE new == Written(log, line)
  <2>4. /\ new \in Log /\ new.rows = log.rows /\ new.header
        /\ new.marker = log.marker /\ new.signal = log.signal
    BY <1>2, <2>3 DEF Log
  <2> HIDE DEF new
  <2>5. Agrees(new, l) /\ Delivered(new) = d + 1 /\ RowsIn(new) = RowsIn(log)
    BY <1>3, <1>6, <2>1, <2>2, <2>4 DEF Agrees, Delivered, RowsIn
  <2>. QED BY <2>4, <2>5 DEF new
<1>7. CASE log.header /\ log.marker
  <2>1. d = m + 2 BY <1>1, <1>7 DEF Agrees, Delivered
  <2>. QED BY <1>1, <2>1
<1>8. CASE log.header /\ ~log.marker /\ k = m
  <2>1. d = m + 1 BY <1>1, <1>8 DEF Delivered
  <2>2. line = Marker BY <1>1, <2>1
  <2>3. Written(log, line) = [log EXCEPT !.marker = TRUE] BY <2>2 DEF Written, Marker
  <2> DEFINE new == Written(log, line)
  <2>4. /\ new \in Log /\ new.rows = log.rows /\ new.header = log.header
        /\ new.marker /\ new.signal = log.signal
    BY <1>2, <2>3 DEF Log
  <2> HIDE DEF new
  <2>5. Agrees(new, l) /\ Delivered(new) = d + 1 /\ RowsIn(new) = RowsIn(log)
    BY <1>3, <1>8, <2>1, <2>4 DEF Agrees, Delivered, RowsIn
  <2>. QED BY <2>4, <2>5 DEF new
<1>9. CASE log.header /\ ~log.marker /\ k # m
  <2>1. d = k + 1 BY <1>3, <1>9 DEF Delivered
  <2>2. k + 1 \in 1..m BY <1>1, <1>3, <1>9
  <2>3. line = RowLine(Plan(l)[k + 1]) BY <1>1, <2>1, <2>2
  <2> DEFINE c == Plan(l)[k + 1]
             rows == Append(log.rows, c)
  <2>4. c \in Cases BY <1>4, <2>2
  <2>5. Written(log, line) = [log EXCEPT !.rows = rows] BY <2>3 DEF Written, RowLine
  <2>6. /\ rows \in Seq(Cases) /\ Len(rows) = k + 1 /\ rows # <<>>
        /\ \A i \in 1..k : rows[i] = log.rows[i]
        /\ rows[k + 1] = c /\ DOMAIN rows = 1..(k + 1)
    BY <1>2, <2>4, AppendProperties, LenProperties
  <2>7. \A i \in 1..(k + 1) : rows[i] = Plan(l)[i]
    <3>1. \A i \in 1..(k + 1) : i = k + 1 \/ i \in 1..k BY <1>3
    <3>2. \A i \in 1..k : log.rows[i] = Plan(l)[i] BY DEF Agrees
    <3>. QED BY <2>6, <3>1, <3>2
  <2> DEFINE new == Written(log, line)
  <2> HIDE DEF rows
  <2>8. /\ new \in Log /\ new.rows = rows /\ new.header = log.header
        /\ new.marker = log.marker /\ new.signal = log.signal
    BY <1>2, <2>5, <2>6 DEF Log
  <2> HIDE DEF new, c
  <2>9. Agrees(new, l) BY <1>3, <1>9, <2>2, <2>6, <2>7, <2>8 DEF Agrees
  <2>10. Delivered(new) = d + 1 BY <1>3, <1>9, <2>1, <2>6, <2>8 DEF Delivered
  <2>11. RowsIn(log) \subseteq RowsIn(new)
    <3>1. \A i \in 1..k : i \in 1..(k + 1) /\ rows[i] = log.rows[i] BY <1>3, <2>6
    <3>. QED BY <1>3, <2>6, <2>8, <3>1 DEF RowsIn
  <2>. QED BY <2>8, <2>9, <2>10, <2>11 DEF new
<1>. QED BY <1>2, <1>6, <1>7, <1>8, <1>9

\* A signal line changes nothing else in a log.
LEMMA NextSignal ==
    ASSUME NEW l, NEW log \in Log, Agrees(log, l), NEW v \in Signals
    PROVE  LET new == Written(log, SignalLine(v))
           IN  /\ new \in Log /\ Agrees(new, l)
               /\ Delivered(new) = Delivered(log)
               /\ new.rows = log.rows
<1>1. Written(log, SignalLine(v)) = [log EXCEPT !.signal = v]
  BY DEF Written, SignalLine
<1>. QED BY <1>1 DEF Log, Agrees, Delivered
-----------------------------------------------------------------------------
(* The invariant holds.                                                    *)

\* Launches are numbered from 1.
LEMMA LaunchesNumbered ==
    /\ Len(Launches) \in Nat /\ DOMAIN Launches = 1..Len(Launches)
    /\ Launches # <<>> => 1 \in DOMAIN Launches
<1>1. Len(Launches) \in Nat /\ DOMAIN Launches = 1..Len(Launches)
  BY LaunchesMembers, LenProperties
<1>2. Launches # <<>> => Len(Launches) # 0 BY LaunchesMembers, EmptySeq
<1>. QED BY <1>1, <1>2

\* The pass starts so.
LEMMA InitInv == Init => Inv
<1>. SUFFICES ASSUME Init PROVE Inv OBVIOUS
<1>1. <<>> \in Seq(Lines) /\ EmptyLog \in Log BY EmptySeq, EmptyLogAgrees
<1>2. Typed BY <1>1 DEF Init, Typed, NoApp
<1>3. Places BY LaunchesNumbered DEF Init, Places, EmptyLog
<1>4. LogsAgree BY EmptyLogAgrees DEF Init, LogsAgree
<1>5. Stream BY DEF Init, Stream
<1>. QED BY <1>2, <1>3, <1>4, <1>5 DEF Inv

\* A new attempt starts with an empty log and the whole script ahead.
LEMMA LaunchInv == Inv /\ Launch => Inv'
<1>. SUFFICES ASSUME Inv, Launch PROVE Inv' OBVIOUS
<1>1. n \in DOMAIN Launches /\ n \in Nat /\ n' = n BY DEF Inv, Typed, Places, Launch
<1>2. /\ logs' = [logs EXCEPT ![n] = EmptyLog] /\ logs'[n] = EmptyLog
      /\ pc' = "poll" /\ pipe' = <<>> /\ logs \in [DOMAIN Launches -> Log]
  BY <1>1 DEF Inv, Typed, Launch
<1>3. <<>> \in Seq(Lines) /\ EmptyLog \in Log BY EmptySeq, EmptyLogAgrees
<1> DEFINE s == Script(Launches[n])
<1>4. s \in Seq(Lines) /\ Len(s) \in Nat BY ScriptLines, LenProperties
<1>5. Typed'
  <2>1. NewApp(Launches[n]) \in [state : {"none", "running", "suspended"}, todo : Seq(Lines)]
    BY <1>4 DEF NewApp
  <2>2. app' \in [state : {"none", "running", "suspended"}, todo : Seq(Lines)] /\ console' \in BOOLEAN
    BY <2>1 DEF Inv, Typed, Launch
  <2>. QED BY <1>1, <1>2, <1>3, <2>2 DEF Typed
<1>6. Places' BY <1>1, <1>2 DEF Places, Inv
<1>7. LogsAgree' BY <1>2, EmptyLogAgrees DEF LogsAgree, Inv
<1>8. Stream'
  <2>1. SUFFICES ASSUME console' PROVE Stream' BY DEF Stream
  <2>2. app' = NewApp(Launches[n]) BY <2>1 DEF Launch
  <2>3. Delivered(logs'[n']) = 0 /\ logs'[n'].signal = "none" /\ Len(pipe') = 0
    BY <1>1, <1>2, EmptyLogAgrees, EmptySeq DEF EmptyLog
  <2>4. app'.state = "running" /\ app'.todo = s BY <2>2 DEF NewApp
  <2> HIDE DEF s
  <2>5. Follows(s, Len(s), s, 0 + 0) /\ Follows(<<>>, 0, s, 0) BY <1>4 DEF Follows
  <2>. QED BY <1>1, <1>2, <2>3, <2>4, <2>5 DEF Stream, s
<1>. QED BY <1>5, <1>6, <1>7, <1>8 DEF Inv

\* The launcher's other steps leave the logs alone.
LEMMA WatchInv == Inv /\ (PollMarker \/ PollAlive \/ GiveUp) => Inv'
<1>. SUFFICES ASSUME Inv, PollMarker \/ PollAlive \/ GiveUp PROVE Inv' OBVIOUS
<1>1. /\ pc \in {"poll", "alive"} /\ pc' \in {"poll", "alive", "stop"}
      /\ n' = n /\ logs' = logs /\ app' = app /\ console' = console /\ pipe' = pipe
  BY DEF PollMarker, PollAlive, GiveUp
<1>2. Typed' BY <1>1 DEF Inv, Typed
<1>3. Places' BY <1>1 DEF Inv, Places
<1>4. LogsAgree' BY <1>1 DEF Inv, LogsAgree
<1>5. Stream' BY <1>1 DEF Inv, Stream
<1>. QED BY <1>2, <1>3, <1>4, <1>5 DEF Inv

\* The app goes, and a line that says so is put behind what is under way.
AppEnds ==
    /\ app.state # "none"
    /\ app' = NoApp
    /\ \E v \in Signals : pipe' = IF console THEN Append(pipe, SignalLine(v)) ELSE pipe
    /\ pc' = pc \/ (pc = "stop" /\ pc' = "kill")
    /\ UNCHANGED <<n, logs, console>>

\* When the app ends, what is under way still continues the log.
LEMMA EndInv == Inv /\ AppEnds => Inv'
<1>. SUFFICES ASSUME Inv, AppEnds PROVE Inv' OBVIOUS
<1>1. /\ n' = n /\ logs' = logs /\ console' = console
      /\ app.state # "none" /\ app' = NoApp
      /\ pc' = pc \/ (pc = "stop" /\ pc' = "kill")
  BY DEF AppEnds
<1>2. PICK v \in Signals : pipe' = IF console THEN Append(pipe, SignalLine(v)) ELSE pipe
  BY DEF AppEnds
<1>3. pipe \in Seq(Lines) /\ SignalLine(v) \in Lines /\ <<>> \in Seq(Lines)
  BY EmptySeq DEF Inv, Typed, Lines
<1> DEFINE line == SignalLine(v)
<1> HIDE DEF line
<1>4. /\ Append(pipe, line) \in Seq(Lines)
      /\ Len(Append(pipe, line)) = Len(pipe) + 1 /\ Len(pipe) \in Nat
      /\ \A i \in 1..Len(pipe) : Append(pipe, line)[i] = pipe[i]
      /\ Append(pipe, line)[Len(pipe) + 1] = line
  BY <1>3, AppendProperties, LenProperties DEF line
<1>5. Typed' BY <1>1, <1>2, <1>3, <1>4 DEF Inv, Typed, NoApp, line
<1>6. Places' BY <1>1, <1>2 DEF Inv, Places
<1>7. LogsAgree' BY <1>1 DEF Inv, LogsAgree
<1>8. Stream'
  <2>1. SUFFICES ASSUME console PROVE Stream' BY <1>1 DEF Stream
  <2> DEFINE s == Script(Launches[n])
             d == Delivered(logs[n])
  <2>2. logs[n].signal = "none" /\ Follows(pipe, Len(pipe), s, d)
    BY <1>1, <2>1 DEF Inv, Stream
  <2>3. pipe' = Append(pipe, line) BY <1>2, <2>1 DEF line
  <2>4. pipe'[Len(pipe')] \in {SignalLine(u) : u \in Signals} BY <1>4, <2>3 DEF line
  <2> HIDE DEF s, d
  <2>5. Follows(pipe', Len(pipe') - 1, s, d) BY <1>4, <2>2, <2>3 DEF Follows
  <2>6. app'.state = "none" BY <1>1 DEF NoApp
  <2>. QED BY <1>1, <2>2, <2>4, <2>5, <2>6 DEF Stream, s, d
<1>. QED BY <1>5, <1>6, <1>7, <1>8 DEF Inv

\* The launcher ends the app, or does not find it.
LEMMA StopInv == Inv /\ StopApp => Inv'
<1>. SUFFICES ASSUME Inv, StopApp PROVE Inv' OBVIOUS
<1>1. CASE /\ app.state # "none" /\ app' = NoApp
            /\ pipe' = IF console THEN Append(pipe, SignalLine("launcher")) ELSE pipe
  <2>1. AppEnds BY <1>1 DEF StopApp, AppEnds, Signals
  <2>. QED BY <2>1, EndInv
<1>2. CASE UNCHANGED <<app, pipe>>
  <2>1. /\ pc = "stop" /\ pc' = "kill" /\ n' = n /\ logs' = logs
        /\ app' = app /\ console' = console /\ pipe' = pipe
    BY <1>2 DEF StopApp
  <2>2. Typed' BY <2>1 DEF Inv, Typed
  <2>3. Places' BY <2>1 DEF Inv, Places
  <2>4. LogsAgree' BY <2>1 DEF Inv, LogsAgree
  <2>5. Stream' BY <2>1 DEF Inv, Stream
  <2>. QED BY <2>2, <2>3, <2>4, <2>5 DEF Inv
<1>. QED BY <1>1, <1>2 DEF StopApp

\* Without a console there is nothing under way.
LEMMA ConsoleGoneInv == Inv /\ (EndLaunch \/ TunnelDrop \/ ConsoleEnds) => Inv'
<1>. SUFFICES ASSUME Inv, EndLaunch \/ TunnelDrop \/ ConsoleEnds PROVE Inv' OBVIOUS
<1>1. /\ n' = n /\ logs' = logs /\ app' = app /\ console' = FALSE /\ pipe' = <<>>
      /\ pc' = pc \/ (pc = "kill" /\ pc' = "judge")
  BY DEF EndLaunch, KillConsole, TunnelDrop, ConsoleEnds, launcher
<1>2. Typed' BY <1>1, EmptySeq DEF Inv, Typed
<1>3. Places' BY <1>1 DEF Inv, Places
<1>4. LogsAgree' BY <1>1 DEF Inv, LogsAgree
<1>5. Stream' BY <1>1 DEF Stream
<1>. QED BY <1>2, <1>3, <1>4, <1>5 DEF Inv

\* The next attempt has nothing to lose, and the next launch starts afresh.
LEMMA JudgeInv == Inv /\ Judge => Inv'
<1>. SUFFICES ASSUME Inv, Judge PROVE Inv' OBVIOUS
<1>1. /\ logs' = logs /\ app' = app /\ console' = console /\ pipe' = pipe
      /\ ~console /\ n \in DOMAIN Launches /\ n \in Nat
  BY DEF Inv, Typed, Places, Judge
<1>2. LogsAgree' BY <1>1 DEF Inv, LogsAgree
<1>3. Stream' BY <1>1 DEF Stream
<1>4. CASE pc' = "launch" /\ n' = n /\ WorthRetrying
  <2>1. Typed' BY <1>1, <1>4 DEF Inv, Typed
  <2>2. Places' BY <1>1, <1>4 DEF Inv, Places, WorthRetrying
  <2>. QED BY <1>2, <1>3, <2>1, <2>2 DEF Inv
<1>5. CASE pc' = "launch" /\ n' = n + 1 /\ n < Len(Launches)
  <2>1. Typed' BY <1>1, <1>5 DEF Inv, Typed
  <2>2. n + 1 \in DOMAIN Launches BY <1>1, <1>5, LaunchesNumbered
  <2>3. logs[n + 1] = EmptyLog BY <1>1, <2>2 DEF Inv, Places
  <2>4. \A k \in DOMAIN Launches : k > n + 1 => k > n BY <1>1, LaunchesNumbered
  <2>5. Places' BY <1>1, <1>5, <2>2, <2>3, <2>4 DEF Inv, Places, EmptyLog
  <2>. QED BY <1>2, <1>3, <2>1, <2>5 DEF Inv
<1>6. CASE pc' = "done" /\ n' = n
  <2>1. Typed' BY <1>1, <1>6 DEF Inv, Typed
  <2>2. Places' BY <1>1, <1>6 DEF Inv, Places
  <2>. QED BY <1>2, <1>3, <2>1, <2>2 DEF Inv
<1>. QED BY <1>4, <1>5, <1>6 DEF Judge

\* What the app writes goes behind what is under way.
LEMMA WriteInv == Inv /\ AppWrite => Inv'
<1>. SUFFICES ASSUME Inv, AppWrite PROVE Inv' OBVIOUS
<1> DEFINE todo == app.todo
<1>1. /\ pc' = pc /\ n' = n /\ logs' = logs /\ console' = console
      /\ app.state = "running" /\ todo # <<>> /\ todo \in Seq(Lines)
      /\ app' = [app EXCEPT !.todo = Tail(todo)]
      /\ pipe' = IF console THEN Append(pipe, Head(todo)) ELSE pipe
  BY DEF Inv, Typed, AppWrite, launcher
<1>2. /\ app \in [state : {"none", "running", "suspended"}, todo : Seq(Lines)]
      /\ pipe \in Seq(Lines)
  BY DEF Inv, Typed
<1> HIDE DEF todo
<1>3. /\ Tail(todo) \in Seq(Lines) /\ Len(Tail(todo)) = Len(todo) - 1
      /\ Head(todo) \in Lines /\ Head(todo) = todo[1]
      /\ \A i \in 1..Len(Tail(todo)) : Tail(todo)[i] = todo[i + 1]
      /\ Len(todo) \in Nat /\ Len(todo) # 0 /\ Len(pipe) \in Nat
  BY <1>1, <1>2, HeadTailProperties, LenProperties, EmptySeq
<1> DEFINE line == Head(todo)
           rest == Tail(todo)
<1> HIDE DEF line, rest
<1>4. /\ Append(pipe, line) \in Seq(Lines)
      /\ Len(Append(pipe, line)) = Len(pipe) + 1
      /\ \A i \in 1..Len(pipe) : Append(pipe, line)[i] = pipe[i]
      /\ Append(pipe, line)[Len(pipe) + 1] = line
  BY <1>2, <1>3, AppendProperties DEF line
<1>5. app'.state = app.state /\ app'.todo = rest BY <1>1, <1>2 DEF rest
<1>6. Typed'
  <2>1. app' \in [state : {"none", "running", "suspended"}, todo : Seq(Lines)]
    BY <1>1, <1>2, <1>3
  <2>2. pipe' \in Seq(Lines) BY <1>1, <1>2, <1>4 DEF line
  <2>. QED BY <1>1, <2>1, <2>2 DEF Inv, Typed
<1>7. Places' BY <1>1 DEF Inv, Places
<1>8. LogsAgree' BY <1>1 DEF Inv, LogsAgree
<1>9. Stream'
  <2>1. SUFFICES ASSUME console PROVE Stream' BY <1>1 DEF Stream
  <2> DEFINE s == Script(Launches[n])
             d == Delivered(logs[n])
  <2>2. /\ logs[n].signal = "none" /\ Follows(pipe, Len(pipe), s, d)
        /\ Follows(todo, Len(todo), s, d + Len(pipe))
    BY <1>1, <2>1 DEF Inv, Stream, todo
  <2>3. pipe' = Append(pipe, line) BY <1>1, <2>1 DEF line
  <2>4. d \in Nat /\ Len(s) \in Nat
    <3>1. n \in DOMAIN Launches /\ logs[n] \in Log BY <2>1 DEF Inv, Typed, Places
    <3>2. d \in Nat BY <3>1, DeliveredCounts
    <3>3. Len(s) \in Nat BY ScriptLines, LenProperties
    <3>. QED BY <3>2, <3>3
  <2> HIDE DEF s, d
  <2>5. Follows(pipe', Len(pipe'), s, d)
    <3>1. 1 \in 1..Len(todo) BY <1>3
    <3>2. line = s[(d + Len(pipe)) + 1] BY <1>3, <2>2, <3>1 DEF Follows, line
    <3>3. d + (Len(pipe) + 1) = (d + Len(pipe)) + 1 BY <1>3, <2>4
    <3>4. d + Len(pipe') <= Len(s) BY <1>3, <1>4, <2>2, <2>3, <2>4 DEF Follows
    <3>5. ASSUME NEW i \in 1..(Len(pipe) + 1) PROVE pipe'[i] = s[d + i]
      <4>1. CASE i = Len(pipe) + 1 BY <1>4, <2>3, <3>2, <3>3, <4>1
      <4>2. CASE i # Len(pipe) + 1
        <5>1. i \in 1..Len(pipe) BY <1>3, <4>2
        <5>. QED BY <1>4, <2>2, <2>3, <5>1 DEF Follows
      <4>. QED BY <4>1, <4>2
    <3>. QED BY <1>4, <2>3, <3>4, <3>5 DEF Follows
  <2>6. Follows(rest, Len(rest), s, d + Len(pipe'))
    <3>1. Len(rest) = Len(todo) - 1 /\ Len(pipe') = Len(pipe) + 1
      BY <1>3, <1>4, <2>3 DEF rest
    <3>2. ASSUME NEW i \in 1..Len(rest) PROVE rest[i] = s[(d + Len(pipe')) + i]
      <4>1. rest[i] = todo[i + 1] /\ i + 1 \in 1..Len(todo) BY <1>3, <3>1 DEF rest
      <4>2. todo[i + 1] = s[(d + Len(pipe)) + (i + 1)] BY <2>2, <4>1 DEF Follows
      <4>3. (d + Len(pipe)) + (i + 1) = (d + Len(pipe')) + i BY <1>3, <2>4, <3>1
      <4>. QED BY <4>1, <4>2, <4>3
    <3>. QED BY <1>3, <2>2, <2>4, <3>1, <3>2 DEF Follows
  <2>. QED BY <1>1, <1>5, <2>2, <2>5, <2>6 DEF Stream, s, d
<1>. QED BY <1>6, <1>7, <1>8, <1>9 DEF Inv

\* A suspended app is still there.
LEMMA SuspendInv == Inv /\ Suspend => Inv'
<1>. SUFFICES ASSUME Inv, Suspend PROVE Inv' OBVIOUS
<1>1. /\ pc' = pc /\ n' = n /\ logs' = logs /\ console' = console /\ pipe' = pipe
      /\ app.state = "running" /\ app' = [app EXCEPT !.state = "suspended"]
      /\ app \in [state : {"none", "running", "suspended"}, todo : Seq(Lines)]
  BY DEF Inv, Typed, Suspend, launcher
<1>2. /\ app'.state = "suspended" /\ app'.todo = app.todo
      /\ app' \in [state : {"none", "running", "suspended"}, todo : Seq(Lines)]
  BY <1>1
<1>3. Typed' BY <1>1, <1>2 DEF Inv, Typed
<1>4. Places' BY <1>1 DEF Inv, Places
<1>5. LogsAgree' BY <1>1 DEF Inv, LogsAgree
<1>6. Stream' BY <1>1, <1>2 DEF Inv, Stream
<1>. QED BY <1>3, <1>4, <1>5, <1>6 DEF Inv
\* What reaches the log is what comes next in it, or the line about the app's
\* end.
LEMMA DeliverOne ==
    ASSUME Inv, Deliver
    PROVE  LET log == logs[n]
               new == Written(log, Head(pipe))
               d   == Delivered(log)
               l   == Launches[n]
           IN  /\ n \in DOMAIN Launches /\ log \in Log /\ new \in Log
               /\ Agrees(new, l) /\ log.signal = "none"
               /\ RowsIn(log) \subseteq RowsIn(new)
               /\ \/ Delivered(new) = d + 1 /\ new.signal = "none" /\ d + 1 <= Len(Script(l))
                  \/ Len(pipe) = 1 /\ app.state = "none"
<1> DEFINE l == Launches[n]
           log == logs[n]
           d == Delivered(log)
           s == Script(l)
<1>1. /\ console /\ pipe # <<>> /\ n \in DOMAIN Launches /\ log \in Log
      /\ pipe \in Seq(Lines) /\ Agrees(log, l)
  BY DEF Inv, Typed, Places, LogsAgree, Deliver
<1>2. Len(pipe) \in Nat /\ Len(pipe) # 0 /\ Head(pipe) = pipe[1]
  BY <1>1, LenProperties, EmptySeq
<1>3. /\ log.signal = "none"
      /\ app.state # "none" => Follows(pipe, Len(pipe), s, d)
      /\ app.state = "none" =>
            /\ pipe[Len(pipe)] \in {SignalLine(v) : v \in Signals}
            /\ Follows(pipe, Len(pipe) - 1, s, d)
  BY <1>1 DEF Inv, Stream
<1>4. d \in Nat /\ Len(s) \in Nat
  <2>1. d \in Nat BY <1>1, DeliveredCounts
  <2>2. Len(s) \in Nat BY ScriptLines, LenProperties
  <2>. QED BY <2>1, <2>2
<1> HIDE DEF l, log, d, s
<1>5. CASE app.state = "none" /\ Len(pipe) = 1
  <2>1. PICK v \in Signals : Head(pipe) = SignalLine(v) BY <1>2, <1>3, <1>5
  <2> DEFINE new == Written(log, SignalLine(v))
  <2>2. new \in Log /\ Agrees(new, l) /\ new.rows = log.rows BY <1>1, NextSignal
  <2> HIDE DEF new
  <2>3. RowsIn(log) \subseteq RowsIn(new) BY <2>2 DEF RowsIn
  <2>. QED BY <1>1, <1>3, <1>5, <2>1, <2>2, <2>3 DEF new, l, log
<1>6. CASE app.state # "none" \/ Len(pipe) # 1
  <2>1. Follows(pipe, Len(pipe) - 1, s, d) \/ Follows(pipe, Len(pipe), s, d) BY <1>3
  <2>2. Head(pipe) = s[d + 1] /\ d + 1 <= Len(s)
    <3>1. CASE app.state # "none"
      <4>1. Follows(pipe, Len(pipe), s, d) BY <1>3, <3>1
      <4>. QED BY <1>2, <1>4, <4>1 DEF Follows
    <3>2. CASE app.state = "none"
      <4>1. Follows(pipe, Len(pipe) - 1, s, d) BY <1>3, <3>2
      <4>a. Len(pipe) # 1 BY <1>6, <3>2
      <4>b. \A m \in Nat : m # 0 /\ m # 1 => m - 1 \in Nat /\ 1 \in 1..(m - 1) OBVIOUS
      <4>2. Len(pipe) - 1 \in Nat /\ 1 \in 1..(Len(pipe) - 1) BY <1>2, <4>a, <4>b
      <4>. QED BY <1>2, <1>4, <4>1, <4>2 DEF Follows
    <3>. QED BY <3>1, <3>2
  <2> DEFINE new == Written(log, s[d + 1])
  <2>3. /\ new \in Log /\ Agrees(new, l) /\ Delivered(new) = d + 1
        /\ new.signal = log.signal /\ RowsIn(log) \subseteq RowsIn(new)
    BY <1>1, <2>2, NextLine DEF d, s
  <2> HIDE DEF new
  <2>. QED BY <1>1, <1>3, <2>2, <2>3 DEF new, l, log, d, s
<1>. QED BY <1>5, <1>6
\* The rest of what is under way continues the log.
LEMMA DeliverInv == Inv /\ Deliver => Inv'
<1>. SUFFICES ASSUME Inv, Deliver PROVE Inv' OBVIOUS
<1> DEFINE l == Launches[n]
           log == logs[n]
           new == Written(log, Head(pipe))
           d == Delivered(log)
           s == Script(l)
           rest == Tail(pipe)
<1>1. /\ n \in DOMAIN Launches /\ log \in Log /\ new \in Log
      /\ Agrees(new, l) /\ log.signal = "none"
      /\ \/ Delivered(new) = d + 1 /\ new.signal = "none" /\ d + 1 <= Len(s)
         \/ Len(pipe) = 1 /\ app.state = "none"
  BY DeliverOne
<1>2. /\ console /\ pipe # <<>> /\ pipe \in Seq(Lines) /\ n \in Nat
      /\ pc' = pc /\ n' = n /\ app' = app /\ console' = console
      /\ logs \in [DOMAIN Launches -> Log] /\ logs' = [logs EXCEPT ![n] = new]
      /\ pipe' = rest /\ pc \notin {"launch", "judge", "done"}
  BY DEF Inv, Typed, Places, Deliver, launcher
<1>3. /\ rest \in Seq(Lines) /\ Len(rest) = Len(pipe) - 1 /\ Len(pipe) \in Nat
      /\ Len(pipe) # 0 /\ Len(rest) \in Nat
      /\ \A i \in 1..Len(rest) : rest[i] = pipe[i + 1]
  BY <1>2, HeadTailProperties, LenProperties, EmptySeq
<1>4. d \in Nat /\ Len(s) \in Nat BY <1>1, DeliveredCounts, ScriptLines, LenProperties
<1>5. /\ app.state # "none" =>
            Follows(pipe, Len(pipe), s, d) /\ Follows(app.todo, Len(app.todo), s, d + Len(pipe))
      /\ app.state = "none" =>
            /\ pipe[Len(pipe)] \in {SignalLine(v) : v \in Signals}
            /\ Follows(pipe, Len(pipe) - 1, s, d)
  BY <1>2 DEF Inv, Stream
<1> HIDE DEF l, log, new, d, s, rest
<1>6. logs'[n] = new /\ \A k \in DOMAIN Launches : k # n => logs'[k] = logs[k]
  BY <1>1, <1>2
<1>7. Typed' BY <1>1, <1>2, <1>3 DEF Inv, Typed
<1>8. Places'
  <2>1. \A k \in DOMAIN Launches : k > n => k # n BY <1>2, LaunchesNumbered
  <2>. QED BY <1>2, <1>6, <2>1 DEF Inv, Places
<1>9. LogsAgree' BY <1>1, <1>6 DEF Inv, LogsAgree, l
<1>10. ASSUME NEW m \in Nat, m + 1 <= Len(pipe), Follows(pipe, m + 1, s, d),
              Delivered(new) = d + 1
       PROVE  Follows(rest, m, s, Delivered(new))
  <2>1. (d + 1) + m <= Len(s) BY <1>4, <1>10 DEF Follows
  <2>2. ASSUME NEW i \in 1..m PROVE rest[i] = s[(d + 1) + i]
    <3>1. i + 1 \in 1..(m + 1) /\ i \in 1..Len(rest) BY <1>3, <1>10
    <3>2. pipe[i + 1] = s[d + (i + 1)] BY <1>10, <3>1 DEF Follows
    <3>3. d + (i + 1) = (d + 1) + i BY <1>4
    <3>. QED BY <1>3, <3>1, <3>2, <3>3
  <2>. QED BY <1>10, <2>1, <2>2 DEF Follows
<1>11. Stream'
  <2>1. CASE app.state # "none"
    <3>1. Delivered(new) = d + 1 /\ new.signal = "none" BY <1>1, <2>1 DEF d, new
    <3>2. /\ Len(rest) + 1 = Len(pipe) /\ (d + 1) + Len(rest) = d + Len(pipe)
      BY <1>3, <1>4
    <3>3. Follows(rest, Len(rest), s, d + 1) BY <1>3, <1>5, <1>10, <2>1, <3>1, <3>2
    <3>4. Follows(app.todo, Len(app.todo), s, (d + 1) + Len(rest)) BY <1>5, <2>1, <3>2
    <3>. QED BY <1>2, <1>6, <2>1, <3>1, <3>3, <3>4 DEF Stream, s, l
  <2>2. CASE app.state = "none" /\ Len(pipe) = 1
    <3>1. rest = <<>> BY <1>3, <2>2, EmptySeq
    <3>. QED BY <1>2, <2>2, <3>1 DEF Stream
  <2>3. CASE app.state = "none" /\ Len(pipe) # 1
    <3>1. Delivered(new) = d + 1 /\ new.signal = "none" BY <1>1, <2>3
    <3>2. /\ Len(rest) - 1 \in Nat /\ (Len(rest) - 1) + 1 = Len(pipe) - 1
          /\ (Len(rest) - 1) + 1 <= Len(pipe)
      BY <1>3, <2>3
    <3>3. Follows(rest, Len(rest) - 1, s, d + 1)
      BY <1>5, <1>10, <2>3, <3>1, <3>2
    <3>4. rest[Len(rest)] = pipe[Len(pipe)]
      <4>1. Len(rest) \in 1..Len(rest) /\ Len(rest) + 1 = Len(pipe) BY <1>3, <3>2
      <4>. QED BY <1>3, <4>1
    <3>. QED BY <1>2, <1>5, <1>6, <2>3, <3>1, <3>3, <3>4 DEF Stream, s, l
  <2>. QED BY <2>1, <2>2, <2>3
<1>. QED BY <1>7, <1>8, <1>9, <1>11 DEF Inv

\* Every step keeps the invariant.
LEMMA NextInv == Inv /\ [Next]_vars => Inv'
<1>1. ASSUME Inv, OsKill PROVE Inv'
  <2>1. AppEnds BY <1>1 DEF OsKill, AppEnds, Signals, launcher
  <2>. QED BY <1>1, <2>1, EndInv
<1>2. ASSUME Inv, UNCHANGED vars PROVE Inv'
  BY <1>2 DEF Inv, Typed, Places, LogsAgree, Stream, vars, launcher
<1>. QED
  BY <1>1, <1>2, LaunchInv, WatchInv, StopInv, ConsoleGoneInv, JudgeInv, WriteInv,
     SuspendInv, DeliverInv
  DEF Next, Launcher, Device, Finished

\* The invariant holds throughout a pass.
THEOREM LogsAlwaysAgree == Spec => []Inv
BY InitInv, NextInv, PTL DEF Spec
-----------------------------------------------------------------------------
(* What follows.                                                           *)

\* RetriesLoseNothing: launch_once truncates only a log nobody will miss, and
\* only the last line of a log is the one about the app's end.
THEOREM RetriesNeverLose == Spec => RetriesLoseNothing
<1> DEFINE Kept1(k) == /\ RowsIn(logs[k]) \subseteq RowsIn(logs'[k])
                       /\ logs[k].signal = "os" => logs'[k].signal = "os"
<1>1. ASSUME Inv, Launch PROVE \A k \in DOMAIN Launches : Kept1(k)
  <2>1. /\ n \in DOMAIN Launches /\ logs \in [DOMAIN Launches -> Log]
        /\ logs' = [logs EXCEPT ![n] = EmptyLog]
        /\ logs[n].rows = <<>> /\ logs[n].signal # "os"
    BY <1>1 DEF Inv, Typed, Places, Launch
  <2>2. RowsIn(logs[n]) = {} BY <2>1 DEF RowsIn
  <2>. QED BY <2>1, <2>2
<1>2. ASSUME Inv, Deliver PROVE \A k \in DOMAIN Launches : Kept1(k)
  <2> DEFINE new == Written(logs[n], Head(pipe))
  <2>1. n \in DOMAIN Launches /\ logs[n].signal = "none" /\ RowsIn(logs[n]) \subseteq RowsIn(new)
    BY <1>2, DeliverOne
  <2>2. logs \in [DOMAIN Launches -> Log] /\ logs' = [logs EXCEPT ![n] = new]
    BY <1>2 DEF Inv, Typed, Deliver
  <2> HIDE DEF new
  <2>. QED BY <2>1, <2>2
<1>3. ASSUME Inv, [Next]_vars, ~Launch, ~Deliver PROVE \A k \in DOMAIN Launches : Kept1(k)
  <2>1. logs' = logs
    BY <1>3 DEF Next, Launcher, Device, Finished, vars, launcher, PollMarker, PollAlive,
       GiveUp, StopApp, EndLaunch, Judge, AppWrite, OsKill, Suspend, TunnelDrop, ConsoleEnds
  <2>. QED BY <2>1
<1>4. Inv /\ [Next]_vars => [\A k \in DOMAIN Launches : Kept1(k)]_vars BY <1>1, <1>2, <1>3
<1>. QED BY <1>4, LogsAlwaysAgree, PTL DEF Spec, RetriesLoseNothing

\* A log with the marker is complete.
LEMMA AgreesComplete ==
    ASSUME NEW l, NEW log \in Log, Agrees(log, l), log.marker
    PROVE  log.rows = Plan(l)
<1>1. log.rows \in Seq(Cases) /\ Plan(l) \in Seq(Cases) BY PlanMembers DEF Log
<1>2. /\ Len(log.rows) = Len(Plan(l))
      /\ \A i \in 1..Len(log.rows) : log.rows[i] = Plan(l)[i]
  BY DEF Agrees
<1>. QED BY <1>1, <1>2, SeqEqual

\* A log holds results of cases its launch was to run, and no other.
LEMMA AgreesRows ==
    ASSUME NEW l, NEW log \in Log, Agrees(log, l)
    PROVE  RowsIn(log) \subseteq {c \in Cases : Covers(l, c)}
<1>1. log.rows \in Seq(Cases) BY DEF Log
<1>2. DOMAIN log.rows = 1..Len(log.rows) /\ Len(log.rows) \in Nat BY <1>1, LenProperties
<1>3. /\ Len(Plan(l)) \in Nat /\ DOMAIN Plan(l) = 1..Len(Plan(l))
      /\ Range(Plan(l)) = {c \in Cases : Covers(l, c)}
  BY PlanMembers, LenProperties
<1>4. ASSUME NEW i \in 1..Len(log.rows) PROVE log.rows[i] \in Range(Plan(l))
  <2>1. i \in 1..Len(Plan(l)) /\ log.rows[i] = Plan(l)[i] BY <1>2, <1>3 DEF Agrees
  <2>. QED BY <1>3, <2>1 DEF Range
<1>. QED BY <1>2, <1>3, <1>4 DEF RowsIn

\* MarkerMeansComplete: runAll prints BENCH_DONE behind the last result, and
\* the log gets its lines in order and without a gap.
THEOREM MarkerAlwaysComplete == Spec => []MarkerMeansComplete
<1>1. Inv => MarkerMeansComplete
  <2>. SUFFICES ASSUME Inv, NEW k \in DOMAIN Launches, logs[k].marker
                PROVE  logs[k].rows = Plan(Launches[k])
    BY DEF MarkerMeansComplete
  <2>1. logs[k] \in Log /\ Agrees(logs[k], Launches[k]) BY DEF Inv, Typed, LogsAgree
  <2>. QED BY <2>1, AgreesComplete
<1>. QED BY <1>1, LogsAlwaysAgree, PTL
\* The launches found by their rep and runtime are that runtime's in that rep.
LEMMA OfIsIn ==
    ASSUME NEW rep, NEW rt, NEW k \in Of(rep, rt)
    PROVE  /\ k \in DOMAIN Launches /\ Launches[k] \in LaunchSet
           /\ Launches[k] \in LaunchesIn(rep, rt) /\ rep \in 1..Reps /\ rt \in Runtimes
<1>1. k \in DOMAIN Launches /\ Launches[k].rep = rep /\ Launches[k].rt = rt BY DEF Of
<1>2. Launches[k] \in Range(Launches) BY <1>1 DEF Range
<1>3. PICK r \in 1..Reps, t \in Runtimes : Launches[k] \in LaunchesIn(r, t)
  BY <1>2, LaunchesMembers
<1>4. r = rep /\ t = rt BY <1>1, <1>3, LaunchesNamed
<1>5. Launches[k] \in LaunchSet BY <1>3, LaunchesTyped
<1>. QED BY <1>1, <1>3, <1>4, <1>5

\* Each of a runtime's launches is made.
LEMMA InIsMade ==
    ASSUME NEW rep \in 1..Reps, NEW rt \in Runtimes, NEW l \in LaunchesIn(rep, rt)
    PROVE  \E k \in Of(rep, rt) : Launches[k] = l
<1>1. l \in UNION {LaunchesIn(r, t) : r \in 1..Reps, t \in Runtimes} OBVIOUS
<1>2. l \in Range(Launches) BY <1>1, LaunchesMembers
<1>3. PICK k \in DOMAIN Launches : Launches[k] = l BY <1>2 DEF Range
<1>4. l.rep = rep /\ l.rt = rt BY LaunchesNamed
<1>. QED BY <1>3, <1>4 DEF Of

\* A launch that asks for needles leaves none out.
LEMMA WantOrLeave ==
    ASSUME NEW rep, NEW rt, NEW l \in LaunchesIn(rep, rt)
    PROVE  l.want # {} => l.leave = {}
BY DEF LaunchesIn, Whole, OfNeedle, LaunchFor

\* No label is matched by two needles of HEAVY_ROWS, as none is by two of the
\* default's; a case matched by two would be run, and reported, twice.
NeedlesApart == \A i, j \in Needles : i # j => Heavy[i] \cap Heavy[j] = {}

\* A case is run by one launch of a runtime in a rep.
LEMMA CoveredOnce ==
    ASSUME NeedlesApart, NEW rep, NEW rt, NEW k1 \in Of(rep, rt), NEW k2 \in Of(rep, rt),
           NEW c, Covers(Launches[k1], c), Covers(Launches[k2], c)
    PROVE  k1 = k2
<1>1. /\ k1 \in DOMAIN Launches /\ k2 \in DOMAIN Launches
      /\ Launches[k1] \in LaunchesIn(rep, rt) /\ Launches[k2] \in LaunchesIn(rep, rt)
  BY OfIsIn
<1>2. ASSUME NEW l1 \in LaunchesIn(rep, rt), NEW l2 \in LaunchesIn(rep, rt),
             Covers(l1, c), Covers(l2, c)
      PROVE  l1 = l2
  <2>1. CASE rt \notin Split BY <2>1 DEF LaunchesIn
  <2>2. CASE rt \in Split
    <3>1. ASSUME NEW l, l = Whole(rep, rt, Needles), Covers(l, c)
          PROVE  \A i \in Needles : c \notin Heavy[i]
      BY <3>1 DEF Whole, LaunchFor, Covers, Matches
    <3>2. ASSUME NEW l, NEW i \in Needles, l = OfNeedle(rep, rt, i), Covers(l, c)
          PROVE  c \in Heavy[i]
      BY <3>2 DEF OfNeedle, LaunchFor, Covers, Matches
    <3>3. \A l \in LaunchesIn(rep, rt) :
             l = Whole(rep, rt, Needles) \/ \E i \in Needles : l = OfNeedle(rep, rt, i)
      BY <2>2 DEF LaunchesIn
    <3>4. CASE l1 = Whole(rep, rt, Needles)
      BY <1>2, <3>1, <3>2, <3>3, <3>4
    <3>5. ASSUME NEW i \in Needles, l1 = OfNeedle(rep, rt, i) PROVE l1 = l2
      <4>1. c \in Heavy[i] BY <1>2, <3>2, <3>5
      <4>2. l2 # Whole(rep, rt, Needles) BY <1>2, <3>1, <4>1
      <4>3. PICK j \in Needles : l2 = OfNeedle(rep, rt, j) BY <3>3, <4>2
      <4>4. c \in Heavy[j] BY <1>2, <3>2, <4>3
      <4>5. i = j BY <4>1, <4>4 DEF NeedlesApart
      <4>. QED BY <3>5, <4>3, <4>5
    <3>. QED BY <3>3, <3>4, <3>5
  <2>. QED BY <2>1, <2>2
<1>3. Launches[k1] = Launches[k2] BY <1>1, <1>2
<1>. QED BY <1>1, <1>3, LaunchesMembers DEF IsInjective

\* EveryCaseOnce: a result comes from the one launch that was to run the case;
\* a case without one gets one line from load_device_logs.
THEOREM EveryCaseAlwaysOnce == ASSUME NeedlesApart PROVE Spec => []EveryCaseOnce
<1>1. Inv => EveryCaseOnce
  <2>. SUFFICES ASSUME Inv, NEW p \in Present(logs), NEW c \in Cases
                PROVE  Cardinality({r \in Summary(logs) :
                                       r.rep = p[1] /\ r.rt = p[2] /\ r.case = c}) = 1
    BY DEF EveryCaseOnce
  <2> DEFINE rep == p[1]
             rt == p[2]
             Rows == {r \in Summary(logs) : r.rep = rep /\ r.rt = rt /\ r.case = c}
             Results == ResultRows(logs)
             Errors == ErrorRows(logs)
  <2>1. Summary(logs) = Results \cup Errors BY DEF Summary
  <2>2. \A k, x : /\ ResultRow(k, x).rep = Launches[k].rep /\ ResultRow(k, x).rt = Launches[k].rt
                  /\ ResultRow(k, x).case = x
    BY DEF ResultRow
  <2>3. \A a, b, x : /\ ErrorRow(logs, a, b, x).rep = a /\ ErrorRow(logs, a, b, x).rt = b
                     /\ ErrorRow(logs, a, b, x).case = x
    BY DEF ErrorRow
  <2>4. \A q \in Present(logs) : q = <<q[1], q[2]>> BY DEF Present
  <2>5. \A r \in Results : r.rep = rep /\ r.rt = rt /\ r.case = c =>
           \E k \in Of(rep, rt) : c \in RowsIn(logs[k]) /\ r = ResultRow(k, c)
    BY <2>2 DEF Of, ResultRows
  <2>6. \A r \in Errors : r.rep = rep /\ r.rt = rt /\ r.case = c =>
           c \notin Seen(logs, rep, rt) /\ r = ErrorRow(logs, rep, rt, c)
    BY <2>3 DEF ErrorRows
  <2>7. CASE c \notin Seen(logs, rep, rt)
    <3>1. \A k \in Of(rep, rt) : c \notin RowsIn(logs[k]) BY <2>7 DEF Seen
    <3>2. ErrorRow(logs, rep, rt, c) \in Errors BY <2>7 DEF ErrorRows
    <3> DEFINE e == ErrorRow(logs, rep, rt, c)
    <3> HIDE DEF Results, Errors, rep, rt
    <3>3. e \in Rows BY <2>1, <2>3, <3>2
    <3>4. \A r \in Rows : r = e BY <2>1, <2>5, <2>6, <3>1
    <3> HIDE DEF e, Rows
    <3>5. Rows = {e} BY <3>3, <3>4
    <3>6. Cardinality(Rows) = 1 BY <3>5, FS_Singleton
    <3>. QED BY <3>6 DEF Rows, rep, rt
  <2>8. CASE c \in Seen(logs, rep, rt)
    <3>1. PICK k \in Of(rep, rt) : c \in RowsIn(logs[k]) BY <2>8 DEF Seen
    <3>2. \A j \in Of(rep, rt) : c \in RowsIn(logs[j]) => Covers(Launches[j], c)
      <4>1. \A j \in Of(rep, rt) : logs[j] \in Log /\ Agrees(logs[j], Launches[j])
        BY OfIsIn DEF Inv, Typed, LogsAgree
      <4>. QED BY <4>1, AgreesRows
    <3>3. \A j \in Of(rep, rt) : c \in RowsIn(logs[j]) => j = k BY <3>1, <3>2, CoveredOnce
    <3> DEFINE e == ResultRow(k, c)
    <3>4. e \in Results BY <3>1, OfIsIn DEF ResultRows
    <3>5. e.rep = rep /\ e.rt = rt /\ e.case = c BY <2>2, <3>1 DEF Of
    <3> HIDE DEF Results, Errors, rep, rt, e
    <3>6. e \in Rows BY <2>1, <3>4, <3>5
    <3>7. \A r \in Rows : r = e BY <2>1, <2>5, <2>6, <2>8, <3>3 DEF e
    <3> HIDE DEF Rows
    <3>8. Rows = {e} BY <3>6, <3>7
    <3>9. Cardinality(Rows) = 1 BY <3>8, FS_Singleton
    <3>. QED BY <3>9 DEF Rows, rep, rt
  <2>. QED BY <2>7, <2>8
<1>. QED BY <1>1, LogsAlwaysAgree, PTL
\* The rows that report no result are of cases without one.
LEMMA ErrorsAreMissing ==
    ASSUME Inv, NEW r \in Summary(logs), r.kind # "result"
    PROVE  /\ r = ErrorRow(logs, r.rep, r.rt, r.case)
           /\ r.case \in Cases \ Seen(logs, r.rep, r.rt)
<1>1. r \notin ResultRows(logs) BY DEF ResultRow, ResultRows
<1>2. r \in ErrorRows(logs) BY <1>1 DEF Summary
<1>3. PICK q \in Present(logs) :
         \E x \in Cases \ Seen(logs, q[1], q[2]) : r = ErrorRow(logs, q[1], q[2], x)
  BY <1>2 DEF ErrorRows
<1>4. PICK x \in Cases \ Seen(logs, q[1], q[2]) : r = ErrorRow(logs, q[1], q[2], x)
  BY <1>3
<1>5. r.rep = q[1] /\ r.rt = q[2] /\ r.case = x BY <1>4 DEF ErrorRow
<1>. QED BY <1>4, <1>5

\* The first by name is one of them.
LEMMA FirstIsOne ==
    ASSUME NEW ns, ns \subseteq DOMAIN Launches, ns # {}
    PROVE  FirstByName(ns) \in ns
<1> DEFINE parts == {Launches[k].part : k \in ns}
<1>1. \A k \in ns : Launches[k].part \in Nat
  <2>1. \A k \in DOMAIN Launches : Launches[k] \in LaunchSet
    BY LaunchesMembers, LaunchesNumbered, ElementOfSeq
  <2>. QED BY <2>1 DEF LaunchSet
<1>2. parts \subseteq Nat /\ parts # {} BY <1>1
<1>3. PICK m \in parts : \A k \in parts : m <= k
  <2> HIDE DEF parts
  <2>. QED BY <1>2, Least
<1>4. \E k \in ns : \A m2 \in ns : Launches[k].part <= Launches[m2].part BY <1>3
<1>. QED BY <1>4 DEF FirstByName

\* KillsAreExplained: a killed launch that printed its filter line is suspected
\* of the cases the line covers, and nothing else is when every other launch
\* completed.
THEOREM KillsAlwaysExplained == Spec => []KillsAreExplained
<1>1. ASSUME Inv, NEW r \in Summary(logs), r.kind = "unreported", NEW k \in Of(r.rep, r.rt),
             logs[k].signal = "os", logs[k].header
      PROVE  ~Covers(Launches[k], r.case)
  <2> DEFINE S == Suspects(logs, r.rep, r.rt, r.case)
             naming == {m \in Killed(logs, r.rep, r.rt) : Matches(LoggedNeedles(logs, m), r.case)}
  <2>1. r = ErrorRow(logs, r.rep, r.rt, r.case) BY <1>1, ErrorsAreMissing
  <2>2. S = {} BY <1>1, <2>1 DEF ErrorRow
  <2>3. naming = {} BY <2>2 DEF Suspects
  <2>4. k \in Killed(logs, r.rep, r.rt) /\ LoggedNeedles(logs, k) = Launches[k].want
    BY <1>1 DEF Killed, LoggedNeedles
  <2>5. Launches[k].want # {} BY <2>2, <2>3, <2>4 DEF Suspects
  <2>6. ~Matches(Launches[k].want, r.case) BY <2>3, <2>4
  <2>. QED BY <2>5, <2>6 DEF Covers
<1>2. ASSUME Inv, NEW r \in Summary(logs), r.kind = "killed",
             \A k \in Of(r.rep, r.rt) :
                logs[k].marker \/ (logs[k].signal = "os" /\ logs[k].header)
      PROVE  Covers(Launches[r.launch], r.case)
  <2> DEFINE c == r.case
             S == Suspects(logs, r.rep, r.rt, c)
             K == Killed(logs, r.rep, r.rt)
             naming == {j \in K : Matches(LoggedNeedles(logs, j), c)}
             m == FirstByName(S)
  <2>1. r = ErrorRow(logs, r.rep, r.rt, c) /\ c \in Cases /\ c \notin Seen(logs, r.rep, r.rt)
    BY <1>2, ErrorsAreMissing
  <2>2. S # {} /\ r.launch = m BY <1>2, <2>1 DEF ErrorRow
  <2>3. S \subseteq K /\ K \subseteq Of(r.rep, r.rt) BY DEF Suspects, Killed
  <2>4. Of(r.rep, r.rt) \subseteq DOMAIN Launches BY DEF Of
  <2>5. m \in S
    <3> HIDE DEF S, K
    <3>. QED BY <2>2, <2>3, <2>4, FirstIsOne
  <2>6. m \in Of(r.rep, r.rt) BY <2>3, <2>5
  <2>7. /\ Launches[m] \in LaunchesIn(r.rep, r.rt) /\ r.rep \in 1..Reps /\ r.rt \in Runtimes
    BY <2>6, OfIsIn
  <2>8. \A k \in Of(r.rep, r.rt) : logs[k] \in Log /\ Agrees(logs[k], Launches[k])
    BY <1>2, <2>4 DEF Inv, Typed, LogsAgree
  <2>9. \A k \in Of(r.rep, r.rt) : logs[k].header BY <1>2, <2>8 DEF Agrees
  <2>10. \A k \in Of(r.rep, r.rt) : LoggedNeedles(logs, k) = Launches[k].want
    BY <2>9 DEF LoggedNeedles
  <2> HIDE DEF m
  <2>11. CASE naming # {}
    <3>1. Matches(Launches[m].want, c) BY <2>5, <2>6, <2>10, <2>11 DEF Suspects
    <3>2. Launches[m].want # {} BY <3>1 DEF Matches
    <3>3. Launches[m].leave = {} BY <2>7, <3>2, WantOrLeave
    <3>. QED BY <2>2, <3>1, <3>3 DEF Covers, Matches, m
  <2>12. CASE naming = {}
    <3>1. Launches[m].want = {} BY <2>5, <2>6, <2>10, <2>12 DEF Suspects
    <3>2. ASSUME Matches(Launches[m].leave, c) PROVE FALSE
      <4>1. PICK i \in Launches[m].leave : c \in Heavy[i] BY <3>2 DEF Matches
      <4>2. r.rt \in Split /\ i \in Needles
        BY <2>7, <4>1 DEF LaunchesIn, Whole, OfNeedle, LaunchFor
      <4>3. OfNeedle(r.rep, r.rt, i) \in LaunchesIn(r.rep, r.rt) BY <4>2 DEF LaunchesIn
      <4>4. PICK k \in Of(r.rep, r.rt) : Launches[k] = OfNeedle(r.rep, r.rt, i)
        BY <2>7, <4>3, InIsMade
      <4>5. Launches[k].want = {i} /\ Launches[k].leave = {}
        BY <4>4 DEF OfNeedle, LaunchFor
      <4>6. Matches(Launches[k].want, c) /\ Covers(Launches[k], c)
        BY <4>1, <4>5 DEF Matches, Covers
      <4>7. CASE logs[k].marker
        <5>1. logs[k].rows = Plan(Launches[k]) BY <2>8, <4>7, AgreesComplete
        <5>2. c \in Range(Plan(Launches[k])) BY <2>1, <4>6, PlanMembers
        <5>3. c \in RowsIn(logs[k]) BY <5>1, <5>2 DEF RowsIn, Range
        <5>. QED BY <2>1, <5>3 DEF Seen
      <4>8. CASE logs[k].signal = "os"
        <5>1. k \in K BY <4>8 DEF Killed
        <5>2. k \in naming BY <2>10, <4>6, <5>1
        <5>. QED BY <2>12, <5>2
      <4>. QED BY <1>2, <4>7, <4>8
    <3>. QED BY <2>2, <3>1, <3>2 DEF Covers, m
  <2>. QED BY <2>11, <2>12
<1>3. Inv => KillsAreExplained BY <1>1, <1>2 DEF KillsAreExplained
<1>. QED BY <1>3, LogsAlwaysAgree, PTL
=============================================================================
