------------------------- MODULE EntryPoints_proofs -------------------------
(***************************************************************************)
(* WAMR's initialization, and the C interface and its callers, for every   *)
(* set of threads and strings: WAMR is set up once and every module finds  *)
(* what it imports; the callers use it the way WamrInit has it, the app    *)
(* only ever sets it up on its main thread, and every C string handed out  *)
(* has one owner.                                                          *)
(***************************************************************************)
EXTENDS EntryPoints, TLAPS

-----------------------------------------------------------------------------
(* WAMR's initialization. The invariant follows a thread through the       *)
(* Onces: one thread at most is inside INIT's closure, whoever is past     *)
(* INIT has found it done, and a Once that is done has had its effect.     *)

WTypeOK ==
    /\ pc \in [Threads -> Places]
    /\ need \in [Threads -> Needs]
    /\ of \in [Threads -> Onces]
    /\ once \in [Onces -> {"new", "running", "done", "poisoned"}]
    /\ INIT_OK \in BOOLEAN
    /\ runtime \in {"up", "down"}

Initializing(t) == pc[t] = "store" \/ (pc[t] = "closure" /\ of[t] = "INIT")
AtOnce(t, o) == pc[t] \in {"call_once", "closure"} /\ of[t] = o
Cleared(t) == pc[t] \in {"load", "loaded"} \/ AtOnce(t, "REGISTER_ONCE") \/ AtOnce(t, "REGISTER")

OneInitializer ==
    /\ \A t \in Threads : Initializing(t) => once["INIT"] = "running"
    /\ \A t, u \in Threads : Initializing(t) /\ Initializing(u) => t = u

\* A Once that is done has had its effect; INIT_OK is only ever set by INIT's.
OnceEffects ==
    /\ INIT_OK => once["INIT"] = "done" /\ runtime = "up"
    /\ once["HARNESS"] = "done" => INIT_OK
    /\ once["REGISTER_ONCE"] = "done" => "" \in natives
    /\ once["REGISTER"] = "done" => "fvg" \in natives

\* Whoever is past ensure_init has seen INIT_OK, and is at the Once of its need.
Passed ==
    \A t \in Threads :
        /\ Cleared(t) => INIT_OK
        /\ AtOnce(t, "REGISTER_ONCE") => need[t] = "porf"
        /\ AtOnce(t, "REGISTER") => need[t] = "fvg"
        /\ AtOnce(t, "HARNESS") => need[t] = "test"
        /\ pc[t] \in {"load", "loaded"} => Imports(need[t]) \subseteq natives

WInv == WTypeOK /\ OneInitializer /\ OnceEffects /\ Passed

USE DEF Places, Needs, Onces

LEMMA WInitInv == WInit => WInv
<1> SUFFICES ASSUME WInit PROVE WInv OBVIOUS
<1> USE DEF WInit
<1>1. WTypeOK BY DEF WTypeOK
<1>2. \A t \in Threads : pc[t] = "away" OBVIOUS
<1>3. OneInitializer BY <1>2 DEF OneInitializer, Initializing
<1>4. once["HARNESS"] = "new" /\ once["REGISTER_ONCE"] = "new" /\ once["REGISTER"] = "new"
  OBVIOUS
<1>5. OnceEffects BY <1>4 DEF OnceEffects
<1>6. Passed BY <1>2 DEF Passed, AtOnce, Cleared
<1> QED BY <1>1, <1>3, <1>5, <1>6 DEF WInv

\* A thread that only moves, without touching anything shared, keeps the invariant
\* if the place it moves to is not one the invariant asks something of.
LEMMA MoveInv ==
  ASSUME WInv, NEW t \in Threads, NEW p \in Places \ {"closure", "store", "call_once"},
         pc' = [pc EXCEPT ![t] = p],
         UNCHANGED <<need, of, once, INIT_OK, runtime, calledBy, natives>>,
         p \in {"load", "loaded"} => INIT_OK /\ Imports(need[t]) \subseteq natives
  PROVE  WInv'
<1>1. WTypeOK' BY DEF WInv, WTypeOK
<1>2. OneInitializer' BY DEF WInv, WTypeOK, OneInitializer, Initializing
<1>3. OnceEffects' BY DEF WInv, OnceEffects
<1>4. Passed' BY DEF WInv, WTypeOK, Passed, AtOnce, Cleared, Imports
<1> QED BY <1>1, <1>2, <1>3, <1>4 DEF WInv

LEMMA BeginInv == ASSUME WInv, NEW t \in Threads, NEW n \in Needs, Begin(t, n) PROVE WInv'
<1> USE DEF Begin
<1>1. WTypeOK' BY DEF WInv, WTypeOK
<1>2. OneInitializer' BY DEF WInv, WTypeOK, OneInitializer, Initializing
<1>3. OnceEffects' BY DEF WInv, OnceEffects
<1>4. Passed' BY DEF WInv, WTypeOK, Passed, AtOnce, Cleared, Imports
<1> QED BY <1>1, <1>2, <1>3, <1>4 DEF WInv

LEMMA EnterOnceInv == ASSUME WInv, NEW t \in Threads, EnterOnce(t) PROVE WInv'
<1> USE DEF EnterOnce
<1>1. WTypeOK' BY DEF WInv, WTypeOK
<1>2. OneInitializer' BY DEF WInv, WTypeOK, OneInitializer, Initializing
<1>3. OnceEffects' BY DEF WInv, WTypeOK, OnceEffects
<1>4. Passed' BY DEF WInv, WTypeOK, Passed, AtOnce, Cleared, Imports
<1> QED BY <1>1, <1>2, <1>3, <1>4 DEF WInv

LEMMA FindDoneInv == ASSUME WInv, NEW t \in Threads, FindDone(t) PROVE WInv'
<1>1. Resume(of[t]) \in {"check", "load"}
  BY DEF Resume
<1>2. CASE of[t] = "INIT"
  BY <1>1, <1>2, MoveInv DEF FindDone, Resume
<1>3. CASE of[t] # "INIT"
  <2>1. of[t] \in {"HARNESS", "REGISTER_ONCE", "REGISTER"} BY <1>3 DEF WInv, WTypeOK
  <2>2. INIT_OK BY <2>1 DEF WInv, FindDone, OnceEffects, Passed, Cleared, AtOnce
  <2>3. Imports(need[t]) \subseteq natives
    BY <2>1 DEF WInv, FindDone, OnceEffects, Passed, AtOnce, Imports
  <2> QED BY <1>3, <2>2, <2>3, MoveInv DEF FindDone, Resume
<1> QED BY <1>2, <1>3

LEMMA RuntimeInitInv == ASSUME WInv, NEW t \in Threads, RuntimeInit(t) PROVE WInv'
<1> USE DEF RuntimeInit
<1>1. WTypeOK' BY DEF WInv, WTypeOK
<1>2. OneInitializer' BY DEF WInv, WTypeOK, OneInitializer, Initializing
<1>3. ~INIT_OK BY DEF WInv, OneInitializer, Initializing, OnceEffects
<1>4. OnceEffects' BY <1>3 DEF WInv, OnceEffects
<1>5. Passed' BY DEF WInv, WTypeOK, Passed, AtOnce, Cleared, Imports
<1> QED BY <1>1, <1>2, <1>4, <1>5 DEF WInv

LEMMA StoreOkInv == ASSUME WInv, NEW t \in Threads, StoreOk(t) PROVE WInv'
<1> USE DEF StoreOk
<1>1. WTypeOK' BY DEF WInv, WTypeOK
<1>2. OneInitializer' BY DEF WInv, WTypeOK, OneInitializer, Initializing
<1>3. ~INIT_OK BY DEF WInv, OneInitializer, Initializing, OnceEffects
<1>4. OnceEffects' BY <1>3 DEF WInv, WTypeOK, OnceEffects
<1>5. Passed' BY <1>3 DEF WInv, WTypeOK, Passed, AtOnce, Cleared, Imports
<1> QED BY <1>1, <1>2, <1>4, <1>5 DEF WInv

LEMMA RegisterInv == ASSUME WInv, NEW t \in Threads, Register(t) PROVE WInv'
<1> USE DEF Register
<1>1. WTypeOK' BY DEF WInv, WTypeOK
<1>2. OneInitializer' BY DEF WInv, WTypeOK, OneInitializer, Initializing
<1>3. INIT_OK /\ runtime = "up" BY DEF WInv, Passed, Cleared, AtOnce, OnceEffects
<1>4. natives' = natives \cup {Registered(of[t])} BY <1>3
<1>5. OnceEffects' BY <1>3, <1>4 DEF WInv, WTypeOK, OnceEffects, Registered
<1>6. Imports(need[t]) \subseteq natives'
  BY <1>4 DEF WInv, Passed, AtOnce, Imports, Registered
<1>7. Passed' BY <1>3, <1>4, <1>6 DEF WInv, WTypeOK, Passed, AtOnce, Cleared, Imports
<1> QED BY <1>1, <1>2, <1>5, <1>7 DEF WInv

LEMMA HarnessInitInv == ASSUME WInv, NEW t \in Threads, HarnessInit(t) PROVE WInv'
<1> USE DEF HarnessInit, Nested
<1>1. WTypeOK' BY DEF WInv, WTypeOK
<1>2. OneInitializer' BY DEF WInv, WTypeOK, OneInitializer, Initializing
<1>3. OnceEffects' BY DEF WInv, OnceEffects
<1>4. Passed' BY DEF WInv, WTypeOK, Passed, AtOnce, Cleared, Imports
<1> QED BY <1>1, <1>2, <1>3, <1>4 DEF WInv

LEMMA CheckOkInv == ASSUME WInv, NEW t \in Threads, CheckOk(t) PROVE WInv'
<1> USE DEF CheckOk, AfterInit, NativesOnce
<1>1. WTypeOK' BY DEF WInv, WTypeOK
<1>2. OneInitializer' BY DEF WInv, WTypeOK, OneInitializer, Initializing
<1>3. OnceEffects' BY DEF WInv, WTypeOK, OnceEffects
<1>4. Passed' BY DEF WInv, WTypeOK, Passed, AtOnce, Cleared, Imports
<1> QED BY <1>1, <1>2, <1>3, <1>4 DEF WInv

LEMMA CheckFailsInv == ASSUME WInv, NEW t \in Threads, CheckFails(t) PROVE WInv'
<1> USE DEF CheckFails
<1>1. WTypeOK' BY DEF WInv, WTypeOK
<1>2. OneInitializer' BY DEF WInv, WTypeOK, OneInitializer, Initializing
<1>3. OnceEffects' BY DEF WInv, WTypeOK, OnceEffects
<1>4. Passed' BY DEF WInv, WTypeOK, Passed, AtOnce, Cleared, Imports
<1> QED BY <1>1, <1>2, <1>3, <1>4 DEF WInv

\* Every step of a thread keeps the invariant.
LEMMA WNextInv == WInv /\ [WNext]_wamr => WInv'
<1> SUFFICES ASSUME WInv, [WNext]_wamr PROVE WInv' OBVIOUS
<1>1. ASSUME NEW t \in Threads, Proceed(t) PROVE WInv'
  <2>1. CASE FindPoisoned(t) BY <2>1, MoveInv DEF FindPoisoned
  <2>2. CASE Load(t)
    BY <2>2, MoveInv DEF Load, WInv, Passed, Cleared
  <2> QED BY <1>1, <2>1, <2>2, EnterOnceInv, FindDoneInv, RuntimeInitInv, StoreOkInv,
             RegisterInv, HarnessInitInv, CheckOkInv, CheckFailsInv DEF Proceed
<1>2. ASSUME NEW t \in Threads, Leave(t) PROVE WInv'
  BY <1>2, MoveInv DEF Leave
<1>3. CASE UNCHANGED wamr
  BY <1>3 DEF wamr, WInv, WTypeOK, OneInitializer, OnceEffects, Passed, Initializing, AtOnce,
              Cleared
<1> QED BY <1>1, <1>2, <1>3, BeginInv DEF WNext

\* The invariant holds of every behaviour of the threads that come to WAMR.
THEOREM AlwaysWInv == WSpec => []WInv
BY WInitInv, WNextInv, PTL DEF WSpec

\* wamr.rs:60-83, 371-391 and 476-498: for every set of threads that come to
\* WAMR in any order, each module is loaded into a runtime that is up, with the
\* natives it imports registered.
THEOREM ModulesAreServed == WSpec => []LoadsAreServed
<1>1. WInv => LoadsAreServed
  BY DEF WInv, OnceEffects, Passed, Cleared, LoadsAreServed
<1> QED BY <1>1, AlwaysWInv, PTL

-----------------------------------------------------------------------------
(* Every step of the program is a step of WAMR's users, or none of theirs. *)

\* Spec implements WamrInit's specification (the callers of wamr.rs).
THEOREM UsesWamrAsItIs == Spec => WSpec
<1>1. Init => WInit BY DEF Init
<1>2. [Next]_vars => [WNext]_wamr
  <2> SUFFICES ASSUME [Next]_vars PROVE [WNext]_wamr OBVIOUS
  <2>1. CASE RunAll
    BY <2>1, ThreadsAssumption DEF RunAll, WNext, Needs
  <2>2. CASE EndRun BY <2>2 DEF EndRun
  <2>3. CASE Dispatch BY <2>3, ThreadsAssumption DEF Dispatch, WNext
  <2>4. CASE LeaveWamr BY <2>4, ThreadsAssumption DEF LeaveWamr, WNext
  <2>5. CASE RunRow BY <2>5 DEF RunRow
  <2>6. CASE Report BY <2>6 DEF Report
  <2>7. CASE Format BY <2>7 DEF Format
  <2>8. CASE Show BY <2>8 DEF Show
  <2>9. ASSUME NEW c \in Calls, PickRow(c) PROVE [WNext]_wamr
    <3>1. CASE Decline(c) BY <3>1 DEF Decline
    <3>2. CASE EnterOther(c) BY <3>2 DEF EnterOther
    <3>3. CASE EnterWamr(c)
      <4>1. Need(c) \in Needs BY DEF Need, Needs
      <4> QED BY <3>3, <4>1, ThreadsAssumption DEF EnterWamr, WNext
    <3> QED BY <2>9, <3>1, <3>2, <3>3 DEF PickRow
  <2>10. ASSUME NEW t \in Threads, InWamr(t) PROVE [WNext]_wamr
    BY <2>10 DEF InWamr, WNext
  <2>11. ASSUME NEW t \in Threads, Test(t) PROVE [WNext]_wamr
    BY <2>11 DEF Test, WNext, Needs
  <2>12. ASSUME NEW t \in Threads, TestEnds(t) PROVE [WNext]_wamr
    BY <2>12 DEF TestEnds, WNext
  <2>13. CASE UNCHANGED vars BY <2>13 DEF vars
  <2> QED
    BY <2>1, <2>2, <2>3, <2>4, <2>5, <2>6, <2>7, <2>8, <2>9, <2>10, <2>11, <2>12, <2>13
       DEF Next, Working
<1> QED BY <1>1, <1>2, PTL DEF Spec, WSpec

\* WAMR serves every module the program loads, whoever loads it.
THEOREM ProgramIsServed == Spec => []LoadsAreServed
BY UsesWamrAsItIs, ModulesAreServed, PTL

-----------------------------------------------------------------------------
(* The app's two threads take turns. *)

Stages == {"idle", "init", "row", "wamr", "run", "report", "format", "show"}

TurnsInv ==
    /\ at \in [Threads -> Stages]
    /\ running \in BOOLEAN
    /\ at[Main] \in {"idle", "init"}
    /\ at[Main] = "init" => at[Worker] = "idle"
    /\ ~running => at[Main] = "idle" /\ at[Worker] = "idle"

LEMMA TurnsInitially == Init => TurnsInv
  BY ThreadsAssumption DEF Init, TurnsInv, Stages

LEMMA TurnsKept == ASSUME TurnsInv, [Next]_vars PROVE TurnsInv'
<1> USE ThreadsAssumption DEF TurnsInv, Stages
<1>1. CASE RunAll BY <1>1 DEF RunAll
<1>2. CASE EndRun BY <1>2 DEF EndRun
<1>3. CASE Dispatch BY <1>3 DEF Dispatch
<1>4. CASE LeaveWamr BY <1>4 DEF LeaveWamr
<1>5. CASE RunRow BY <1>5 DEF RunRow
<1>6. CASE Report BY <1>6 DEF Report
<1>7. CASE Format BY <1>7 DEF Format
<1>8. CASE Show BY <1>8 DEF Show
<1>9. ASSUME NEW c \in Calls, PickRow(c) PROVE TurnsInv'
  BY <1>9 DEF PickRow, Decline, EnterWamr, EnterOther
<1>10. CASE UNCHANGED entry BY <1>10 DEF entry
<1>11. CASE UNCHANGED vars BY <1>11 DEF vars, entry
<1> QED
  BY <1>1, <1>2, <1>3, <1>4, <1>5, <1>6, <1>7, <1>8, <1>9, <1>10, <1>11
     DEF Next, Working, InWamr, Test, TestEnds

-----------------------------------------------------------------------------
(* The C strings. *)

OwnedInv == TurnsInv /\ StringsAreOwned

LEMMA OwnedKept == ASSUME OwnedInv, [Next]_vars PROVE OwnedInv'
<1>1. TurnsInv' BY TurnsKept DEF OwnedInv
<1> USE ThreadsAssumption, NullAssumption DEF OwnedInv, TurnsInv, Stages, StringsAreOwned
<1>2. CASE RunAll BY <1>1, <1>2 DEF RunAll
<1>3. CASE EndRun BY <1>1, <1>3 DEF EndRun
<1>4. CASE Dispatch BY <1>1, <1>4 DEF Dispatch
<1>5. CASE LeaveWamr BY <1>1, <1>5 DEF LeaveWamr
<1>6. CASE RunRow BY <1>1, <1>6 DEF RunRow
<1>7. CASE Report
  <2>1. live = {} /\ at'[Worker] = "format" BY <1>7 DEF Report
  <2>2. live' = {report'.text} \ {NULL}
    <3>1. CASE LineFrom(outcome) BY <2>1, <3>1 DEF LineFrom
    <3>2. CASE ReportFrom(call, outcome) BY <2>1, <3>2 DEF ReportFrom
    <3> QED BY <1>7, <3>1, <3>2 DEF Report
  <2> QED BY <1>1, <1>7, <2>1, <2>2 DEF Report
<1>8. CASE Format
  <2>1. live' = {} /\ at'[Worker] = "show" BY <1>8 DEF Format
  <2>2. shown'.report.text = NULL BY <1>8 DEF Format, Stored
  <2> QED BY <1>1, <2>1, <2>2
<1>9. CASE Show BY <1>1, <1>9 DEF Show, Nothing, NoReport
<1>10. ASSUME NEW c \in Calls, PickRow(c) PROVE OwnedInv'
  BY <1>1, <1>10 DEF PickRow, Decline, EnterWamr, EnterOther
<1>11. CASE UNCHANGED entry BY <1>1, <1>11 DEF entry
<1>12. CASE UNCHANGED vars BY <1>1, <1>12 DEF vars, entry
<1> QED
  BY <1>2, <1>3, <1>4, <1>5, <1>6, <1>7, <1>8, <1>9, <1>10, <1>11, <1>12
     DEF Next, Working, InWamr, Test, TestEnds

\* No C string is lost, freed twice or kept after it was freed: report_from's
\* and bench_femtovg_e2e's go to the caller, which frees them once.
THEOREM StringsAlwaysOwned == Spec => []StringsAreOwned
<1>1. Init => OwnedInv
  <2>1. Init => StringsAreOwned
    BY ThreadsAssumption DEF Init, StringsAreOwned, Nothing, NoReport
  <2> QED BY <2>1, TurnsInitially DEF OwnedInv
<1>2. OwnedInv /\ [Next]_vars => OwnedInv' BY OwnedKept
<1>3. OwnedInv => StringsAreOwned BY DEF OwnedInv
<1> QED BY <1>1, <1>2, <1>3, PTL DEF Spec

-----------------------------------------------------------------------------
(* Who sets WAMR up. A thread that is past INIT has found it done, and it   *)
(* stays done; in the app nobody but the main thread comes to INIT before.  *)

Settled == once["INIT"] = "done"
After == {"check", "load", "loaded", "returned", "failed"}

SettledInv ==
    \A t \in Threads : pc[t] \in After => Settled

MainInv ==
    program = "app" =>
        /\ calledBy \in {Nobody, Main}
        /\ at[Worker] # "idle" => Settled
        /\ \A t \in Threads \ {Main} : pc[t] # "away" => Settled

InitInv == WInv /\ TurnsInv /\ SettledInv /\ MainInv

\* INIT's Once is done for good.
LEMMA StaysSettled == ASSUME WInv, [WNext]_wamr, Settled PROVE Settled'
<1> USE DEF Settled
<1>1. ASSUME NEW t \in Threads, Proceed(t) PROVE Settled'
  <2> USE DEF WInv, WTypeOK
  <2>1. CASE EnterOnce(t) BY <2>1 DEF EnterOnce
  <2>2. CASE FindDone(t) BY <2>2 DEF FindDone
  <2>3. CASE FindPoisoned(t) BY <2>3 DEF FindPoisoned
  <2>4. CASE RuntimeInit(t) BY <2>4 DEF RuntimeInit
  <2>5. CASE StoreOk(t) BY <2>5 DEF StoreOk
  <2>6. CASE Register(t) BY <2>6 DEF Register
  <2>7. CASE HarnessInit(t) BY <2>7 DEF HarnessInit
  <2>8. CASE CheckOk(t) BY <2>8 DEF CheckOk
  <2>9. CASE CheckFails(t) BY <2>9 DEF CheckFails
  <2>10. CASE Load(t) BY <2>10 DEF Load
  <2> QED BY <1>1, <2>1, <2>2, <2>3, <2>4, <2>5, <2>6, <2>7, <2>8, <2>9, <2>10 DEF Proceed
<1>2. ASSUME NEW t \in Threads, Leave(t) PROVE Settled' BY <1>2 DEF Leave
<1>3. ASSUME NEW t \in Threads, NEW n \in Needs, Begin(t, n) PROVE Settled'
  BY <1>3 DEF Begin
<1>4. CASE UNCHANGED wamr BY <1>4 DEF wamr
<1> QED BY <1>1, <1>2, <1>3, <1>4 DEF WNext

\* What one thread does changes neither where the others stand nor, unless it is
\* in INIT's closure, who called wasm_runtime_init.
LEMMA OthersStay ==
  ASSUME WInv, NEW t \in Threads, Proceed(t) \/ Leave(t) \/ \E n \in Needs : Begin(t, n)
  PROVE  /\ \A u \in Threads : u # t => pc'[u] = pc[u]
         /\ calledBy' = calledBy \/ (calledBy' = t /\ ~Settled)
<1> USE DEF WInv, WTypeOK
<1>1. CASE EnterOnce(t) BY <1>1 DEF EnterOnce
<1>2. CASE FindDone(t) BY <1>2 DEF FindDone
<1>3. CASE FindPoisoned(t) BY <1>3 DEF FindPoisoned
<1>4. CASE RuntimeInit(t)
  <2>1. ~Settled BY <1>4 DEF RuntimeInit, OneInitializer, Initializing, Settled
  <2> QED BY <1>4, <2>1 DEF RuntimeInit
<1>5. CASE StoreOk(t) BY <1>5 DEF StoreOk
<1>6. CASE Register(t) BY <1>6 DEF Register
<1>7. CASE HarnessInit(t) BY <1>7 DEF HarnessInit
<1>8. CASE CheckOk(t) BY <1>8 DEF CheckOk
<1>9. CASE CheckFails(t) BY <1>9 DEF CheckFails
<1>10. CASE Load(t) BY <1>10 DEF Load
<1>11. CASE Leave(t) BY <1>11 DEF Leave
<1>12. ASSUME NEW n \in Needs, Begin(t, n)
       PROVE  (\A u \in Threads : u # t => pc'[u] = pc[u]) /\ calledBy' = calledBy
  BY <1>12 DEF Begin
<1> QED
  BY <1>1, <1>2, <1>3, <1>4, <1>5, <1>6, <1>7, <1>8, <1>9, <1>10, <1>11, <1>12 DEF Proceed

LEMMA SettledKept == ASSUME WInv, SettledInv, [WNext]_wamr PROVE SettledInv'
<1> USE DEF WInv, WTypeOK, SettledInv, After
<1>1. Settled => Settled' BY StaysSettled
<1>2. CASE UNCHANGED wamr BY <1>1, <1>2 DEF wamr
<1>3. ASSUME NEW t \in Threads, Proceed(t) \/ Leave(t) \/ \E n \in Needs : Begin(t, n)
      PROVE  SettledInv'
  <2>1. \A u \in Threads : u # t => pc'[u] = pc[u] BY <1>3, OthersStay
  <2>2. pc'[t] \in After => Settled'
    <3>1. CASE EnterOnce(t) BY <3>1 DEF EnterOnce
    <3>2. CASE FindDone(t)
      <4>1. CASE of[t] = "INIT" BY <1>1, <3>2, <4>1 DEF FindDone, Settled
      <4>2. CASE of[t] # "INIT"
        <5>1. of[t] \in {"HARNESS", "REGISTER_ONCE", "REGISTER"} BY <4>2 DEF Onces
        <5>2. INIT_OK BY <3>2, <5>1 DEF FindDone, OnceEffects, Passed, Cleared, AtOnce
        <5> QED BY <1>1, <5>2 DEF OnceEffects, Settled
      <4> QED BY <4>1, <4>2
    <3>3. CASE FindPoisoned(t) BY <3>3 DEF FindPoisoned
    <3>4. CASE RuntimeInit(t) BY <3>4 DEF RuntimeInit
    <3>5. CASE StoreOk(t) BY <3>5 DEF StoreOk, Settled, Onces
    <3>6. CASE Register(t)
      <4>1. INIT_OK BY <3>6 DEF Register, Passed, Cleared, AtOnce
      <4> QED BY <1>1, <4>1 DEF OnceEffects, Settled
    <3>7. CASE HarnessInit(t) BY <3>7 DEF HarnessInit
    <3>8. CASE CheckOk(t) BY <1>1, <3>8 DEF CheckOk
    <3>9. CASE CheckFails(t) BY <1>1, <3>9 DEF CheckFails
    <3>10. CASE Load(t) BY <1>1, <3>10 DEF Load
    <3>11. CASE Leave(t) BY <3>11 DEF Leave
    <3>12. ASSUME NEW n \in Needs, Begin(t, n) PROVE pc'[t] \notin After BY <3>12 DEF Begin
    <3> QED
      BY <1>3, <3>1, <3>2, <3>3, <3>4, <3>5, <3>6, <3>7, <3>8, <3>9, <3>10, <3>11, <3>12
         DEF Proceed
  <2> QED BY <1>1, <2>1, <2>2
<1> QED BY <1>2, <1>3 DEF WNext

LEMMA MainKept == ASSUME InitInv, [Next]_vars, [WNext]_wamr PROVE MainInv'
<1> SUFFICES ASSUME program' = "app" PROVE MainInv' BY DEF MainInv
<1>1. program = "app"
  BY DEF Next, vars, entry, Working, RunAll, EndRun, Dispatch, LeaveWamr, RunRow, Report,
         Format, Show, PickRow, InWamr, Test, TestEnds
<1>2. Settled => Settled' BY StaysSettled DEF InitInv
<1>3. WInv BY DEF InitInv
<1> USE ThreadsAssumption DEF InitInv, MainInv, TurnsInv, Stages
<1>4. CASE RunAll
  <2>1. \E n \in Needs : Begin(Main, n) BY <1>4 DEF RunAll, Needs
  <2>2. at'[Worker] = at[Worker] BY <1>4 DEF RunAll
  <2> QED BY <1>1, <1>2, <1>3, <2>1, <2>2, OthersStay
<1>5. CASE EndRun BY <1>1, <1>2, <1>5 DEF EndRun, wamr
<1>6. CASE Dispatch
  <2>1. Settled BY <1>6 DEF Dispatch, Leave, SettledInv, After
  <2> QED BY <1>1, <1>2, <1>3, <1>6, <2>1, OthersStay DEF Dispatch
<1>7. CASE LeaveWamr
  <2>1. Settled BY <1>1, <1>7 DEF LeaveWamr
  <2> QED BY <1>1, <1>2, <1>3, <1>7, <2>1, OthersStay DEF LeaveWamr
<1>8. CASE RunRow BY <1>1, <1>2, <1>8 DEF RunRow, wamr
<1>9. CASE Report BY <1>1, <1>2, <1>9 DEF Report, wamr
<1>10. CASE Format BY <1>1, <1>2, <1>10 DEF Format, wamr
<1>11. CASE Show BY <1>1, <1>2, <1>11 DEF Show, wamr
<1>12. ASSUME NEW c \in Calls, PickRow(c) PROVE MainInv'
  <2>1. Settled /\ Settled' BY <1>1, <1>2, <1>12 DEF PickRow
  <2>2. CASE UNCHANGED wamr BY <1>1, <2>1, <2>2 DEF wamr
  <2>3. CASE EnterWamr(c)
    <3>1. \E n \in Needs : Begin(Worker, n)
      BY <2>3 DEF EnterWamr, Need, Needs
    <3> QED BY <1>1, <1>3, <2>1, <3>1, OthersStay
  <2> QED BY <1>12, <2>2, <2>3 DEF PickRow, Decline, EnterOther
<1>13. ASSUME NEW t \in Threads, InWamr(t) PROVE MainInv'
  <2>1. /\ \A u \in Threads : u # t => pc'[u] = pc[u]
        /\ calledBy' = calledBy \/ (calledBy' = t /\ ~Settled)
    BY <1>3, <1>13, OthersStay DEF InWamr
  <2>2. t # Main => pc[t] # "away"
    BY <1>13 DEF InWamr, Proceed, EnterOnce, FindDone, FindPoisoned, RuntimeInit, StoreOk,
                 Register, HarnessInit, CheckOk, CheckFails, Load
  <2> QED BY <1>1, <1>2, <1>13, <2>1, <2>2 DEF InWamr, entry
<1>14. ASSUME NEW t \in Threads, Test(t) \/ TestEnds(t) PROVE FALSE
  BY <1>1, <1>14 DEF Test, TestEnds
<1>15. CASE UNCHANGED vars BY <1>1, <1>2, <1>15 DEF vars, entry, wamr
<1> QED
  BY <1>4, <1>5, <1>6, <1>7, <1>8, <1>9, <1>10, <1>11, <1>12, <1>13, <1>14, <1>15
     DEF Next, Working

\* wasm_runtime_init is called on the app's main thread or not at all, whatever
\* rows are run and however often a run is started (bench_init_wamr in runAll).
THEOREM MainAlwaysInitsWamr == Spec => []MainInitsWamr
<1>1. Spec => [][WNext]_wamr BY UsesWamrAsItIs, PTL DEF WSpec
<1>2. Spec => []WInv BY UsesWamrAsItIs, AlwaysWInv, PTL
<1>3. Init => TurnsInv /\ SettledInv /\ MainInv
  BY TurnsInitially, ThreadsAssumption DEF Init, WInit, SettledInv, MainInv, After
<1>4. WInv /\ TurnsInv /\ SettledInv /\ MainInv /\ [Next]_vars /\ [WNext]_wamr
        => (TurnsInv /\ SettledInv /\ MainInv)'
  BY TurnsKept, SettledKept, MainKept DEF InitInv
<1>5. MainInv => MainInitsWamr BY DEF MainInv, MainInitsWamr
<1> QED BY <1>1, <1>2, <1>3, <1>4, <1>5, PTL DEF Spec

-----------------------------------------------------------------------------
(* What a call shows is what the case table says of its case, whichever of  *)
(* the C functions it went through.                                         *)

\* A row that is run is no known crash, and is compared exactly when its case has
\* a reference.
AsTable(c) ==
    (c.case \in CASES /\ Ran(c)) =>
        /\ <<c.rt, c.case>> \notin KNOWN_CRASHES
        /\ c.checked <=> c.case \in Referenced

\* The cases the C functions share.
LEMMA SharedCases ==
    \A c \in Shared \cup {"graphql_as"} :
        /\ c # "xmrsplayer" <=> c \in Referenced
        /\ c # "gc_trees"
BY DEF Shared, Referenced, CASES, Counted, Kernels, Vtables, Scalar, Features, InstantiateEach,
       PorfforMain

LEMMA OtherCases ==
    "graphql_porf" \notin Referenced /\ "sqlite3" \notin Referenced /\ "graphql_as" \in Referenced
    /\ "sieve" \in Referenced /\ "crc32" \in Referenced
BY DEF Referenced, CASES, Counted, Kernels, PorfforMain

\* The C functions and the table agree.
LEMMA FunctionsAsTable == \A c \in Functions : AsTable(c)
<1>1. ASSUME NEW rt \in {"pulley", "wamr", "wasm3", "wasmedge", "zwasm"},
             NEW cases \in SUBSET (Shared \cup {"graphql_as"}), NEW c \in Generic(rt, cases)
      PROVE  AsTable(c)
  <2>1. PICK id \in cases : c = Row(rt, id, "run_workload", id # "xmrsplayer", FALSE)
    BY <1>1 DEF Generic
  <2>2. c.rt = rt /\ c.case = id /\ (c.checked <=> id # "xmrsplayer") BY <2>1 DEF Row
  <2>3. <<rt, id>> \notin KNOWN_CRASHES BY SharedCases DEF KNOWN_CRASHES
  <2>. QED BY <2>2, <2>3, SharedCases DEF AsTable
<1>2. ASSUME NEW c \in Generic("wasmz", (Shared \cup {"graphql_as"}) \ Crashing)
      PROVE  AsTable(c)
  <2>1. PICK id \in (Shared \cup {"graphql_as"}) \ Crashing :
           c = Row("wasmz", id, "run_workload", id # "xmrsplayer", FALSE)
    BY <1>2 DEF Generic
  <2>2. c.rt = "wasmz" /\ c.case = id /\ (c.checked <=> id # "xmrsplayer") BY <2>1 DEF Row
  <2>3. <<"wasmz", id>> \notin KNOWN_CRASHES BY DEF KNOWN_CRASHES, Crashing
  <2>. QED BY <2>2, <2>3, SharedCases DEF AsTable
<1>3. ASSUME NEW rt PROVE AsTable(Porffor(rt))
  <2>1. LET c == Porffor(rt) IN c.rt = rt /\ c.case = "graphql_porf" /\ c.checked = FALSE
    BY DEF Porffor, Row
  <2>2. <<rt, "graphql_porf">> \notin KNOWN_CRASHES BY DEF KNOWN_CRASHES
  <2>. QED BY <2>1, <2>2, OtherCases DEF AsTable
<1>4. ASSUME NEW c \in {Row("wasmz", id, "run_workload", TRUE, known_crash("wasmz", id)) : id \in Crashing}
      PROVE  AsTable(c)
  <2>1. PICK id \in Crashing : c = Row("wasmz", id, "run_workload", TRUE, known_crash("wasmz", id))
    BY <1>4
  <2>2. c.rt = "wasmz" /\ c.case = id /\ c.notRun = known_crash("wasmz", id)
    BY <2>1 DEF Row
  <2>3. known_crash("wasmz", id) BY DEF known_crash, KNOWN_CRASHES, Crashing
  <2>. QED BY <2>2, <2>3 DEF AsTable, Ran
<1>5. /\ AsTable(Row("pulley", "graphql_as", "run_graphql_validation_as", TRUE, FALSE))
      /\ AsTable(Row("pulley", "sqlite3", "run_sqlite3", FALSE, FALSE))
      /\ AsTable(Row("wasm3", "graphql_porf", "run_workload", FALSE, FALSE))
  <2>1. /\ <<"pulley", "graphql_as">> \notin KNOWN_CRASHES
        /\ <<"pulley", "sqlite3">> \notin KNOWN_CRASHES
        /\ <<"wasm3", "graphql_porf">> \notin KNOWN_CRASHES
    BY DEF KNOWN_CRASHES
  <2>. QED BY <2>1, OtherCases DEF AsTable, Row
<1>6. \A c \in PulleyFunctions : AsTable(c) BY <1>1, <1>3, <1>5 DEF PulleyFunctions
<1>7. \A c \in WamrFunctions \cup WasmEdgeFunctions \cup ZwasmFunctions : AsTable(c)
  BY <1>1, <1>3 DEF WamrFunctions, WasmEdgeFunctions, ZwasmFunctions
<1>8. \A c \in Wasm3Functions : AsTable(c) BY <1>1, <1>5 DEF Wasm3Functions
<1>9. \A c \in WasmzFunctions : AsTable(c) BY <1>2, <1>3, <1>4 DEF WasmzFunctions
<1>. QED BY <1>6, <1>7, <1>8, <1>9 DEF Functions

\* bench_run_case goes by the table itself.
LEMMA CasesAsTable == \A c \in Cases : AsTable(c)
<1>1. SUFFICES ASSUME NEW rt, NEW id PROVE AsTable(bench_run_case(rt, id)) BY DEF Cases
<1> DEFINE c == bench_run_case(rt, id)
<1>2. CASE rt \in RUNTIMES /\ id \in CASES
  <2>1. c = Row(rt, id, CaseRunner(rt, id), id \in Referenced, known_crash(rt, id))
    BY <1>2 DEF bench_run_case, run_case
  <2>2. /\ c.rt = rt /\ c.case = id /\ c.checked = (id \in Referenced)
        /\ c.notRun = known_crash(rt, id)
    BY <2>1 DEF Row
  <2>. QED BY <2>2 DEF AsTable, Ran, known_crash
<1>3. CASE ~(rt \in RUNTIMES /\ id \in CASES)
  <2>1. c = Row(rt, id, "none", FALSE, FALSE) BY <1>3 DEF bench_run_case
  <2>2. c.runner = "none" BY <2>1 DEF Row
  <2>. QED BY <2>2 DEF AsTable, Ran
<1>. QED BY <1>2, <1>3

\* The scenes are not in the table.
LEMMA ScenesApart == \A c \in Scenes : c.case \notin CASES
<1>1. \A c \in Scenes : c.case = "fvg" BY DEF Scenes, Row
<1>2. "fvg" \notin CASES
  BY DEF CASES, Counted, Kernels, Vtables, Scalar, Features, InstantiateEach, PorfforMain
<1>. QED BY <1>1, <1>2

\* Every call is as the table has it.
LEMMA CallsAsTable == \A c \in Calls : AsTable(c)
BY FunctionsAsTable, CasesAsTable, ScenesApart DEF Calls, AsTable

\* What there is of the worker's call at each stage.
CallsInv ==
    /\ at[Worker] \in {"wamr", "run", "report", "format"} => call \in Calls
    /\ at[Worker] \in {"wamr", "run"} => Ran(call)
    /\ at[Worker] \in {"report", "format"} => outcome = "failed" \/ Ran(call)
    /\ at[Worker] = "format" => call \in Scenes \/ (report.ok <=> Accepted(call, outcome))

\* A result on its way out is one of a call the table accepts.
ShownInv ==
    (shown.call \in Functions \cup Cases /\ shown.call.case \in CASES) =>
        (shown.report.ok <=>
            \/ shown.outcome = "right"
            \/ shown.outcome = "wrong" /\ shown.call.case \notin Referenced)

RowsInv == TurnsInv /\ CallsInv /\ ShownInv

\* The table decides what is accepted.
LEMMA AcceptedAsTable ==
    ASSUME NEW c \in Calls, c.case \in CASES, NEW o, o = "failed" \/ Ran(c)
    PROVE  Accepted(c, o) <=> (o = "right" \/ (o = "wrong" /\ c.case \notin Referenced))
BY CallsAsTable DEF Accepted, AsTable

\* The invariant through one call.
LEMMA RowsKept == ASSUME RowsInv, [Next]_vars PROVE RowsInv'
<1> USE ThreadsAssumption DEF RowsInv, TurnsInv, Stages
<1>1. TurnsInv' BY TurnsKept
<1>2. CASE RunAll BY <1>1, <1>2 DEF RunAll, CallsInv, ShownInv
<1>3. CASE EndRun BY <1>1, <1>3 DEF EndRun, CallsInv, ShownInv
<1>4. CASE Dispatch BY <1>1, <1>4 DEF Dispatch, CallsInv, ShownInv
<1>5. CASE LeaveWamr BY <1>1, <1>5 DEF LeaveWamr, CallsInv, ShownInv
<1>6. CASE RunRow BY <1>1, <1>6 DEF RunRow, CallsInv, ShownInv
<1>7. CASE Report
  <2>1. /\ at[Worker] = "report" /\ at'[Worker] = "format" /\ call' = call
        /\ outcome' = outcome /\ shown' = shown
    BY <1>7 DEF Report
  <2>2. call \in Scenes \/ (report'.ok <=> Accepted(call, outcome))
    BY <1>7 DEF Report, ReportFrom, Accepted
  <2>. QED BY <1>1, <2>1, <2>2 DEF CallsInv, ShownInv, Accepted
<1>8. CASE Format
  <2>1. at[Worker] = "format" /\ at'[Worker] = "show" BY <1>8 DEF Format
  <2>2. CASE shown' = shown BY <1>1, <2>1, <2>2 DEF CallsInv, ShownInv
  <2>3. CASE shown' = [call |-> call, outcome |-> outcome, report |-> Stored(report)]
    <3>1. Stored(report).ok = report.ok BY DEF Stored
    <3>2. SUFFICES ASSUME call \in Functions \cup Cases, call.case \in CASES
                   PROVE  report.ok <=> (outcome = "right"
                                           \/ (outcome = "wrong" /\ call.case \notin Referenced))
      BY <1>1, <2>1, <2>3, <3>1 DEF CallsInv, ShownInv
    <3>3. call \notin Scenes BY <3>2, ScenesApart
    <3>4. /\ (report.ok <=> Accepted(call, outcome)) /\ call \in Calls
          /\ outcome = "failed" \/ Ran(call)
      BY <2>1, <3>3 DEF CallsInv
    <3>. QED BY <3>2, <3>4, AcceptedAsTable
  <2>. QED BY <1>8, <2>2, <2>3 DEF Format
<1>9. CASE Show
  <2>1. NoRow.case \notin CASES
    BY DEF NoRow, Row, CASES, Counted, Kernels, Vtables, Scalar, Features, InstantiateEach,
           PorfforMain
  <2>. QED BY <1>1, <1>9, <2>1 DEF Show, Nothing, CallsInv, ShownInv
<1>10. ASSUME NEW c \in Calls, PickRow(c) PROVE RowsInv'
  <2>1. call' = c /\ shown' = shown /\ report' = report BY <1>10 DEF PickRow
  <2>2. CASE Decline(c) BY <1>1, <2>1, <2>2 DEF Decline, CallsInv, ShownInv
  <2>3. CASE EnterWamr(c) BY <1>1, <2>1, <2>3 DEF EnterWamr, CallsInv, ShownInv
  <2>4. CASE EnterOther(c) BY <1>1, <2>1, <2>4 DEF EnterOther, CallsInv, ShownInv
  <2>. QED BY <1>10, <2>2, <2>3, <2>4 DEF PickRow
<1>11. CASE UNCHANGED entry BY <1>1, <1>11 DEF entry, CallsInv, ShownInv, Accepted
<1>. QED
  BY <1>2, <1>3, <1>4, <1>5, <1>6, <1>7, <1>8, <1>9, <1>10, <1>11
     DEF Next, Working, InWamr, Test, TestEnds, vars

\* RowsFollowTable: whichever C function a call goes through, its result is
\* accepted as the table has it, and no known crash is run.
THEOREM RowsAlwaysFollowTable == Spec => []RowsFollowTable
<1>1. Init => RowsInv
  <2>1. NoRow.case \notin CASES
    BY DEF NoRow, Row, CASES, Counted, Kernels, Vtables, Scalar, Features, InstantiateEach,
           PorfforMain
  <2>. QED BY <2>1, TurnsInitially, ThreadsAssumption DEF Init, RowsInv, CallsInv, ShownInv, Nothing
<1>2. RowsInv /\ [Next]_vars => RowsInv' BY RowsKept
<1>3. RowsInv => RowsFollowTable
  <2>. SUFFICES ASSUME RowsInv PROVE RowsFollowTable OBVIOUS
  <2>1. \A c \in Calls : Ran(c) => <<c.rt, c.case>> \notin KNOWN_CRASHES
    <3>1. \A p \in KNOWN_CRASHES : p[2] \in CASES
      BY DEF KNOWN_CRASHES, CASES, Counted, Kernels, Features
    <3>. QED BY <3>1, CallsAsTable DEF AsTable
  <2>. QED BY <2>1 DEF RowsInv, CallsInv, ShownInv, RowsFollowTable
<1>. QED BY <1>1, <1>2, <1>3, PTL DEF Spec
=============================================================================
