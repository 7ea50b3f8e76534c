-------------------------- MODULE AdapterLifecycle --------------------------
(***************************************************************************)
(* One runner of AdapterRecipes at work: its steps in order, any fallible  *)
(* one failing or not, and at the end, or after a failure, everything its  *)
(* guards hold released in the reverse of the order they were taken.       *)
(***************************************************************************)
EXTENDS AdapterRecipes, FiniteSets

CONSTANTS
    MaxRepeats    \* bound: repetitions of a call or a sample

ASSUME RepeatsAssumption == MaxRepeats \in Nat

VARIABLES
    runner,     \* the runner
    phase,      \* "run", "release" (of what is held) or "done"
    ok,         \* FALSE: a step has failed
    at,         \* its next step
    left,       \* repetitions left
    objects,    \* each handle's object
    owner,      \* who frees an object that was handed over, or "none"
    guards,     \* the guards in scope, oldest first: what each would free
    release,    \* what is still to be released before the return
    meter,      \* which measurement is running
    fresh       \* the handles created since it started

runner_vars == <<runner, phase, ok, at, left, objects, owner, guards, release, meter, fresh>>

Steps == Recipes[runner].steps
Now == Steps[at]
Running(ops) == phase = "run" /\ at <= Len(Steps) /\ Now.op \in ops

RunnerInit ==
    /\ runner \in Runners
    /\ phase = "run"
    /\ ok = TRUE
    /\ at = 1
    /\ left = MaxRepeats
    /\ objects = [h \in Handles |-> "null"]
    /\ owner = [h \in Handles |-> "none"]
    /\ guards = <<>>
    /\ release = <<>>
    /\ meter = "off"
    /\ fresh = {}

-----------------------------------------------------------------------------
\* return Err: the code's own clean-up, then the guards.
Fail(undo) ==
    /\ phase' = "release"
    /\ ok' = FALSE
    /\ release' = undo \o Held(guards)
    /\ guards' = <<>>
    /\ meter' = "off"
    /\ UNCHANGED <<runner, at, left, objects, owner, fresh>>

Guarded(g) == IF g = <<>> THEN guards ELSE Append(guards, g)

Acquire ==
    /\ Running({"take", "create", "may"})
    /\ \E got \in IF Now.op = "create" THEN {TRUE} ELSE BOOLEAN :
          IF got \/ Now.op = "may"
          THEN /\ objects' = [objects EXCEPT ![Now.h] = IF got THEN "live" ELSE "null"]
               /\ fresh' = fresh \cup {Now.h}
               /\ guards' = Guarded(Now.guard)
               /\ at' = at + 1
               /\ UNCHANGED <<runner, phase, ok, left, owner, release, meter>>
          ELSE Fail(Now.undo)

CheckNulls ==
    /\ Running({"check"})
    /\ IF \A h \in Now.uses : objects[h] = "live"
       THEN /\ at' = at + 1
            /\ UNCHANGED <<runner, phase, ok, left, objects, owner, guards, release, meter, fresh>>
       ELSE Fail(<<>>)

NewGuard ==
    /\ Running({"guard"})
    /\ guards' = Guarded(Now.guard)
    /\ at' = at + 1
    /\ UNCHANGED <<runner, phase, ok, left, objects, owner, release, meter, fresh>>

UseObject ==
    /\ Running({"use", "call"})
    /\ \/ /\ at' = at + 1
          /\ UNCHANGED <<runner, phase, ok, left, objects, owner, guards, release, meter, fresh>>
       \/ Fail(Now.undo)

\* What h owned goes with it.
HandOver ==
    /\ Running({"give", "hand"})
    /\ \/ /\ owner' = [x \in Handles |-> IF x = Now.h \/ owner[x] = Now.h
                                         THEN CHOOSE o \in Now.uses : TRUE ELSE owner[x]]
          /\ at' = at + 1
          /\ UNCHANGED <<runner, phase, ok, left, objects, guards, release, meter, fresh>>
       \/ Now.op = "give" /\ Fail(Now.undo)

\* Freeing h frees what it owns; freeing what is freed already is recorded,
\* and NULL is left alone. after: what the handle holds then.
Freed(h, after) ==
    /\ objects' = [x \in Handles |->
          IF x = h /\ objects[x] = "freed" THEN "twice"
          ELSE IF (x = h \/ owner[x] = h) /\ objects[x] = "live" THEN after
          ELSE objects[x]]
    /\ owner' = [x \in Handles |-> IF x = h \/ owner[x] = h THEN "none" ELSE owner[x]]

FreeByHand ==
    /\ Running({"free", "forget"})
    /\ Freed(Now.h, IF Now.op = "forget" THEN "null" ELSE "freed")
    /\ at' = at + 1
    /\ UNCHANGED <<runner, phase, ok, left, guards, release, meter, fresh>>

DropGuard ==
    /\ Running({"drop"})
    /\ Freed(Head(Last(guards)), "freed")
    /\ guards' = Front(guards)
    /\ at' = at + 1
    /\ UNCHANGED <<runner, phase, ok, left, release, meter, fresh>>

SetMeter ==
    /\ Running({"meter"})
    /\ meter' = Now.h
    /\ fresh' = {}
    /\ at' = at + 1
    /\ UNCHANGED <<runner, phase, ok, left, objects, owner, guards, release>>

\* Every loop runs at least once.
MayRepeat == left > 0

RepeatOrGoOn ==
    /\ Running({"repeat"})
    /\ \/ MayRepeat /\ at' = at - Now.back /\ left' = left - 1
       \/ at' = at + 1 /\ left' = left
    /\ UNCHANGED <<runner, phase, ok, objects, owner, guards, release, meter, fresh>>

-----------------------------------------------------------------------------
\* The end of the function.
Return ==
    /\ phase = "run" /\ at > Len(Steps)
    /\ phase' = "release"
    /\ release' = Held(guards)
    /\ guards' = <<>>
    /\ UNCHANGED <<runner, ok, at, left, objects, owner, meter, fresh>>

ReleaseNext ==
    /\ phase = "release"
    /\ release # <<>>
    /\ Freed(Head(release), "freed")
    /\ release' = Tail(release)
    /\ UNCHANGED <<runner, phase, ok, at, left, guards, meter, fresh>>

Returned ==
    /\ phase = "release"
    /\ release = <<>>
    /\ phase' = "done"
    /\ UNCHANGED <<runner, ok, at, left, objects, owner, guards, release, meter, fresh>>

Ended == phase = "done" /\ UNCHANGED runner_vars

RunnerNext ==
    \/ Acquire \/ CheckNulls \/ NewGuard \/ UseObject \/ HandOver
    \/ FreeByHand \/ DropGuard \/ SetMeter \/ RepeatOrGoOn
    \/ Return \/ ReleaseNext \/ Returned \/ Ended

RunnerSpec == RunnerInit /\ [][RunnerNext]_runner_vars

-----------------------------------------------------------------------------
MustOutlive == Needs[Recipes[runner].rt]
Live(h) == objects[h] = "live"

\* No call into a runtime is given an object that is not there, whatever
\* failed before it, and no object is freed twice: by hand and by its guard, or
\* by its new owner and the old one.
UsesAreLive ==
    /\ \A h \in Handles : objects[h] # "twice"
    /\ Running({"use", "call", "give", "hand"}) => \A h \in Now.uses : Live(h)
    /\ Running({"take", "create", "may"}) => \A p \in MustOutlive : p[1] = Now.h => Live(p[2])

\* An object is there as long as anything built on it (the careful runners).
DependenciesOutlive ==
    runner \in Careful => \A p \in MustOutlive : Live(p[1]) => Live(p[2])

\* Whatever a runner created is freed when it returns, after a failure too if it
\* is a careful one, and no sample drops the pointer to what it has not freed.
NothingLeaks ==
    /\ (phase = "done" /\ (ok \/ runner \in Careful)) => \A h \in Handles : ~Live(h)
    /\ Running({"take", "create", "may"}) => ~Live(Now.h)

\* What is measured is the case: where a case instantiates for each sample, what
\* is timed is a call on an instance created since the clock started
\* (measure_samples); nothing is freed while a sample's clock runs, and a window
\* of calls holds nothing but calls (the careful runners).
TeardownIsNotMeasured ==
    /\ [](Recipes[runner].kind = "samples" /\ Running({"call"})
            => meter = "clock" /\ Now.uses \subseteq fresh)
    /\ [][(runner \in Careful /\ meter # "off" /\ meter' = meter) =>
             /\ \A h \in Handles : Live(h) => Live(h)'
             /\ meter = "window" => objects' = objects]_runner_vars

\* As wasm3.rs ("wasm3 requires the wasm bytes to outlive the module") and
\* wamr.rs ("WAMR keeps pointers into the bytes for the module's lifetime")
\* have it.
BytesOutliveModule == Live("module") => Live("bytes")
=============================================================================
