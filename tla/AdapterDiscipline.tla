-------------------------- MODULE AdapterDiscipline --------------------------
(***************************************************************************)
(* What can be told of a runner from its recipe alone: what is known       *)
(* before each of its steps (Context), whatever failed or was repeated     *)
(* before it, and what a step may rely on then (Allowed). The assumption   *)
(* at the end, that every runner keeps to this, is a finite matter that    *)
(* TLC evaluates; that keeping to it is enough, for any number of          *)
(* repetitions, is proved in Harness_proofs.                               *)
(***************************************************************************)
EXTENDS AdapterRecipes

\* Nothing is freed twice.
States == {"null", "live", "freed"}

\* What goes when g is freed.
GoesWith(g, h, owners) == h = g \/ owners[h] = g

-----------------------------------------------------------------------------
(* Contexts. In a context the state of an object is a set, of those it may *)
(* be in; owners, guards and the meter are known, and fresh is what is     *)
(* fresh for certain.                                                      *)

AtEntry ==
    [objects |-> [h \in Handles |-> {"null"}], owner |-> [h \in Handles |-> "none"],
     guards |-> <<>>, meter |-> "off", fresh |-> {}]

Acquires(s) == s.op \in {"take", "create", "may"}
Frees(s) == s.op \in {"free", "forget", "drop"}
Freeing(c, s) == IF s.op = "drop" THEN Head(Last(c.guards)) ELSE s.h

\* What is known once s has gone well.
ObjectsAfter(c, s) ==
    [h \in Handles |->
        IF Acquires(s) /\ h = s.h THEN IF s.op = "may" THEN {"null", "live"} ELSE {"live"}
        ELSE IF s.op = "check" /\ h \in s.uses THEN {"live"}
        ELSE IF Frees(s) /\ GoesWith(Freeing(c, s), h, c.owner)
        THEN {IF o = "live" THEN IF s.op = "forget" THEN "null" ELSE "freed" ELSE o :
                o \in c.objects[h]}
        ELSE c.objects[h]]

OwnerAfter(c, s) ==
    [h \in Handles |->
        IF s.op \in {"give", "hand"} /\ GoesWith(s.h, h, c.owner)
        THEN CHOOSE o \in s.uses : TRUE
        ELSE IF Frees(s) /\ GoesWith(Freeing(c, s), h, c.owner) THEN "none"
        ELSE c.owner[h]]

GuardsAfter(c, s) ==
    IF s.op = "drop" THEN Front(c.guards)
    ELSE IF s.op \in {"take", "create", "may", "guard"} /\ s.guard # <<>>
    THEN Append(c.guards, s.guard)
    ELSE c.guards

After(c, s) ==
    [objects |-> ObjectsAfter(c, s),
     owner |-> OwnerAfter(c, s),
     guards |-> GuardsAfter(c, s),
     meter |-> IF s.op = "meter" THEN s.h ELSE c.meter,
     fresh |-> IF s.op = "meter" THEN {} ELSE IF Acquires(s) THEN c.fresh \cup {s.h} ELSE c.fresh]

\* Every state c allows, d allows.
Covers(d, c) ==
    /\ \A h \in Handles : c.objects[h] \subseteq d.objects[h]
    /\ d.owner = c.owner /\ d.guards = c.guards /\ d.meter = c.meter
    /\ d.fresh \subseteq c.fresh

Either(c, d) ==
    [c EXCEPT !.objects = [h \in Handles |-> c.objects[h] \cup d.objects[h]],
              !.fresh = c.fresh \cap d.fresh]

\* Before each step and at the end. A step that is repeated from is reached
\* from the one before it and from the end of the repetition.
Contexts(steps) ==
    LET once[i \in 1..Len(steps) + 1] ==
            IF i = 1 THEN AtEntry ELSE After(once[i - 1], steps[i - 1])
        Rejoined(i, c) ==
            LET ends == {j \in i..Len(steps) : steps[j].op = "repeat" /\ j - steps[j].back = i}
            IN  IF ends = {} THEN c ELSE Either(c, once[CHOOSE j \in ends : TRUE])
        known[i \in 1..Len(steps) + 1] ==
            Rejoined(i, IF i = 1 THEN AtEntry ELSE After(known[i - 1], steps[i - 1]))
    IN  known

ContextsOf == [r \in Runners |-> Contexts(Recipes[r].steps)]
Context(r, i) == ContextsOf[r][i]
NeedsOf(r) == Needs[Recipes[r].rt]

-----------------------------------------------------------------------------
(* Releases. plan is what is freed on the way out, in order.               *)

\* Nothing in it is freed already, or by another, or twice.
Releasable(known, owners, plan) ==
    /\ plan \in Seq(Handles)
    /\ \A i, j \in DOMAIN plan : plan[i] = plan[j] => i = j
    /\ \A i \in DOMAIN plan : "freed" \notin known[plan[i]] /\ owners[plan[i]] = "none"

\* It leaves nothing.
Complete(known, owners, plan) ==
    \A h \in Handles :
        "live" \in known[h] => \E i \in DOMAIN plan : GoesWith(plan[i], h, owners)

\* What needs an object goes no later than the object.
Ordered(known, owners, plan, needs) ==
    \A p \in needs : \A i \in DOMAIN plan :
        ("live" \in known[p[1]] /\ GoesWith(plan[i], p[2], owners)) =>
            \E j \in 1..i : GoesWith(plan[j], p[1], owners)

MayLeave(r, c, plan, well) ==
    /\ Releasable(c.objects, c.owner, plan)
    /\ (well \/ r \in Careful) => Complete(c.objects, c.owner, plan)
    /\ r \in Careful => Ordered(c.objects, c.owner, plan, NeedsOf(r))

-----------------------------------------------------------------------------
(* The discipline.                                                         *)

Known(c, h) == c.objects[h] = {"live"}

\* What is built stands on what is there.
Founded(r, c) ==
    r \in Careful => \A p \in NeedsOf(r) : "live" \in c.objects[p[1]] => Known(c, p[2])

MayAcquire(r, c, s) ==
    /\ s.h \in Handles
    /\ "live" \notin c.objects[s.h]
    /\ \A p \in NeedsOf(r) : p[1] = s.h => Known(c, p[2])
    /\ r \in Careful => c.meter # "window"

MayUse(r, c, s) ==
    /\ s.uses \subseteq Handles
    /\ s.op \in {"give", "hand"} => s.uses # {}
    /\ \A h \in s.uses : Known(c, h)
    /\ s.op = "call" /\ Recipes[r].kind = "samples" => c.meter = "clock" /\ s.uses \subseteq c.fresh

MayFree(r, c, s) ==
    /\ Freeing(c, s) \in Handles
    /\ "freed" \notin c.objects[Freeing(c, s)]
    /\ (r \in Careful /\ c.meter # "off") =>
          \A h \in Handles : GoesWith(Freeing(c, s), h, c.owner) => "live" \notin c.objects[h]

Allowed(r, c, s) ==
    /\ Acquires(s) => MayAcquire(r, c, s)
    /\ s.op = "check" => s.uses \subseteq Handles
    /\ s.op \in {"use", "call", "give", "hand"} => MayUse(r, c, s)
    /\ Frees(s) => MayFree(r, c, s)
    /\ s.op = "drop" => c.guards # <<>> /\ Len(Last(c.guards)) = 1
    /\ s.op \in {"take", "use", "call", "give"} => MayLeave(r, c, s.undo \o Held(c.guards), FALSE)
    /\ s.op = "check" => MayLeave(r, c, Held(c.guards), FALSE)

Disciplined(r) ==
    LET steps == Recipes[r].steps
        last == Context(r, Len(steps) + 1)
    IN  /\ Covers(Context(r, 1), AtEntry)
        /\ \A i \in 1..Len(steps) :
              /\ Allowed(r, Context(r, i), steps[i])
              /\ Covers(Context(r, i + 1), After(Context(r, i), steps[i]))
              /\ steps[i].op = "repeat" =>
                    /\ i - steps[i].back \in 1..i
                    /\ Covers(Context(r, i - steps[i].back), Context(r, i))
        /\ \A i \in 1..Len(steps) + 1 : Founded(r, Context(r, i))
        /\ MayLeave(r, last, Held(last.guards), TRUE)
        /\ r \in Careful => last.meter = "off"

ASSUME NeedsAssumption == \A r \in Runners : NeedsOf(r) \subseteq Handles \X Handles
ASSUME DisciplineAssumption == \A r \in Runners : Len(Recipes[r].steps) \in Nat /\ Disciplined(r)

=============================================================================
