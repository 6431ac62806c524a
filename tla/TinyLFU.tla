------------------------------ MODULE TinyLFU ------------------------------
(***************************************************************************)
(* The W-TinyLFU policy of tinylfu.go: the segments window, protected and  *)
(* probationary (most recent first), their budgets, the sketch of use      *)
(* frequencies and the number of operations since it was last aged.        *)
(***************************************************************************)
EXTENDS Integers, Sequences, FiniteSets, SequencesExt, Sketch

CONSTANT NoKey

(* The doubly linked lists as sequences: a node is pushed at one end, and  *)
(* unlinking one that is not on the list does nothing.                     *)
PushHead(list, k) == <<k>> \o list
Unlink(list, k) == Remove(list, k)

AtLeastOne(n) == IF n < 1 THEN 1 ELSE n

(* tinyLFUSplitBudget and tinyLFUAgeThreshold.                             *)
SetBudget(p, b) ==
    LET part == AtLeastOne(b \div 100)
        window == IF part >= b THEN 1 ELSE part
        main == AtLeastOne(b - window)
        most == AtLeastOne((main * 80) \div 100)
        protected == IF most >= main THEN AtLeastOne(main - 1) ELSE most
        threshold == IF b = 0 THEN 128 ELSE 2 * b
    IN  IF b <= 0
        THEN [p EXCEPT !.windowBudget = 0, !.protectedBudget = 0,
                       !.probationaryBudget = 0, !.ageThreshold = threshold]
        ELSE [p EXCEPT !.windowBudget = window, !.protectedBudget = protected,
                       !.probationaryBudget = AtLeastOne(main - protected),
                       !.ageThreshold = threshold]

NewPolicy(b) ==
    SetBudget([window |-> <<>>, protected |-> <<>>, probationary |-> <<>>,
               windowBudget |-> 0, protectedBudget |-> 0, probationaryBudget |-> 0,
               sketch |-> NewSketch, ops |-> 0, ageThreshold |-> 0], b)

Age(p) == [p EXCEPT !.sketch = Halve(@), !.ops = 0]

(* Reset empties the segments and ages the sketch.                         *)
ResetPolicy(p) ==
    [Age(p) EXCEPT !.window = <<>>, !.protected = <<>>, !.probationary = <<>>]

Observe(p, k) ==
    LET seen == [p EXCEPT !.sketch = Increment(@, k), !.ops = @ + 1]
    IN  IF seen.ops >= p.ageThreshold THEN Age(seen) ELSE seen

OnInsert(p, k) == Observe([p EXCEPT !.window = PushHead(@, k)], k)

(* The entries of protected beyond its budget go, one by one from its end, *)
(* to the front of probationary.                                           *)
RECURSIVE Demote(_)
Demote(p) ==
    IF Len(p.protected) <= p.protectedBudget THEN p
    ELSE Demote([p EXCEPT !.protected = Front(@),
                          !.probationary = PushHead(@, Last(p.protected))])

OnAccess(p, k) ==
    Observe(IF Contains(p.window, k) THEN [p EXCEPT !.window = PushHead(Unlink(@, k), k)]
            ELSE IF Contains(p.protected, k)
            THEN [p EXCEPT !.protected = PushHead(Unlink(@, k), k)]
            ELSE Demote([p EXCEPT !.probationary = Unlink(@, k),
                                  !.protected = PushHead(@, k)]), k)


OnRemove(p, k) == [p EXCEPT !.window = Unlink(@, k), !.protected = Unlink(@, k),
                            !.probationary = Unlink(@, k)]

-----------------------------------------------------------------------------
(* Victim.  One turn of its loop ends it with a key, or with NoKey because *)
(* no segment is over its budget, or moves an entry to probationary.       *)

Move(p) == [policy |-> p, key |-> NoKey, done |-> FALSE]
Give(p, k) == [policy |-> OnRemove(p, k), key |-> k, done |-> TRUE]

(* handleWindowDemotion: the window's oldest entry competes with the       *)
(* oldest of probationary.                                                 *)
WindowDemotion(p) ==
    LET candidate == Last(p.window)
        demoted == [p EXCEPT !.window = Front(@), !.probationary = PushHead(@, candidate)]
    IN  IF Len(p.probationary) < p.probationaryBudget THEN Move(demoted)
        ELSE IF p.probationary = <<>> THEN Give(p, candidate)
        ELSE LET victim == Last(p.probationary)
             IN  IF Estimate(p.sketch, candidate) > Estimate(p.sketch, victim)
                 THEN Give(demoted, victim)
                 ELSE Give(p, candidate)

Turn(p) ==
    IF Len(p.window) > p.windowBudget THEN WindowDemotion(p)
    ELSE IF Len(p.probationary) > p.probationaryBudget THEN Give(p, Last(p.probationary))
    ELSE IF Len(p.protected) > p.protectedBudget
    THEN Move([p EXCEPT !.protected = Front(@),
                        !.probationary = PushHead(@, Last(p.protected))])
    ELSE [policy |-> p, key |-> NoKey, done |-> TRUE]

(* The loop: at most n turns, done being FALSE when they run out.          *)
RECURSIVE Turns(_, _)
Turns(p, n) ==
    IF n = 0 THEN Move(p)
    ELSE LET t == Turn(p) IN IF t.done THEN t ELSE Turns(t.policy, n - 1)

MaxTurns(p) == Len(p.window) + Len(p.protected) + Len(p.probationary) + 1

(* The oldest of probationary, else of window, else of protected: what     *)
(* Victim falls back on, and shed.                                         *)
Oldest(p) == LET tails == SelectSeq(<<p.probationary, p.window, p.protected>>,
                                    LAMBDA s : s # <<>>)
             IN  IF tails = <<>> THEN [policy |-> p, key |-> NoKey]
                 ELSE [policy |-> OnRemove(p, Last(tails[1])), key |-> Last(tails[1])]

Victim(p) ==
    LET t == Turns(p, MaxTurns(p))
    IN  IF t.done THEN [policy |-> t.policy, key |-> t.key] ELSE Oldest(t.policy)

Shed(p) == Oldest(p)

Tracked(p) == p.window \o p.protected \o p.probationary

-----------------------------------------------------------------------------
(* Victim's loop never runs out of turns, so it does not fall back on the  *)
(* oldest entry of a segment that is within its budget.                    *)
TurnsSuffice(p) == Turns(p, MaxTurns(p)).done
=============================================================================
