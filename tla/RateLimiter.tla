---------------------------- MODULE RateLimiter ----------------------------
(***************************************************************************)
(* The token bucket of ratelimit.go.  The unit of time is what refills one *)
(* Unit-th of a token, so the float64 arithmetic is on whole numbers: a    *)
(* token is Unit, and as much time as refills the bucket is Rate * Unit.   *)
(***************************************************************************)
EXTENDS Integers, FiniteSetsExt

CONSTANTS
    Rate,  \* tokens per second, and the bucket's capacity
    Unit   \* units of time that refill one token

Capacity == Rate * Unit

NewRateLimiter == [tokens |-> Capacity, last |-> 0]

(* Mutant of Refill: the bucket has no brim.                               *)
RefillUncapped(l, now) ==
    IF now > l.last THEN [tokens |-> l.tokens + (now - l.last), last |-> now] ELSE l

(* A clock that has not moved on, or has moved back, refills nothing.      *)
Refill(l, now) ==
    IF now > l.last
    THEN [tokens |-> Min({Capacity, l.tokens + (now - l.last)}), last |-> now]
    ELSE l

(* Allow.                                                                  *)
Allows(l, now) == Refill(l, now).tokens >= Unit
Allow(l, now) ==
    LET r == Refill(l, now)
    IN  IF Allows(l, now) THEN [r EXCEPT !.tokens = @ - Unit] ELSE r
=============================================================================
