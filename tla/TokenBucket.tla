---------------------------- MODULE TokenBucket ----------------------------
(***************************************************************************)
(* The client-side rate limiter, src/twitch_scout/twitch/ratelimit.py, and *)
(* the one caller it has.  Tokens are measured in the time it takes to     *)
(* refill them, so a tick of the clock refills one: for Helix, with ticks  *)
(* of a millisecond, Capacity is 60000 (800 points a minute) and a request *)
(* costs 75.  The code computes the same quantities in floating point.     *)
(***************************************************************************)
EXTENDS Integers

CONSTANTS
    Capacity,
    Costs,      \* what a request may cost
    MaxWaits,   \* _MAX_WAITS
    Gaps,       \* how long the caller may be away between two requests
    Oversleep,  \* how much longer than asked sleep() may take
    Horizon     \* bound: no request starts after it

ASSUME BucketAssumption ==
    /\ Capacity \in Nat \ {0}
    /\ Costs \subseteq 1..Capacity
    /\ MaxWaits \in Nat /\ MaxWaits >= 2
    /\ Gaps \subseteq Nat
    /\ Oversleep \subseteq Nat
    /\ Horizon \in Nat

VARIABLES
    clock,   \* monotonic()
    tokens,
    last,    \* when tokens was last brought up to date
    pc,      \* the caller: away, in acquire's loop, asleep, or hit RuntimeError
    cost,    \* of the request in acquire
    waits,   \* how often it has slept
    mark,    \* history: the start of an interval, any interval
    spent    \* history: what was acquired since mark

bucket == <<tokens, last>>
caller == <<pc, cost, waits>>
vars == <<clock, bucket, caller, mark, spent>>

TypeOK ==
    /\ clock \in Nat
    /\ tokens \in 0..Capacity
    /\ last \in Nat
    /\ pc \in {"away", "trying", "asleep", "failed"}
    /\ cost \in 1..Capacity
    /\ waits \in 0..MaxWaits
    /\ mark \in Nat
    /\ spent \in Nat

Init ==
    /\ clock = 0
    /\ tokens = Capacity
    /\ last = 0
    /\ pc = "away"
    /\ cost = 1
    /\ waits = 0
    /\ mark = 0
    /\ spent = 0

Least(a, b) == IF a < b THEN a ELSE b

\* _refill, at the present reading of the clock.
Refilled == Least(Capacity, tokens + (clock - last))

\* The caller does something else for a while.
Away(gap) ==
    /\ pc = "away"
    /\ clock < Horizon
    /\ clock' = clock + gap
    /\ UNCHANGED <<bucket, caller, mark, spent>>

\* The property `available`.
Inspect ==
    /\ pc = "away"
    /\ tokens' = Refilled
    /\ last' = clock
    /\ UNCHANGED <<clock, caller, mark, spent>>

CallAcquire(c) ==
    /\ pc = "away"
    /\ clock <= Horizon
    /\ pc' = "trying"
    /\ cost' = c
    /\ waits' = 0
    /\ UNCHANGED <<clock, bucket, mark, spent>>

\* Slip: the time of the refill not remembered.
TakeTwice ==
    /\ pc = "trying"
    /\ Refilled >= cost
    /\ tokens' = Refilled - cost
    /\ spent' = spent + cost
    /\ pc' = "away"
    /\ UNCHANGED <<clock, last, cost, waits, mark>>

\* An iteration that finds the tokens it needs.
Take ==
    /\ pc = "trying"
    /\ Refilled >= cost
    /\ tokens' = Refilled - cost
    /\ last' = clock
    /\ spent' = spent + cost
    /\ pc' = "away"
    /\ UNCHANGED <<clock, cost, waits, mark>>

\* One that does not, and goes to sleep.
Wait ==
    /\ pc = "trying"
    /\ Refilled < cost
    /\ tokens' = Refilled
    /\ last' = clock
    /\ waits' = waits + 1
    /\ pc' = "asleep"
    /\ UNCHANGED <<clock, cost, mark, spent>>

\* Slip: a sleep one tick short.
WakeUpEarly(extra) ==
    /\ pc = "asleep"
    /\ clock' = clock + (cost - tokens) - 1
    /\ pc' = IF waits < MaxWaits THEN "trying" ELSE "failed"
    /\ UNCHANGED <<bucket, cost, waits, mark, spent>>

\* sleep((cost - tokens) / refill_per_sec) returns, perhaps late.  After the
\* last iteration the loop ends in a RuntimeError.
WakeUp(extra) ==
    /\ pc = "asleep"
    /\ clock' = clock + (cost - tokens) + extra
    /\ pc' = IF waits < MaxWaits THEN "trying" ELSE "failed"
    /\ UNCHANGED <<bucket, cost, waits, mark, spent>>

\* The observer starts a new interval.
Observe ==
    /\ mark' = clock
    /\ spent' = 0
    /\ UNCHANGED <<clock, bucket, caller>>

Next ==
    \/ \E gap \in Gaps : Away(gap)
    \/ Inspect
    \/ \E c \in Costs : CallAcquire(c)
    \/ Take \/ Wait
    \/ \E extra \in Oversleep : WakeUp(extra)
    \/ Observe

Spec == Init /\ [][Next]_vars

----------------------------------------------------------------------------
(* Properties *)

\* In no interval is more acquired than a full bucket and what the interval
\* refills, whatever the pauses, the sleeps and the costs: this is the limit
\* Helix enforces.
RateLimited == spent <= Capacity + (clock - mark)

\* "One refill wait should always suffice" (ratelimit.py:20): acquire sleeps at
\* most once, so the bounded loop never ends in its RuntimeError.
OneWaitSuffices == waits <= 1 /\ pc # "failed"
=============================================================================
