------------------------- MODULE TokenBucketProofs -------------------------
(***************************************************************************)
(* The rate limiter keeps its limit and never gives up, for every capacity, *)
(* cost, pause and oversleep.                                              *)
(***************************************************************************)
EXTENDS TokenBucket, TLAPS

\* What has been acquired since mark and what could be acquired at once fit
\* the allowance; before the first refill after mark nothing was acquired.
Allowance ==
    IF last < mark THEN spent = 0
                   ELSE spent + tokens <= Capacity + (last - mark)

\* A caller that has slept finds its tokens, if the bucket holds its cost.
SleepPays ==
    /\ pc = "asleep" => waits = 1 /\ last = clock /\ tokens < cost
    /\ pc = "trying" => waits = 0 \/ (waits = 1 /\ Refilled >= cost)
    /\ pc = "away" => waits <= 1
    /\ pc # "failed"

Inv ==
    /\ TypeOK
    /\ last <= clock /\ mark <= clock
    /\ Allowance
    /\ SleepPays

\* A refill stays within the capacity and within what the time gave.
LEMMA RefillBounds ==
    ASSUME TypeOK, last <= clock
    PROVE  /\ Refilled \in 0..Capacity
           /\ tokens <= Refilled
           /\ Refilled <= tokens + (clock - last)
           /\ Refilled = Capacity \/ Refilled = tokens + (clock - last)
BY BucketAssumption DEF TypeOK, Refilled, Least

\* A refill at the present instant keeps the allowance, and so does a refill of
\* which c tokens are acquired.
LEMMA RefillKeepsAllowance ==
    ASSUME Inv, NEW c \in Nat, c <= Refilled
    PROVE  spent + c + (Refilled - c) <= Capacity + (clock - mark)
<1>1. /\ Refilled \in Int /\ Refilled <= Capacity
      /\ Refilled <= tokens + (clock - last)
  BY RefillBounds, BucketAssumption DEF Inv
<1>2. /\ tokens \in Int /\ last \in Int /\ clock \in Int /\ mark \in Int
      /\ spent \in Int /\ Capacity \in Int /\ mark <= clock
  BY BucketAssumption DEF Inv, TypeOK
<1>3. CASE last < mark
  BY <1>1, <1>2, <1>3 DEF Inv, Allowance
<1>4. CASE ~(last < mark)
  BY <1>1, <1>2, <1>4 DEF Inv, Allowance
<1> QED
  BY <1>3, <1>4

LEMMA InitInv == Init => Inv
BY BucketAssumption
DEF Init, Inv, TypeOK, Allowance, SleepPays, Refilled, Least

LEMMA NextInv == Inv /\ [Next]_vars => Inv'
<1> SUFFICES ASSUME Inv, [Next]_vars PROVE Inv'
  OBVIOUS
<1> USE BucketAssumption DEF Inv, TypeOK, Allowance, SleepPays, bucket, caller
<1>1. ASSUME NEW gap \in Gaps, Away(gap) PROVE Inv'
  <2>1. gap \in Nat
    OBVIOUS
  <2> QED
    BY <1>1, <2>1 DEF Away
<1>2. CASE Inspect
  <2>1. 0 \in Nat /\ 0 <= Refilled /\ Refilled \in 0..Capacity
    BY RefillBounds
  <2>2. spent + Refilled <= Capacity + (clock - mark)
    BY <2>1, RefillKeepsAllowance
  <2> QED
    BY <1>2, <2>1, <2>2 DEF Inspect
<1>3. ASSUME NEW c \in Costs, CallAcquire(c) PROVE Inv'
  <2>1. c \in 1..Capacity
    OBVIOUS
  <2> QED
    BY <1>3, <2>1 DEF CallAcquire
<1>4. CASE Take
  <2>1. Refilled \in 0..Capacity /\ cost \in Nat /\ cost <= Refilled
    BY <1>4, RefillBounds DEF Take
  <2>2. spent + cost + (Refilled - cost) <= Capacity + (clock - mark)
    BY <2>1, RefillKeepsAllowance
  <2> QED
    BY <1>4, <2>1, <2>2 DEF Take
<1>5. CASE Wait
  <2>1. 0 \in Nat /\ 0 <= Refilled /\ Refilled \in 0..Capacity
    BY RefillBounds
  <2>2. spent + Refilled <= Capacity + (clock - mark)
    BY <2>1, RefillKeepsAllowance
  <2>3. waits = 0
    BY <1>5, <2>1 DEF Wait
  <2> QED
    BY <1>5, <2>1, <2>2, <2>3 DEF Wait
<1>6. ASSUME NEW extra \in Oversleep, WakeUp(extra) PROVE Inv'
  <2>1. extra \in Nat
    OBVIOUS
  <2>2. clock' = clock + (cost - tokens) + extra /\ clock' >= clock
    BY <1>6, <2>1 DEF WakeUp
  <2>3. Refilled' >= cost
    BY <1>6, <2>1, <2>2 DEF WakeUp, Refilled, Least
  <2> QED
    BY <1>6, <2>1, <2>2, <2>3 DEF WakeUp
<1>7. CASE Observe
  BY <1>7 DEF Observe, Refilled
<1>8. CASE UNCHANGED vars
  BY <1>8 DEF vars, Refilled
<1> QED
  BY <1>1, <1>2, <1>3, <1>4, <1>5, <1>6, <1>7, <1>8 DEF Next

LEMMA Invariance == Spec => []Inv
BY InitInv, NextInv, PTL DEF Spec

\* The bucket is never overdrawn nor overfull, and the loop of acquire is never
\* past its bound.
THEOREM TypeCorrect == Spec => []TypeOK
BY Invariance, PTL DEF Inv

\* In every interval, at most the capacity plus what the interval refills is
\* acquired: requests are paced below the allowance of Helix.
THEOREM AlwaysRateLimited == Spec => []RateLimited
<1>1. Inv => RateLimited
  <2> SUFFICES ASSUME Inv PROVE RateLimited
    OBVIOUS
  <2>1. 0 \in Nat /\ 0 <= Refilled /\ Refilled \in 0..Capacity
    BY RefillBounds, BucketAssumption DEF Inv
  <2>2. spent + Refilled <= Capacity + (clock - mark)
    BY <2>1, RefillKeepsAllowance, BucketAssumption DEF Inv, TypeOK
  <2> QED
    BY <2>1, <2>2, BucketAssumption DEF RateLimited, Inv, TypeOK
<1> QED
  BY <1>1, Invariance, PTL

\* A request sleeps at most once, so acquire never raises its RuntimeError, if
\* sleep() never returns early.
THEOREM AcquireNeverGivesUp == Spec => []OneWaitSuffices
<1>1. Inv => OneWaitSuffices
  BY DEF Inv, TypeOK, SleepPays, OneWaitSuffices
<1> QED
  BY <1>1, Invariance, PTL
=============================================================================
