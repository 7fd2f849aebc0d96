------------------------- MODULE HelixClientProofs -------------------------
(***************************************************************************)
(* The token that leaves for Twitch, and the bucket before every request,  *)
(* for every number of retries and tokens, every lifetime and every wait   *)
(* that the margin allows for.                                             *)
(***************************************************************************)
EXTENDS HelixClient, TLAPS

\* What the margin has to cover: the exchange that fetched the token, the sleep
\* in the bucket and the way to Twitch.  The code has 300 seconds, or half a
\* lifetime, against timeouts of ten and waits of less than one.
WaitsWithinMargin ==
    \A d \in Latencies, wait \in BucketWaits, e \in Latencies, lifetime \in Lifetimes :
        d + wait + e <= Least(Margin, lifetime \div 2)

\* Half a lifetime is less than the lifetime.
LEMMA HalfOfLifetime ==
    ASSUME NEW lifetime \in Lifetimes
    PROVE  /\ lifetime \in Nat /\ lifetime \div 2 \in Nat
           /\ lifetime \div 2 < lifetime
           /\ Least(Margin, lifetime \div 2) \in Nat
           /\ Least(Margin, lifetime \div 2) <= lifetime \div 2
BY ClientAssumption DEF Least

\* _expires_at lies ahead of the clock at which it was set, and short of the
\* expiry by what the margin leaves.
LEMMA ExpiresAtType ==
    ASSUME clock \in Nat, NEW d \in Latencies, NEW lifetime \in Lifetimes
    PROVE  /\ clock + d + lifetime - Least(Margin, lifetime \div 2) \in Nat
           /\ clock + lifetime \in Nat
<1>1. lifetime \in Nat /\ d \in Nat
  BY ClientAssumption
<1>2. /\ Least(Margin, lifetime \div 2) \in Nat
      /\ Least(Margin, lifetime \div 2) <= lifetime
  BY HalfOfLifetime
<1> HIDE DEF Least
<1> QED
  BY <1>1, <1>2

\* The labels are places and outcomes; a leaf that needs one need not see all.
LEMMA Labels ==
    /\ "idle" \in Places /\ "ensuring" \in Places /\ "fetching" \in Places
    /\ "pacing" \in Places /\ "sending" \in Places /\ "backing off" \in Places
    /\ "none" \in Outcomes /\ "ok" \in Outcomes
    /\ "TwitchError" \in Outcomes /\ "other error" \in Outcomes
BY DEF Places, Outcomes

\* What the steps do to the counters and the clock, apart from the labels.
LEMMA Counting ==
    /\ 0 <= MaxRetries /\ 0 \in 0..(MaxRetries + 1)
    /\ \A n \in 0..(MaxRetries + 1) :
          /\ n <= MaxRetries => n + 1 \in 0..(MaxRetries + 1)
          /\ n < MaxRetries => n + 1 <= MaxRetries
    /\ \A i \in 0..MaxTokens :
          /\ i < MaxTokens => i + 1 \in 0..MaxTokens /\ i + 1 # NoToken
          /\ i # NoToken => i \in 1..MaxTokens
    /\ NoToken \in 0..MaxTokens
    /\ \A u \in Int : u + 1 \in Int /\ u - 1 \in Int
    /\ \A t \in Nat, d \in Latencies \cup BucketWaits \cup RetryAfters \cup Pauses :
          t + d \in Nat
BY ClientAssumption DEF NoToken

----------------------------------------------------------------------------
(* Types *)

\* The loop is never past its bound while it runs, and what it sends is a token.
Looping ==
    /\ pc # "idle" => attempts <= MaxRetries
    /\ pc \in {"pacing", "sending"} => token # NoToken

TypeInv == TypeOK /\ Looping

LEMMA NextTypeInv == TypeInv /\ [Next]_vars => TypeInv'
<1> SUFFICES ASSUME TypeInv, [Next]_vars PROVE TypeInv'
  OBVIOUS
<1> USE Counting, Labels DEF TypeInv, TypeOK, Looping, client, twitch, history
<1>1. CASE Call
  BY <1>1 DEF Call
<1>2. CASE EnsureToken
  BY <1>2 DEF EnsureToken, NeedsToken
<1>3. ASSUME NEW d \in Latencies, NEW lifetime \in Lifetimes, TokenIssued(d, lifetime)
      PROVE  TypeInv'
  BY <1>3, ExpiresAtType DEF TokenIssued
<1>4. ASSUME NEW d \in Latencies, TokenFails(d) PROVE TypeInv'
  BY <1>4 DEF TokenFails, Return
<1>5. ASSUME NEW wait \in BucketWaits, Acquire(wait) PROVE TypeInv'
  BY <1>5 DEF Acquire
<1>6. ASSUME NEW d \in Latencies, Unauthorized(d) PROVE TypeInv'
  BY <1>6 DEF Unauthorized, Retry, Return
<1>7. ASSUME NEW d \in Latencies, Answered(d) \/ Refused(d) \/ TooManyRequests(d)
      PROVE  TypeInv'
  BY <1>7 DEF Answered, Refused, TooManyRequests, Return
<1>8. ASSUME NEW wait \in RetryAfters, BackOff(wait) PROVE TypeInv'
  BY <1>8 DEF BackOff, Retry, Return
<1>9. CASE Revoke
  BY <1>9 DEF Revoke, NoToken
<1>10. ASSUME NEW d \in Pauses, Pause(d) PROVE TypeInv'
  BY <1>10 DEF Pause
<1>11. CASE UNCHANGED vars
  BY <1>11 DEF vars
<1> QED
  BY <1>1, <1>2, <1>3, <1>4, <1>5, <1>6, <1>7, <1>8, <1>9, <1>10, <1>11
  DEF Next, Step

LEMMA TypeInvariance == Spec => []TypeInv
<1>1. ASSUME Init PROVE TypeInv
  <2>1. /\ clock \in Nat /\ expiresAt \in Nat /\ expiry \in Nat /\ unused \in Int
        /\ issued \in 0..MaxTokens /\ token \in 0..MaxTokens
    BY <1>1, ClientAssumption DEF Init, NoToken
  <2> QED
    BY <1>1, <2>1, Counting, Labels DEF Init, TypeInv, TypeOK, Looping
<1> QED
  BY <1>1, NextTypeInv, PTL DEF Spec

\* Tokens, times and the loop counter keep their types; in particular the loop
\* of _get ends within its bound.
THEOREM TypeCorrect == Spec => []TypeOK
BY TypeInvariance, PTL DEF TypeInv

----------------------------------------------------------------------------
(* Progress *)

\* What each place is worth.
LEMMA Worth ==
    /\ StepsToRetry("ensuring") = 5 /\ StepsToRetry("fetching") = 4
    /\ StepsToRetry("pacing") = 3 /\ StepsToRetry("sending") = 2
    /\ StepsToRetry("backing off") = 1
BY DEF StepsToRetry

LEMMA WorthIsBounded ==
    ASSUME NEW place \in Places, place # "idle"
    PROVE  StepsToRetry(place) \in 1..5
<1>1. \/ place = "ensuring" \/ place = "fetching" \/ place = "pacing"
      \/ place = "sending" \/ place = "backing off"
  BY DEF Places
<1>2. 1 \in 1..5 /\ 2 \in 1..5 /\ 3 \in 1..5 /\ 4 \in 1..5 /\ 5 \in 1..5
  OBVIOUS
<1> QED
  BY <1>1, <1>2, Worth, Zenon

\* A call has a step left, and no more than five for each iteration.
LEMMA StepsBounded ==
    ASSUME TypeInv
    PROVE  /\ StepsLeft \in 0..(5 * (MaxRetries + 1))
           /\ pc # "idle" => StepsLeft \in Nat \ {0}
<1>1. MaxRetries \in Nat /\ attempts \in Nat
  BY ClientAssumption DEF TypeInv, TypeOK
<1>2. CASE pc = "idle"
  BY <1>1, <1>2 DEF StepsLeft
<1>3. CASE pc # "idle"
  <2>1. StepsToRetry(pc) \in 1..5 /\ attempts <= MaxRetries
    BY <1>3, WorthIsBounded DEF TypeInv, TypeOK, Looping
  <2>2. StepsLeft = StepsToRetry(pc) + 5 * (MaxRetries - attempts)
    BY <1>3 DEF StepsLeft
  <2> HIDE DEF StepsToRetry
  <2>3. StepsLeft \in 1..(5 * (MaxRetries + 1))
    BY <1>1, <2>1, <2>2
  <2> QED
    BY <2>3
<1> QED
  BY <1>2, <1>3

\* A step that ends the call.
LEMMA Home ==
    ASSUME TypeInv, pc # "idle", pc' = "idle"
    PROVE  StepsLeft' < StepsLeft
<1>1. StepsLeft' = 0
  BY DEF StepsLeft
<1> QED
  BY <1>1, StepsBounded

\* A step that goes round the loop.
LEMMA Around ==
    ASSUME TypeInv, pc # "idle", Retry
    PROVE  StepsLeft' < StepsLeft
<1>1. MaxRetries \in Nat /\ attempts \in Nat
  BY ClientAssumption DEF TypeInv, TypeOK
<1>2. CASE attempts < MaxRetries
  <2>1. pc' = "ensuring" /\ attempts' = attempts + 1
    BY <1>2 DEF Retry
  <2>2. StepsLeft' = 5 + 5 * (MaxRetries - (attempts + 1))
    BY <2>1, Worth DEF StepsLeft
  <2>3. StepsLeft = StepsToRetry(pc) + 5 * (MaxRetries - attempts) /\ StepsToRetry(pc) \in 1..5
    BY WorthIsBounded DEF StepsLeft, TypeInv, TypeOK
  <2> QED
    BY <1>1, <2>2, <2>3
<1>3. CASE ~(attempts < MaxRetries)
  BY <1>3, Home DEF Retry, Return
<1> QED
  BY <1>2, <1>3

\* Every step of a call leaves it fewer.
LEMMA StepAdvances == TypeInv /\ Step => StepsLeft' < StepsLeft
<1> SUFFICES ASSUME TypeInv, Step PROVE StepsLeft' < StepsLeft
  OBVIOUS
<1>0. MaxRetries \in Int /\ attempts \in Int
  BY ClientAssumption DEF TypeInv, TypeOK
<1>1. CASE EnsureToken
  <2>1. PICK there \in {"fetching", "pacing"} : pc' = there
    BY <1>1 DEF EnsureToken
  <2>2. pc = "ensuring" /\ attempts' = attempts
    BY <1>1 DEF EnsureToken
  <2>3. StepsLeft = 5 + 5 * (MaxRetries - attempts)
    BY <2>2, Worth DEF StepsLeft
  <2>4. CASE there = "fetching"
    <3>1. StepsLeft' = 4 + 5 * (MaxRetries - attempts)
      BY <2>1, <2>2, <2>4, Worth DEF StepsLeft
    <3> QED
      BY <1>0, <2>3, <3>1
  <2>5. CASE there = "pacing"
    <3>1. StepsLeft' = 3 + 5 * (MaxRetries - attempts)
      BY <2>1, <2>2, <2>5, Worth DEF StepsLeft
    <3> QED
      BY <1>0, <2>3, <3>1
  <2> QED
    BY <2>1, <2>4, <2>5
<1>2. ASSUME NEW d \in Latencies, NEW lifetime \in Lifetimes, TokenIssued(d, lifetime)
      PROVE  StepsLeft' < StepsLeft
  <2>1. pc = "fetching" /\ pc' = "pacing" /\ attempts' = attempts
    BY <1>2 DEF TokenIssued
  <2>2. StepsLeft = 4 + 5 * (MaxRetries - attempts)
    BY <2>1, Worth DEF StepsLeft
  <2>3. StepsLeft' = 3 + 5 * (MaxRetries - attempts)
    BY <2>1, Worth DEF StepsLeft
  <2> QED
    BY <1>0, <2>2, <2>3
<1>3. ASSUME NEW d \in Latencies, TokenFails(d) \/ Answered(d) \/ Refused(d)
      PROVE  StepsLeft' < StepsLeft
  BY <1>3, Home DEF TokenFails, Answered, Refused, Return
<1>4. ASSUME NEW d \in Latencies, Unauthorized(d) PROVE StepsLeft' < StepsLeft
  BY <1>4, Around DEF Unauthorized
<1>5. ASSUME NEW d \in Latencies, TooManyRequests(d) PROVE StepsLeft' < StepsLeft
  <2>1. pc = "sending" /\ pc' = "backing off" /\ attempts' = attempts
    BY <1>5 DEF TooManyRequests
  <2>2. StepsLeft = 2 + 5 * (MaxRetries - attempts)
    BY <2>1, Worth DEF StepsLeft
  <2>3. StepsLeft' = 1 + 5 * (MaxRetries - attempts)
    BY <2>1, Worth DEF StepsLeft
  <2> QED
    BY <1>0, <2>2, <2>3
<1>6. ASSUME NEW wait \in BucketWaits, Acquire(wait) PROVE StepsLeft' < StepsLeft
  <2>1. pc = "pacing" /\ pc' = "sending" /\ attempts' = attempts
    BY <1>6 DEF Acquire
  <2>2. StepsLeft = 3 + 5 * (MaxRetries - attempts)
    BY <2>1, Worth DEF StepsLeft
  <2>3. StepsLeft' = 2 + 5 * (MaxRetries - attempts)
    BY <2>1, Worth DEF StepsLeft
  <2> QED
    BY <1>0, <2>2, <2>3
<1>7. ASSUME NEW wait \in RetryAfters, BackOff(wait) PROVE StepsLeft' < StepsLeft
  BY <1>7, Around DEF BackOff
<1> QED
  BY <1>1, <1>2, <1>3, <1>4, <1>5, <1>6, <1>7 DEF Step

\* A call takes a bounded number of steps: each leaves it fewer, whatever Twitch
\* answers, for every number of retries.  With the fairness of FairSpec this is
\* why CallReturns holds.
THEOREM CallsAdvance == Spec => CallAdvances
<1>1. TypeInv => StepsLeft \in 0..(5 * (MaxRetries + 1))
  BY StepsBounded
<1>2. TypeInv /\ [Next]_vars => [Step => StepsLeft' < StepsLeft]_vars
  BY StepAdvances
<1>3. TypeInv /\ TypeInv' /\ [Next]_vars => [pc # "idle" => StepsLeft' <= StepsLeft]_vars
  <2> SUFFICES ASSUME TypeInv, TypeInv', Next, pc # "idle" PROVE StepsLeft' <= StepsLeft
    OBVIOUS
  <2>1. 5 * (MaxRetries + 1) \in Nat
    BY ClientAssumption
  <2>2. StepsLeft \in Int /\ StepsLeft' \in Int
    <3>1. StepsLeft \in 0..(5 * (MaxRetries + 1))
      BY StepsBounded
    <3>2. (StepsLeft \in 0..(5 * (MaxRetries + 1)))'
      BY <1>1, PTL
    <3> QED
      BY <2>1, <3>1, <3>2
  <2>3. CASE Step
    BY <2>2, <2>3, StepAdvances
  <2>4. CASE Revoke
    <3>1. StepsLeft' = StepsLeft
      BY <2>4 DEF Revoke, StepsLeft
    <3> QED
      BY <2>2, <3>1
  <2> QED
    BY <2>3, <2>4 DEF Next, Call, Pause
<1> QED
  BY <1>1, <1>2, <1>3, TypeInvariance, PTL DEF Spec, CallAdvances

----------------------------------------------------------------------------
(* The bucket *)

\* Whatever Twitch answers, no GET leaves without a point acquired for it, and no
\* point is acquired in vain.
THEOREM RequestsArePaced == Spec => []EveryRequestPaced
<1>1. Init => EveryRequestPaced
  BY DEF Init, EveryRequestPaced
<1>2. EveryRequestPaced /\ [Next]_vars => EveryRequestPaced'
  <2> SUFFICES ASSUME EveryRequestPaced, [Next]_vars PROVE EveryRequestPaced'
    OBVIOUS
  <2> USE DEF EveryRequestPaced, history
  <2>1. CASE Call \/ EnsureToken \/ Revoke
    BY <2>1 DEF Call, EnsureToken, Revoke
  <2>2. ASSUME NEW d, NEW lifetime, TokenIssued(d, lifetime) \/ TokenFails(d)
        PROVE  EveryRequestPaced'
    BY <2>2 DEF TokenIssued, TokenFails, Return
  <2>3. ASSUME NEW wait, Acquire(wait) PROVE EveryRequestPaced'
    <3>1. unused = 0 /\ unused' = unused + 1 /\ pc' = "sending"
      BY <2>3 DEF Acquire
    <3> QED
      BY <3>1
  <2>4. ASSUME NEW wait, BackOff(wait) \/ Pause(wait) PROVE EveryRequestPaced'
    BY <2>4 DEF BackOff, Pause, Retry, Return
  <2>5. ASSUME NEW d, \/ Unauthorized(d) \/ TooManyRequests(d)
                      \/ Answered(d) \/ Refused(d)
        PROVE  EveryRequestPaced'
    <3>1. unused = 1 /\ unused' = unused - 1
      BY <2>5 DEF Unauthorized, TooManyRequests, Answered, Refused
    <3>2. pc' # "sending"
      BY <2>5
      DEF Unauthorized, TooManyRequests, Answered, Refused, Retry, Return
    <3>3. unused' = 0
      BY <3>1
    <3> QED
      BY <3>2, <3>3
  <2>6. CASE UNCHANGED vars
    BY <2>6 DEF vars
  <2> QED
    BY <2>1, <2>2, <2>3, <2>4, <2>5, <2>6 DEF Next, Step
<1> QED
  BY <1>1, <1>2, PTL DEF Spec

----------------------------------------------------------------------------
(* The token *)

\* The cached token is the latest Twitch issued, and has drawn no 401.
Latest ==
    /\ token # NoToken => token = issued
    /\ rejected \subseteq 1..issued
    /\ token \notin rejected

LEMMA NextLatest == TypeInv /\ Latest /\ [Next]_vars => Latest'
<1> SUFFICES ASSUME TypeInv, Latest, [Next]_vars PROVE Latest'
  OBVIOUS
<1>0. /\ issued \in Nat /\ token \in Nat
      /\ pc = "sending" => token # NoToken
  BY ClientAssumption DEF TypeInv, TypeOK, Looping
<1> USE <1>0 DEF Latest, client, twitch, history, NoToken
<1>1. CASE Call \/ EnsureToken \/ Revoke
  BY <1>1 DEF Call, EnsureToken, Revoke
<1>2. ASSUME NEW d, NEW lifetime, TokenIssued(d, lifetime) PROVE Latest'
  BY <1>2 DEF TokenIssued
<1>3. ASSUME NEW d, Unauthorized(d) PROVE Latest'
  BY <1>3 DEF Unauthorized
<1>4. ASSUME NEW d, \/ TokenFails(d) \/ TooManyRequests(d) \/ Answered(d) \/ Refused(d)
                    \/ Acquire(d) \/ BackOff(d) \/ Pause(d)
      PROVE  Latest'
  BY <1>4
  DEF TokenFails, TooManyRequests, Answered, Refused, Acquire, BackOff, Pause
<1>5. CASE UNCHANGED vars
  BY <1>5 DEF vars
<1> QED
  BY <1>1, <1>2, <1>3, <1>4, <1>5 DEF Next, Step

LEMMA LatestInvariance == Spec => []Latest
<1>1. Init => Latest
  BY DEF Init, Latest, NoToken
<1> QED
  BY <1>1, NextLatest, TypeInvariance, PTL DEF Spec

\* A token that drew a 401 is not sent again, however many retries are left and
\* whatever else Twitch says of it.
THEOREM RejectedTokensStayDropped == Spec => []RejectedTokenDropped
<1>1. TypeInv /\ Latest => RejectedTokenDropped
  BY DEF TypeInv, Looping, Latest, RejectedTokenDropped
<1> QED
  BY <1>1, TypeInvariance, LatestInvariance, PTL

\* What the cached expiry leaves of the token's life: all but the margin, and the
\* exchange that fetched it.
Remaining ==
    token # NoToken =>
        \E d \in Latencies, lifetime \in Lifetimes :
            expiry + d = expiresAt + Least(Margin, lifetime \div 2)

\* Before the bucket there is time for the sleep and the way, after it for the way.
Alive ==
    /\ pc = "pacing" => \A wait \in BucketWaits, e \in Latencies : clock + wait + e < expiry
    /\ InFlightTokenAlive

\* The cached expiry has not come, so that a token sent now arrives alive.
LEMMA KeptTokenAlive ==
    ASSUME WaitsWithinMargin, TypeInv, Remaining, token # NoToken, clock < expiresAt,
           NEW wait \in BucketWaits, NEW e \in Latencies
    PROVE  clock + wait + e < expiry
<1>1. PICK d \in Latencies, lifetime \in Lifetimes :
           expiry + d = expiresAt + Least(Margin, lifetime \div 2)
  BY DEF Remaining
<1>2. d + wait + e <= Least(Margin, lifetime \div 2)
  BY DEF WaitsWithinMargin
<1>3. /\ clock \in Nat /\ expiry \in Nat /\ expiresAt \in Nat
      /\ d \in Nat /\ wait \in Nat /\ e \in Nat
      /\ Least(Margin, lifetime \div 2) \in Nat
  BY HalfOfLifetime, ClientAssumption DEF TypeInv, TypeOK
<1> QED
  BY <1>1, <1>2, <1>3

\* So does one that was just fetched, of a life longer than the waits.
LEMMA NewTokenAlive ==
    ASSUME WaitsWithinMargin, TypeInv, NEW d \in Latencies, NEW lifetime \in Lifetimes,
           NEW wait \in BucketWaits, NEW e \in Latencies
    PROVE  clock + d + wait + e < clock + lifetime
<1>1. d + wait + e <= Least(Margin, lifetime \div 2)
  BY DEF WaitsWithinMargin
<1>2. /\ clock \in Nat /\ d \in Nat /\ wait \in Nat /\ e \in Nat
      /\ lifetime \in Nat /\ Least(Margin, lifetime \div 2) \in Nat
      /\ Least(Margin, lifetime \div 2) < lifetime
  BY HalfOfLifetime, ClientAssumption DEF TypeInv, TypeOK
<1> QED
  BY <1>1, <1>2

LEMMA NextRemaining == TypeInv /\ Remaining /\ [Next]_vars => Remaining'
<1> SUFFICES ASSUME TypeInv, Remaining, [Next]_vars PROVE Remaining'
  OBVIOUS
<1> USE DEF Remaining, client, twitch
<1>1. ASSUME NEW d \in Latencies, NEW lifetime \in Lifetimes, TokenIssued(d, lifetime)
      PROVE  Remaining'
  <2> DEFINE margin == Least(Margin, lifetime \div 2)
  <2>1. clock \in Nat /\ lifetime \in Nat /\ d \in Nat /\ margin \in Nat
    BY HalfOfLifetime, ClientAssumption DEF TypeInv, TypeOK
  <2>2. expiry' = clock + lifetime /\ expiresAt' = clock + d + lifetime - margin
    BY <1>1 DEF TokenIssued
  <2> HIDE DEF margin
  <2>3. expiry' + d = expiresAt' + margin
    BY <2>1, <2>2
  <2> QED
    BY <2>3 DEF margin
<1>2. CASE Call \/ EnsureToken \/ Revoke
  BY <1>2 DEF Call, EnsureToken, Revoke
<1>3. ASSUME NEW d, Unauthorized(d) PROVE Remaining'
  BY <1>3 DEF Unauthorized
<1>4. ASSUME NEW d, \/ TokenFails(d) \/ TooManyRequests(d) \/ Answered(d) \/ Refused(d)
                    \/ Acquire(d) \/ BackOff(d) \/ Pause(d)
      PROVE  Remaining'
  BY <1>4
  DEF TokenFails, TooManyRequests, Answered, Refused, Acquire, BackOff, Pause
<1>5. CASE UNCHANGED vars
  BY <1>5 DEF vars
<1> QED
  BY <1>1, <1>2, <1>3, <1>4, <1>5 DEF Next, Step

LEMMA NextAlive ==
    ASSUME WaitsWithinMargin, TypeInv, Remaining, Alive, [Next]_vars
    PROVE  Alive'
<1> USE DEF Alive, InFlightTokenAlive, client, twitch
<1>1. CASE EnsureToken
  <2>1. clock \in Nat /\ expiresAt \in Nat
    BY DEF TypeInv, TypeOK
  <2>2. ~NeedsToken => token # NoToken /\ clock < expiresAt
    BY <2>1 DEF NeedsToken
  <2> QED
    BY <1>1, <2>2, KeptTokenAlive DEF EnsureToken
<1>2. ASSUME NEW d \in Latencies, NEW lifetime \in Lifetimes, TokenIssued(d, lifetime)
      PROVE  Alive'
  BY <1>2, NewTokenAlive DEF TokenIssued
<1>3. ASSUME NEW wait \in BucketWaits, Acquire(wait) PROVE Alive'
  BY <1>3 DEF Acquire
<1>4. ASSUME NEW d, \/ Unauthorized(d) \/ TokenFails(d) \/ TooManyRequests(d)
                    \/ Answered(d) \/ Refused(d) \/ BackOff(d) \/ Pause(d)
      PROVE  Alive'
  BY <1>4
  DEF Unauthorized, TokenFails, TooManyRequests, Answered, Refused, BackOff, Pause,
      Retry, Return
<1>5. CASE Call \/ Revoke
  BY <1>5 DEF Call, Revoke
<1>6. CASE UNCHANGED vars
  BY <1>6 DEF vars
<1> QED
  BY <1>1, <1>2, <1>3, <1>4, <1>5, <1>6 DEF Next, Step

\* "So an in-flight sample never races the expiry": a token leaves for Twitch only
\* if it is alive on arrival, provided the margin covers the waits.
THEOREM TokensArriveAlive ==
    ASSUME WaitsWithinMargin
    PROVE  Spec => []InFlightTokenAlive
<1>1. Init => Remaining /\ Alive
  BY DEF Init, Remaining, Alive, InFlightTokenAlive
<1>2. TypeInv /\ Remaining /\ Alive /\ [Next]_vars => Remaining' /\ Alive'
  BY NextRemaining, NextAlive
<1>3. Alive => InFlightTokenAlive
  BY DEF Alive
<1> QED
  BY <1>1, <1>2, <1>3, TypeInvariance, PTL DEF Spec
=============================================================================
