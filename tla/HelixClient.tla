---------------------------- MODULE HelixClient ----------------------------
(***************************************************************************)
(* One Helix request as HelixClient._get makes it (src/twitch_scout/twitch/ *)
(* client.py): the app token fetched, cached, refreshed before it expires  *)
(* and dropped on a 401; the wait for the token bucket; the bounded loop of *)
(* retries.  Twitch issues tokens, may revoke them, and may answer a       *)
(* request in any way.  Pages and endpoints are calls of _get one after    *)
(* another.  Time is in seconds of the wall clock.                         *)
(***************************************************************************)
EXTENDS Integers, FiniteSets

CONSTANTS
    MaxRetries,
    Margin,       \* _TOKEN_REFRESH_MARGIN_S
    Lifetimes,    \* expires_in of the tokens Twitch issues
    Latencies,    \* how long an HTTP exchange may take
    BucketWaits,  \* how long bucket.acquire may sleep
    RetryAfters,  \* what a 429 may ask for
    Pauses,       \* time between two calls
    MaxTokens,    \* bound: tokens issued
    Horizon       \* bound: no call starts after it

ASSUME ClientAssumption ==
    /\ MaxRetries \in Nat /\ Margin \in Nat
    /\ Lifetimes \subseteq Nat \ {0}
    /\ Latencies \subseteq Nat /\ BucketWaits \subseteq Nat
    /\ RetryAfters \subseteq Nat /\ Pauses \subseteq Nat
    /\ MaxTokens \in Nat /\ Horizon \in Nat

VARIABLES
    clock,
    token,      \* the cached token, a serial number, or NoToken
    expiresAt,  \* _expires_at
    pc,         \* where _get is
    attempts,   \* iterations of its loop that are over
    outcome,    \* how the last call ended
    issued,     \* Twitch: how many tokens it has issued
    expiry,     \* Twitch: when the latest expires
    revoked,    \* Twitch: tokens revoked
    rejected,   \* history: tokens that drew a 401
    unused      \* history: points acquired from the bucket, less GETs sent

client == <<token, expiresAt>>
twitch == <<issued, expiry, revoked>>
history == <<rejected, unused>>
vars == <<clock, client, pc, attempts, outcome, twitch, history>>

NoToken == 0

Places == {"idle", "ensuring", "fetching", "pacing", "sending", "backing off"}
Outcomes == {"none", "ok", "TwitchError", "other error"}

TypeOK ==
    /\ clock \in Nat
    /\ token \in 0..MaxTokens
    /\ expiresAt \in Nat
    /\ pc \in Places
    /\ attempts \in 0..(MaxRetries + 1)
    /\ outcome \in Outcomes
    /\ issued \in 0..MaxTokens
    /\ expiry \in Nat
    /\ revoked \subseteq 1..MaxTokens
    /\ rejected \subseteq 1..MaxTokens
    /\ unused \in Int

Init ==
    /\ clock = 0
    /\ token = NoToken /\ expiresAt = 0
    /\ pc = "idle" /\ attempts = 0 /\ outcome = "none"
    /\ issued = 0 /\ expiry = 0 /\ revoked = {}
    /\ rejected = {} /\ unused = 0

Least(a, b) == IF a < b THEN a ELSE b

Pause(d) ==
    /\ pc = "idle" /\ clock < Horizon
    /\ clock' = clock + d
    /\ UNCHANGED <<client, pc, attempts, outcome, twitch, history>>

Call ==
    /\ pc = "idle" /\ clock <= Horizon /\ issued < MaxTokens
    /\ pc' = "ensuring"
    /\ attempts' = 0
    /\ outcome' = "none"
    /\ UNCHANGED <<clock, client, twitch, history>>

Return(result) == pc' = "idle" /\ outcome' = result

\* Slip: one attempt too many.
RetryOnceMore ==
    /\ attempts' = attempts + 1
    /\ IF attempts <= MaxRetries
       THEN pc' = "ensuring" /\ UNCHANGED outcome
       ELSE Return("TwitchError")

\* The loop goes round, or its bound is reached: "exhausted retries".
Retry ==
    /\ attempts' = attempts + 1
    /\ IF attempts < MaxRetries
       THEN pc' = "ensuring" /\ UNCHANGED outcome
       ELSE Return("TwitchError")

NeedsToken == token = NoToken \/ clock >= expiresAt

EnsureToken ==
    /\ pc = "ensuring"
    /\ pc' = IF NeedsToken THEN "fetching" ELSE "pacing"
    /\ UNCHANGED <<clock, client, attempts, outcome, twitch, history>>

\* Slip: no margin.
TokenIssuedNoMargin(d, lifetime) ==
    /\ pc = "fetching" /\ issued < MaxTokens
    /\ clock' = clock + d
    /\ issued' = issued + 1
    /\ expiry' = clock + lifetime
    /\ token' = issued + 1
    /\ expiresAt' = clock + d + lifetime
    /\ pc' = "pacing"
    /\ UNCHANGED <<attempts, outcome, revoked, history>>

\* _fetch_token: the token lives from the moment Twitch issues it, the cached
\* expiry counts from the moment the answer is here, less the margin.
TokenIssued(d, lifetime) ==
    /\ pc = "fetching" /\ issued < MaxTokens
    /\ clock' = clock + d
    /\ issued' = issued + 1
    /\ expiry' = clock + lifetime
    /\ token' = issued + 1
    /\ expiresAt' = clock + d + lifetime - Least(Margin, lifetime \div 2)
    /\ pc' = "pacing"
    /\ UNCHANGED <<attempts, outcome, revoked, history>>

\* The exchange fails or is refused: TwitchAuthError.  Or a 200 has a body that
\* is not JSON or fails validation: an error of json or pydantic.
TokenFails(d) ==
    /\ pc = "fetching"
    /\ clock' = clock + d
    /\ Return("TwitchError") \/ Return("other error")
    /\ UNCHANGED <<client, attempts, twitch, history>>

Acquire(wait) ==
    /\ pc = "pacing"
    /\ clock' = clock + wait
    /\ unused' = unused + 1
    /\ pc' = "sending"
    /\ UNCHANGED <<client, attempts, outcome, twitch, rejected>>

Accepted(t) == token = issued /\ token \notin revoked /\ t < expiry

\* Slip: the token kept after a 401.
UnauthorizedKept(d) ==
    /\ pc = "sending"
    /\ clock' = clock + d
    /\ unused' = unused - 1
    /\ rejected' = rejected \cup {token}
    /\ Retry
    /\ UNCHANGED <<client, twitch>>

\* Slip: a 401 is tried again as if nothing had happened.
UnauthorizedFree(d) ==
    /\ pc = "sending"
    /\ clock' = clock + d
    /\ unused' = unused - 1
    /\ rejected' = rejected \cup {token}
    /\ pc' = "ensuring"
    /\ UNCHANGED <<client, attempts, outcome, twitch>>

\* A 401, deserved or not: the token is dropped, and the next iteration fetches
\* another.
Unauthorized(d) ==
    /\ pc = "sending"
    /\ clock' = clock + d
    /\ unused' = unused - 1
    /\ rejected' = rejected \cup {token}
    /\ token' = NoToken
    /\ Retry
    /\ UNCHANGED <<expiresAt, twitch>>

\* A 200 with the page, or one whose body is not JSON or fails validation.
Answered(d) ==
    /\ pc = "sending"
    /\ Accepted(clock + d)
    /\ clock' = clock + d
    /\ unused' = unused - 1
    /\ Return("ok") \/ Return("other error")
    /\ UNCHANGED <<client, attempts, twitch, rejected>>

\* A network error, or any status but 200, 401 and 429: TwitchApiError.
Refused(d) ==
    /\ pc = "sending"
    /\ clock' = clock + d
    /\ unused' = unused - 1
    /\ Return("TwitchError")
    /\ UNCHANGED <<client, attempts, twitch, rejected>>

TooManyRequests(d) ==
    /\ pc = "sending"
    /\ clock' = clock + d
    /\ unused' = unused - 1
    /\ pc' = "backing off"
    /\ UNCHANGED <<client, attempts, outcome, twitch, rejected>>

\* Slip: a retry goes out without a point from the bucket.
BackOffUnpaced(wait) ==
    /\ pc = "backing off"
    /\ clock' = clock + wait
    /\ attempts' = attempts + 1
    /\ IF attempts < MaxRetries
       THEN pc' = "sending" /\ UNCHANGED outcome
       ELSE Return("TwitchError")
    /\ UNCHANGED <<client, twitch, history>>

\* It sleeps even when no iteration is left.
BackOff(wait) ==
    /\ pc = "backing off"
    /\ clock' = clock + wait
    /\ Retry
    /\ UNCHANGED <<client, twitch, history>>

Revoke ==
    /\ issued \notin revoked \cup {0}
    /\ revoked' = revoked \cup {issued}
    /\ UNCHANGED <<clock, client, pc, attempts, outcome, issued, expiry, history>>

Step ==
    \/ EnsureToken
    \/ \E d \in Latencies :
         \/ \E lifetime \in Lifetimes : TokenIssued(d, lifetime)
         \/ TokenFails(d) \/ Unauthorized(d) \/ Answered(d)
         \/ Refused(d) \/ TooManyRequests(d)
    \/ \E wait \in BucketWaits : Acquire(wait)
    \/ \E wait \in RetryAfters : BackOff(wait)

Next == Call \/ Step \/ Revoke \/ \E d \in Pauses : Pause(d)

Spec == Init /\ [][Next]_vars

\* A call once made keeps executing: every wait in it has an end.
FairSpec == Spec /\ WF_vars(Step)

----------------------------------------------------------------------------
(* Properties *)

\* The margin is there "so an in-flight sample never races the expiry" (client.py:55):
\* a token that leaves for Twitch is still alive on arrival, whatever the call
\* spent in the token exchange, in the bucket and on the way since it looked.
InFlightTokenAlive ==
    pc = "sending" => \A d \in Latencies : clock + d < expiry

\* A token that drew a 401 is never sent again, and no GET leaves without one.
RejectedTokenDropped ==
    pc = "sending" => token # NoToken /\ token \notin rejected

\* Every GET, of a retry too, was paid for at the bucket beforehand.
EveryRequestPaced == unused = IF pc = "sending" THEN 1 ELSE 0

\* How many steps a call can still take, at most: five in an iteration.
StepsToRetry(place) ==
    CASE place = "ensuring" -> 5
      [] place = "fetching" -> 4
      [] place = "pacing" -> 3
      [] place = "sending" -> 2
      [] place = "backing off" -> 1

StepsLeft ==
    IF pc = "idle" THEN 0
    ELSE StepsToRetry(pc) + 5 * (MaxRetries - attempts)

\* The loop of _get is bounded (client.py:245): every step of a call, whatever
\* Twitch answers to it, leaves it fewer, and nothing that Twitch does meanwhile
\* gives it more.
CallAdvances ==
    /\ [](StepsLeft \in 0..(5 * (MaxRetries + 1)))
    /\ [][Step => StepsLeft' < StepsLeft]_vars
    /\ [][pc # "idle" => StepsLeft' <= StepsLeft]_vars

\* Whatever Twitch answers, for ever 401 or 429, a call returns.
CallReturns == pc # "idle" ~> pc = "idle"
=============================================================================
