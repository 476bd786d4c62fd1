----------------------------- MODULE RateLimiter -----------------------------
(***************************************************************************)
(* The limiter in front of the login and the refresh of a session          *)
(* (rate_limiter.py, auth_router.py): at most MaxRequests requests of an   *)
(* address are let through in any Window, and a refused one is told when   *)
(* to come back.                                                           *)
(*                                                                         *)
(* A request is decided without an await.  Only the clock moves between    *)
(* the refusal and the question how long to wait, which reads it again.    *)
(* The clock is taken not to go back.                                      *)
(***************************************************************************)
EXTENDS Integers, Sequences, FiniteSets

CONSTANTS Addresses,       \* keys of requests
          MaxRequests,     \* requests let through
          Window,          \* in so many ticks
          TicksPerSecond,  \* ticks of the clock in a second
          LastTick         \* the clock stops here: a bound of the model

ASSUME RateAssumption ==
    /\ MaxRequests \in Nat \ {0} /\ Window \in Nat \ {0}
    /\ TicksPerSecond \in Nat \ {0} /\ LastTick \in Nat

VARIABLES rlNow,      \* time.time()
          rlAllowed,  \* [address -> the times of all requests let through]
          rlKept,     \* [address -> which of them _requests still has]
          rlAsking,   \* addresses whose refused request asks how long to wait
          rlTold      \* [address -> the last answer: when, and so many seconds]

rlVars == <<rlNow, rlAllowed, rlKept, rlAsking, rlTold>>

NeverTold == [at |-> 0, seconds |-> -1, count |-> 0]

RateInit ==
    /\ rlNow = 0
    /\ rlAllowed = [a \in Addresses |-> <<>>]
    /\ rlKept = [a \in Addresses |-> {}]
    /\ rlAsking = {}
    /\ rlTold = [a \in Addresses |-> NeverTold]

\* What _cleanup leaves of an address's requests.
Cleaned(a) == {i \in rlKept[a] : rlAllowed[a][i] > rlNow - Window}
Full(a) == Cardinality(Cleaned(a)) >= MaxRequests

\* Mutant: one more is let through.
IsAllowedOneMore(a) ==
    /\ rlAsking = {}
    /\ IF Cardinality(Cleaned(a)) > MaxRequests
       THEN /\ rlKept' = [rlKept EXCEPT ![a] = Cleaned(a)]
            /\ rlAsking' = {a} /\ UNCHANGED rlAllowed
       ELSE /\ rlKept' = [rlKept EXCEPT ![a] = Cleaned(a) \cup {Len(rlAllowed[a]) + 1}]
            /\ rlAllowed' = [rlAllowed EXCEPT ![a] = Append(@, rlNow)]
            /\ UNCHANGED rlAsking
    /\ UNCHANGED <<rlNow, rlTold>>

\* is_allowed.  Nothing else is decided until the refused request is answered.
IsAllowed(a) ==
    /\ rlAsking = {}
    /\ IF Full(a)
       THEN /\ rlKept' = [rlKept EXCEPT ![a] = Cleaned(a)]
            /\ rlAsking' = {a} /\ UNCHANGED rlAllowed
       ELSE /\ rlKept' = [rlKept EXCEPT ![a] = Cleaned(a) \cup {Len(rlAllowed[a]) + 1}]
            /\ rlAllowed' = [rlAllowed EXCEPT ![a] = Append(@, rlNow)]
            /\ UNCHANGED rlAsking
    /\ UNCHANGED <<rlNow, rlTold>>

Oldest(kept) == CHOOSE i \in kept : \A j \in kept : i <= j
\* Mutant: counted from the newest request.
WaitFromNewest(a) ==
    LET newest == CHOOSE i \in Cleaned(a) : \A j \in Cleaned(a) : i >= j
    IN  Window - (rlNow - rlAllowed[a][newest])
\* The ticks until the oldest request leaves the window.
Wait(a) == Window - (rlNow - rlAllowed[a][Oldest(Cleaned(a))])

\* get_retry_after, and the answer 429 with whole seconds in Retry-After, or
\* without that header when a request has left the window in the meantime.
GetRetryAfter(a) ==
    /\ a \in rlAsking
    /\ rlKept' = [rlKept EXCEPT ![a] = Cleaned(a)]
    /\ rlTold' = [rlTold EXCEPT ![a] =
          IF Full(a)
          THEN [at |-> rlNow, seconds |-> Wait(a) \div TicksPerSecond, count |-> Len(rlAllowed[a])]
          ELSE NeverTold]
    /\ rlAsking' = {}
    /\ UNCHANGED <<rlNow, rlAllowed>>

ClockTicks ==
    /\ rlNow < LastTick /\ rlNow' = rlNow + 1
    /\ UNCHANGED <<rlAllowed, rlKept, rlAsking, rlTold>>

RateNext == (\E a \in Addresses : IsAllowed(a) \/ GetRetryAfter(a)) \/ ClockTicks

RateSpec == RateInit /\ [][RateNext]_rlVars

(* ---- properties ---- *)

\* The types of the clock, the requests and the answers.
RateTypeOK ==
    /\ rlNow \in Nat
    /\ rlAllowed \in [Addresses -> Seq(Nat)]
    /\ rlKept \in [Addresses -> SUBSET Nat]
    /\ rlAsking \subseteq Addresses
    /\ rlTold \in [Addresses -> [at : Nat, seconds : Int, count : Nat]]

\* "Maximum requests allowed per window": of any MaxRequests + 1 requests that
\* were let through in a row the last came at least a Window after the first,
\* however many were refused and forgotten between them.
RateBounded ==
    \A a \in Addresses : \A i, k \in DOMAIN rlAllowed[a] :
        k = i + MaxRequests => rlAllowed[a][k] >= rlAllowed[a][i] + Window

\* A request that comes before the seconds it was told are over is refused; one
\* that comes a second later than told, and the first from its address, is let
\* through.  (The seconds are rounded down: coming exactly then may be too early.)
RetryHonest ==
    \A a \in Addresses :
        LET told == rlTold[a]
        IN  told # NeverTold =>
                /\ rlNow < told.at + told.seconds * TicksPerSecond => Full(a)
                /\ rlNow >= told.at + (told.seconds + 1) * TicksPerSecond
                   /\ Len(rlAllowed[a]) = told.count => ~Full(a)
=============================================================================
