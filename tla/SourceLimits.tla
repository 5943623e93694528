---------------------------- MODULE SourceLimits ----------------------------
(***************************************************************************)
(* The limits of one metadata API and what its answers ask of a client:    *)
(* the Limits, the constants and the pause arithmetic of                   *)
(* crates/scorarium-client/src/rate_limited_client.rs.                     *)
(***************************************************************************)
EXTENDS Integers, Sequences

CONSTANTS
    Keys,               \* what can be asked of the source
    NoKey,              \* "nothing is being asked"
    RetryAfters,        \* the delays a Retry-After header may carry
    NoHeader,           \* a response without a Retry-After header
    MinInterval,        \* rest after every request
    DefaultRetryAfter,  \* rest after a 429 that names no delay
    Pauses,             \* rests after the first, second, ... failure in a row
    MaxPause,           \* the longest rest a source can ask for
    MaxFailures         \* where the count of failures in a row saturates

ASSUME LimitsAreDurations ==
    /\ NoKey \notin Keys
    /\ RetryAfters \subseteq Nat
    /\ NoHeader \notin Nat
    /\ MinInterval \in Nat
    /\ DefaultRetryAfter \in Nat
    /\ MaxPause \in Nat
    /\ Pauses \in Seq(Nat)
    /\ Len(Pauses) > 0
    /\ MaxFailures \in Nat
    /\ MaxFailures >= Len(Pauses)

Answers == {"ok", "garbage"}
Waits == RetryAfters \union {NoHeader}

\* How a request may end: a 404 or a 2xx with a usable body ("ok"), a 2xx whose
\* body is not what was asked for ("garbage"), any 4xx but 404 and 429, a 429,
\* any other status, or no response at all (a transport error, or the client's
\* own timeout).  A Retry-After is told apart where the client follows it.
Outcomes ==
    [kind : Answers \union {"client_error", "no_response"}, wait : {NoHeader}]
        \union [kind : {"too_many_requests", "server_error"}, wait : Waits]

Lesser(a, b) == IF a <= b THEN a ELSE b
Greater(a, b) == IF a >= b THEN a ELSE b
Countdown(t) == IF t > 0 THEN t - 1 ELSE 0

IsFailure(o) == o.kind \in {"server_error", "no_response"}
AsksToWait(o) == o.kind = "too_many_requests" \/ IsFailure(o)

\* The failures in a row once a request ended with `o`.
StreakAfter(streak, o) ==
    IF o.kind \in Answers THEN 0
    ELSE IF IsFailure(o) THEN Lesser(streak + 1, MaxFailures)
    ELSE streak

\* How long the source is left alone for ending a request with `o`, when that
\* makes `streak` failures in a row.
PauseAfter(streak, o) ==
    Lesser(MaxPause,
           IF o.wait # NoHeader THEN o.wait
           ELSE IF o.kind = "too_many_requests" THEN DefaultRetryAfter
           ELSE Pauses[Lesser(streak, Len(Pauses))])
=============================================================================
