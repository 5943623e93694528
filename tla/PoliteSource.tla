---------------------------- MODULE PoliteSource ----------------------------
(***************************************************************************)
(* What a metadata API sees of a client that respects its rate limits: at  *)
(* most one request at a time, and none before the wait that the previous  *)
(* answer called for is over.  RateLimitedClient implements it.            *)
(***************************************************************************)
EXTENDS SourceLimits

VARIABLES
    serving,    \* the key being asked for, or NoKey
    quiet,      \* how long the source must still be left alone
    streak      \* failures in a row

vars == <<serving, quiet, streak>>

TypeOK ==
    /\ serving \in Keys \union {NoKey}
    /\ quiet \in Nat
    /\ streak \in 0..MaxFailures

Init ==
    /\ serving = NoKey
    /\ quiet = 0
    /\ streak = 0

Request(k) ==
    /\ serving = NoKey
    /\ quiet = 0
    /\ serving' = k
    /\ UNCHANGED <<quiet, streak>>

Respond(o) ==
    /\ serving # NoKey
    /\ serving' = NoKey
    /\ streak' = StreakAfter(streak, o)
    /\ quiet' = IF AsksToWait(o)
                THEN Greater(MinInterval, PauseAfter(streak', o))
                ELSE MinInterval

\* The client went away with a request on the wire.
Abandoned ==
    /\ serving # NoKey
    /\ serving' = NoKey
    /\ UNCHANGED <<quiet, streak>>

Tick ==
    /\ quiet' = Countdown(quiet)
    /\ UNCHANGED <<serving, streak>>

Next ==
    \/ \E k \in Keys : Request(k)
    \/ \E o \in Outcomes : Respond(o)
    \/ Abandoned
    \/ Tick

Spec == Init /\ [][Next]_vars
=============================================================================
