-------------------------------- MODULE Login --------------------------------
(***************************************************************************)
(* The engine's password and its sessions (auth.rs).                       *)
(*                                                                         *)
(* Logging in, replacing the password (the command line) and changing it   *)
(* (a user who knows it) wait for hashes and for the database, and hold    *)
(* one asynchronous lock, the throttle's, from before they check anything  *)
(* until they are over; only the hash of a replacement is made before.     *)
(* Their futures may be dropped wherever they wait.  Sessions and the      *)
(* throttle are in memory, the password is in the database.  The demo has  *)
(* no password and is left out.                                            *)
(***************************************************************************)
EXTENDS Naturals

CONSTANTS
    Calls, Nobody,
    Passwords, NoPassword,
    Tokens,         \* bounds how many sessions there are at once
    LoginAttempts,  \* LOGIN_ATTEMPTS
    MaxWrites       \* bounds how often the password is written

ASSUME LoginIsTyped ==
    /\ Nobody \notin Calls
    /\ NoPassword \notin Passwords
    /\ LoginAttempts \in Nat \ {0}
    /\ MaxWrites \in Nat

VARIABLES
    stored,     \* the password whose hash is in the database
    era,        \* how often it was written
    sessions,   \* the sessions, by token: in which era they began, whether they expired
    throttle,   \* LoginThrottle: the failures, and whether their window has elapsed
    lock,       \* who holds the throttle's lock
    call,
    guessed,    \* how many wrong passwords were given in that window, for the properties
    cut         \* whether a write was cut off before it ended the sessions, likewise

vars == <<stored, era, sessions, throttle, lock, call, guessed, cut>>

NoSession == [live |-> FALSE, era |-> 0, expired |-> FALSE]
NoFailures == [count |-> 0, elapsed |-> FALSE]

Ops == {"login", "replace", "change"}
Steps == {"idle", "hashing", "waiting", "reading", "verifying", "writing", "revoking"}
Idle == [step |-> "idle", op |-> "login", given |-> NoPassword, seen |-> NoPassword, era |-> 0]

IsAt(c, step) == call[c].step = step
Goes(c, step) == call' = [call EXCEPT ![c].step = step]

\* Dropping the guard of the throttle, at the end of a call however it ends
Ends(c) ==
    /\ call' = [call EXCEPT ![c] = Idle]
    /\ lock' = IF lock = c THEN Nobody ELSE lock

-----------------------------------------------------------------------------
(***************************************************************************)
(* SessionStore and LoginThrottle                                          *)
(***************************************************************************)
\* SessionStore::create
Creates(ss, began) ==
    \E t \in Tokens :
        /\ ~ss[t].live
        /\ sessions' = [ss EXCEPT ![t] = [live |-> TRUE, era |-> began, expired |-> FALSE]]

\* SessionStore::revoke_all
RevokeAll(ss) == [t \in Tokens |-> NoSession]

\* LoginThrottle::locked_for
IsLocked(f) == f.count >= LoginAttempts /\ ~f.elapsed

\* ... which ends a window that has elapsed
Unlocked(f) == IF f.count >= LoginAttempts THEN NoFailures ELSE f

\* LoginThrottle::record_failure
WithFailure(f) ==
    IF f.count > 0 /\ ~f.elapsed THEN [f EXCEPT !.count = @ + 1]
    ELSE [count |-> 1, elapsed |-> FALSE]

-----------------------------------------------------------------------------
(***************************************************************************)
(* The calls                                                               *)
(***************************************************************************)
\* A password that is replaced is hashed before anything is locked.
Begins(c, op, given) ==
    /\ IsAt(c, "idle")
    /\ call' = [call EXCEPT ![c] = [step |-> IF op = "replace" THEN "hashing" ELSE "waiting",
                                    op |-> op, given |-> given, seen |-> NoPassword, era |-> 0]]
    /\ UNCHANGED <<stored, era, sessions, throttle, lock, guessed, cut>>

\* hash_password
Hashes(c) ==
    /\ IsAt(c, "hashing")
    /\ Goes(c, IF call[c].op = "replace" THEN "waiting" ELSE "writing")
    /\ UNCHANGED <<stored, era, sessions, throttle, lock, guessed, cut>>

ReplacesUnlocked(op) == op # "replace"
ChangesUnlocked(op) == op # "change"
\* Which calls take the lock
TakesLock(op) == TRUE

\* The lock, and for those who give the password the look at the throttle.
Enters(c) ==
    /\ IsAt(c, "waiting")
    /\ TakesLock(call[c].op) => lock = Nobody
    /\ IF call[c].op = "replace"
       THEN Goes(c, "writing") /\ UNCHANGED throttle
       ELSE IF IsLocked(throttle)
       THEN call' = [call EXCEPT ![c] = Idle] /\ UNCHANGED throttle
       ELSE Goes(c, "reading") /\ throttle' = Unlocked(throttle)
    /\ lock' = IF TakesLock(call[c].op) /\ call'[c] # Idle THEN c ELSE lock
    /\ UNCHANGED <<stored, era, sessions, guessed, cut>>

CountsFailure ==
    /\ throttle' = WithFailure(throttle)
    /\ guessed' = guessed + 1

\* stored_password_hash.  Only a login counts an unclaimed instance as a failure.
Reads(c) ==
    /\ IsAt(c, "reading")
    /\ IF stored # NoPassword
       THEN /\ call' = [call EXCEPT ![c].step = "verifying", ![c].seen = stored,
                                        ![c].era = era]
            /\ UNCHANGED <<throttle, lock, guessed>>
       ELSE /\ Ends(c)
            /\ IF call[c].op = "login" THEN CountsFailure ELSE UNCHANGED <<throttle, guessed>>
    /\ UNCHANGED <<stored, era, sessions, cut>>

\* verify_password
Verifies(c) ==
    /\ IsAt(c, "verifying")
    /\ \/ /\ call[c].given # call[c].seen
          /\ CountsFailure
          /\ Ends(c)
          /\ UNCHANGED sessions
       \/ /\ call[c].given = call[c].seen
          /\ throttle' = NoFailures
          /\ guessed' = 0
          /\ IF call[c].op = "login" THEN Creates(sessions, call[c].era) /\ Ends(c)
             ELSE Goes(c, "hashing") /\ UNCHANGED <<sessions, lock>>
    /\ UNCHANGED <<stored, era, cut>>

\* The transaction writes the password, the same or another ...
Writes(c) ==
    /\ IsAt(c, "writing")
    /\ era < MaxWrites
    /\ era' = era + 1
    /\ IF call[c].op = "replace" THEN stored' = call[c].given ELSE stored' \in Passwords
    /\ \/ Goes(c, "revoking") /\ UNCHANGED <<lock, cut>>
       \/ Ends(c) /\ cut' = TRUE \* dropped while the commit was under way
    /\ UNCHANGED <<sessions, throttle, guessed>>

\* ... and once it is committed every session is ended, but the one it starts.
Revokes(c) ==
    /\ IsAt(c, "revoking")
    /\ IF call[c].op = "change" THEN Creates(RevokeAll(sessions), era)
       ELSE sessions' = RevokeAll(sessions)
    /\ cut' = FALSE
    /\ Ends(c)
    /\ UNCHANGED <<stored, era, throttle, guessed>>

\* A future is dropped where it waits, or the database fails it.
Fails(c) ==
    /\ \E step \in Steps \ {"idle", "revoking"} : IsAt(c, step)
    /\ Ends(c)
    /\ UNCHANGED <<stored, era, sessions, throttle, guessed, cut>>

-----------------------------------------------------------------------------
\* logout, or validate of one that has expired
EndsSession ==
    /\ \E t \in Tokens :
        /\ sessions[t].live
        /\ sessions' = [sessions EXCEPT ![t] = NoSession]
    /\ UNCHANGED <<stored, era, throttle, lock, call, guessed, cut>>

\* SESSION_LIFETIME is over.
SessionExpires ==
    /\ \E t \in Tokens :
        /\ sessions[t].live /\ ~sessions[t].expired
        /\ sessions' = [sessions EXCEPT ![t].expired = TRUE]
    /\ UNCHANGED <<stored, era, throttle, lock, call, guessed, cut>>

\* LOGIN_WINDOW is over.
WindowElapses ==
    /\ throttle.count > 0 /\ ~throttle.elapsed
    /\ throttle' = [throttle EXCEPT !.elapsed = TRUE]
    /\ guessed' = 0
    /\ UNCHANGED <<stored, era, sessions, lock, call, cut>>

\* The process ends and starts again.
Restart ==
    /\ sessions' = [t \in Tokens |-> NoSession]
    /\ throttle' = NoFailures
    /\ lock' = Nobody
    /\ call' = [c \in Calls |-> Idle]
    /\ guessed' = 0
    /\ cut' = FALSE
    /\ UNCHANGED <<stored, era>>

Init ==
    /\ stored = NoPassword
    /\ era = 0
    /\ sessions = [t \in Tokens |-> NoSession]
    /\ throttle = NoFailures
    /\ lock = Nobody
    /\ call = [c \in Calls |-> Idle]
    /\ guessed = 0
    /\ cut = FALSE

CallSteps(c) ==
    \/ \E op \in Ops, given \in Passwords : Begins(c, op, given)
    \/ Hashes(c) \/ Enters(c) \/ Reads(c) \/ Verifies(c)
    \/ Writes(c) \/ Revokes(c) \/ Fails(c)

Next ==
    \/ \E c \in Calls : CallSteps(c)
    \/ EndsSession \/ SessionExpires \/ WindowElapses \/ Restart

Spec == Init /\ [][Next]_vars

-----------------------------------------------------------------------------
\* SessionStore::validate
IsAuthenticated(t) == sessions[t].live /\ ~sessions[t].expired

(* "so that a password change cannot revoke sessions while a login is in flight":
   whoever is authenticated gave the password that is stored, or a change of it is
   about to end their session; but for a change that was cut off in its commit,
   which ends none. *)
SessionsAreCurrent ==
    \A t \in Tokens : IsAuthenticated(t) =>
        \/ sessions[t].era = era
        \/ \E c \in Calls : IsAt(c, "revoking")
        \/ cut

(* "so that concurrent guesses are counted before they are checked": no more wrong
   passwords are ever answered within a window than LOGIN_ATTEMPTS, however many
   calls give them at once. *)
GuessesAreLimited ==
    guessed <= LoginAttempts
=============================================================================
