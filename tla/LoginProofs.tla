----------------------------- MODULE LoginProofs -----------------------------
(***************************************************************************)
(* The properties of Login, for any calls, passwords and sessions.         *)
(*                                                                         *)
(* All that matters happens under the lock: what a call has read of the    *)
(* password is still so when it has verified it, and the room that it saw  *)
(* in the throttle is still there when it fails.                           *)
(***************************************************************************)
EXTENDS Login, TLAPS

\* The types, as far as the argument needs them
Typed ==
    /\ era \in Nat
    /\ sessions \in [Tokens -> [live : BOOLEAN, era : Nat, expired : BOOLEAN]]
    /\ throttle \in [count : Nat, elapsed : BOOLEAN]
    /\ call \in [Calls -> [step : Steps, op : Ops, given : Passwords \union {NoPassword},
                           seen : Passwords \union {NoPassword}, era : Nat]]
    /\ guessed \in Nat
    /\ cut \in BOOLEAN
    /\ stored \in Passwords \union {NoPassword}

IsInside(c) ==
    \/ call[c].step \in {"reading", "verifying", "writing", "revoking"}
    \/ call[c].step = "hashing" /\ call[c].op # "replace"

\* Whoever is between the lock and the end holds it.
InsideIsLocked == \A c \in Calls : IsInside(c) => lock = c

\* What was read of the password is what is stored.
ReadsAreCurrent == \A c \in Calls : IsAt(c, "verifying") => call[c].era = era

\* What the throttle counts covers the window, and who may fail has room to.
FailuresAreCounted ==
    /\ guessed <= LoginAttempts
    /\ IF throttle.elapsed THEN guessed = 0 ELSE guessed <= throttle.count
    /\ \A c \in Calls : call[c].step \in {"reading", "verifying"} => guessed < LoginAttempts

Inv == Typed /\ InsideIsLocked /\ ReadsAreCurrent /\ FailuresAreCounted /\ SessionsAreCurrent

-----------------------------------------------------------------------------
(* A new session is of the era it is given, and the others stay. *)
LEMMA CreatesOne ==
    ASSUME NEW ss \in [Tokens -> [live : BOOLEAN, era : Nat, expired : BOOLEAN]],
           NEW began \in Nat, Creates(ss, began)
    PROVE  /\ sessions' \in [Tokens -> [live : BOOLEAN, era : Nat, expired : BOOLEAN]]
           /\ \A t \in Tokens : sessions'[t] = ss[t] \/ sessions'[t].era = began
  BY DEF Creates

(* The invariant holds to begin with: nobody is inside and there are no sessions. *)
LEMMA InitInv == Init => Inv
  <1> SUFFICES ASSUME Init PROVE Inv
    OBVIOUS
  <1> USE LoginIsTyped DEF Init
  <1>1. Typed
    BY DEF Typed, NoSession, NoFailures, Idle, Steps, Ops
  <1>2. InsideIsLocked /\ ReadsAreCurrent
    BY DEF InsideIsLocked, IsInside, ReadsAreCurrent, IsAt, Idle
  <1>3. FailuresAreCounted
    BY DEF FailuresAreCounted, NoFailures, Idle
  <1>4. SessionsAreCurrent
    BY DEF SessionsAreCurrent, IsAuthenticated, NoSession
  <1> QED BY <1>1, <1>2, <1>3, <1>4 DEF Inv

(* Beginning, hashing and entering leave sessions and password alone. *)
LEMMA EnteringKeepsInv ==
    ASSUME Inv, NEW c \in Calls,
           (\E op \in Ops, given \in Passwords : Begins(c, op, given)) \/ Hashes(c) \/ Enters(c)
    PROVE  Inv'
  <1> USE LoginIsTyped DEF Inv
  <1>1. CASE \E op \in Ops, given \in Passwords : Begins(c, op, given)
    <2>1. PICK op \in Ops, given \in Passwords : Begins(c, op, given)
      BY <1>1
    <2>2. Typed'
      BY <2>1 DEF Typed, Begins, Steps, Ops
    <2>3. InsideIsLocked'
      BY <2>1 DEF InsideIsLocked, IsInside, Begins, Typed, IsAt
    <2>4. ReadsAreCurrent' /\ FailuresAreCounted'
      BY <2>1 DEF ReadsAreCurrent, FailuresAreCounted, Begins, Typed, IsAt
    <2>5. SessionsAreCurrent'
      BY <2>1 DEF SessionsAreCurrent, IsAuthenticated, Begins, Typed, IsAt
    <2> QED BY <2>2, <2>3, <2>4, <2>5
  <1>2. CASE Hashes(c)
    <2>2. Typed'
      BY <1>2 DEF Typed, Hashes, Goes, Steps
    <2>3. InsideIsLocked'
      BY <1>2 DEF InsideIsLocked, IsInside, Hashes, Goes, Typed, IsAt
    <2>4. ReadsAreCurrent' /\ FailuresAreCounted'
      BY <1>2 DEF ReadsAreCurrent, FailuresAreCounted, Hashes, Goes, Typed, IsAt
    <2>5. SessionsAreCurrent'
      BY <1>2 DEF SessionsAreCurrent, IsAuthenticated, Hashes, Goes, Typed, IsAt
    <2> QED BY <2>2, <2>3, <2>4, <2>5
  <1>3. CASE Enters(c)
    <2>1. lock = Nobody /\ \A b \in Calls : ~IsInside(b)
      BY <1>3 DEF Enters, TakesLock, InsideIsLocked
    <2>2. Typed'
      <3>1. throttle' \in [count : Nat, elapsed : BOOLEAN]
        <4>1. throttle' = throttle \/ throttle' = Unlocked(throttle)
          BY <1>3 DEF Enters
        <4>2. Unlocked(throttle) \in {throttle, NoFailures}
          BY DEF Unlocked
        <4>3. NoFailures \in [count : Nat, elapsed : BOOLEAN]
          BY DEF NoFailures
        <4> QED BY <4>1, <4>2, <4>3 DEF Typed
      <3>2. /\ \/ Goes(c, "writing")
               \/ Goes(c, "reading")
               \/ call' = [call EXCEPT ![c] = Idle]
            /\ UNCHANGED <<stored, era, sessions, guessed, cut>>
        BY <1>3 DEF Enters
      <3> QED BY <3>1, <3>2 DEF Typed, Goes, Steps, Ops, Idle
    <2>3. InsideIsLocked'
      BY <1>3, <2>1 DEF InsideIsLocked, IsInside, Enters, TakesLock, Goes, Typed, Idle, IsAt
    <2>4. ReadsAreCurrent'
      BY <1>3 DEF ReadsAreCurrent, Enters, Goes, Typed, Idle, IsAt
    <2>5. FailuresAreCounted'
      <3>1. CASE call[c].op = "replace" \/ IsLocked(throttle)
        BY <1>3, <3>1, <2>1
        DEF FailuresAreCounted, Enters, Goes, Typed, Idle, IsAt, IsInside
      <3>2. CASE call[c].op # "replace" /\ ~IsLocked(throttle)
        <4>1. guessed < LoginAttempts
          BY <3>2 DEF FailuresAreCounted, IsLocked, Typed
        <4>2. throttle' = Unlocked(throttle) /\ guessed' = guessed
          BY <1>3, <3>2 DEF Enters
        <4>3. IF throttle'.elapsed THEN guessed' = 0 ELSE guessed' <= throttle'.count
          BY <4>2, <3>2 DEF FailuresAreCounted, IsLocked, Unlocked, NoFailures, Typed
        <4> QED BY <4>1, <4>2, <4>3 DEF FailuresAreCounted, Typed
      <3> QED BY <3>1, <3>2
    <2>6. SessionsAreCurrent'
      BY <1>3, <2>1 DEF SessionsAreCurrent, IsAuthenticated, Enters, Goes, Typed, IsAt, IsInside
    <2> QED BY <2>2, <2>3, <2>4, <2>5, <2>6
  <1> QED BY <1>1, <1>2, <1>3

(* Reading and verifying: what is read is what is stored, a failure has its room,
   and a session that begins is of the era that was read. *)
LEMMA CheckingKeepsInv ==
    ASSUME Inv, NEW c \in Calls, Reads(c) \/ Verifies(c)
    PROVE  Inv'
  <1> USE LoginIsTyped DEF Inv
  <1>0. lock = c /\ \A b \in Calls : IsInside(b) => b = c
    BY DEF Reads, Verifies, InsideIsLocked, IsInside, IsAt
  <1>1. guessed < LoginAttempts
    BY DEF Reads, Verifies, FailuresAreCounted, IsAt
  <1>a. ASSUME CountsFailure
        PROVE  /\ throttle' \in [count : Nat, elapsed : BOOLEAN]
               /\ guessed' \in Nat
               /\ guessed' <= LoginAttempts
               /\ ~throttle'.elapsed /\ guessed' <= throttle'.count
    BY <1>1, <1>a DEF CountsFailure, WithFailure, FailuresAreCounted, Typed
  <1>2. CASE Reads(c) /\ stored # NoPassword
    <2>2. Typed'
      BY <1>2 DEF Typed, Reads, Steps
    <2>3. InsideIsLocked'
      BY <1>2, <1>0 DEF InsideIsLocked, IsInside, Reads, Typed
    <2>4. ReadsAreCurrent' /\ FailuresAreCounted'
      BY <1>2, <1>1 DEF ReadsAreCurrent, FailuresAreCounted, Reads, Typed, IsAt
    <2>5. SessionsAreCurrent'
      BY <1>2 DEF SessionsAreCurrent, IsAuthenticated, Reads, Typed, IsAt
    <2> QED BY <2>2, <2>3, <2>4, <2>5
  <1>3. CASE /\ Ends(c) /\ (CountsFailure \/ UNCHANGED <<throttle, guessed>>)
             /\ call[c].step \in {"reading", "verifying"}
             /\ UNCHANGED <<stored, era, sessions, cut>>
    <2>1. throttle' \in [count : Nat, elapsed : BOOLEAN] /\ guessed' \in Nat
      BY <1>3, <1>a DEF Typed
    <2>2. Typed'
      BY <1>3, <2>1 DEF Typed, Ends, Idle, Steps, Ops
    <2>3. InsideIsLocked'
      BY <1>3, <1>0 DEF InsideIsLocked, IsInside, Ends, Typed, Idle
    <2>4. ReadsAreCurrent'
      BY <1>3, <1>0 DEF ReadsAreCurrent, Ends, Typed, Idle, IsAt
    <2>5. \A b \in Calls : call'[b].step \notin {"reading", "verifying"}
      BY <1>3, <1>0 DEF Ends, Typed, Idle, IsInside
    <2>6. /\ guessed' <= LoginAttempts
          /\ IF throttle'.elapsed THEN guessed' = 0 ELSE guessed' <= throttle'.count
      BY <1>3, <1>a DEF FailuresAreCounted, Typed
    <2>7. SessionsAreCurrent'
      BY <1>3 DEF SessionsAreCurrent, IsAuthenticated, Ends, Typed, IsAt, Idle
    <2> QED BY <2>2, <2>3, <2>4, <2>5, <2>6, <2>7 DEF FailuresAreCounted
  <1>4. CASE Verifies(c) /\ call[c].given = call[c].seen
    <2>0. throttle' = NoFailures /\ guessed' = 0
      BY <1>4 DEF Verifies
    <2>1. call[c].era = era /\ call[c].era \in Nat
      BY <1>4 DEF ReadsAreCurrent, Verifies, Typed
    <2>2. /\ sessions' \in [Tokens -> [live : BOOLEAN, era : Nat, expired : BOOLEAN]]
          /\ \A t \in Tokens : sessions'[t] = sessions[t] \/ sessions'[t].era = era
      BY <1>4, <2>1, CreatesOne DEF Verifies, Typed
    <2>3. \/ Ends(c)
          \/ call[c].op # "login" /\ Goes(c, "hashing") /\ UNCHANGED lock
      BY <1>4 DEF Verifies
    <2>4. UNCHANGED <<stored, era, cut>>
      BY <1>4 DEF Verifies
    <2>5. Typed'
      BY <2>0, <2>2, <2>3, <2>4, SMTT(30) DEF Typed, Ends, Goes, NoFailures, Idle, Steps, Ops
    <2>6. InsideIsLocked'
      BY <1>0, <2>3 DEF InsideIsLocked, IsInside, Ends, Goes, Typed, Idle
    <2>7. ReadsAreCurrent'
      BY <2>3, <2>4 DEF ReadsAreCurrent, Ends, Goes, Typed, IsAt, Idle
    <2>8. FailuresAreCounted'
      BY <2>0, <2>3 DEF FailuresAreCounted, NoFailures, Ends, Goes, Typed, Idle
    <2>9. \A b \in Calls : call[b].step # "revoking"
      BY <1>0, <1>4 DEF IsInside, Verifies, IsAt
    <2>10. SessionsAreCurrent'
      BY <2>2, <2>4, <2>9 DEF SessionsAreCurrent, IsAuthenticated, IsAt
    <2> QED BY <2>5, <2>6, <2>7, <2>8, <2>10
  <1>5. \/ Reads(c) /\ stored # NoPassword
        \/ /\ Ends(c) /\ (CountsFailure \/ UNCHANGED <<throttle, guessed>>)
           /\ call[c].step \in {"reading", "verifying"}
           /\ UNCHANGED <<stored, era, sessions, cut>>
        \/ Verifies(c) /\ call[c].given = call[c].seen
    BY DEF Reads, Verifies, IsAt
  <1> QED BY <1>2, <1>3, <1>4, <1>5

(* Writing and ending the sessions.  Only the writer is inside, so nobody's reading
   is made stale; and until it has ended the sessions it says so, by its step or,
   when it was cut off, by cut. *)
LEMMA WritingKeepsInv ==
    ASSUME Inv, NEW c \in Calls, Writes(c) \/ Revokes(c) \/ Fails(c)
    PROVE  Inv'
  <1> USE LoginIsTyped DEF Inv
  <1>1. CASE Writes(c)
    <2>1. \A b \in Calls : IsInside(b) => b = c
      BY <1>1 DEF Writes, InsideIsLocked, IsInside, IsAt
    <2>2. era' = era + 1 /\ stored' \in Passwords \union {NoPassword}
      BY <1>1 DEF Writes, Typed
    <2>3. UNCHANGED <<sessions, throttle, guessed>>
      BY <1>1 DEF Writes
    <2>4. \/ Goes(c, "revoking") /\ UNCHANGED <<lock, cut>>
          \/ Ends(c) /\ cut' = TRUE
      BY <1>1 DEF Writes
    <2>5. Typed'
      <3>0. era' \in Nat
        BY <2>2 DEF Typed
      <3>1. cut' \in BOOLEAN
        BY <2>4 DEF Typed
      <3>2. call' \in [Calls -> [step : Steps, op : Ops, given : Passwords \union {NoPassword},
                                 seen : Passwords \union {NoPassword}, era : Nat]]
        <4>1. Goes(c, "revoking") \/ Ends(c)
          BY <2>4
        <4>2. CASE Goes(c, "revoking")
          BY <4>2 DEF Typed, Goes, Steps
        <4>3. CASE Ends(c)
          BY <4>3 DEF Typed, Ends, Idle, Steps, Ops
        <4> QED BY <4>1, <4>2, <4>3
      <3> QED BY <3>0, <3>1, <3>2, <2>2, <2>3 DEF Typed
    <2>6. InsideIsLocked'
      BY <2>1, <2>4, <1>1 DEF InsideIsLocked, IsInside, Goes, Ends, Idle, Typed, Writes, IsAt
    <2>7. ReadsAreCurrent' /\ FailuresAreCounted'
      BY <2>1, <2>3, <2>4
      DEF ReadsAreCurrent, FailuresAreCounted, IsInside, Goes, Ends, Idle, Typed, IsAt
    <2>8. SessionsAreCurrent'
      BY <2>4 DEF SessionsAreCurrent, Goes, Ends, Typed, IsAt
    <2> QED BY <2>5, <2>6, <2>7, <2>8
  <1>2. CASE Revokes(c)
    <2>1. \A b \in Calls : IsInside(b) => b = c
      BY <1>2 DEF Revokes, InsideIsLocked, IsInside, IsAt
    <2>2. RevokeAll(sessions) \in [Tokens -> [live : BOOLEAN, era : Nat, expired : BOOLEAN]]
      BY DEF RevokeAll, NoSession
    <2>3. /\ sessions' \in [Tokens -> [live : BOOLEAN, era : Nat, expired : BOOLEAN]]
          /\ \A t \in Tokens : sessions'[t] = RevokeAll(sessions)[t] \/ sessions'[t].era = era
      BY <1>2, <2>2, CreatesOne DEF Revokes, Typed
    <2>4. Ends(c) /\ cut' = FALSE /\ UNCHANGED <<stored, era, throttle, guessed>>
      BY <1>2 DEF Revokes
    <2>5. Typed'
      BY <2>3, <2>4 DEF Typed, Ends, Idle, Steps, Ops
    <2>6. InsideIsLocked'
      BY <2>1, <2>4 DEF InsideIsLocked, IsInside, Ends, Idle, Typed
    <2>7. ReadsAreCurrent' /\ FailuresAreCounted'
      BY <2>4 DEF ReadsAreCurrent, FailuresAreCounted, Ends, Idle, Typed, IsAt
    <2>8. SessionsAreCurrent'
      BY <2>3, <2>4 DEF SessionsAreCurrent, IsAuthenticated, RevokeAll, NoSession
    <2> QED BY <2>5, <2>6, <2>7, <2>8
  <1>3. CASE Fails(c)
    <2>1. Ends(c) /\ UNCHANGED <<stored, era, sessions, throttle, guessed, cut>>
      BY <1>3 DEF Fails
    <2>2. call[c].step # "revoking"
      BY <1>3 DEF Fails, IsAt
    <2>3. Typed'
      BY <2>1 DEF Typed, Ends, Idle, Steps, Ops
    <2>4. InsideIsLocked'
      BY <2>1 DEF InsideIsLocked, IsInside, Ends, Idle, Typed
    <2>5. ReadsAreCurrent' /\ FailuresAreCounted'
      BY <2>1 DEF ReadsAreCurrent, FailuresAreCounted, Ends, Idle, Typed, IsAt
    <2>6. SessionsAreCurrent'
      BY <2>1, <2>2 DEF SessionsAreCurrent, IsAuthenticated, Ends, Typed, IsAt
    <2> QED BY <2>3, <2>4, <2>5, <2>6
  <1> QED BY <1>1, <1>2, <1>3

(* What is not a call's step: sessions end, windows elapse, the process restarts. *)
LEMMA OthersKeepInv ==
    ASSUME Inv, EndsSession \/ SessionExpires \/ WindowElapses \/ Restart
    PROVE  Inv'
  <1> USE LoginIsTyped DEF Inv
  <1>1. CASE EndsSession \/ SessionExpires
    <2>1. /\ UNCHANGED <<stored, era, throttle, lock, call, guessed, cut>>
          /\ sessions' \in [Tokens -> [live : BOOLEAN, era : Nat, expired : BOOLEAN]]
          /\ \A t \in Tokens :
               sessions'[t] = sessions[t] \/ ~sessions'[t].live \/ sessions'[t].expired
      <3>1. CASE EndsSession
        BY <3>1 DEF EndsSession, NoSession, Typed
      <3>2. CASE SessionExpires
        <4>1. PICK u \in Tokens : sessions' = [sessions EXCEPT ![u].expired = TRUE]
          BY <3>2 DEF SessionExpires
        <4>2. UNCHANGED <<stored, era, throttle, lock, call, guessed, cut>>
          BY <3>2 DEF SessionExpires
        <4>3. sessions[u] \in [live : BOOLEAN, era : Nat, expired : BOOLEAN]
          BY DEF Typed
        <4> QED BY <4>1, <4>2, <4>3 DEF Typed
      <3> QED BY <1>1, <3>1, <3>2
    <2>2. Typed' /\ InsideIsLocked' /\ ReadsAreCurrent' /\ FailuresAreCounted'
      BY <2>1 DEF Typed, InsideIsLocked, IsInside, ReadsAreCurrent, FailuresAreCounted, IsAt
    <2>3. SessionsAreCurrent'
      BY <2>1 DEF SessionsAreCurrent, IsAuthenticated, IsAt
    <2> QED BY <2>2, <2>3
  <1>2. CASE WindowElapses
    <2>1. Typed' /\ InsideIsLocked' /\ ReadsAreCurrent'
      BY <1>2 DEF WindowElapses, Typed, InsideIsLocked, IsInside, ReadsAreCurrent, IsAt
    <2>2. FailuresAreCounted' /\ SessionsAreCurrent'
      BY <1>2
      DEF WindowElapses, Typed, FailuresAreCounted, SessionsAreCurrent, IsAuthenticated, IsAt
    <2> QED BY <2>1, <2>2
  <1>3. CASE Restart
    <2>1. Typed' /\ InsideIsLocked' /\ ReadsAreCurrent'
      BY <1>3 DEF Restart, Typed, NoSession, NoFailures, Idle, Steps, Ops, InsideIsLocked,
                  IsInside, ReadsAreCurrent, IsAt
    <2>2. FailuresAreCounted' /\ SessionsAreCurrent'
      BY <1>3 DEF Restart, FailuresAreCounted, NoFailures, Idle, SessionsAreCurrent,
                  IsAuthenticated, NoSession
    <2> QED BY <2>1, <2>2
  <1> QED BY <1>1, <1>2, <1>3

-----------------------------------------------------------------------------
(* The invariant holds of every state of every behaviour: under the lock, a check of
   the password and what follows from it are one step. *)
THEOREM InvHolds == Spec => []Inv
  <1>1. Inv /\ [Next]_vars => Inv'
    <2> SUFFICES ASSUME Inv, [Next]_vars PROVE Inv'
      OBVIOUS
    <2>1. CASE \E c \in Calls : CallSteps(c)
      <3>1. PICK c \in Calls : CallSteps(c)
        BY <2>1
      <3>2. CASE (\E op \in Ops, given \in Passwords : Begins(c, op, given))
                  \/ Hashes(c) \/ Enters(c)
        BY <3>2, EnteringKeepsInv
      <3>3. CASE Reads(c) \/ Verifies(c)
        BY <3>3, CheckingKeepsInv
      <3>4. CASE Writes(c) \/ Revokes(c) \/ Fails(c)
        BY <3>4, WritingKeepsInv
      <3> QED BY <3>1, <3>2, <3>3, <3>4 DEF CallSteps
    <2>2. CASE EndsSession \/ SessionExpires \/ WindowElapses \/ Restart
      BY <2>2, OthersKeepInv
    <2>3. CASE UNCHANGED vars
      BY <2>3 DEF vars, Inv, Typed, InsideIsLocked, IsInside, ReadsAreCurrent,
                  FailuresAreCounted, SessionsAreCurrent, IsAuthenticated, IsAt
    <2> QED BY <2>1, <2>2, <2>3 DEF Next
  <1> QED BY <1>1, InitInv, PTL DEF Spec

(* A session is of the password that is stored, or about to be ended, however many
   calls log in and change it at once. *)
THEOREM SessionsStayCurrent == Spec => []SessionsAreCurrent
  <1>1. Inv => SessionsAreCurrent
    BY DEF Inv
  <1> QED BY <1>1, InvHolds, PTL

(* No more wrong passwords are answered in a window than LOGIN_ATTEMPTS, however
   many calls give them at once. *)
THEOREM GuessesStayLimited == Spec => []GuessesAreLimited
  <1>1. Inv => GuessesAreLimited
    BY DEF Inv, FailuresAreCounted, GuessesAreLimited
  <1> QED BY <1>1, InvHolds, PTL
=============================================================================
