----------------------- MODULE RateLimitedClientProofs -----------------------
(***************************************************************************)
(* The safety of RateLimitedClient, and that it implements PoliteSource,   *)
(* for any calls, keys and limits.                                         *)
(***************************************************************************)
EXTENDS RateLimitedClient, SequenceTheorems, TLAPS

New == {"unsent", "missed"}
Holding == {"popped", "in_flight", "finished", "recorded"}

(***************************************************************************)
(* The inductive invariant: what ties a call to its job, the job to its    *)
(* attempts and the worker's phase to what is in its hands.                *)
(***************************************************************************)
JobInHands ==
    /\ phase \in Holding <=> job # NoJob
    /\ phase \in {"finished", "recorded"} => outcome \in Outcomes
    /\ job # NoJob =>
        /\ sent[job.call] = job.attempts
        /\ call[job.call] \notin New
        /\ phase = "popped" => job.attempts < MaxAttempts
        /\ IsInteractive(job) => job.attempts = IF phase = "popped" THEN 0 ELSE 1
        /\ \A i \in DOMAIN jobs : jobs[i].call # job.call

JobsQueued ==
    /\ \A i \in DOMAIN jobs :
        /\ sent[jobs[i].call] = jobs[i].attempts
        /\ call[jobs[i].call] \notin New
        /\ jobs[i].attempts < MaxAttempts
        /\ IsInteractive(jobs[i]) => i = 1 /\ jobs[i].attempts = 0
    /\ \A i, h \in DOMAIN jobs : jobs[i].call = jobs[h].call => i = h

HasJob(c) ==
    \/ \E i \in DOMAIN jobs : jobs[i].call = c
    \/ job # NoJob /\ job.call = c

CallsKept ==
    /\ \A c \in Calls :
        /\ call[c] \in New => sent[c] = 0
        /\ call[c] = "waiting" => HasJob(c)
        /\ c \in Interactive => sent[c] <= 1
        /\ call[c] = "gave_up" => sent[c] = MaxAttempts
        /\ call[c] = "failed" => c \in Interactive
    /\ newest # NoCall => call[newest] \notin New \union {"superseded"}

AnswersShared ==
    /\ \A k \in Keys : hits[k] <= 1 /\ (cache[k] = "none" => hits[k] = 0)
    /\ phase \in {"in_flight", "finished"} => cache[KeyOf[job.call]] = "none"

Inv == TypeOK /\ JobInHands /\ JobsQueued /\ CallsKept /\ AnswersShared

-----------------------------------------------------------------------------
(* The rest a source is given is never longer than MaxPause, whatever it asks
   for and however often it has failed. *)
LEMMA PauseAfterType ==
    ASSUME NEW s \in 0..MaxFailures, NEW o \in Outcomes, AsksToWait(o)
    PROVE  /\ StreakAfter(s, o) \in 0..MaxFailures
           /\ PauseAfter(StreakAfter(s, o), o) \in 0..MaxPause
<1> USE LimitsAreDurations
<1> DEFINE t == StreakAfter(s, o)
<1>1. t \in 0..MaxFailures /\ (IsFailure(o) => t >= 1)
  BY DEF StreakAfter, Lesser, IsFailure, Answers, Outcomes
<1>2. ASSUME IsFailure(o)
      PROVE  Pauses[Lesser(t, Len(Pauses))] \in Nat
  <2>1. Len(Pauses) \in Nat
    BY LenProperties
  <2>2. Lesser(t, Len(Pauses)) \in 1..Len(Pauses)
    BY <1>1, <1>2, <2>1 DEF Lesser
  <2> QED BY <2>2, ElementOfSeq
<1>3. o.wait # NoHeader => o.wait \in Nat
  BY DEF Outcomes, Waits
<1>4. PauseAfter(t, o) \in 0..MaxPause
  <2>1. CASE o.wait # NoHeader
    BY <2>1, <1>3 DEF PauseAfter, Lesser
  <2>2. CASE o.wait = NoHeader /\ o.kind = "too_many_requests"
    BY <2>2 DEF PauseAfter, Lesser
  <2>3. CASE o.wait = NoHeader /\ o.kind # "too_many_requests"
    <3>1. IsFailure(o)
      BY <2>3 DEF AsksToWait
    <3> DEFINE p == Pauses[Lesser(t, Len(Pauses))]
    <3>2. p \in Nat
      BY <3>1, <1>2
    <3>3. PauseAfter(t, o) = Lesser(MaxPause, p)
      BY <2>3 DEF PauseAfter
    <3> HIDE DEF p
    <3> QED BY <3>2, <3>3 DEF Lesser
  <2> QED BY <2>1, <2>2, <2>3
<1> QED BY <1>1, <1>4

LEMMA StreakAfterType ==
    ASSUME NEW s \in 0..MaxFailures, NEW o \in Outcomes
    PROVE  StreakAfter(s, o) \in 0..MaxFailures
BY LimitsAreDurations DEF StreakAfter, Lesser, IsFailure, Answers, Outcomes

(* Putting a job in front moves every other one back by one. *)
LEMMA PushFront ==
    ASSUME NEW S, NEW s \in Seq(S), NEW e \in S
    PROVE  /\ <<e>> \o s \in Seq(S)
           /\ Len(<<e>> \o s) = Len(s) + 1
           /\ (<<e>> \o s)[1] = e
           /\ \A i \in 1..(Len(s) + 1) : i # 1 => (<<e>> \o s)[i] = s[i - 1]
<1>1. <<e>> \in Seq(S) /\ Len(<<e>>) = 1 /\ <<e>>[1] = e
  OBVIOUS
<1>2. Len(s) \in Nat
  BY LenProperties
<1> QED BY <1>1, <1>2, ConcatProperties

(* What the type invariant says of the calls that jobs are for. *)
LEMMA JobsTyped ==
    ASSUME TypeOK
    PROVE  /\ jobs \in Seq(Job) /\ Len(jobs) \in Nat /\ DOMAIN jobs = 1..Len(jobs)
           /\ \A i \in DOMAIN jobs : jobs[i] \in Job /\ jobs[i].call \in Calls
           /\ job # NoJob => job \in Job /\ job.call \in Calls
           /\ newest # NoCall => newest \in Calls
<1>1. jobs \in Seq(Job) /\ Len(jobs) \in Nat /\ DOMAIN jobs = 1..Len(jobs)
  BY LenProperties DEF TypeOK
<1>2. \A i \in DOMAIN jobs : jobs[i] \in Job
  BY <1>1, ElementOfSeq
<1>3. (job # NoJob => job \in Job) /\ (newest # NoCall => newest \in Calls)
  BY CallsAreTyped DEF TypeOK
<1> QED BY <1>1, <1>2, <1>3 DEF Job

-----------------------------------------------------------------------------
(***************************************************************************)
(* The steps of the callers                                                *)
(***************************************************************************)

(* Queuing a call, in each of the three ways of JobDeque::push, keeps the
   invariant. *)
LEMMA QueueKeepsInv ==
    ASSUME Inv, NEW c \in Calls, Queue(c)
    PROVE  Inv'
<1> DEFINE j == [call |-> c, attempts |-> 0]
           calls == [call EXCEPT ![c] = "waiting"]
<1> USE CallsAreTyped
<1>1. j \in Job /\ calls \in [Calls -> CallStates]
  BY DEF Job, Inv, TypeOK, CallStates
<1>2. jobs \in Seq(Job) /\ Len(jobs) \in Nat /\ DOMAIN jobs = 1..Len(jobs)
  BY LenProperties DEF Inv, TypeOK
<1>3. /\ \A i \in DOMAIN jobs : jobs[i].call # c /\ jobs[i] \in Job
      /\ job # NoJob => job.call # c
  BY <1>2, ElementOfSeq DEF Inv, JobsQueued, JobInHands, Queue, New
<1>4. ASSUME /\ jobs' \in Seq(Job)
             /\ DOMAIN jobs' = 1..Len(jobs')
             /\ call' \in [Calls -> CallStates]
             /\ \A d \in Calls : call'[d] # call[d] =>
                      \/ d = c /\ call'[d] = "waiting"
                      \/ /\ d # c /\ c \in Interactive
                         /\ call[d] = "waiting" /\ call'[d] = "superseded"
             /\ call'[c] = "waiting"
             /\ \A d \in Calls : call'[d] = "waiting" => HasJob(d)'
             /\ \A i \in DOMAIN jobs' : jobs'[i] # j =>
                    \E h \in DOMAIN jobs : jobs'[i] = jobs[h] /\ (IsInteractive(jobs[h]) => i = 1)
             /\ \A i \in DOMAIN jobs' : jobs'[i] = j => (IsInteractive(j) => i = 1)
             /\ \A i, h \in DOMAIN jobs' : jobs'[i].call = jobs'[h].call => i = h
      PROVE  Inv'
  <2>0. /\ UNCHANGED <<paused, failures, cache, phase, job, outcome, cooldown, alive,
                        asked, sent, hits>>
        /\ permit' = TRUE
        /\ newest' = IF c \in Interactive THEN c ELSE newest
    BY DEF Queue, NotifyOne, workerVars
  <2>1. TypeOK'
    BY <1>4, <2>0 DEF Inv, TypeOK
  <2>2. \A d \in Calls : call'[d] \in New => call[d] \in New /\ d # c
    BY <1>4 DEF New
  <2>3. JobInHands'
    <3>1. job # NoJob => job \in Job /\ job.call \in Calls
      BY DEF Inv, TypeOK, Job
    <3>2. ASSUME job # NoJob, NEW i \in DOMAIN jobs'
          PROVE  jobs'[i].call # job.call
      <4>1. CASE jobs'[i] = j
        BY <4>1, <3>2, <1>3
      <4>2. CASE jobs'[i] # j
        BY <4>2, <3>2, <1>4 DEF Inv, JobInHands
      <4> QED BY <4>1, <4>2
    <3> QED BY <2>0, <2>2, <3>1, <3>2 DEF Inv, JobInHands, IsInteractive
  <2>4. JobsQueued'
    <3>1. ASSUME NEW i \in DOMAIN jobs'
          PROVE  /\ sent'[jobs'[i].call] = jobs'[i].attempts
                 /\ call'[jobs'[i].call] \notin New
                 /\ jobs'[i].attempts < MaxAttempts
                 /\ IsInteractive(jobs'[i]) => i = 1 /\ jobs'[i].attempts = 0
      <4>1. CASE jobs'[i] = j
        <5>1. sent[c] = 0
          BY DEF Inv, CallsKept, Queue, New
        <5> QED BY <4>1, <5>1, <2>0, <1>4 DEF New
      <4>2. CASE jobs'[i] # j
        <5>1. PICK h \in DOMAIN jobs : jobs'[i] = jobs[h] /\ (IsInteractive(jobs[h]) => i = 1)
          BY <4>2, <1>4
        <5>2. jobs[h].call \in Calls
          BY <1>3 DEF Job
        <5>3. /\ sent[jobs[h].call] = jobs[h].attempts
              /\ call[jobs[h].call] \notin New
              /\ jobs[h].attempts < MaxAttempts
              /\ IsInteractive(jobs[h]) => jobs[h].attempts = 0
          BY DEF Inv, JobsQueued
        <5> QED BY <5>1, <5>2, <5>3, <2>0, <2>2
      <4> QED BY <4>1, <4>2
    <3> QED BY <3>1, <1>4 DEF JobsQueued, IsInteractive
  <2>5. CallsKept'
    <3>1. ASSUME NEW d \in Calls
          PROVE  /\ call'[d] \in New => sent'[d] = 0
                 /\ call'[d] = "waiting" => HasJob(d)'
                 /\ d \in Interactive => sent'[d] <= 1
                 /\ call'[d] = "gave_up" => sent'[d] = MaxAttempts
                 /\ call'[d] = "failed" => d \in Interactive
      BY <2>0, <2>2, <1>4 DEF Inv, CallsKept
    <3>2. newest' # NoCall => call'[newest'] \notin New \union {"superseded"}
      <4>1. CASE c \in Interactive
        BY <4>1, <2>0, <1>4 DEF New
      <4>2. CASE c \notin Interactive
        <5>1. newest' = newest /\ (newest # NoCall => newest \in Calls)
          BY <4>2, <2>0 DEF Inv, TypeOK
        <5>2. newest # NoCall => call[newest] \notin New \union {"superseded"}
          BY DEF Inv, CallsKept
        <5> QED BY <4>2, <5>1, <5>2, <2>2, <1>4 DEF New
      <4> QED BY <4>1, <4>2
    <3> QED BY <3>1, <3>2 DEF CallsKept
  <2>6. AnswersShared'
    BY <2>0 DEF Inv, AnswersShared
  <2> QED BY <2>1, <2>3, <2>4, <2>5, <2>6 DEF Inv
<1>5. CASE ~IsInteractive(j)
  <2>1. jobs' = Append(jobs, j) /\ call' = calls
    BY <1>5 DEF Queue, Push
  <2>2. /\ jobs' \in Seq(Job) /\ Len(jobs') = Len(jobs) + 1
        /\ jobs'[Len(jobs) + 1] = j
        /\ \A i \in 1..Len(jobs) : jobs'[i] = jobs[i]
    BY <2>1, <1>1, <1>2, AppendProperties
  <2>3. DOMAIN jobs' = 1..(Len(jobs) + 1)
    BY <2>2, LenProperties
  <2>4. \A d \in Calls : call'[d] = IF d = c THEN "waiting" ELSE call[d]
    BY <2>1 DEF Inv, TypeOK
  <2>5. ASSUME NEW d \in Calls, call'[d] = "waiting"
        PROVE  HasJob(d)'
    <3>1. CASE d = c
      BY <3>1, <2>2, <2>3, <1>2 DEF HasJob
    <3>2. CASE d # c
      <4>1. HasJob(d)
        BY <3>2, <2>4, <2>5 DEF Inv, CallsKept
      <4>2. job' = job
        BY DEF Queue, workerVars
      <4> QED BY <4>1, <4>2, <2>2, <2>3, <1>2 DEF HasJob
    <3> QED BY <3>1, <3>2
  <2>6. \A i \in DOMAIN jobs' : jobs'[i] # j =>
            \E h \in DOMAIN jobs : jobs'[i] = jobs[h] /\ (IsInteractive(jobs[h]) => i = 1)
    BY <2>2, <2>3, <1>2 DEF Inv, JobsQueued
  <2>7. \A i, h \in DOMAIN jobs' : jobs'[i].call = jobs'[h].call => i = h
    BY <2>2, <2>3, <1>2, <1>3 DEF Inv, JobsQueued
  <2> QED BY <1>4, <1>5, <1>1, <2>1, <2>2, <2>3, <2>4, <2>5, <2>6, <2>7
<1>6. CASE IsInteractive(j) /\ ~InteractiveIsWaiting
  <2>1. jobs' = <<j>> \o jobs /\ call' = calls
    BY <1>6 DEF Queue, Push
  <2>2. /\ jobs' \in Seq(Job) /\ Len(jobs') = Len(jobs) + 1
        /\ jobs'[1] = j
        /\ \A i \in 1..(Len(jobs) + 1) : i # 1 => jobs'[i] = jobs[i - 1]
    BY <2>1, <1>1, <1>2, PushFront
  <2>3. DOMAIN jobs' = 1..(Len(jobs) + 1)
    BY <2>2, LenProperties
  <2>4. \A d \in Calls : call'[d] = IF d = c THEN "waiting" ELSE call[d]
    BY <2>1 DEF Inv, TypeOK
  <2>5. ASSUME NEW d \in Calls, call'[d] = "waiting"
        PROVE  HasJob(d)'
    <3>1. CASE d = c
      BY <3>1, <2>2, <2>3, <1>2 DEF HasJob
    <3>2. CASE d # c
      <4>1. HasJob(d) /\ job' = job
        BY <3>2, <2>4, <2>5 DEF Inv, CallsKept, Queue, workerVars
      <4>2. \A h \in DOMAIN jobs : h + 1 \in DOMAIN jobs' /\ jobs'[h + 1] = jobs[h]
        BY <2>2, <2>3, <1>2
      <4> QED BY <4>1, <4>2 DEF HasJob
    <3> QED BY <3>1, <3>2
  <2>6. \A i \in DOMAIN jobs : ~IsInteractive(jobs[i])
    <3>1. jobs # <<>> => Head(jobs) = jobs[1]
      BY <1>2
    <3> QED BY <3>1, <1>2, <1>6 DEF Inv, JobsQueued, InteractiveIsWaiting
  <2>7. \A i \in DOMAIN jobs' : i # 1 =>
            i - 1 \in DOMAIN jobs /\ jobs'[i] = jobs[i - 1] /\ jobs'[i].call # c
    BY <2>2, <2>3, <1>2, <1>3
  <2>8. \A i \in DOMAIN jobs' : jobs'[i] # j =>
            \E h \in DOMAIN jobs : jobs'[i] = jobs[h] /\ (IsInteractive(jobs[h]) => i = 1)
    BY <2>2, <2>6, <2>7
  <2>9. \A i \in DOMAIN jobs' : jobs'[i] = j => i = 1
    BY <2>7
  <2>10. ASSUME NEW i \in DOMAIN jobs', NEW h \in DOMAIN jobs', jobs'[i].call = jobs'[h].call
         PROVE  i = h
    <3>1. CASE i = 1 \/ h = 1
      BY <3>1, <2>2, <2>7, <2>10
    <3>2. CASE i # 1 /\ h # 1
      <4>1. i - 1 = h - 1
        BY <3>2, <2>7, <2>10 DEF Inv, JobsQueued
      <4> QED BY <4>1, <2>3, <1>2
    <3> QED BY <3>1, <3>2
  <2> QED BY <1>4, <1>1, <2>1, <2>2, <2>3, <2>4, <2>5, <2>8, <2>9, <2>10
<1>7. CASE IsInteractive(j) /\ InteractiveIsWaiting
  <2> DEFINE old == Head(jobs).call
  <2>1. jobs # <<>> /\ Head(jobs) = jobs[1] /\ Len(jobs) >= 1 /\ IsInteractive(jobs[1])
    BY <1>7, <1>2 DEF InteractiveIsWaiting
  <2>2. jobs' = <<j>> \o Tail(jobs) /\ call' = Answered(calls, old, "superseded")
    BY <1>7 DEF Queue, Push
  <2>3. /\ Tail(jobs) \in Seq(Job) /\ Len(Tail(jobs)) = Len(jobs) - 1
        /\ \A i \in 1..(Len(jobs) - 1) : Tail(jobs)[i] = jobs[i + 1]
    BY <2>1, <1>2, HeadTailProperties
  <2>4. /\ jobs' \in Seq(Job) /\ Len(jobs') = Len(jobs)
        /\ jobs'[1] = j
        /\ \A i \in 1..Len(jobs) : i # 1 => jobs'[i] = jobs[i]
    <3>1. /\ jobs' \in Seq(Job) /\ Len(jobs') = Len(Tail(jobs)) + 1
          /\ jobs'[1] = j
          /\ \A i \in 1..(Len(Tail(jobs)) + 1) : i # 1 => jobs'[i] = Tail(jobs)[i - 1]
      BY <2>2, <2>3, <1>1, PushFront
    <3> QED BY <3>1, <2>3, <2>1, <1>2
  <2>5. DOMAIN jobs' = 1..Len(jobs)
    BY <2>4, LenProperties
  <2>6. old \in Calls /\ old # c /\ old = jobs[1].call
    BY <2>1, <1>2, <1>3 DEF Job
  <2>7. /\ call' \in [Calls -> CallStates]
        /\ \A d \in Calls : call'[d] = IF d = c THEN "waiting"
                                      ELSE IF d = old /\ call[d] = "waiting" THEN "superseded"
                                      ELSE call[d]
    <3>1. \A d \in Calls : calls[d] = IF d = c THEN "waiting" ELSE call[d]
      BY DEF Inv, TypeOK
    <3> QED BY <2>2, <2>6, <3>1, <1>1 DEF Answered, CallStates, Replies
  <2>8. ASSUME NEW d \in Calls, call'[d] = "waiting"
        PROVE  HasJob(d)'
    <3>1. CASE d = c
      BY <3>1, <2>1, <2>4, <2>5, <1>2 DEF HasJob
    <3>2. CASE d # c
      <4>1. HasJob(d) /\ job' = job /\ d # old
        BY <3>2, <2>7, <2>8 DEF Inv, CallsKept, Queue, workerVars
      <4>2. \A h \in DOMAIN jobs : jobs[h].call = d => h # 1
        BY <4>1, <2>6
      <4> QED BY <4>1, <4>2, <2>4, <2>5, <1>2 DEF HasJob
    <3> QED BY <3>1, <3>2
  <2>9. \A i \in DOMAIN jobs' : jobs'[i] # j =>
            \E h \in DOMAIN jobs : jobs'[i] = jobs[h] /\ (IsInteractive(jobs[h]) => i = 1)
    BY <2>4, <2>5, <1>2 DEF Inv, JobsQueued
  <2>10. \A i \in DOMAIN jobs' : i \in DOMAIN jobs /\ (i # 1 => jobs'[i] = jobs[i])
    BY <2>4, <2>5, <1>2
  <2>11. \A i \in DOMAIN jobs' : i # 1 => jobs'[i].call # c
    BY <2>10, <1>3
  <2>12. \A i \in DOMAIN jobs' : jobs'[i] = j => i = 1
    BY <2>11
  <2>13. \A i, h \in DOMAIN jobs' : jobs'[i].call = jobs'[h].call => i = h
    <3>1. \A i, h \in DOMAIN jobs : jobs[i].call = jobs[h].call => i = h
      BY DEF Inv, JobsQueued
    <3>2. jobs'[1].call = c
      BY <2>4
    <3> QED BY <2>10, <2>11, <3>1, <3>2
  <2>14. c \in Interactive
    BY <1>7 DEF IsInteractive
  <2> HIDE DEF old, j, calls
  <2>15. call'[c] = "waiting"
    BY <2>7
  <2>16. \A d \in Calls : call'[d] # call[d] =>
                      \/ d = c /\ call'[d] = "waiting"
                      \/ /\ d # c /\ c \in Interactive
                         /\ call[d] = "waiting" /\ call'[d] = "superseded"
    BY <2>7, <2>14
  <2> QED BY <1>4, <2>4, <2>5, <2>7, <2>8, <2>9, <2>15, <2>16, <2>12, <2>13
<1> QED BY <1>5, <1>6, <1>7

(* So do a call that is answered at once, one that must queue, one that is
   dropped, and an unparsable body. *)
LEMMA CallersKeepInv ==
    ASSUME Inv, NEW c \in Calls, Get(c) \/ Abandon(c) \/ RejectBody(c)
    PROVE  Inv'
<1> USE CallsAreTyped
<1>1. UNCHANGED <<jobs, paused, failures, permit, phase, job, outcome, cooldown, alive, asked,
                  sent, newest>>
  BY DEF Get, Abandon, RejectBody, queueVars, workerVars, historyVars
<1>2. /\ call' \in [Calls -> CallStates]
      /\ \A d \in Calls : call'[d] # call[d] =>
            /\ call'[d] \in Answers \union {"missed", "abandoned", "unparsable"}
            /\ call'[d] = "missed" => call[d] = "unsent"
  BY DEF Get, Abandon, RejectBody, Inv, TypeOK, CallStates, Replies
<1>3. /\ cache' \in [Keys -> Answers \union {"none"}]
      /\ hits' \in [Keys -> Nat]
      /\ \A k \in Keys : \/ cache'[k] = cache[k] /\ hits'[k] = hits[k]
                         \/ cache'[k] = "none" /\ hits'[k] = 0
  <2>1. CASE Get(c) \/ Abandon(c)
    BY <2>1 DEF Get, Abandon, historyVars, Inv, TypeOK
  <2>2. CASE RejectBody(c)
    <3>1. cache \in [Keys -> Answers \union {"none"}] /\ hits \in [Keys -> Nat]
      BY DEF Inv, TypeOK
    <3>2. /\ cache' = [cache EXCEPT ![KeyOf[c]] = "none"]
          /\ hits' = [hits EXCEPT ![KeyOf[c]] = 0]
      BY <2>2 DEF RejectBody
    <3> QED BY <3>1, <3>2
  <2> QED BY <2>1, <2>2
<1>4. /\ \A i \in DOMAIN jobs : jobs[i].call \in Calls
      /\ job # NoJob => job.call \in Calls
      /\ newest # NoCall => newest \in Calls
  BY JobsTyped DEF Inv
<1>5. \A d \in Calls : call'[d] \in New => call[d] \in New
  BY <1>2 DEF New, Answers
<1>6. TypeOK'
  BY <1>1, <1>2, <1>3 DEF Inv, TypeOK
<1>7. JobInHands'
  BY <1>1, <1>4, <1>5 DEF Inv, JobInHands, IsInteractive
<1>8. JobsQueued'
  BY <1>1, <1>4, <1>5 DEF Inv, JobsQueued, IsInteractive
<1>9. CallsKept'
  BY <1>1, <1>2, <1>4, <1>5 DEF Inv, CallsKept, HasJob, New, Answers
<1>10. AnswersShared'
  BY <1>1, <1>3, <1>4 DEF Inv, AnswersShared, JobInHands, Holding
<1> QED BY <1>6, <1>7, <1>8, <1>9, <1>10 DEF Inv

(* Clearing the cache, dropping the client and the passing of time disturb
   nothing of it. *)
LEMMA SurroundingsKeepInv ==
    ASSUME Inv, ClearCache \/ DropClient \/ TimePasses
    PROVE  Inv'
<1> USE CallsAreTyped, LimitsAreDurations
<1>1. UNCHANGED <<jobs, failures, permit, phase, job, outcome, call, sent, newest>>
  BY DEF ClearCache, DropClient, TimePasses, queueVars, workerVars, historyVars
<1>2. /\ cache' \in [Keys -> Answers \union {"none"}]
      /\ hits' \in [Keys -> Nat]
      /\ \A k \in Keys : \/ cache'[k] = cache[k] /\ hits'[k] = hits[k]
                         \/ cache'[k] = "none" /\ hits'[k] = 0
  BY DEF ClearCache, DropClient, TimePasses, historyVars, Inv, TypeOK
<1>3. /\ paused' \in 0..MaxPause /\ asked' \in 0..MaxPause /\ cooldown' \in 0..MinInterval
      /\ alive' \in BOOLEAN
  <2>1. CASE ClearCache \/ DropClient
    BY <2>1 DEF ClearCache, DropClient, queueVars, workerVars, historyVars, Inv, TypeOK
  <2>2. CASE TimePasses
    BY <2>2 DEF TimePasses, Countdown, Inv, TypeOK
  <2> QED BY <2>1, <2>2
<1>4. job # NoJob => job.call \in Calls
  BY DEF Inv, TypeOK, Job
<1>5. TypeOK'
  BY <1>1, <1>2, <1>3 DEF Inv, TypeOK
<1>6. JobInHands' /\ JobsQueued' /\ CallsKept'
  BY <1>1 DEF Inv, JobInHands, JobsQueued, CallsKept, HasJob, IsInteractive
<1>7. AnswersShared'
  BY <1>1, <1>2, <1>4 DEF Inv, AnswersShared, JobInHands, Holding
<1> QED BY <1>5, <1>6, <1>7 DEF Inv

-----------------------------------------------------------------------------
(***************************************************************************)
(* The steps of the worker                                                 *)
(***************************************************************************)

(* The worker's idling keeps the invariant. *)
LEMMA IdlingKeepsInv ==
    ASSUME Inv, StartWaiting \/ Park \/ Wake
    PROVE  Inv'
<1>1. /\ UNCHANGED <<jobs, paused, failures, cache, call, job, outcome, cooldown, alive, asked,
                     sent, hits, newest>>
      /\ permit' \in BOOLEAN
      /\ {phase, phase'} \subseteq {"top", "parking", "idle", "sleeping"}
  BY DEF StartWaiting, Park, Wake, queueVars, historyVars, Inv, TypeOK
<1>2. TypeOK'
  BY <1>1 DEF Inv, TypeOK, Phases
<1>3. JobInHands' /\ JobsQueued' /\ CallsKept'
  BY <1>1 DEF Inv, JobInHands, JobsQueued, CallsKept, HasJob, IsInteractive, Holding
<1>4. AnswersShared'
  BY <1>1 DEF Inv, AnswersShared
<1> QED BY <1>2, <1>3, <1>4 DEF Inv

(* So does taking the first open job and dropping the closed ones before it. *)
LEMMA PopKeepsInv ==
    ASSUME Inv, Pop
    PROVE  Inv'
<1> USE CallsAreTyped
<1>1. /\ jobs \in Seq(Job) /\ Len(jobs) \in Nat /\ DOMAIN jobs = 1..Len(jobs)
      /\ \A i \in DOMAIN jobs : jobs[i] \in Job /\ jobs[i].call \in Calls
  BY JobsTyped DEF Inv
<1>2. UNCHANGED <<paused, failures, permit, cache, call, outcome, cooldown, alive, asked, sent,
                  hits, newest>>
  BY DEF Pop, historyVars
<1>3. phase = "sleeping" /\ job = NoJob
  BY DEF Pop, Inv, JobInHands, Holding
<1>4. AnswersShared'
  BY <1>2, <1>3 DEF Pop, Inv, AnswersShared
<1>5. CASE /\ \A i \in DOMAIN jobs : ~IsOpen(jobs[i])
           /\ jobs' = <<>> /\ phase' = "top" /\ job' = job
  <2>1. DOMAIN jobs' = {} /\ jobs' \in Seq(Job)
    BY <1>5
  <2>2. TypeOK' /\ JobInHands' /\ JobsQueued'
    BY <1>2, <1>3, <1>5, <2>1 DEF Inv, TypeOK, Phases, JobInHands, Holding, JobsQueued
  <2>3. CallsKept'
    BY <1>2, <1>3, <1>5 DEF Inv, CallsKept, HasJob, IsOpen
  <2> QED BY <1>4, <2>2, <2>3 DEF Inv
<1>6. ASSUME NEW i \in DOMAIN jobs, IsNext(i), job' = jobs[i], phase' = "popped",
             jobs' = SubSeq(jobs, i + 1, Len(jobs))
      PROVE  Inv'
  <2>1. i \in 1..Len(jobs)
    BY <1>1
  <2>2. /\ jobs' \in Seq(Job) /\ Len(jobs') = Len(jobs) - i
        /\ \A h \in 1..(Len(jobs) - i) : jobs'[h] = jobs[i + h]
    <3>1. \A h \in (i + 1)..Len(jobs) : jobs[h] \in Job
      BY <1>1, <2>1
    <3>2. /\ SubSeq(jobs, i + 1, Len(jobs)) \in Seq(Job)
          /\ Len(SubSeq(jobs, i + 1, Len(jobs))) =
                IF i + 1 <= Len(jobs) THEN Len(jobs) - (i + 1) + 1 ELSE 0
          /\ \A h \in 1..(Len(jobs) - (i + 1) + 1) :
                SubSeq(jobs, i + 1, Len(jobs))[h] = jobs[(i + 1) + h - 1]
      BY <3>1, <2>1, <1>1, SubSeqProperties
    <3>3. /\ Len(jobs) - (i + 1) + 1 = Len(jobs) - i
          /\ \A h \in 1..(Len(jobs) - i) : (i + 1) + h - 1 = i + h
      BY <1>1, <2>1
    <3> QED BY <3>2, <3>3, <1>6, <1>1, <2>1
  <2>3. DOMAIN jobs' = 1..(Len(jobs) - i)
    BY <2>2, LenProperties
  <2>4. \A h \in DOMAIN jobs' :
            h \in Nat /\ h >= 1 /\ i + h \in DOMAIN jobs /\ i + h # i /\ i + h # 1
              /\ jobs'[h] = jobs[i + h]
    BY <2>1, <2>2, <2>3, <1>1
  <2>5. TypeOK'
    BY <1>1, <1>2, <1>6, <2>2 DEF Inv, TypeOK, Phases
  <2>6. JobInHands'
    <3>1. job' # NoJob /\ phase' \in Holding
      BY <1>1, <1>6 DEF NoJob, Holding
    <3>2. \A h \in DOMAIN jobs' : jobs'[h].call # job'.call
      BY <2>4, <1>6 DEF Inv, JobsQueued
    <3> QED BY <1>2, <1>6, <3>1, <3>2 DEF Inv, JobInHands, JobsQueued, IsInteractive
  <2>7. JobsQueued'
    <3>1. \A h \in DOMAIN jobs' :
            /\ sent'[jobs'[h].call] = jobs'[h].attempts
            /\ call'[jobs'[h].call] \notin New
            /\ jobs'[h].attempts < MaxAttempts
            /\ ~IsInteractive(jobs'[h])
      BY <1>2, <2>4 DEF Inv, JobsQueued
    <3>2. ASSUME NEW g \in DOMAIN jobs', NEW h \in DOMAIN jobs', jobs'[g].call = jobs'[h].call
          PROVE  g = h
      <4>1. i + g = i + h
        BY <2>4, <3>2 DEF Inv, JobsQueued
      <4> QED BY <4>1, <2>1, <2>4, <1>1
    <3> QED BY <3>1, <3>2 DEF JobsQueued, IsInteractive
  <2>8. CallsKept'
    <3>1. ASSUME NEW c \in Calls, call[c] = "waiting"
          PROVE  HasJob(c)'
      <4>1. PICK h \in DOMAIN jobs : jobs[h].call = c
        BY <1>3, <3>1 DEF Inv, CallsKept, HasJob
      <4>2. CASE h < i
        BY <4>1, <4>2, <3>1, <1>1, <1>6, <2>1, SMTT(30) DEF IsNext, IsOpen
      <4>3. CASE h = i
        BY <4>1, <4>3, <1>1, <1>6 DEF HasJob, NoJob
      <4>4. CASE h > i
        <5>1. h - i \in DOMAIN jobs' /\ i + (h - i) = h
          BY <4>1, <4>4, <2>1, <2>3, <1>1
        <5> QED BY <5>1, <4>1, <2>4 DEF HasJob
      <4> QED BY <4>1, <4>2, <4>3, <4>4, <1>1, <2>1
    <3> QED BY <3>1, <1>2 DEF Inv, CallsKept
  <2> QED BY <1>4, <2>5, <2>6, <2>7, <2>8 DEF Inv
<1> QED BY <1>5, <1>6 DEF Pop

(* Handing the job's caller a reply, from the cache or from the source, ends the
   job: what is left to show of such a step. *)
LEMMA AnsweringKeepsInv ==
    ASSUME Inv, phase \in Holding, NEW r \in Replies \ {"superseded"},
           call' = Answered(call, job.call, r),
           r = "gave_up" => sent[job.call] = MaxAttempts,
           r = "failed" => job.call \in Interactive,
           job' = NoJob, phase' = "top",
           UNCHANGED <<jobs, permit, cache, cooldown, alive, asked, sent, hits, newest>>,
           failures' \in 0..MaxFailures, paused' \in 0..MaxPause,
           outcome' \in Outcomes \union {NoOutcome}
    PROVE  Inv'
<1> USE CallsAreTyped
<1>1. job # NoJob /\ job.call \in Calls
  BY JobsTyped DEF Inv, JobInHands
<1>2. /\ call' \in [Calls -> CallStates]
      /\ \A d \in Calls : call'[d] = IF d = job.call /\ call[d] = "waiting" THEN r ELSE call[d]
  BY <1>1 DEF Answered, Inv, TypeOK, CallStates
<1>3. \A d \in Calls : call'[d] \in New <=> call[d] \in New
  BY <1>2 DEF New, Replies, Answers
<1>4. TypeOK'
  BY <1>2 DEF Inv, TypeOK, Phases
<1>5. JobInHands'
  BY DEF JobInHands, Holding
<1>6. JobsQueued'
  BY <1>3, JobsTyped DEF Inv, JobsQueued, IsInteractive
<1>7. CallsKept'
  <2>1. ASSUME NEW d \in Calls
        PROVE  /\ call'[d] \in New => sent'[d] = 0
               /\ call'[d] = "waiting" => HasJob(d)'
               /\ d \in Interactive => sent'[d] <= 1
               /\ call'[d] = "gave_up" => sent'[d] = MaxAttempts
               /\ call'[d] = "failed" => d \in Interactive
    <3>1. call'[d] = "waiting" => call[d] = "waiting" /\ d # job.call
      BY <1>2 DEF Replies, Answers
    <3> QED BY <3>1, <1>2, <1>3 DEF Inv, CallsKept, HasJob
  <2>2. newest' # NoCall => call'[newest'] \notin New \union {"superseded"}
    BY <1>2, <1>3, JobsTyped DEF Inv, CallsKept
  <2> QED BY <2>1, <2>2 DEF CallsKept
<1>8. AnswersShared'
  BY DEF Inv, AnswersShared
<1> QED BY <1>4, <1>5, <1>6, <1>7, <1>8 DEF Inv

(* An answer found in the cache is one of Answers. *)
LEMMA AnswerFromCacheKeepsInv ==
    ASSUME Inv, AnswerFromCache
    PROVE  Inv'
<1>1. phase \in Holding
  BY DEF AnswerFromCache, Holding
<1>2. cache[KeyOf[job.call]] \in Answers
  BY <1>1, JobsTyped, CallsAreTyped DEF AnswerFromCache, IsCached, Inv, TypeOK, JobInHands
<1> DEFINE r == cache[KeyOf[job.call]]
<1>3. r \in Replies \ {"superseded"} /\ r # "gave_up" /\ r # "failed"
  BY <1>2 DEF Replies, Answers
<1>4. call' = Answered(call, job.call, r)
  BY DEF AnswerFromCache
<1>5. UNCHANGED <<jobs, permit, cache, cooldown, alive, asked, sent, hits, newest, failures,
                  paused, outcome>>
  BY DEF AnswerFromCache, queueVars, historyVars
<1>6. failures' \in 0..MaxFailures /\ paused' \in 0..MaxPause
        /\ outcome' \in Outcomes \union {NoOutcome}
  BY <1>5 DEF Inv, TypeOK
<1>7. job' = NoJob /\ phase' = "top"
  BY DEF AnswerFromCache
<1> HIDE DEF r
<1> QED BY <1>1, <1>3, <1>4, <1>5, <1>6, <1>7, AnsweringKeepsInv

(* Making a request uses up an attempt of the job and of its call alike. *)
LEMMA StartRequestKeepsInv ==
    ASSUME Inv, StartRequest
    PROVE  Inv'
<1> USE CallsAreTyped
<1>1. /\ job \in Job /\ job.call \in Calls /\ job # NoJob
      /\ job.attempts < MaxAttempts /\ job.attempts \in Nat
      /\ sent[job.call] = job.attempts
      /\ IsInteractive(job) => job.attempts = 0
  BY JobsTyped DEF StartRequest, Inv, JobInHands, Holding, Job
<1>2. /\ job'.call = job.call /\ job'.attempts = job.attempts + 1
      /\ job' \in Job /\ job' # NoJob
  BY <1>1 DEF StartRequest, Job, NoJob
<1>3. /\ sent' \in [Calls -> 0..MaxAttempts]
      /\ \A d \in Calls : sent'[d] = IF d = job.call THEN job.attempts + 1 ELSE sent[d]
  BY <1>1 DEF StartRequest, Inv, TypeOK
<1>4. /\ UNCHANGED <<jobs, paused, failures, permit, cache, call, outcome, cooldown, alive, asked,
                     hits, newest>>
      /\ phase = "popped" /\ phase' = "in_flight"
  BY DEF StartRequest, queueVars
<1>5. \A i \in DOMAIN jobs : jobs[i].call \in Calls /\ jobs[i].call # job.call
  BY <1>1, JobsTyped DEF Inv, JobInHands
<1>6. TypeOK'
  BY <1>2, <1>3, <1>4 DEF Inv, TypeOK, Phases
<1>7. JobInHands'
  BY <1>1, <1>2, <1>3, <1>4, <1>5 DEF Inv, JobInHands, Holding, IsInteractive
<1>8. JobsQueued'
  BY <1>3, <1>4, <1>5 DEF Inv, JobsQueued, IsInteractive
<1>9. CallsKept'
  <2>1. call[job.call] \notin New \union {"gave_up"}
    BY <1>1 DEF Inv, JobInHands, CallsKept
  <2>2. \A c \in Calls : HasJob(c)' <=> HasJob(c)
    BY <1>1, <1>2, <1>4 DEF HasJob
  <2> QED BY <2>1, <2>2, <1>1, <1>3, <1>4 DEF Inv, CallsKept, IsInteractive
<1>10. AnswersShared'
  BY <1>1, <1>2, <1>4 DEF StartRequest, IsCached, Inv, AnswersShared
<1> QED BY <1>6, <1>7, <1>8, <1>9, <1>10 DEF Inv

(* However the request ends, and whatever the source asked for. *)
LEMMA FinishRequestKeepsInv ==
    ASSUME Inv, NEW o \in Outcomes, FinishRequest(o)
    PROVE  Inv'
<1>1. /\ UNCHANGED <<jobs, paused, failures, permit, cache, call, job, alive, sent, hits, newest>>
      /\ phase = "in_flight" /\ phase' = "finished"
      /\ outcome' = o /\ cooldown' = MinInterval
  BY DEF FinishRequest, queueVars
<1>2. asked' \in 0..MaxPause
  BY PauseAfterType DEF FinishRequest, Inv, TypeOK
<1>3. cooldown' \in 0..MinInterval
  BY <1>1, LimitsAreDurations
<1>4. TypeOK'
  BY <1>1, <1>2, <1>3 DEF Inv, TypeOK, Phases
<1>5. JobInHands' /\ JobsQueued' /\ CallsKept'
  BY <1>1 DEF Inv, JobInHands, JobsQueued, CallsKept, HasJob, IsInteractive, Holding
<1>6. AnswersShared'
  BY <1>1 DEF Inv, AnswersShared
<1> QED BY <1>4, <1>5, <1>6 DEF Inv

(* An answer is recorded where there was none since the last eviction. *)
LEMMA RecordAnswerKeepsInv ==
    ASSUME Inv, RecordAnswer
    PROVE  Inv'
<1>1. /\ UNCHANGED <<jobs, paused, failures, permit, call, job, outcome, cooldown, alive, asked,
                     sent, newest>>
      /\ phase = "finished" /\ phase' = "recorded"
  BY DEF RecordAnswer, queueVars
<1>2. job.call \in Calls /\ KeyOf[job.call] \in Keys
  BY <1>1, JobsTyped, CallsAreTyped DEF Inv, JobInHands, Holding
<1>3. /\ cache \in [Keys -> Answers \union {"none"}]
      /\ hits \in [Keys -> Nat]
      /\ \A k \in Keys : hits[k] <= 1 /\ (cache[k] = "none" => hits[k] = 0)
      /\ cache[KeyOf[job.call]] = "none"
  BY <1>1 DEF Inv, TypeOK, AnswersShared
<1>4. /\ cache' \in [Keys -> Answers \union {"none"}]
      /\ hits' \in [Keys -> Nat]
      /\ \A k \in Keys : hits'[k] <= 1 /\ (cache'[k] = "none" => hits'[k] = 0)
  <2>1. CASE outcome.kind \in Answers
    <3>1. /\ cache' = [cache EXCEPT ![KeyOf[job.call]] = outcome.kind]
          /\ hits' = [hits EXCEPT ![KeyOf[job.call]] = @ + 1]
      BY <2>1 DEF RecordAnswer
    <3>2. outcome.kind # "none"
      BY <2>1 DEF Answers
    <3> QED BY <2>1, <3>1, <3>2, <1>2, <1>3
  <2>2. CASE outcome.kind \notin Answers
    BY <2>2, <1>3 DEF RecordAnswer
  <2> QED BY <2>1, <2>2
<1>5. TypeOK'
  BY <1>1, <1>4 DEF Inv, TypeOK, Phases
<1>6. JobInHands' /\ JobsQueued' /\ CallsKept'
  BY <1>1 DEF Inv, JobInHands, JobsQueued, CallsKept, HasJob, IsInteractive, Holding
<1>7. AnswersShared'
  BY <1>1, <1>4 DEF AnswersShared
<1> QED BY <1>5, <1>6, <1>7 DEF Inv

(* A reply that calls for no rest is an answer or the caller's own fault. *)
LEMMA SettleAnswerKeepsInv ==
    ASSUME Inv, SettleAnswer
    PROVE  Inv'
<1>1. phase \in Holding /\ outcome \in Outcomes
  BY DEF SettleAnswer, Holding, Inv, JobInHands
<1> DEFINE r == outcome.kind
<1>2. r \in Replies \ {"superseded"} /\ r # "gave_up" /\ r # "failed"
  BY <1>1 DEF SettleAnswer, AsksToWait, IsFailure, Outcomes, Replies, Answers
<1>3. /\ call' = Answered(call, job.call, r)
      /\ job' = NoJob /\ phase' = "top"
      /\ UNCHANGED <<jobs, permit, cache, cooldown, alive, asked, sent, hits, newest>>
  BY DEF SettleAnswer, historyVars
<1>4. failures' \in 0..MaxFailures /\ paused' \in 0..MaxPause
        /\ outcome' \in Outcomes \union {NoOutcome}
  BY <1>1, StreakAfterType DEF SettleAnswer, Inv, TypeOK
<1> HIDE DEF r
<1> QED BY <1>1, <1>2, <1>3, <1>4, AnsweringKeepsInv

(* A failed request's job is queued again, behind all others, or its caller is
   told why not. *)
LEMMA SettlePauseKeepsInv ==
    ASSUME Inv, SettlePause
    PROVE  Inv'
<1> USE CallsAreTyped
<1>1. /\ phase = "recorded" /\ outcome \in Outcomes /\ AsksToWait(outcome)
      /\ job # NoJob /\ job \in Job /\ job.call \in Calls
      /\ sent[job.call] = job.attempts /\ job.attempts \in 0..MaxAttempts
  BY JobsTyped DEF SettlePause, Holding, Inv, JobInHands, Job
<1>2. failures' \in 0..MaxFailures /\ paused' \in 0..MaxPause
        /\ outcome' \in Outcomes \union {NoOutcome}
  <2>1. failures \in 0..MaxFailures /\ paused \in 0..MaxPause
    BY DEF Inv, TypeOK
  <2>2. failures' = StreakAfter(failures, outcome)
    BY DEF SettlePause
  <2>3. failures' \in 0..MaxFailures /\ PauseAfter(failures', outcome) \in 0..MaxPause
    BY <1>1, <2>1, <2>2, PauseAfterType
  <2>4. paused' = Greater(paused, PauseAfter(failures', outcome))
    BY DEF SettlePause, Pause
  <2>5. outcome' = NoOutcome
    BY DEF SettlePause
  <2> QED BY <2>1, <2>3, <2>4, <2>5, LimitsAreDurations DEF Greater
<1>3. /\ job' = NoJob /\ phase' = "top" /\ outcome' = NoOutcome
      /\ UNCHANGED <<permit, cache, cooldown, alive, asked, sent, hits, newest>>
  BY DEF SettlePause, historyVars
<1>4. CASE ~MayRetry(job)
  <2> DEFINE r == IF Retries(job) THEN "gave_up" ELSE "failed"
  <2>1. jobs' = jobs /\ call' = Answered(call, job.call, r)
    BY <1>4 DEF SettlePause
  <2>2. r \in Replies \ {"superseded"}
    BY DEF Replies
  <2>3. r = "gave_up" => sent[job.call] = MaxAttempts
    BY <1>1, <1>4 DEF MayRetry
  <2>4. r = "failed" => job.call \in Interactive
    BY DEF Retries, IsInteractive
  <2> HIDE DEF r
  <2> QED BY <1>1, <1>2, <1>3, <2>1, <2>2, <2>3, <2>4, AnsweringKeepsInv DEF Holding
<1>5. CASE MayRetry(job)
  <2>1. ~IsInteractive(job) /\ job.attempts < MaxAttempts
    BY <1>5 DEF MayRetry, Retries
  <2>2. jobs' = Append(jobs, job) /\ call' = call
    BY <1>5, <2>1 DEF SettlePause, Push
  <2>3. /\ jobs \in Seq(Job) /\ Len(jobs) \in Nat /\ DOMAIN jobs = 1..Len(jobs)
        /\ \A i \in DOMAIN jobs : jobs[i].call \in Calls /\ jobs[i].call # job.call
    BY <1>1, JobsTyped DEF Inv, JobInHands
  <2>4. /\ jobs' \in Seq(Job) /\ Len(jobs') = Len(jobs) + 1
        /\ jobs'[Len(jobs) + 1] = job
        /\ \A i \in 1..Len(jobs) : jobs'[i] = jobs[i]
    BY <2>2, <2>3, <1>1, AppendProperties
  <2>5. /\ DOMAIN jobs' = 1..(Len(jobs) + 1)
        /\ \A i \in DOMAIN jobs' :
              \/ i = Len(jobs) + 1 /\ jobs'[i] = job
              \/ i \in DOMAIN jobs /\ jobs'[i] = jobs[i]
    <3>1. DOMAIN jobs' = 1..(Len(jobs) + 1)
      BY <2>4, LenProperties
    <3> QED BY <3>1, <2>3, <2>4
  <2>6. TypeOK'
    BY <1>2, <1>3, <2>2, <2>4 DEF Inv, TypeOK, Phases
  <2>7. JobInHands'
    BY <1>3 DEF JobInHands, Holding
  <2>8. JobsQueued'
    <3>1. \A i \in DOMAIN jobs' :
            /\ sent'[jobs'[i].call] = jobs'[i].attempts
            /\ call'[jobs'[i].call] \notin New
            /\ jobs'[i].attempts < MaxAttempts
            /\ IsInteractive(jobs'[i]) => i = 1 /\ jobs'[i].attempts = 0
      BY <1>1, <1>3, <2>1, <2>2, <2>5 DEF Inv, JobInHands, JobsQueued
    <3>2. \A i, h \in DOMAIN jobs' : jobs'[i].call = jobs'[h].call => i = h
      BY <2>3, <2>5 DEF Inv, JobsQueued
    <3> QED BY <3>1, <3>2 DEF JobsQueued, IsInteractive
  <2>9. CallsKept'
    <3>1. ASSUME NEW c \in Calls, HasJob(c)
          PROVE  HasJob(c)'
      <4>1. CASE job.call = c
        BY <4>1, <2>3, <2>4, <2>5 DEF HasJob
      <4>2. CASE job.call # c
        BY <4>2, <3>1, <2>3, <2>4, <2>5 DEF HasJob
      <4> QED BY <4>1, <4>2
    <3> QED BY <3>1, <1>3, <2>2 DEF Inv, CallsKept
  <2>10. AnswersShared'
    BY <1>3 DEF Inv, AnswersShared
  <2> QED BY <2>6, <2>7, <2>8, <2>9, <2>10 DEF Inv
<1> QED BY <1>4, <1>5

(* The worker's end leaves no one waiting. *)
LEMMA ExitKeepsInv ==
    ASSUME Inv, Exit
    PROVE  Inv'
<1> USE CallsAreTyped
<1>1. /\ jobs' = <<>> /\ job' = NoJob /\ phase' = "exited"
      /\ UNCHANGED <<paused, failures, permit, cache, outcome, cooldown, alive, asked, sent, hits,
                     newest>>
      /\ call' = [c \in Calls |-> IF call[c] = "waiting" THEN "worker_exited" ELSE call[c]]
  BY DEF Exit, historyVars
<1>2. TypeOK'
  BY <1>1 DEF Inv, TypeOK, Phases, CallStates, Replies
<1>3. JobInHands' /\ JobsQueued'
  BY <1>1 DEF JobInHands, JobsQueued, Holding
<1>4. CallsKept'
  BY <1>1, JobsTyped DEF Inv, CallsKept, New
<1>5. AnswersShared'
  BY <1>1 DEF Inv, AnswersShared
<1> QED BY <1>2, <1>3, <1>4, <1>5 DEF Inv

-----------------------------------------------------------------------------
(***************************************************************************)
(* The theorems                                                            *)
(***************************************************************************)

(* The invariant holds at first, ... *)
LEMMA InitInv == Init => Inv
<1> SUFFICES ASSUME Init PROVE Inv
  OBVIOUS
<1> USE CallsAreTyped, LimitsAreDurations
<1>1. jobs \in Seq(Job) /\ DOMAIN jobs = {}
  BY DEF Init
<1>2. TypeOK
  <2>1. /\ call \in [Calls -> CallStates] /\ sent \in [Calls -> 0..MaxAttempts]
        /\ cache \in [Keys -> Answers \union {"none"}] /\ hits \in [Keys -> Nat]
    BY DEF Init, CallStates
  <2>2. paused \in 0..MaxPause /\ failures \in 0..MaxFailures /\ asked \in 0..MaxPause
          /\ cooldown \in 0..MinInterval
    BY DEF Init
  <2>3. permit \in BOOLEAN /\ alive \in BOOLEAN /\ phase \in Phases
    BY DEF Init, Phases
  <2>4. job \in Job \union {NoJob} /\ outcome \in Outcomes \union {NoOutcome}
          /\ newest \in Interactive \union {NoCall}
    BY DEF Init
  <2> QED BY <1>1, <2>1, <2>2, <2>3, <2>4 DEF TypeOK
<1>3. JobInHands /\ JobsQueued /\ CallsKept /\ AnswersShared
  BY <1>1 DEF Init, JobInHands, JobsQueued, CallsKept, AnswersShared, Holding, New
<1> QED BY <1>2, <1>3 DEF Inv

(* ... and every step keeps it. *)
LEMMA NextKeepsInv == Inv /\ [Next]_clientVars => Inv'
<1> SUFFICES ASSUME Inv, [Next]_clientVars PROVE Inv'
  OBVIOUS
<1>1. ASSUME NEW c \in Calls, Queue(c) PROVE Inv'
  BY <1>1, QueueKeepsInv
<1>2. ASSUME NEW c \in Calls, Get(c) \/ Abandon(c) \/ RejectBody(c) PROVE Inv'
  BY <1>2, CallersKeepInv
<1>3. CASE ClearCache \/ DropClient \/ TimePasses
  BY <1>3, SurroundingsKeepInv
<1>4. CASE StartWaiting \/ Park \/ Wake
  BY <1>4, IdlingKeepsInv
<1>5. CASE Pop
  BY <1>5, PopKeepsInv
<1>6. CASE AnswerFromCache
  BY <1>6, AnswerFromCacheKeepsInv
<1>7. CASE StartRequest
  BY <1>7, StartRequestKeepsInv
<1>8. ASSUME NEW o \in Outcomes, FinishRequest(o) PROVE Inv'
  BY <1>8, FinishRequestKeepsInv
<1>9. CASE RecordAnswer
  BY <1>9, RecordAnswerKeepsInv
<1>10. CASE SettleAnswer
  BY <1>10, SettleAnswerKeepsInv
<1>11. CASE SettlePause
  BY <1>11, SettlePauseKeepsInv
<1>12. CASE Exit
  BY <1>12, ExitKeepsInv
<1>13. CASE UNCHANGED clientVars
  BY <1>13 DEF clientVars, queueVars, workerVars, historyVars, Inv, TypeOK, JobInHands, JobsQueued,
               CallsKept, AnswersShared, HasJob, IsInteractive
<1> QED
  BY <1>1, <1>2, <1>3, <1>4, <1>5, <1>6, <1>7, <1>8, <1>9, <1>10, <1>11, <1>12, <1>13
  DEF Next, Work

(* Inv is an invariant of the client. *)
THEOREM InvHolds == Spec => []Inv
BY InitInv, NextKeepsInv, PTL DEF Spec

(* No variable of the client ever leaves its type: neither the attempts of a
   job, nor a pause, nor the failures in a row overrun their bounds. *)
THEOREM Typed == Spec => []TypeOK
<1>1. Inv => TypeOK
  BY DEF Inv
<1> QED BY <1>1, InvHolds, PTL

(* At most one interactive job waits, and it is at the front of the deque. *)
THEOREM InteractiveIsAtFront == Spec => []InteractiveAtFront
<1>1. Inv => InteractiveAtFront
  BY DEF Inv, JobsQueued, InteractiveAtFront
<1> QED BY <1>1, InvHolds, PTL

(* No job is lost and none is copied: whoever waits has exactly one. *)
THEOREM WaitersHaveOneJob == Spec => []EveryWaiterHasOneJob
<1>1. Inv => EveryWaiterHasOneJob
  BY DEF Inv, JobInHands, JobsQueued, CallsKept, HasJob, EveryWaiterHasOneJob
<1> QED BY <1>1, InvHolds, PTL

(* The latest interactive call is never superseded. *)
THEOREM NewestIsKept == Spec => []NewestNeverSuperseded
<1>1. Inv => NewestNeverSuperseded
  BY DEF Inv, CallsKept, NewestNeverSuperseded
<1> QED BY <1>1, InvHolds, PTL

(* The source answers no key twice between two evictions. *)
THEOREM AnswersAreShared == Spec => []OneRequestPerAnswer
<1>1. Inv => OneRequestPerAnswer
  BY DEF Inv, AnswersShared, OneRequestPerAnswer
<1> QED BY <1>1, InvHolds, PTL

(* Interactive calls are tried once, and background ones until their attempts
   are used up. *)
THEOREM RetriesEnd == Spec => []RetriesAreExhausted
<1>1. Inv => RetriesAreExhausted
  BY CallsAreTyped DEF Inv, TypeOK, CallsKept, RetriesAreExhausted
<1> QED BY <1>1, InvHolds, PTL

-----------------------------------------------------------------------------
(***************************************************************************)
(* What a source has asked for is known to the worker only by the time it  *)
(* settles the outcome: until then the pause it still has to take is in    *)
(* the outcome, and from then on in `paused`.  No request starts before    *)
(* all of it has passed, because a job is popped only when it has.         *)
(***************************************************************************)
RestGiven ==
    /\ phase \in {"popped", "in_flight"} => cooldown = 0 /\ paused = 0
    /\ IF phase \in {"finished", "recorded"} /\ AsksToWait(outcome)
       THEN asked <= PauseAfter(StreakAfter(failures, outcome), outcome)
       ELSE asked <= paused

-----------------------------------------------------------------------------
(* Times are natural numbers. *)
LEMMA TimesTyped ==
    ASSUME Inv
    PROVE  /\ cooldown \in Nat /\ paused \in Nat /\ asked \in Nat
           /\ failures \in 0..MaxFailures
BY LimitsAreDurations DEF Inv, TypeOK

(* The callers, and a client that is dropped, give the worker no more to wait
   for and no less. *)
LEMMA RestOutlivesCallers ==
    ASSUME RestGiven,
           UNCHANGED <<phase, outcome, cooldown, paused, failures, asked>>
    PROVE  RestGiven'
BY DEF RestGiven

(* Every step of the worker keeps RestGiven, ... *)
LEMMA WorkKeepsRest ==
    ASSUME Inv, RestGiven, Work
    PROVE  RestGiven'
<1> USE TimesTyped
<1>1. CASE StartWaiting \/ Park \/ Wake
  BY <1>1 DEF StartWaiting, Park, Wake, queueVars, historyVars, RestGiven
<1>2. CASE Pop
  BY <1>2 DEF Pop, Rested, historyVars, RestGiven
<1>3. CASE AnswerFromCache
  BY <1>3 DEF AnswerFromCache, queueVars, historyVars, RestGiven
<1>4. CASE StartRequest
  BY <1>4 DEF StartRequest, queueVars, RestGiven
<1>5. ASSUME NEW o \in Outcomes, FinishRequest(o)
      PROVE  RestGiven'
  <2>1. /\ phase = "in_flight" /\ phase' = "finished" /\ outcome' = o
        /\ failures' = failures /\ paused' = paused
        /\ asked' = IF AsksToWait(o) THEN PauseAfter(StreakAfter(failures, o), o) ELSE asked
    BY <1>5 DEF FinishRequest, queueVars
  <2>2. CASE AsksToWait(o)
    <3>1. PauseAfter(StreakAfter(failures, o), o) \in Nat
      BY <2>2, PauseAfterType, LimitsAreDurations
    <3>2. asked' <= PauseAfter(StreakAfter(failures', outcome'), outcome')
      BY <2>1, <2>2, <3>1
    <3> QED BY <2>1, <2>2, <3>2 DEF RestGiven
  <2>3. CASE ~AsksToWait(o)
    BY <2>1, <2>3 DEF RestGiven
  <2> QED BY <2>2, <2>3
<1>6. CASE RecordAnswer
  BY <1>6 DEF RecordAnswer, queueVars, RestGiven
<1>7. CASE SettleAnswer
  BY <1>7 DEF SettleAnswer, historyVars, RestGiven
<1>8. CASE SettlePause
  <2> DEFINE p == PauseAfter(StreakAfter(failures, outcome), outcome)
  <2>1. /\ phase = "recorded" /\ AsksToWait(outcome)
        /\ phase' = "top" /\ asked' = asked
        /\ paused' = Greater(paused, p)
    BY <1>8 DEF SettlePause, Pause, historyVars
  <2>2. p \in Nat
    BY <2>1, PauseAfterType, LimitsAreDurations DEF Inv, JobInHands
  <2>3. asked <= p
    BY <2>1 DEF RestGiven
  <2> HIDE DEF p
  <2>4. asked' <= paused'
    BY <2>1, <2>2, <2>3 DEF Greater
  <2> QED BY <2>1, <2>4 DEF RestGiven
<1>9. CASE Exit
  BY <1>9 DEF Exit, Awaits, historyVars, RestGiven
<1> QED BY <1>1, <1>2, <1>3, <1>4, <1>5, <1>6, <1>7, <1>8, <1>9 DEF Work

(* ... and so does the time that passes in between. *)
LEMMA TimeKeepsRest ==
    ASSUME Inv, RestGiven, TimePasses
    PROVE  RestGiven'
<1>1. /\ UNCHANGED <<phase, outcome, failures>>
      /\ cooldown' = Countdown(cooldown)
      /\ paused' = Countdown(paused)
      /\ asked' = Countdown(asked)
  BY DEF TimePasses
<1> DEFINE owed == PauseAfter(StreakAfter(failures, outcome), outcome)
<1>2. CASE phase \in {"finished", "recorded"} /\ AsksToWait(outcome)
  <2>1. owed \in Nat /\ owed' = owed
    BY <1>1, <1>2, TimesTyped, PauseAfterType, LimitsAreDurations DEF Inv, JobInHands
  <2>2. asked <= owed
    BY <1>2 DEF RestGiven
  <2> HIDE DEF owed
  <2>3. asked' <= owed'
    BY <1>1, <2>1, <2>2, TimesTyped DEF Countdown
  <2> QED BY <1>1, <1>2, <2>3 DEF RestGiven, owed
<1>3. CASE ~(phase \in {"finished", "recorded"} /\ AsksToWait(outcome))
  BY <1>1, <1>3, TimesTyped DEF RestGiven, Countdown
<1> QED BY <1>2, <1>3

(* PoliteInv holds of every client. *)
PoliteInv == Inv /\ RestGiven

LEMMA RestIsGiven == Spec => []PoliteInv
<1>1. Init => RestGiven
  BY DEF Init, RestGiven
<1>2. ASSUME Inv, RestGiven, [Next]_clientVars
      PROVE  RestGiven'
  <2>1. ASSUME NEW c \in Calls, Get(c) \/ Queue(c) \/ Abandon(c) \/ RejectBody(c)
        PROVE  RestGiven'
    BY <1>2, <2>1, RestOutlivesCallers
    DEF Get, Queue, Abandon, RejectBody, queueVars, workerVars, historyVars
  <2>2. CASE ClearCache \/ DropClient \/ UNCHANGED clientVars
    BY <1>2, <2>2, RestOutlivesCallers
    DEF ClearCache, DropClient, clientVars, queueVars, workerVars, historyVars
  <2>3. CASE Work
    BY <1>2, <2>3, WorkKeepsRest
  <2>4. CASE TimePasses
    BY <1>2, <2>4, TimeKeepsRest
  <2> QED BY <1>2, <2>1, <2>2, <2>3, <2>4 DEF Next
<1> QED BY <1>1, <1>2, InitInv, NextKeepsInv, PTL DEF Spec, PoliteInv

-----------------------------------------------------------------------------
(***************************************************************************)
(* The steps of the client as the source sees them                         *)
(***************************************************************************)
serving == IF phase = "in_flight" THEN KeyOf[job.call] ELSE NoKey
quiet == Greater(cooldown, asked)
streak == IF phase \in {"finished", "recorded"} THEN StreakAfter(failures, outcome)
          ELSE failures

(* Nothing that happens away from the wire is visible to the source. *)
LEMMA Unseen ==
    ASSUME serving' = serving, quiet' = quiet, streak' = streak
    PROVE  UNCHANGED Source!vars
BY DEF Source!vars, serving, quiet, streak

(* A caller's step is not. *)
LEMMA CallersAreUnseen ==
    ASSUME UNCHANGED <<phase, job, outcome, cooldown, failures, asked>>
    PROVE  UNCHANGED Source!vars
BY Unseen DEF serving, quiet, streak

(* A request starts when the source is not busy and has had all its rest. *)
LEMMA StartIsRequest ==
    ASSUME PoliteInv, StartRequest
    PROVE  Source!Next
<1> DEFINE k == KeyOf[job.call]
<1>1. job.call \in Calls /\ k \in Keys
  BY JobsTyped, CallsAreTyped DEF StartRequest, PoliteInv, Inv, JobInHands, Holding
<1>2. /\ phase = "popped" /\ phase' = "in_flight"
      /\ job'.call = job.call
      /\ UNCHANGED <<cooldown, asked, failures>>
  BY JobsTyped DEF StartRequest, queueVars, Job, PoliteInv, Inv, JobInHands, Holding
<1>3. quiet = 0
  BY <1>2, TimesTyped DEF PoliteInv, RestGiven, quiet, Greater
<1>4. serving = NoKey /\ serving' = k
  BY <1>2 DEF serving
<1>5. quiet' = quiet /\ streak' = streak
  BY <1>2 DEF quiet, streak
<1>6. Source!Request(k)
  BY <1>3, <1>4, <1>5 DEF Source!Request, serving, quiet, streak
<1> QED BY <1>1, <1>6 DEF Source!Next

(* Its end tells the worker how long the source is to be left alone. *)
LEMMA FinishIsRespond ==
    ASSUME PoliteInv, NEW o \in Outcomes, FinishRequest(o)
    PROVE  Source!Next
<1>1. /\ phase = "in_flight" /\ phase' = "finished"
      /\ outcome' = o /\ failures' = failures /\ cooldown' = MinInterval
      /\ asked' = IF AsksToWait(o) THEN PauseAfter(StreakAfter(failures, o), o) ELSE asked
  BY DEF FinishRequest, queueVars
<1>2. serving # NoKey /\ serving' = NoKey
  BY <1>1, JobsTyped, CallsAreTyped, LimitsAreDurations
  DEF serving, PoliteInv, Inv, JobInHands, Holding
<1>3. streak = failures /\ streak' = StreakAfter(streak, o)
  BY <1>1 DEF streak
<1>4. asked = 0
  BY <1>1, TimesTyped DEF PoliteInv, RestGiven
<1>5. quiet' = IF AsksToWait(o) THEN Greater(MinInterval, PauseAfter(streak', o))
               ELSE MinInterval
  BY <1>1, <1>3, <1>4, LimitsAreDurations DEF quiet, Greater
<1>6. Source!Respond(o)
  BY <1>2, <1>3, <1>5
  DEF Source!Respond, serving, quiet, streak, Source!StreakAfter, StreakAfter,
      Source!AsksToWait, AsksToWait, Source!PauseAfter, PauseAfter, Source!Greater, Greater,
      Source!IsFailure, IsFailure, Source!Answers, Answers, Source!Lesser, Lesser
<1> QED BY <1>6 DEF Source!Next, Source!Outcomes, Outcomes, Source!Waits, Waits, Source!Answers,
                    Answers

(* The aborted worker's request, if it has one, is abandoned. *)
LEMMA ExitIsAbandoned ==
    ASSUME PoliteInv, Exit
    PROVE  [Source!Next]_Source!vars
<1>1. /\ phase \in Awaits /\ phase' = "exited"
      /\ UNCHANGED <<cooldown, asked, failures>>
  BY DEF Exit, historyVars
<1>2. quiet' = quiet /\ streak' = streak /\ serving' = NoKey
  BY <1>1 DEF quiet, streak, serving, Awaits
<1>3. CASE phase = "in_flight"
  <2>1. serving # NoKey
    BY <1>3, JobsTyped, CallsAreTyped, LimitsAreDurations
    DEF serving, PoliteInv, Inv, JobInHands, Holding
  <2>2. Source!Abandoned
    BY <1>2, <2>1 DEF Source!Abandoned, serving, quiet, streak
  <2> QED BY <2>2 DEF Source!Next
<1>4. CASE phase # "in_flight"
  BY <1>2, <1>4, Unseen DEF serving
<1> QED BY <1>3, <1>4

(* Time passes for the source too. *)
LEMMA TimeIsTick ==
    ASSUME PoliteInv, TimePasses
    PROVE  Source!Next
<1>1. /\ UNCHANGED <<phase, job, outcome, failures>>
      /\ cooldown' = Countdown(cooldown) /\ asked' = Countdown(asked)
  BY DEF TimePasses
<1>2. serving' = serving /\ streak' = streak
  BY <1>1 DEF serving, streak
<1>3. quiet' = Countdown(quiet)
  BY <1>1, TimesTyped DEF PoliteInv, quiet, Greater, Countdown
<1>4. Source!Tick
  BY <1>2, <1>3 DEF Source!Tick, Source!Countdown, Countdown, serving, quiet, streak
<1> QED BY <1>4 DEF Source!Next

(* What the worker does with an answer changes neither the rest that the source
   is owed nor the failures it has counted. *)
LEMMA SettlingIsUnseen ==
    ASSUME PoliteInv, RecordAnswer \/ SettleAnswer \/ SettlePause
    PROVE  UNCHANGED Source!vars
<1>1. /\ UNCHANGED <<cooldown, asked>>
      /\ phase \in {"finished", "recorded"} /\ phase' \in {"recorded", "top"}
      /\ phase' = "recorded" => UNCHANGED <<failures, outcome>>
      /\ phase' = "top" => failures' = StreakAfter(failures, outcome)
  BY DEF RecordAnswer, SettleAnswer, SettlePause, queueVars, historyVars
<1> QED BY <1>1, Unseen DEF serving, quiet, streak

(* Nor does what it does before the request. *)
LEMMA PreparingIsUnseen ==
    ASSUME StartWaiting \/ Park \/ Wake \/ Pop \/ AnswerFromCache
    PROVE  UNCHANGED Source!vars
<1>1. /\ UNCHANGED <<cooldown, asked, failures>>
      /\ {phase, phase'} \subseteq {"top", "parking", "idle", "sleeping", "popped"}
  BY DEF StartWaiting, Park, Wake, Pop, AnswerFromCache, queueVars, historyVars
<1> QED BY <1>1, Unseen DEF serving, quiet, streak

(* The client implements PoliteSource: whatever its callers do, the source sees
   one request at a time, none of them before MinInterval and the wait that the
   last answer called for are over. *)
THEOREM ClientIsPolite == Spec => SourceIsLeftAlone
<1>1. Init => Source!Init
  BY LimitsAreDurations DEF Init, Source!Init, Greater
<1>2. ASSUME PoliteInv, [Next]_clientVars
      PROVE  [Source!Next]_Source!vars
  <2>1. ASSUME NEW c \in Calls, Get(c) \/ Queue(c) \/ Abandon(c) \/ RejectBody(c)
        PROVE  UNCHANGED Source!vars
    BY <2>1, CallersAreUnseen
    DEF Get, Queue, Abandon, RejectBody, queueVars, workerVars, historyVars
  <2>2. CASE ClearCache \/ DropClient \/ UNCHANGED clientVars
    BY <2>2, CallersAreUnseen
    DEF ClearCache, DropClient, clientVars, queueVars, workerVars, historyVars
  <2>3. CASE Work
    BY <1>2, <2>3, PreparingIsUnseen, StartIsRequest, FinishIsRespond, SettlingIsUnseen,
       ExitIsAbandoned
    DEF Work
  <2>4. CASE TimePasses
    BY <1>2, <2>4, TimeIsTick
  <2> QED BY <1>2, <2>1, <2>2, <2>3, <2>4 DEF Next
<1> QED BY <1>1, <1>2, RestIsGiven, PTL DEF Spec, SourceIsLeftAlone, Source!Spec

=============================================================================
