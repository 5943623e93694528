-------------------------- MODULE RateLimitedClient --------------------------
(***************************************************************************)
(* The client of one metadata API (crates/scorarium-client): callers queue *)
(* requests in a shared deque and wait for a reply; a single worker task   *)
(* takes jobs from its front, one at a time, rests between requests, backs *)
(* off from an unhealthy source, retries background jobs and shares every  *)
(* answer through a cache.                                                 *)
(*                                                                         *)
(* A phase of the worker is a stretch of work() between two points where   *)
(* another thread can see or change the shared state.  Time is discrete:   *)
(* an instant in the code is here the time that remains until it.          *)
(***************************************************************************)
EXTENDS SourceLimits, FiniteSets

CONSTANTS
    Calls,          \* the calls of get(): each is one future of one caller
    Interactive,    \* the calls made with Priority::Interactive
    KeyOf,          \* the cache key of each call's request
    NoCall,         \* "no call"
    MaxAttempts     \* how often a background job is tried

ASSUME CallsAreTyped ==
    /\ IsFiniteSet(Calls)
    /\ NoCall \notin Calls
    /\ Interactive \subseteq Calls
    /\ KeyOf \in [Calls -> Keys]
    /\ MaxAttempts \in Nat \ {0}

Job == [call : Calls, attempts : 0..MaxAttempts]

NoJob == [call |-> NoCall, attempts |-> 0]
NoOutcome == [kind |-> "none", wait |-> NoHeader]

Phases == {"top", "parking", "idle", "sleeping", "popped", "in_flight", "finished",
           "recorded", "exited"}
\* The worker is suspended in an await, the only places an abort can end it.
Awaits == {"idle", "sleeping", "in_flight"}

\* What came of a call.  A caller that drops its future is "abandoned".
Replies == Answers \union {"unparsable", "client_error", "failed", "gave_up",
                           "superseded", "worker_exited"}
CallStates == Replies \union {"unsent", "missed", "waiting", "abandoned"}

VARIABLES
    jobs,       \* JobDeque.jobs
    paused,     \* time until JobDeque.paused_until
    failures,   \* JobDeque.consecutive_failures
    permit,     \* the Notify's stored wakeup
    cache,      \* the answer cached for each key, or "none"
    call,       \* what each caller sees of its call
    phase,      \* where the worker is
    job,        \* the job in the worker's hands
    outcome,    \* how the worker's last request ended
    cooldown,   \* time until next_allowed
    alive,      \* the client has not been dropped
    (* History, for the properties only. *)
    asked,      \* the rest the source is still owed, counted from its answer
    sent,       \* how many requests each call has caused
    hits,       \* answers to each key since it was last evicted
    newest      \* the latest interactive call

queueVars == <<jobs, paused, failures, permit>>
workerVars == <<phase, job, outcome, cooldown>>
historyVars == <<asked, sent, hits, newest>>
clientVars == <<queueVars, cache, call, workerVars, alive, historyVars>>

-----------------------------------------------------------------------------
IsOpen(j) == call[j.call] = "waiting"
IsInteractive(j) == j.call \in Interactive

RetriesEverything(j) == TRUE
Retries(j) == ~IsInteractive(j)

MayRetry(j) == Retries(j) /\ j.attempts < MaxAttempts

NeverSupersedes == FALSE
InteractiveIsWaiting == jobs # <<>> /\ IsInteractive(Head(jobs))

\* The position of the first job that someone still waits for.
TakesAnyOpen(i) == IsOpen(jobs[i])
IsNext(i) ==
    /\ IsOpen(jobs[i])
    /\ \A h \in 1..(i - 1) : ~IsOpen(jobs[h])

\* The worker has slept past next_allowed and paused_until.
RestsBetweenRequestsOnly == cooldown = 0
Rested == cooldown = 0 /\ paused = 0

\* Notify::notify_one: a wakeup no one waits for yet is kept for who comes next.
WakesOnlyWhoWaits == permit' = (phase = "idle")
NotifyOne == permit' = TRUE

ForgetsToCheck(k) == FALSE
IsCached(k) == cache[k] # "none"

\* The calls once `c` was sent the reply `r`: no one hears it if `c` was
\* abandoned.
Answered(calls, c, r) ==
    [calls EXCEPT ![c] = IF @ = "waiting" THEN r ELSE @]

\* JobDeque::push of `j` when the calls are in the states `calls`.
Push(j, calls) ==
    IF ~IsInteractive(j) THEN
        /\ jobs' = Append(jobs, j)
        /\ call' = calls
    ELSE IF InteractiveIsWaiting THEN
        /\ jobs' = <<j>> \o Tail(jobs)
        /\ call' = Answered(calls, Head(jobs).call, "superseded")
    ELSE
        /\ jobs' = <<j>> \o jobs
        /\ call' = calls

(***************************************************************************)
(* Callers                                                                 *)
(***************************************************************************)

\* A caller asks, and is answered at once if the cache can.
Get(c) ==
    /\ alive
    /\ call[c] = "unsent"
    /\ call' = [call EXCEPT ![c] = IF cache[KeyOf[c]] # "none" THEN cache[KeyOf[c]]
                                  ELSE "missed"]
    /\ UNCHANGED <<queueVars, cache, workerVars, alive, historyVars>>

\* The cache could not: the caller queues its job, whatever the cache holds by
\* now, and wakes the worker.
Queue(c) ==
    /\ call[c] = "missed"
    /\ Push([call |-> c, attempts |-> 0], [call EXCEPT ![c] = "waiting"])
    /\ NotifyOne
    /\ newest' = IF c \in Interactive THEN c ELSE newest
    /\ UNCHANGED <<paused, failures, cache, workerVars, alive, asked, sent, hits>>

\* A caller drops its future before it has read the reply.
Abandon(c) ==
    /\ call[c] \in {"waiting", "garbage"}
    /\ call' = [call EXCEPT ![c] = "abandoned"]
    /\ UNCHANGED <<queueVars, cache, workerVars, alive, historyVars>>

\* get_json() finds that a 2xx is not what it asked for, and evicts it.
RejectBody(c) ==
    /\ call[c] = "garbage"
    /\ call' = [call EXCEPT ![c] = "unparsable"]
    /\ cache' = [cache EXCEPT ![KeyOf[c]] = "none"]
    /\ hits' = [hits EXCEPT ![KeyOf[c]] = 0]
    /\ UNCHANGED <<queueVars, workerVars, alive, asked, sent, newest>>

ClearCache ==
    /\ alive
    /\ cache' = [k \in Keys |-> "none"]
    /\ hits' = [k \in Keys |-> 0]
    /\ UNCHANGED <<queueVars, call, workerVars, alive, asked, sent, newest>>

\* Drop for RateLimitedClient asks the worker to abort.  No one is inside get(),
\* which borrows the client.
DropClient ==
    /\ alive
    /\ \A c \in Calls : call[c] # "missed"
    /\ alive' = FALSE
    /\ UNCHANGED <<queueVars, cache, call, workerVars, historyVars>>

(***************************************************************************)
(* The worker                                                              *)
(***************************************************************************)

StartWaiting ==
    /\ phase = "top"
    /\ phase' = IF jobs = <<>> THEN "parking" ELSE "sleeping"
    /\ UNCHANGED <<queueVars, cache, call, job, outcome, cooldown, alive, historyVars>>

\* The worker found the deque empty, and only now awaits the Notify.
Park ==
    /\ phase = "parking"
    /\ phase' = "idle"
    /\ UNCHANGED <<queueVars, cache, call, job, outcome, cooldown, alive, historyVars>>

Wake ==
    /\ phase = "idle"
    /\ permit
    /\ permit' = FALSE
    /\ phase' = "top"
    /\ UNCHANGED <<jobs, paused, failures, cache, call, job, outcome, cooldown, alive, historyVars>>

\* JobDeque::pop: jobs no one waits for any more are dropped on the way.
Pop ==
    /\ phase = "sleeping"
    /\ Rested
    /\ \/ /\ \A i \in DOMAIN jobs : ~IsOpen(jobs[i])
          /\ jobs' = <<>>
          /\ phase' = "top"
          /\ UNCHANGED job
       \/ \E i \in DOMAIN jobs :
          /\ IsNext(i)
          /\ job' = jobs[i]
          /\ jobs' = SubSeq(jobs, i + 1, Len(jobs))
          /\ phase' = "popped"
    /\ UNCHANGED <<paused, failures, permit, cache, call, outcome, cooldown, alive, historyVars>>

\* Another call's request answered this one too while it was queued.
AnswerFromCache ==
    /\ phase = "popped"
    /\ IsCached(KeyOf[job.call])
    /\ call' = Answered(call, job.call, cache[KeyOf[job.call]])
    /\ job' = NoJob
    /\ phase' = "top"
    /\ UNCHANGED <<queueVars, cache, outcome, cooldown, alive, historyVars>>

StartRequest ==
    /\ phase = "popped"
    /\ ~IsCached(KeyOf[job.call])
    /\ job' = [job EXCEPT !.attempts = @ + 1]
    /\ phase' = "in_flight"
    /\ sent' = [sent EXCEPT ![job.call] = @ + 1]
    /\ UNCHANGED <<queueVars, cache, call, outcome, cooldown, alive, asked, hits, newest>>

\* The request ends, if only because the client's timeout ends it.
FinishRequest(o) ==
    /\ phase = "in_flight"
    /\ outcome' = o
    /\ cooldown' = MinInterval
    /\ phase' = "finished"
    /\ asked' = IF AsksToWait(o) THEN PauseAfter(StreakAfter(failures, o), o)
                ELSE asked
    /\ UNCHANGED <<queueVars, cache, call, job, alive, sent, hits, newest>>

\* An answer, even a 404, is shared with every later call of the same key.
RecordAnswer ==
    /\ phase = "finished"
    /\ phase' = "recorded"
    /\ IF outcome.kind \in Answers THEN
            /\ cache' = [cache EXCEPT ![KeyOf[job.call]] = outcome.kind]
            /\ hits' = [hits EXCEPT ![KeyOf[job.call]] = @ + 1]
       ELSE UNCHANGED <<cache, hits>>
    /\ UNCHANGED <<queueVars, call, job, outcome, cooldown, alive, asked, sent, newest>>

\* JobDeque::pause only ever extends a pause.
Pause(duration) ==
    paused' = Greater(paused, duration)

\* No pause is called for: the reply is whatever the source said.
SettleAnswer ==
    /\ phase = "recorded"
    /\ ~AsksToWait(outcome)
    /\ failures' = StreakAfter(failures, outcome)
    /\ call' = Answered(call, job.call, outcome.kind)
    /\ phase' = "top"
    /\ job' = NoJob
    /\ outcome' = NoOutcome
    /\ UNCHANGED <<jobs, paused, permit, cache, cooldown, alive, historyVars>>

\* The source asked, in so many words or by failing, to be left alone.
SettlePause ==
    /\ phase = "recorded"
    /\ AsksToWait(outcome)
    /\ failures' = StreakAfter(failures, outcome)
    /\ Pause(PauseAfter(failures', outcome))
    /\ IF MayRetry(job) THEN
            Push(job, call)
       ELSE /\ call' = Answered(call, job.call,
                                IF Retries(job) THEN "gave_up" ELSE "failed")
            /\ UNCHANGED jobs
    /\ phase' = "top"
    /\ job' = NoJob
    /\ outcome' = NoOutcome
    /\ UNCHANGED <<permit, cache, cooldown, alive, historyVars>>

\* The aborted worker drops its job, and with the client gone too no one holds
\* the deque: every sender in it is dropped.
Exit ==
    /\ ~alive
    /\ phase \in Awaits
    /\ phase' = "exited"
    /\ job' = NoJob
    /\ jobs' = <<>>
    /\ call' = [c \in Calls |-> IF call[c] = "waiting" THEN "worker_exited" ELSE call[c]]
    /\ UNCHANGED <<paused, failures, permit, cache, outcome, cooldown, alive, historyVars>>

Work ==
    \/ StartWaiting \/ Park \/ Wake \/ Pop
    \/ AnswerFromCache \/ StartRequest
    \/ \E o \in Outcomes : FinishRequest(o)
    \/ RecordAnswer \/ SettleAnswer \/ SettlePause
    \/ Exit

\* One unit of time passes.
TimePasses ==
    /\ cooldown > 0 \/ paused > 0 \/ asked > 0
    /\ cooldown' = Countdown(cooldown)
    /\ paused' = Countdown(paused)
    /\ asked' = Countdown(asked)
    /\ UNCHANGED <<jobs, failures, permit, cache, call, phase, job, outcome, alive,
                   sent, hits, newest>>

Init ==
    /\ jobs = <<>>
    /\ paused = 0
    /\ failures = 0
    /\ permit = FALSE
    /\ cache = [k \in Keys |-> "none"]
    /\ call = [c \in Calls |-> "unsent"]
    /\ phase = "top"
    /\ job = NoJob
    /\ outcome = NoOutcome
    /\ cooldown = 0
    /\ alive = TRUE
    /\ asked = 0
    /\ sent = [c \in Calls |-> 0]
    /\ hits = [k \in Keys |-> 0]
    /\ newest = NoCall

Next ==
    \/ \E c \in Calls : Get(c) \/ Queue(c) \/ Abandon(c) \/ RejectBody(c)
    \/ ClearCache
    \/ DropClient
    \/ Work
    \/ TimePasses

Spec == Init /\ [][Next]_clientVars

(***************************************************************************)
(* The runtime schedules the worker, a caller inside get() runs on, every  *)
(* request ends (the client times it out itself) and time passes.  No      *)
(* caller has to call, to stay or to go.                                   *)
(***************************************************************************)
Fairness ==
    /\ WF_clientVars(Work)
    /\ \A c \in Calls : WF_clientVars(Queue(c))
    /\ WF_clientVars(TimePasses)

FairSpec == Spec /\ Fairness

-----------------------------------------------------------------------------
(* Every variable holds what its Rust type can. *)
TypeOK ==
    /\ jobs \in Seq(Job)
    /\ paused \in 0..MaxPause
    /\ failures \in 0..MaxFailures
    /\ permit \in BOOLEAN
    /\ cache \in [Keys -> Answers \union {"none"}]
    /\ call \in [Calls -> CallStates]
    /\ phase \in Phases
    /\ job \in Job \union {NoJob}
    /\ outcome \in Outcomes \union {NoOutcome}
    /\ cooldown \in 0..MinInterval
    /\ alive \in BOOLEAN
    /\ asked \in 0..MaxPause
    /\ sent \in [Calls -> 0..MaxAttempts]
    /\ hits \in [Keys -> Nat]
    /\ newest \in Interactive \union {NoCall}

(* "Whether an interactive job is waiting. At most one ever is, so it's at the
   front." (JobDeque::interactive_is_waiting looks nowhere else.)  It holds
   however the worker's retries and the callers' pushes interleave. *)
InteractiveAtFront ==
    \A i \in DOMAIN jobs : IsInteractive(jobs[i]) => i = 1

(* Every caller that waits has exactly one job, in the deque or in the worker's
   hands, so that no reply is lost and none is sent twice: retrying, popping
   past abandoned jobs and superseding neither drop nor copy a job. *)
EveryWaiterHasOneJob ==
    /\ \A i, h \in DOMAIN jobs : jobs[i].call = jobs[h].call => i = h
    /\ job # NoJob => \A i \in DOMAIN jobs : jobs[i].call # job.call
    /\ \A c \in Calls : call[c] = "waiting" =>
            \/ \E i \in DOMAIN jobs : jobs[i].call = c
            \/ job # NoJob /\ job.call = c

(* "the caller wants responses for jobs that have already started, and the
   latest job, and no jobs in between": the latest interactive call is never
   the one that is superseded, by a newer call or by a retry of an older one. *)
NewestNeverSuperseded ==
    newest # NoCall => call[newest] # "superseded"

(* "if there were duplicate requests queued together, only one of them hits the
   API": no key is answered twice by the source unless its answer was evicted
   in between. *)
OneRequestPerAnswer ==
    \A k \in Keys : hits[k] <= 1

(* Interactive requests "are never retried" and a background one is given up
   only after all of its attempts, over every requeue and cache hit. *)
RetriesAreExhausted ==
    \A c \in Calls :
        /\ sent[c] <= IF c \in Interactive THEN 1 ELSE MaxAttempts
        /\ call[c] = "gave_up" => sent[c] = MaxAttempts
        /\ call[c] = "failed" => c \in Interactive

(* The source sees a polite client: one request at a time, at least MinInterval
   after the last one ended, and none before the wait it asked for (or that its
   failures in a row earned it) has passed, counted from its answer although
   the worker records the pause only later. *)
Source == INSTANCE PoliteSource WITH
    serving <- IF phase = "in_flight" THEN KeyOf[job.call] ELSE NoKey,
    quiet <- Greater(cooldown, asked),
    streak <- IF phase \in {"finished", "recorded"} THEN StreakAfter(failures, outcome)
              ELSE failures

SourceIsLeftAlone == Source!Spec

(* Every queued call is answered, superseded or given up on in the end: no
   wakeup is lost between the worker's look at the deque and its await, and no
   pause, retry or abort leaves a caller waiting for ever. *)
EveryCallIsAnswered ==
    \A c \in Calls : call[c] = "waiting" ~> call[c] # "waiting"
=============================================================================
