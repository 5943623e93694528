--------------------------- MODULE EnrichmentTask ---------------------------
(***************************************************************************)
(* The enrichment tasks of the engine (enrich/task.rs): the registry of    *)
(* one task per root entity, the subtasks each task spawns (and they spawn *)
(* further ones), cancelling a task while its subtasks run, and waiting    *)
(* for all of them.                                                        *)
(*                                                                         *)
(* A user is a thread of the application inside one engine call.  What a   *)
(* subtask does for its entity is not modelled here, only that it may      *)
(* enqueue, cancel its own task, succeed or fail.                          *)
(***************************************************************************)
EXTENDS Integers, FiniteSets

CONSTANTS
    Roots,      \* entities that can be enriched
    Tasks,      \* Task objects, numbered as start_enrichment makes them
    Subtasks,   \* spawned subtasks, numbered as enqueue spawns them
    Users,      \* threads that start and cancel tasks
    Waiters,    \* calls of wait_for_enrichment
    MaxSeeds,   \* how many subtasks start_enrichment's caller enqueues
    NoOne, NoRoot, NoTask, NoSubtask

ASSUME ActorsAreDistinct ==
    /\ Tasks \subseteq Nat
    /\ Subtasks \subseteq Nat
    /\ IsFiniteSet(Subtasks)
    /\ Users \intersect Subtasks = {}
    /\ NoOne \notin Users \union Subtasks
    /\ NoRoot \notin Roots
    /\ NoTask \notin Tasks
    /\ NoSubtask \notin Subtasks
    /\ MaxSeeds \in Nat

VARIABLES
    registry,   \* Engine.enrichments: the task of each root
    seeding,    \* who enqueues the seeds of which task, with the registry locked
    task,       \* Task.status (and Task.root) of each task made so far
    lock,       \* Task.subtasks' mutex: who holds it, about to do what
    handles,    \* Task.subtasks: the abort handles it guards
    subtask,    \* each spawned subtask
    waiter,     \* what each call of wait_for_enrichment is doing
    (* History, for the properties only. *)
    owed        \* the tasks that ran when each wait_for_enrichment was called

vars == <<registry, seeding, task, lock, handles, subtask, waiter, owed>>

NotSeeding == [by |-> NoOne, task |-> NoTask, seeds |-> 0, locked |-> FALSE]
Unlocked == [by |-> NoOne, about |-> "nothing", subtask |-> NoSubtask]
Unmade == [root |-> NoRoot, pending |-> 0, successful |-> 0, failed |-> 0,
           cancelled |-> FALSE]
Unspawned == [task |-> NoTask, state |-> "unspawned", aborted |-> FALSE]
Actors == Users \union Subtasks

-----------------------------------------------------------------------------
IsMade(t) == task[t].root # NoRoot

\* EnrichmentStatus::state
State(t) ==
    IF task[t].cancelled THEN "cancelled"
    ELSE IF task[t].pending > 0 THEN "in progress"
    ELSE IF task[t].failed > 0 THEN "failed"
    ELSE "completed"

InProgress(t) == State(t) = "in progress"

LiveOf(t) == {s \in Subtasks : subtask[s].task = t /\ subtask[s].state \in {"live", "ending"}}

RegistryIsFree == ~seeding.locked

\* All but the task that is behind the registry's lock.
IsFindable(t) == IsMade(t) /\ ~(seeding.locked /\ seeding.task = t)

\* Bounds the model only: subtasks left to spawn beside the seeds promised.
Left == Cardinality({s \in Subtasks : subtask[s] = Unspawned}) - seeding.seeds

\* The actor is not inside enqueue or cancel.
IsFree(a) == \A t \in Tasks : lock[t].by # a

-----------------------------------------------------------------------------
(***************************************************************************)
(* SubTaskQueue::enqueue and Task::cancel, by whoever holds the queue      *)
(***************************************************************************)

Spawned(status) == [status EXCEPT !.pending = @ + 1]

FailsPending(status, succeeded) ==
    IF succeeded THEN [status EXCEPT !.pending = @ - 1, !.successful = @ + 1]
    ELSE [status EXCEPT !.failed = @ + 1]
Ended(status, succeeded) ==
    IF succeeded THEN [status EXCEPT !.pending = @ - 1, !.successful = @ + 1]
    ELSE [status EXCEPT !.pending = @ - 1, !.failed = @ + 1]

SpawnsForTheCancelled(t) == FALSE
SeesCancelled(t) == task[t].cancelled

\* Takes the lock, counts the subtask and spawns it: it can run and even end
\* before its handle is stored.
Spawn(a, t) ==
    /\ lock[t] = Unlocked
    /\ ~SeesCancelled(t)
    /\ \E s \in Subtasks :
        /\ subtask[s] = Unspawned
        /\ \A x \in Subtasks : x < s => subtask[x] # Unspawned
        /\ subtask' = [subtask EXCEPT ![s] = [task |-> t, state |-> "live", aborted |-> FALSE]]
        /\ lock' = [lock EXCEPT ![t] = [by |-> a, about |-> "push", subtask |-> s]]
    /\ task' = [task EXCEPT ![t] = Spawned(@)]
    /\ UNCHANGED <<registry, handles, waiter, owed>>

\* The task was cancelled meanwhile: enqueue returns without spawning.
DontSpawn(a, t) ==
    /\ lock[t] = Unlocked
    /\ SeesCancelled(t)
    /\ UNCHANGED <<registry, task, lock, handles, subtask, waiter, owed>>

PushHandle(a, t) ==
    /\ lock[t].by = a
    /\ lock[t].about = "push"
    /\ handles' = [handles EXCEPT ![t] = @ \union {lock[t].subtask}]
    /\ lock' = [lock EXCEPT ![t] = Unlocked]
    /\ UNCHANGED <<registry, seeding, task, subtask, waiter, owed>>

\* Task::cancel sets the flag, and still holding the lock ...
Cancel(a, t) ==
    /\ lock[t] = Unlocked
    /\ lock' = [lock EXCEPT ![t] = [by |-> a, about |-> "drain", subtask |-> NoSubtask]]
    /\ task' = [task EXCEPT ![t].cancelled = TRUE]
    /\ UNCHANGED <<registry, seeding, handles, subtask, waiter, owed>>

\* ... aborts every subtask whose handle it finds.
Drain(a, t) ==
    /\ lock[t].by = a
    /\ lock[t].about = "drain"
    /\ subtask' = [s \in Subtasks |->
                    IF s \in handles[t] THEN [subtask[s] EXCEPT !.aborted = TRUE]
                    ELSE subtask[s]]
    /\ handles' = [handles EXCEPT ![t] = {}]
    /\ lock' = [lock EXCEPT ![t] = Unlocked]
    /\ UNCHANGED <<registry, seeding, task, waiter, owed>>

-----------------------------------------------------------------------------
(***************************************************************************)
(* Users                                                                   *)
(***************************************************************************)

ReplacesAnything(r) == TRUE
MayStart(r) == registry[r] # NoTask => ~InProgress(registry[r])

UnlocksBeforeSeeding(u, t, n) ==
    seeding' = [by |-> u, task |-> t, seeds |-> n, locked |-> FALSE]
KeepLocked(u, t, n) ==
    seeding' = [by |-> u, task |-> t, seeds |-> n, locked |-> TRUE]

\* Engine::start_enrichment with no task in progress: the registry stays locked
\* until the seeds are enqueued.  (With one, it only returns that one's handle.)
Start(u, r, n) ==
    /\ RegistryIsFree
    /\ IsFree(u)
    /\ MayStart(r)
    /\ n <= Left
    /\ \E t \in Tasks :
        /\ task[t] = Unmade
        /\ \A v \in Tasks : v < t => IsMade(v)
        /\ task' = [task EXCEPT ![t].root = r]
        /\ registry' = [registry EXCEPT ![r] = t]
        /\ KeepLocked(u, t, n)
    /\ UNCHANGED <<lock, handles, subtask, waiter, owed>>

Seed(u) ==
    /\ seeding.by = u
    /\ seeding.seeds > 0
    /\ IsFree(u)
    /\ Spawn(u, seeding.task) \/ DontSpawn(u, seeding.task)
    /\ seeding' = [seeding EXCEPT !.seeds = @ - 1]

FinishSeeding(u) ==
    /\ seeding.by = u
    /\ seeding.seeds = 0
    /\ IsFree(u)
    /\ seeding' = NotSeeding
    /\ UNCHANGED <<registry, task, lock, handles, subtask, waiter, owed>>

\* Enrichment::cancel, on any handle a user may have got hold of.  (A second
\* cancel finds the flag set and no handle to abort.)
CancelTask(u, t) ==
    /\ ~task[t].cancelled
    /\ seeding.by # u
    /\ IsFree(u)
    /\ IsFindable(t)
    /\ Cancel(u, t)

\* Engine::enrichment_of drops a cancelled task on the way.
ForgetCancelled(r) ==
    /\ RegistryIsFree
    /\ registry[r] # NoTask
    /\ State(registry[r]) = "cancelled"
    /\ registry' = [registry EXCEPT ![r] = NoTask]
    /\ UNCHANGED <<seeding, task, lock, handles, subtask, waiter, owed>>

ForgetsAnything(t) == TRUE
MayForget(t) == State(t) = "completed"

\* Engine::forget_completed_enrichment
ForgetCompleted(r) ==
    /\ RegistryIsFree
    /\ registry[r] # NoTask
    /\ MayForget(registry[r])
    /\ registry' = [registry EXCEPT ![r] = NoTask]
    /\ UNCHANGED <<seeding, task, lock, handles, subtask, waiter, owed>>

(***************************************************************************)
(* Subtasks                                                                *)
(***************************************************************************)

EnqueueChild(s) ==
    /\ subtask[s].state = "live"
    /\ IsFree(s)
    /\ \/ Left > 0 /\ Spawn(s, subtask[s].task)
       \/ DontSpawn(s, subtask[s].task)
    /\ UNCHANGED seeding

\* A subtask that finds its entity gone cancels its task and returns.
CancelOwnTask(s) ==
    /\ subtask[s].state = "live"
    /\ IsFree(s)
    /\ LET t == subtask[s].task IN
        /\ ~task[t].cancelled
        /\ lock[t] = Unlocked
        /\ lock' = [lock EXCEPT ![t] = [by |-> s, about |-> "drain", subtask |-> NoSubtask]]
        /\ task' = [task EXCEPT ![t].cancelled = TRUE]
    /\ subtask' = [subtask EXCEPT ![s].state = "ending"]
    /\ UNCHANGED <<registry, seeding, handles, waiter, owed>>

\* Drop for Outcome: the subtask returned, or an abort dropped it at an await.
End(s, succeeded) ==
    /\ subtask[s].state \in {"live", "ending"}
    /\ IsFree(s)
    /\ subtask' = [subtask EXCEPT ![s].state = "ended"]
    /\ task' = [task EXCEPT ![subtask[s].task] = Ended(@, succeeded)]
    /\ UNCHANGED <<registry, seeding, lock, handles, waiter, owed>>

(***************************************************************************)
(* Engine::wait_for_enrichment                                             *)
(***************************************************************************)

CallWait(w) ==
    /\ waiter[w].state = "idle"
    /\ waiter' = [waiter EXCEPT ![w].state = "scanning"]
    /\ owed' = [owed EXCEPT ![w] = {t \in Tasks : IsFindable(t) /\ InProgress(t)}]
    /\ UNCHANGED <<registry, seeding, task, lock, handles, subtask>>

Scan(w) ==
    /\ waiter[w].state = "scanning"
    /\ RegistryIsFree
    /\ registry' = [r \in Roots |->
                      IF registry[r] # NoTask /\ State(registry[r]) = "cancelled" THEN NoTask
                      ELSE registry[r]]
    /\ LET running == {t \in Tasks : InProgress(t) /\ \E r \in Roots : registry'[r] = t} IN
        waiter' = [waiter EXCEPT ![w] =
                     [state |-> IF running = {} THEN "returned" ELSE "waiting",
                      tasks |-> running]]
    /\ UNCHANGED <<seeding, task, lock, handles, subtask, owed>>

\* One handle's task is over; after the last one the registry is scanned again.
Await(w, t) ==
    /\ waiter[w].state = "waiting"
    /\ t \in waiter[w].tasks
    /\ ~InProgress(t)
    /\ LET left == waiter[w].tasks \ {t} IN
        waiter' = [waiter EXCEPT ![w] =
                     [state |-> IF left = {} THEN "scanning" ELSE "waiting",
                      tasks |-> left]]
    /\ UNCHANGED <<registry, seeding, task, lock, handles, subtask, owed>>

-----------------------------------------------------------------------------
Init ==
    /\ registry = [r \in Roots |-> NoTask]
    /\ seeding = NotSeeding
    /\ task = [t \in Tasks |-> Unmade]
    /\ lock = [t \in Tasks |-> Unlocked]
    /\ handles = [t \in Tasks |-> {}]
    /\ subtask = [s \in Subtasks |-> Unspawned]
    /\ waiter = [w \in Waiters |-> [state |-> "idle", tasks |-> {}]]
    /\ owed = [w \in Waiters |-> {}]

Seeding(u) == Seed(u) \/ FinishSeeding(u)
Locked(a) == \E t \in Tasks : PushHandle(a, t) \/ Drain(a, t)
Running(s) == EnqueueChild(s) \/ CancelOwnTask(s) \/ End(s, TRUE) \/ End(s, FALSE)
Waiting(w) == Scan(w) \/ \E t \in Tasks : Await(w, t)

Next ==
    \/ \E u \in Users, r \in Roots, n \in 0..MaxSeeds : Start(u, r, n)
    \/ \E u \in Users : Seeding(u)
    \/ \E u \in Users, t \in Tasks : CancelTask(u, t)
    \/ \E r \in Roots : ForgetCancelled(r) \/ ForgetCompleted(r)
    \/ \E s \in Subtasks : Running(s)
    \/ \E a \in Actors : Locked(a)
    \/ \E w \in Waiters : CallWait(w) \/ Waiting(w)

Spec == Init /\ [][Next]_vars

(***************************************************************************)
(* Threads inside an engine call are scheduled, every subtask ends (its    *)
(* requests are bounded in time and number), and the runtime polls who     *)
(* waits.                                                                  *)
(***************************************************************************)
Fairness ==
    /\ \A u \in Users : WF_vars(Seeding(u))
    /\ \A a \in Actors : WF_vars(Locked(a))
    /\ \A s \in Subtasks : WF_vars(End(s, TRUE) \/ End(s, FALSE))
    /\ \A w \in Waiters : WF_vars(Waiting(w))

FairSpec == Spec /\ Fairness

-----------------------------------------------------------------------------
(* Every variable holds what its Rust type can; the counts are usize, so a count
   that ever went below zero would be a panic. *)
TypeOK ==
    /\ registry \in [Roots -> Tasks \union {NoTask}]
    /\ seeding \in [by : Users, task : Tasks, seeds : 0..MaxSeeds, locked : BOOLEAN]
                     \union {NotSeeding}
    /\ task \in [Tasks -> [root : Roots \union {NoRoot}, pending : Nat, successful : Nat,
                          failed : Nat, cancelled : BOOLEAN]]
    /\ lock \in [Tasks -> [by : Actors, about : {"push"}, subtask : Subtasks]
                            \union [by : Actors, about : {"drain"}, subtask : {NoSubtask}]
                            \union {Unlocked}]
    /\ handles \in [Tasks -> SUBSET Subtasks]
    /\ subtask \in [Subtasks -> [task : Tasks \union {NoTask},
                                state : {"unspawned", "live", "ending", "ended"},
                                aborted : BOOLEAN]]
    /\ waiter \in [Waiters -> [state : {"idle", "scanning", "waiting", "returned"},
                              tasks : SUBSET Tasks]]
    /\ owed \in [Waiters -> SUBSET Tasks]

(* A task's pending count is the number of its subtasks that have not ended,
   whoever enqueued them and whether they return, fail or are aborted: the state
   the user sees (in progress, failed, completed) is the true one. *)
PendingCountsLiveSubtasks ==
    \A t \in Tasks : task[t].pending = Cardinality(LiveOf(t))

(* "a concurrent enqueue either pushes its subtask before the drain or sees the
   flag and spawns nothing": once a cancel has released the lock, every subtask
   of the task that still runs has been told to stop. *)
CancelledTaskWindsDown ==
    \A t \in Tasks : task[t].cancelled /\ lock[t].about # "drain" =>
        \A s \in LiveOf(t) : subtask[s].aborted

(* No entity has two tasks running at once, however starts, cancels and
   forgetting interleave. *)
OneRunPerRoot ==
    \A t, v \in Tasks :
        IsMade(t) /\ IsMade(v) /\ task[t].root = task[v].root
            /\ InProgress(t) /\ InProgress(v) => t = v

(* "no one can find the new task before its seeds are counted and mistake it for
   a finished one": a task that anyone can see over stays over, as it was or
   cancelled. *)
OverIsOver ==
    [][\A t \in Tasks : IsFindable(t) /\ ~InProgress(t) =>
            State(t)' \in {State(t), "cancelled"}]_vars

(* wait_for_enrichment returns only when every task that was running when it was
   called is over, although others are started, cancelled and forgotten
   meanwhile. *)
WaitCoversWhatRan ==
    \A w \in Waiters : waiter[w].state = "returned" =>
        \A t \in owed[w] : ~InProgress(t)

(* A cancelled task comes to rest. *)
CancelledTaskEnds ==
    \A t \in Tasks : task[t].cancelled ~> task[t].pending = 0

(* wait_for_enrichment returns once no more tasks are started. *)
WaitReturns ==
    \A w \in Waiters : waiter[w].state = "scanning" ~> waiter[w].state = "returned"
=============================================================================
