----------------------------- MODULE LookupProofs -----------------------------
(***************************************************************************)
(* The safety of what is looked up while people go on working.             *)
(*                                                                         *)
(* EnrichmentTask: for any roots, tasks, subtasks, users and waiters, what *)
(* a task counts is what still runs, a cancel reaches all of it, a root    *)
(* has one run at a time, and a wait lasts as long as what it waits for.   *)
(*                                                                         *)
(* ImportSeeding: what a lookup, the edit of a work and an accept do to    *)
(* the draft of an import, for any number of requests and stores.  Each of *)
(* the three reads the draft and acts on it later, so the invariant says   *)
(* what each still knows of the draft as long as no other store came in    *)
(* between.                                                                *)
(***************************************************************************)
EXTENDS EnrichmentTask, ImportSeeding, FiniteSetTheorems, TLAPS

-----------------------------------------------------------------------------
(***************************************************************************)
(* Enrichment tasks: the inductive invariant                               *)
(***************************************************************************)

\* Whatever was spawned belongs to a task.
SubtasksPlaced ==
    \A s \in Subtasks : subtask[s].state # "unspawned" => subtask[s].task \in Tasks

\* A running subtask can be aborted by who holds the lock: its handle is stored
\* or about to be, if it was not aborted already.
HandlesKept ==
    \A t \in Tasks : \A s \in LiveOf(t) :
        \/ s \in handles[t]
        \/ subtask[s].aborted
        \/ lock[t].about = "push" /\ lock[t].subtask = s

IsRegistered(t) == IsMade(t) /\ registry[task[t].root] = t

\* Only the task behind the registry's lock is ever enqueued into from outside,
\* and it cannot be replaced meanwhile.
SeedingKept ==
    seeding # NotSeeding => seeding.locked /\ IsRegistered(seeding.task)

RunsAreRegistered ==
    \A t \in Tasks : InProgress(t) => IsRegistered(t)

\* A wait watches all that it owes and that still runs.
WaitersKept ==
    \A w \in Waiters :
        /\ \A t \in owed[w] : IsFindable(t)
        /\ waiter[w].state = "waiting" =>
                \A t \in owed[w] : InProgress(t) => t \in waiter[w].tasks
        /\ waiter[w].state = "returned" =>
                \A t \in owed[w] : ~InProgress(t)

Inv ==
    /\ TypeOK
    /\ PendingCountsLiveSubtasks
    /\ SubtasksPlaced
    /\ HandlesKept
    /\ CancelledTaskWindsDown
    /\ SeedingKept
    /\ RunsAreRegistered
    /\ WaitersKept

-----------------------------------------------------------------------------
(* A task is in progress exactly while it has pending subtasks and no one
   cancelled it. *)
LEMMA RunsWhilePending ==
    ASSUME NEW t \in Tasks, task[t].pending \in Nat
    PROVE  InProgress(t) <=> ~task[t].cancelled /\ task[t].pending > 0
BY DEF InProgress, State

(* The subtasks of a task can be counted, and what runs is counted. *)
LEMMA LiveCounted ==
    ASSUME Inv, NEW t \in Tasks
    PROVE  /\ IsFiniteSet(LiveOf(t))
           /\ task[t].pending = Cardinality(LiveOf(t))
           /\ task[t].pending \in Nat
           /\ LiveOf(t) # {} => task[t].pending > 0
<1>1. IsFiniteSet(LiveOf(t))
  BY FS_Subset, ActorsAreDistinct DEF LiveOf
<1>2. task[t].pending = Cardinality(LiveOf(t)) /\ task[t].pending \in Nat
  BY DEF Inv, PendingCountsLiveSubtasks, TypeOK
<1> QED BY <1>1, <1>2, FS_EmptySet

(* A running subtask runs for a task that was made and, unless it is cancelled,
   is registered. *)
LEMMA LiveTask ==
    ASSUME Inv, NEW s \in Subtasks, subtask[s].state \in {"live", "ending"}
    PROVE  /\ subtask[s].task \in Tasks
           /\ s \in LiveOf(subtask[s].task)
           /\ task[subtask[s].task].pending > 0
           /\ ~task[subtask[s].task].cancelled => IsRegistered(subtask[s].task)
<1>1. subtask[s].task \in Tasks
  BY DEF Inv, SubtasksPlaced
<1>2. s \in LiveOf(subtask[s].task)
  BY DEF LiveOf
<1>3. task[subtask[s].task].pending > 0 /\ task[subtask[s].task].pending \in Nat
  BY <1>1, <1>2, LiveCounted
<1>4. ~task[subtask[s].task].cancelled => IsRegistered(subtask[s].task)
  BY <1>1, <1>3, RunsWhilePending DEF Inv, RunsAreRegistered
<1> QED BY <1>1, <1>2, <1>3, <1>4

(* While the registry is free, no one enqueues seeds. *)
LEMMA FreeMeansNoSeeds ==
    ASSUME Inv, RegistryIsFree
    PROVE  seeding = NotSeeding
BY DEF Inv, SeedingKept, RegistryIsFree

(* How a step that enqueues nothing more than promised leaves the registry's
   lock as it was. *)
LEMMA SeedTaken ==
    ASSUME Inv, seeding.by \in Users, seeding.seeds > 0,
           seeding' = [seeding EXCEPT !.seeds = @ - 1]
    PROVE  /\ seeding # NotSeeding /\ seeding.task \in Tasks
           /\ seeding' \in [by : Users, task : Tasks, seeds : 0..MaxSeeds, locked : BOOLEAN]
           /\ seeding'.locked = seeding.locked
           /\ seeding'.task = seeding.task
           /\ seeding'.by = seeding.by
<1>1. seeding # NotSeeding
  BY ActorsAreDistinct DEF NotSeeding
<1>2. seeding \in [by : Users, task : Tasks, seeds : 0..MaxSeeds, locked : BOOLEAN]
  BY <1>1 DEF Inv, TypeOK
<1>3. seeding.seeds - 1 \in 0..MaxSeeds
  BY <1>2, ActorsAreDistinct
<1> QED BY <1>1, <1>2, <1>3

-----------------------------------------------------------------------------
(***************************************************************************)
(* Enqueuing and cancelling                                                *)
(***************************************************************************)

(* Spawning counts one more subtask of a task that is registered and that no
   wait could have taken for finished. *)
LEMMA SpawnKeepsInv ==
    ASSUME Inv, NEW t \in Tasks, NEW a \in Actors, Spawn(a, t),
           IsRegistered(t),
           task[t].pending > 0 \/ (seeding.locked /\ seeding.task = t),
           seeding' \in [by : Users, task : Tasks, seeds : 0..MaxSeeds, locked : BOOLEAN]
                           \union {NotSeeding},
           seeding'.locked = seeding.locked, seeding'.task = seeding.task,
           seeding' # NotSeeding => seeding # NotSeeding
    PROVE  Inv'
<1> USE ActorsAreDistinct
<1>1. PICK s \in Subtasks :
        /\ subtask[s] = Unspawned
        /\ subtask' = [subtask EXCEPT ![s] = [task |-> t, state |-> "live", aborted |-> FALSE]]
        /\ lock' = [lock EXCEPT ![t] = [by |-> a, about |-> "push", subtask |-> s]]
  BY DEF Spawn
<1>2. /\ lock[t] = Unlocked /\ ~task[t].cancelled
      /\ task' = [task EXCEPT ![t] = Spawned(@)]
      /\ UNCHANGED <<registry, handles, waiter, owed>>
  BY DEF Spawn, SeesCancelled
<1>3. /\ task' \in [Tasks -> [root : Roots \union {NoRoot}, pending : Nat, successful : Nat,
                              failed : Nat, cancelled : BOOLEAN]]
      /\ \A v \in Tasks : /\ task'[v].root = task[v].root
                          /\ task'[v].cancelled = task[v].cancelled
                          /\ task'[v].pending = IF v = t THEN task[v].pending + 1
                                                ELSE task[v].pending
  BY <1>2 DEF Spawned, Inv, TypeOK
<1>4. /\ \A x \in Subtasks : x # s => subtask'[x] = subtask[x]
      /\ subtask'[s].task = t /\ subtask'[s].state = "live"
      /\ \A v \in Tasks : v # t => lock'[v] = lock[v]
      /\ lock'[t].about = "push" /\ lock'[t].subtask = s
  BY <1>1 DEF Inv, TypeOK
<1>5. \A v \in Tasks : s \notin LiveOf(v)
  BY <1>1 DEF LiveOf, Unspawned
<1>6. \A v \in Tasks : LiveOf(v)' = IF v = t THEN LiveOf(v) \union {s} ELSE LiveOf(v)
  <2>1. ASSUME NEW v \in Tasks, NEW x \in Subtasks
        PROVE  x \in LiveOf(v)' <=> x \in LiveOf(v) \/ (x = s /\ v = t)
    BY <1>4, <1>5 DEF LiveOf
  <2>2. \A v \in Tasks : LiveOf(v) \subseteq Subtasks /\ LiveOf(v)' \subseteq Subtasks
    BY DEF LiveOf
  <2> QED BY <2>1, <2>2
<1>7. \A v \in Tasks : v # t => (InProgress(v)' <=> InProgress(v))
  BY <1>2 DEF Inv, TypeOK, InProgress, State
<1>8. TypeOK'
  <2>1. /\ subtask' \in [Subtasks -> [task : Tasks \union {NoTask},
                                state : {"unspawned", "live", "ending", "ended"},
                                aborted : BOOLEAN]]
        /\ lock' \in [Tasks -> [by : Actors, about : {"push"}, subtask : Subtasks]
                               \union [by : Actors, about : {"drain"}, subtask : {NoSubtask}]
                               \union {Unlocked}]
    BY <1>1 DEF Inv, TypeOK
  <2> QED BY <1>2, <1>3, <2>1 DEF Inv, TypeOK
<1>9. PendingCountsLiveSubtasks'
  <2>1. ASSUME NEW v \in Tasks
        PROVE  task'[v].pending = Cardinality(LiveOf(v)')
    BY <1>3, <1>5, <1>6, LiveCounted, FS_AddElement
  <2> QED BY <2>1 DEF PendingCountsLiveSubtasks
<1>10. SubtasksPlaced'
  BY <1>4 DEF Inv, SubtasksPlaced
<1>11. HandlesKept'
  BY <1>2, <1>4, <1>5, <1>6 DEF Inv, HandlesKept, Unlocked, LiveOf
<1>12. CancelledTaskWindsDown'
  <2>1. \A v \in Tasks : LiveOf(v) \subseteq Subtasks
    BY DEF LiveOf
  <2>2. ASSUME NEW v \in Tasks, task'[v].cancelled, lock'[v].about # "drain",
               NEW x \in LiveOf(v)'
        PROVE  subtask'[x].aborted
    <3>1. v # t
      BY <2>2, <1>2, <1>3
    <3>2. x \in LiveOf(v) /\ x # s /\ x \in Subtasks
      BY <3>1, <2>1, <2>2, <1>5, <1>6
    <3>3. task[v].cancelled /\ lock[v].about # "drain"
      BY <3>1, <2>2, <1>3, <1>4
    <3> QED BY <3>2, <3>3, <1>4 DEF Inv, CancelledTaskWindsDown
  <2> QED BY <2>2 DEF CancelledTaskWindsDown
<1>13. SeedingKept' /\ RunsAreRegistered'
  <2>1. \A v \in Tasks : IsRegistered(v)' <=> IsRegistered(v)
    BY <1>2, <1>3 DEF IsRegistered, IsMade
  <2>2. seeding # NotSeeding => seeding.task \in Tasks
    BY DEF Inv, TypeOK
  <2> QED BY <1>7, <2>1, <2>2 DEF Inv, SeedingKept, RunsAreRegistered
<1>14. WaitersKept'
  <2>1. \A v \in Tasks : IsFindable(v)' <=> IsFindable(v)
    BY <1>3 DEF IsFindable, IsMade
  <2>2. IsFindable(t) => InProgress(t)
    BY <1>2, RunsWhilePending, LiveCounted DEF IsFindable
  <2>3. \A w \in Waiters : owed[w] \in SUBSET Tasks
    BY DEF Inv, TypeOK
  <2> QED BY <1>2, <1>7, <2>1, <2>2, <2>3 DEF Inv, WaitersKept
<1> QED BY <1>8, <1>9, <1>10, <1>11, <1>12, <1>13, <1>14 DEF Inv

(* What the registry's holder does to its own lock, without letting it go or
   when it lets it go for good, hides no task that was not hidden before. *)
LEMMA SeedingKeepsInv ==
    ASSUME Inv, UNCHANGED <<registry, task, lock, handles, subtask, waiter, owed>>,
           \/ seeding' = NotSeeding
           \/ seeding' = seeding
           \/ /\ seeding # NotSeeding
              /\ seeding' \in [by : Users, task : Tasks, seeds : 0..MaxSeeds, locked : BOOLEAN]
              /\ seeding'.locked = seeding.locked /\ seeding'.task = seeding.task
    PROVE  Inv'
<1>1. TypeOK'
  BY DEF Inv, TypeOK
<1>2. \A t \in Tasks : /\ LiveOf(t)' = LiveOf(t)
                       /\ (InProgress(t)' <=> InProgress(t))
                       /\ (IsRegistered(t)' <=> IsRegistered(t))
                       /\ (IsFindable(t) => IsFindable(t)')
  BY DEF LiveOf, InProgress, State, IsRegistered, IsMade, IsFindable, NotSeeding
<1>3. PendingCountsLiveSubtasks' /\ SubtasksPlaced' /\ HandlesKept' /\ CancelledTaskWindsDown'
  BY <1>2 DEF Inv, PendingCountsLiveSubtasks, SubtasksPlaced, HandlesKept, CancelledTaskWindsDown
<1>4. SeedingKept' /\ RunsAreRegistered'
  <2>1. seeding # NotSeeding => seeding.task \in Tasks
    BY DEF Inv, TypeOK
  <2> QED BY <1>2, <2>1 DEF Inv, SeedingKept, RunsAreRegistered
<1>5. WaitersKept'
  <2>1. \A w \in Waiters : owed[w] \in SUBSET Tasks
    BY DEF Inv, TypeOK
  <2> QED BY <1>2, <2>1 DEF Inv, WaitersKept
<1> QED BY <1>1, <1>3, <1>4, <1>5 DEF Inv

(* The holder of a task's lock stores the handle, or aborts every subtask whose
   handle is stored: all that run and were not aborted. *)
LEMMA LockedKeepsInv ==
    ASSUME Inv, NEW t \in Tasks, NEW a \in Actors, PushHandle(a, t) \/ Drain(a, t)
    PROVE  Inv'
<1> USE ActorsAreDistinct
<1>1. /\ UNCHANGED <<registry, seeding, task, waiter, owed>>
      /\ lock' = [lock EXCEPT ![t] = Unlocked]
  BY DEF PushHandle, Drain
<1>2. /\ \A s \in Subtasks : /\ subtask'[s].task = subtask[s].task
                             /\ subtask'[s].state = subtask[s].state
                             /\ subtask[s].aborted => subtask'[s].aborted
      /\ subtask' \in [Subtasks -> [task : Tasks \union {NoTask},
                                    state : {"unspawned", "live", "ending", "ended"},
                                    aborted : BOOLEAN]]
      /\ handles' \in [Tasks -> SUBSET Subtasks]
  <2>1. /\ handles \in [Tasks -> SUBSET Subtasks]
        /\ subtask \in [Subtasks -> [task : Tasks \union {NoTask},
                                     state : {"unspawned", "live", "ending", "ended"},
                                     aborted : BOOLEAN]]
    BY DEF Inv, TypeOK
  <2>2. CASE PushHandle(a, t)
    <3>1. lock[t].subtask \in Subtasks
      BY <2>2 DEF PushHandle, Inv, TypeOK, Unlocked
    <3>2. /\ handles' = [handles EXCEPT ![t] = @ \union {lock[t].subtask}]
          /\ subtask' = subtask
      BY <2>2 DEF PushHandle
    <3> HIDE DEF Inv
    <3> QED BY <2>1, <3>1, <3>2
  <2>3. CASE Drain(a, t)
    <3>1. /\ handles' = [handles EXCEPT ![t] = {}]
          /\ subtask' = [s \in Subtasks |->
                           IF s \in handles[t] THEN [subtask[s] EXCEPT !.aborted = TRUE]
                           ELSE subtask[s]]
      BY <2>3 DEF Drain
    <3>2. \A s \in Subtasks :
            /\ subtask[s] \in [task : Tasks \union {NoTask},
                               state : {"unspawned", "live", "ending", "ended"},
                               aborted : BOOLEAN]
            /\ subtask'[s] = IF s \in handles[t] THEN [subtask[s] EXCEPT !.aborted = TRUE]
                             ELSE subtask[s]
      BY <2>1, <3>1
    <3>3. handles' \in [Tasks -> SUBSET Subtasks]
      BY <2>1, <3>1
    <3>4. ASSUME NEW s \in Subtasks
          PROVE  /\ subtask'[s] \in [task : Tasks \union {NoTask},
                                     state : {"unspawned", "live", "ending", "ended"},
                                     aborted : BOOLEAN]
                 /\ subtask'[s].task = subtask[s].task
                 /\ subtask'[s].state = subtask[s].state
                 /\ subtask[s].aborted => subtask'[s].aborted
      BY <3>2
    <3>5. subtask' \in [Subtasks -> [task : Tasks \union {NoTask},
                                     state : {"unspawned", "live", "ending", "ended"},
                                     aborted : BOOLEAN]]
      BY <3>1, <3>4
    <3> QED BY <3>3, <3>4, <3>5
  <2> QED BY <2>2, <2>3
<1>3. \A v \in Tasks : /\ LiveOf(v)' = LiveOf(v) /\ LiveOf(v) \subseteq Subtasks
                       /\ (InProgress(v)' <=> InProgress(v))
                       /\ (IsRegistered(v)' <=> IsRegistered(v))
                       /\ (IsFindable(v)' <=> IsFindable(v))
  BY <1>1, <1>2 DEF LiveOf, InProgress, State, IsRegistered, IsMade, IsFindable
<1>4. TypeOK'
  BY <1>1, <1>2 DEF Inv, TypeOK
<1>5. PendingCountsLiveSubtasks' /\ SubtasksPlaced'
  BY <1>1, <1>2, <1>3 DEF Inv, PendingCountsLiveSubtasks, SubtasksPlaced
<1>6. SeedingKept' /\ RunsAreRegistered' /\ WaitersKept'
  <2>1. seeding # NotSeeding => seeding.task \in Tasks
    BY DEF Inv, TypeOK
  <2>2. \A w \in Waiters : owed[w] \in SUBSET Tasks
    BY DEF Inv, TypeOK
  <2> QED BY <1>1, <1>3, <2>1, <2>2 DEF Inv, SeedingKept, RunsAreRegistered, WaitersKept
<1>7. /\ \A v \in Tasks : v # t => lock'[v] = lock[v] /\ handles'[v] = handles[v]
      /\ lock'[t].about = "nothing"
  BY <1>1 DEF PushHandle, Drain, Inv, TypeOK, Unlocked
<1>8. CASE PushHandle(a, t)
  <2>1. /\ subtask' = subtask /\ lock[t].about = "push"
        /\ handles'[t] = handles[t] \union {lock[t].subtask}
    BY <1>8 DEF PushHandle, Inv, TypeOK
  <2>2. HandlesKept'
    BY <1>3, <1>7, <2>1 DEF Inv, HandlesKept
  <2>3. CancelledTaskWindsDown'
    BY <1>1, <1>3, <1>7, <2>1 DEF Inv, CancelledTaskWindsDown
  <2> QED BY <1>4, <1>5, <1>6, <2>2, <2>3 DEF Inv
<1>9. CASE Drain(a, t)
  <2>1. /\ lock[t].about = "drain"
        /\ \A s \in Subtasks : s \in handles[t] => subtask'[s].aborted
    <3>1. \A s \in Subtasks : subtask[s] \in [task : Tasks \union {NoTask},
                               state : {"unspawned", "live", "ending", "ended"},
                               aborted : BOOLEAN]
      BY DEF Inv, TypeOK
    <3> QED BY <1>9, <3>1 DEF Drain
  <2>2. \A s \in LiveOf(t) : subtask'[s].aborted
    BY <1>2, <1>3, <2>1 DEF Inv, HandlesKept
  <2>3. ASSUME NEW v \in Tasks, NEW s \in LiveOf(v)'
        PROVE  /\ s \in Subtasks /\ s \in LiveOf(v)
               /\ v = t => subtask'[s].aborted
               /\ subtask[s].aborted => subtask'[s].aborted
               /\ v # t => lock'[v] = lock[v] /\ handles'[v] = handles[v]
    BY <1>2, <1>3, <1>7, <2>2, ZenonT(60)
  <2>4. HandlesKept'
    <3>1. \A v \in Tasks : \A s \in LiveOf(v) :
              s \in handles[v] \/ subtask[s].aborted
                \/ (lock[v].about = "push" /\ lock[v].subtask = s)
      BY DEF Inv, HandlesKept
    <3>2. ASSUME NEW v \in Tasks, NEW s \in LiveOf(v)'
          PROVE  \/ s \in handles'[v]
                 \/ subtask'[s].aborted
                 \/ lock'[v].about = "push" /\ lock'[v].subtask = s
      <4>1. /\ s \in LiveOf(v)
            /\ v = t => subtask'[s].aborted
            /\ subtask[s].aborted => subtask'[s].aborted
            /\ v # t => lock'[v] = lock[v] /\ handles'[v] = handles[v]
        BY <2>3
      <4>2. \/ s \in handles[v]
            \/ subtask[s].aborted
            \/ lock[v].about = "push" /\ lock[v].subtask = s
        BY <3>1, <4>1
      <4> QED BY <4>1, <4>2
    <3> QED BY <3>2 DEF HandlesKept
  <2>5. CancelledTaskWindsDown'
    <3>1. \A v \in Tasks : task[v].cancelled /\ lock[v].about # "drain" =>
              \A s \in LiveOf(v) : subtask[s].aborted
      BY DEF Inv, CancelledTaskWindsDown
    <3> QED BY <1>1, <2>3, <3>1 DEF CancelledTaskWindsDown
  <2> QED BY <1>4, <1>5, <1>6, <2>4, <2>5 DEF Inv
<1> QED BY <1>8, <1>9

(* Cancelling a task, by a user or by one of its subtasks, only marks it: the
   canceller still has to drain its handles. *)
LEMMA CancelKeepsInv ==
    ASSUME Inv, NEW t \in Tasks, NEW a \in Actors,
           lock[t] = Unlocked,
           lock' = [lock EXCEPT ![t] = [by |-> a, about |-> "drain", subtask |-> NoSubtask]],
           task' = [task EXCEPT ![t].cancelled = TRUE],
           subtask' \in [Subtasks -> [task : Tasks \union {NoTask},
                                      state : {"unspawned", "live", "ending", "ended"},
                                      aborted : BOOLEAN]],
           \A s \in Subtasks :
              subtask'[s] # subtask[s] =>
                /\ subtask'[s].task = subtask[s].task
                /\ subtask'[s].aborted = subtask[s].aborted
                /\ subtask[s].state = "live" /\ subtask'[s].state = "ending",
           UNCHANGED <<registry, seeding, handles, waiter, owed>>
    PROVE  Inv'
<1>1. /\ task' \in [Tasks -> [root : Roots \union {NoRoot}, pending : Nat, successful : Nat,
                              failed : Nat, cancelled : BOOLEAN]]
      /\ \A v \in Tasks : /\ task'[v].root = task[v].root
                          /\ task'[v].pending = task[v].pending
                          /\ v # t => task'[v] = task[v]
      /\ task'[t].cancelled
  <2>1. task \in [Tasks -> [root : Roots \union {NoRoot}, pending : Nat, successful : Nat,
                            failed : Nat, cancelled : BOOLEAN]]
    BY DEF Inv, TypeOK
  <2>2. task' = [task EXCEPT ![t] = [task[t] EXCEPT !.cancelled = TRUE]]
    BY <2>1
  <2> DEFINE e == [task[t] EXCEPT !.cancelled = TRUE]
  <2>3. /\ e \in [root : Roots \union {NoRoot}, pending : Nat, successful : Nat,
                  failed : Nat, cancelled : BOOLEAN]
        /\ e.root = task[t].root /\ e.pending = task[t].pending /\ e.cancelled = TRUE
    BY <2>1
  <2> HIDE DEF e
  <2>4. \A v \in Tasks : task'[v] = IF v = t THEN e ELSE task[v]
    BY <2>1, <2>2 DEF e
  <2>5. task' \in [Tasks -> [root : Roots \union {NoRoot}, pending : Nat, successful : Nat,
                             failed : Nat, cancelled : BOOLEAN]]
    BY <2>1, <2>2, <2>3 DEF e
  <2> QED BY <2>3, <2>4, <2>5
<1>2. /\ lock' \in [Tasks -> [by : Actors, about : {"push"}, subtask : Subtasks]
                            \union [by : Actors, about : {"drain"}, subtask : {NoSubtask}]
                            \union {Unlocked}]
      /\ \A v \in Tasks : v # t => lock'[v] = lock[v]
      /\ lock'[t].about = "drain"
  BY DEF Inv, TypeOK
<1>3. \A v \in Tasks : /\ LiveOf(v)' = LiveOf(v) /\ LiveOf(v) \subseteq Subtasks
                       /\ (IsRegistered(v)' <=> IsRegistered(v))
                       /\ (IsFindable(v)' <=> IsFindable(v))
  BY <1>1 DEF LiveOf, IsRegistered, IsMade, IsFindable
<1>4. \A v \in Tasks : InProgress(v)' => InProgress(v)
  BY <1>1 DEF InProgress, State
<1>5. TypeOK'
  BY <1>1, <1>2 DEF Inv, TypeOK
<1>6. PendingCountsLiveSubtasks' /\ SubtasksPlaced'
  BY <1>1, <1>3 DEF Inv, PendingCountsLiveSubtasks, SubtasksPlaced
<1>7. \A s \in Subtasks : subtask'[s].aborted = subtask[s].aborted
  OBVIOUS
<1>8. HandlesKept'
  BY <1>2, <1>3, <1>7 DEF Inv, HandlesKept, Unlocked
<1>9. CancelledTaskWindsDown'
  BY <1>1, <1>2, <1>3, <1>7 DEF Inv, CancelledTaskWindsDown
<1>10. SeedingKept' /\ RunsAreRegistered' /\ WaitersKept'
  <2>1. seeding # NotSeeding => seeding.task \in Tasks
    BY DEF Inv, TypeOK
  <2>2. \A w \in Waiters : owed[w] \in SUBSET Tasks
    BY DEF Inv, TypeOK
  <2> QED BY <1>3, <1>4, <2>1, <2>2 DEF Inv, SeedingKept, RunsAreRegistered, WaitersKept
<1> QED BY <1>5, <1>6, <1>8, <1>9, <1>10 DEF Inv

(* An end is counted once, as a success or as a failure. *)
LEMMA EndedTyped ==
    ASSUME NEW k \in [root : Roots \union {NoRoot}, pending : Nat, successful : Nat,
                     failed : Nat, cancelled : BOOLEAN],
           k.pending > 0, NEW succeeded \in BOOLEAN
    PROVE  /\ Ended(k, succeeded) \in [root : Roots \union {NoRoot}, pending : Nat,
                                       successful : Nat, failed : Nat, cancelled : BOOLEAN]
           /\ Ended(k, succeeded).root = k.root
           /\ Ended(k, succeeded).cancelled = k.cancelled
           /\ Ended(k, succeeded).pending = k.pending - 1
<1> DEFINE Status == [root : Roots \union {NoRoot}, pending : Nat, successful : Nat,
                      failed : Nat, cancelled : BOOLEAN]
           less == [k EXCEPT !.pending = k.pending - 1]
<1>1. /\ less \in Status /\ less.root = k.root /\ less.cancelled = k.cancelled
      /\ less.pending = k.pending - 1
      /\ less.successful \in Nat /\ less.failed \in Nat
      /\ less.successful = k.successful /\ less.failed = k.failed
  OBVIOUS
<1>2. CASE succeeded
  <2>1. Ended(k, succeeded) = [less EXCEPT !.successful = less.successful + 1]
    BY <1>1, <1>2 DEF Ended
  <2> HIDE DEF less
  <2> QED BY <1>1, <2>1
<1>3. CASE ~succeeded
  <2>1. Ended(k, succeeded) = [less EXCEPT !.failed = less.failed + 1]
    BY <1>1, <1>3 DEF Ended
  <2> HIDE DEF less
  <2> QED BY <1>1, <2>1
<1> QED BY <1>2, <1>3

(* A subtask's end takes back what its spawning counted, however it ends. *)
LEMMA EndKeepsInv ==
    ASSUME Inv, NEW s \in Subtasks, NEW succeeded \in BOOLEAN, End(s, succeeded)
    PROVE  Inv'
<1> DEFINE t == subtask[s].task
           e == Ended(task[t], succeeded)
<1>1. /\ subtask[s].state \in {"live", "ending"}
      /\ subtask' = [subtask EXCEPT ![s].state = "ended"]
      /\ task' = [task EXCEPT ![t] = Ended(@, succeeded)]
      /\ UNCHANGED <<registry, seeding, lock, handles, waiter, owed>>
  BY DEF End
<1>2. t \in Tasks /\ s \in LiveOf(t) /\ task[t].pending > 0
  BY <1>1, LiveTask
<1>3. /\ task \in [Tasks -> [root : Roots \union {NoRoot}, pending : Nat, successful : Nat,
                            failed : Nat, cancelled : BOOLEAN]]
      /\ subtask \in [Subtasks -> [task : Tasks \union {NoTask},
                                   state : {"unspawned", "live", "ending", "ended"},
                                   aborted : BOOLEAN]]
  BY DEF Inv, TypeOK
<1>4. /\ e \in [root : Roots \union {NoRoot}, pending : Nat, successful : Nat,
                failed : Nat, cancelled : BOOLEAN]
      /\ e.root = task[t].root /\ e.cancelled = task[t].cancelled
      /\ e.pending = task[t].pending - 1
  <2>1. task[t] \in [root : Roots \union {NoRoot}, pending : Nat, successful : Nat,
                    failed : Nat, cancelled : BOOLEAN]
    BY <1>2, <1>3
  <2> QED BY <1>2, <2>1, EndedTyped
<1>5. /\ \A x \in Subtasks : /\ subtask'[x].task = subtask[x].task
                             /\ subtask'[x].aborted = subtask[x].aborted
                             /\ x # s => subtask'[x].state = subtask[x].state
      /\ subtask'[s].state = "ended"
      /\ subtask' \in [Subtasks -> [task : Tasks \union {NoTask},
                                   state : {"unspawned", "live", "ending", "ended"},
                                   aborted : BOOLEAN]]
  BY <1>1, <1>3
<1> HIDE DEF e
<1>6. /\ \A v \in Tasks : task'[v] = IF v = t THEN e ELSE task[v]
      /\ task' \in [Tasks -> [root : Roots \union {NoRoot}, pending : Nat, successful : Nat,
                              failed : Nat, cancelled : BOOLEAN]]
  BY <1>1, <1>2, <1>3, <1>4 DEF e
<1> HIDE DEF t
<1>7. \A v \in Tasks : LiveOf(v)' = IF v = t THEN LiveOf(v) \ {s} ELSE LiveOf(v)
  BY <1>5 DEF LiveOf, t
<1>8. \A v \in Tasks : LiveOf(v)' \subseteq LiveOf(v) /\ LiveOf(v) \subseteq Subtasks
  BY <1>7 DEF LiveOf
<1>9. \A v \in Tasks : /\ (IsRegistered(v)' <=> IsRegistered(v))
                       /\ (IsFindable(v)' <=> IsFindable(v))
                       /\ (InProgress(v)' => InProgress(v))
                       /\ task'[v].cancelled = task[v].cancelled
  <2>1. ASSUME NEW v \in Tasks
        PROVE  /\ task'[v].root = task[v].root
               /\ task'[v].cancelled = task[v].cancelled
               /\ task'[v].pending > 0 => task[v].pending > 0
               /\ task'[v].pending \in Nat /\ task[v].pending \in Nat
    BY <1>2, <1>3, <1>4, <1>6
  <2> QED BY <1>1, <2>1 DEF IsRegistered, IsMade, IsFindable, InProgress, State
<1>10. TypeOK'
  BY <1>1, <1>5, <1>6 DEF Inv, TypeOK
<1>11. PendingCountsLiveSubtasks'
  <2>1. ASSUME NEW v \in Tasks
        PROVE  task'[v].pending = Cardinality(LiveOf(v)')
    <3>1. IsFiniteSet(LiveOf(v)) /\ task[v].pending = Cardinality(LiveOf(v))
      BY LiveCounted
    <3>2. Cardinality(LiveOf(t) \ {s}) = Cardinality(LiveOf(t)) - 1
      BY <1>2, LiveCounted, FS_RemoveElement
    <3> QED BY <1>4, <1>6, <1>7, <3>1, <3>2
  <2> QED BY <2>1 DEF PendingCountsLiveSubtasks
<1>12. SubtasksPlaced'
  BY <1>1, <1>2, <1>5 DEF Inv, SubtasksPlaced, t
<1>13. HandlesKept'
  BY <1>1, <1>5, <1>8 DEF Inv, HandlesKept
<1>14. CancelledTaskWindsDown'
  BY <1>1, <1>5, <1>8, <1>9 DEF Inv, CancelledTaskWindsDown
<1>15. SeedingKept' /\ RunsAreRegistered' /\ WaitersKept'
  <2>1. seeding # NotSeeding => seeding.task \in Tasks
    BY DEF Inv, TypeOK
  <2>2. \A w \in Waiters : owed[w] \in SUBSET Tasks
    BY DEF Inv, TypeOK
  <2> QED BY <1>1, <1>9, <2>1, <2>2 DEF Inv, SeedingKept, RunsAreRegistered, WaitersKept
<1> QED BY <1>10, <1>11, <1>12, <1>13, <1>14, <1>15 DEF Inv

-----------------------------------------------------------------------------
(***************************************************************************)
(* The registry                                                            *)
(***************************************************************************)

(* A task that starts takes the place of one that is over, if any. *)
LEMMA StartKeepsInv ==
    ASSUME Inv, NEW u \in Users, NEW r \in Roots, NEW n \in 0..MaxSeeds, Start(u, r, n)
    PROVE  Inv'
<1> USE ActorsAreDistinct
<1>1. PICK t \in Tasks :
        /\ task[t] = Unmade
        /\ task' = [task EXCEPT ![t].root = r]
        /\ registry' = [registry EXCEPT ![r] = t]
        /\ seeding' = [by |-> u, task |-> t, seeds |-> n, locked |-> TRUE]
  BY DEF Start, KeepLocked
<1>2. /\ seeding = NotSeeding
      /\ UNCHANGED <<lock, handles, subtask, waiter, owed>>
      /\ registry[r] # NoTask => ~InProgress(registry[r])
  BY FreeMeansNoSeeds DEF Start, MayStart
<1>3. /\ task \in [Tasks -> [root : Roots \union {NoRoot}, pending : Nat, successful : Nat,
                            failed : Nat, cancelled : BOOLEAN]]
      /\ registry \in [Roots -> Tasks \union {NoTask}]
  BY DEF Inv, TypeOK
<1>4. /\ task' \in [Tasks -> [root : Roots \union {NoRoot}, pending : Nat, successful : Nat,
                              failed : Nat, cancelled : BOOLEAN]]
      /\ \A v \in Tasks : /\ task'[v].root = IF v = t THEN r ELSE task[v].root
                          /\ task'[v].pending = task[v].pending
                          /\ task'[v].cancelled = task[v].cancelled
  BY <1>1, <1>3
<1>5. /\ registry' \in [Roots -> Tasks \union {NoTask}]
      /\ \A q \in Roots : registry'[q] = IF q = r THEN t ELSE registry[q]
  BY <1>1, <1>3
<1>6. \A v \in Tasks : /\ LiveOf(v)' = LiveOf(v)
                       /\ (InProgress(v)' <=> InProgress(v))
                       /\ IsMade(v) => v # t /\ IsMade(v)'
                       /\ IsMade(v) => task[v].root \in Roots
  BY <1>1, <1>2, <1>3, <1>4 DEF LiveOf, InProgress, State, IsMade, Unmade
<1>7. IsRegistered(t)' /\ IsMade(t)'
  BY <1>4, <1>5 DEF IsRegistered, IsMade
<1>8. TypeOK'
  <2>1. seeding' \in [by : Users, task : Tasks, seeds : 0..MaxSeeds, locked : BOOLEAN]
    BY <1>1
  <2> QED BY <1>2, <1>4, <1>5, <2>1 DEF Inv, TypeOK
<1>9. PendingCountsLiveSubtasks' /\ SubtasksPlaced' /\ HandlesKept' /\ CancelledTaskWindsDown'
  BY <1>2, <1>4, <1>6
  DEF Inv, PendingCountsLiveSubtasks, SubtasksPlaced, HandlesKept, CancelledTaskWindsDown
<1>10. SeedingKept'
  BY <1>1, <1>7 DEF SeedingKept
<1>11. RunsAreRegistered'
  <2>1. ASSUME NEW v \in Tasks, InProgress(v)
        PROVE  IsRegistered(v)'
    <3>1. IsRegistered(v)
      BY <2>1 DEF Inv, RunsAreRegistered
    <3>2. v # t /\ task[v].root \in Roots /\ task'[v].root = task[v].root
      BY <3>1, <1>4, <1>6 DEF IsRegistered
    <3>3. task[v].root # r
      BY <2>1, <3>1, <1>2 DEF IsRegistered
    <3> QED BY <3>1, <3>2, <3>3, <1>5, <1>6 DEF IsRegistered
  <2> QED BY <2>1, <1>6 DEF RunsAreRegistered
<1>12. WaitersKept'
  <2>1. \A w \in Waiters : owed[w] \in SUBSET Tasks
    BY DEF Inv, TypeOK
  <2>2. \A v \in Tasks : IsFindable(v) => IsFindable(v)'
    BY <1>1, <1>6 DEF IsFindable
  <2> QED BY <1>2, <1>6, <2>1, <2>2 DEF Inv, WaitersKept
<1> QED BY <1>8, <1>9, <1>10, <1>11, <1>12 DEF Inv

(* What is forgotten is over, and what waits look at is unchanged by it. *)
LEMMA ForgettingKeepsInv ==
    ASSUME Inv, RegistryIsFree,
           registry' \in [Roots -> Tasks \union {NoTask}],
           \A r \in Roots : registry'[r] # registry[r] /\ registry[r] # NoTask =>
                ~InProgress(registry[r]),
           waiter' \in [Waiters -> [state : {"idle", "scanning", "waiting", "returned"},
                                    tasks : SUBSET Tasks]],
           WaitersKept',
           UNCHANGED <<seeding, task, lock, handles, subtask, owed>>
    PROVE  Inv'
<1>1. seeding = NotSeeding
  BY FreeMeansNoSeeds
<1>2. TypeOK'
  BY DEF Inv, TypeOK
<1>3. \A v \in Tasks : /\ LiveOf(v)' = LiveOf(v)
                       /\ (InProgress(v)' <=> InProgress(v))
  BY DEF LiveOf, InProgress, State
<1>4. PendingCountsLiveSubtasks' /\ SubtasksPlaced' /\ HandlesKept' /\ CancelledTaskWindsDown'
  BY <1>3 DEF Inv, PendingCountsLiveSubtasks, SubtasksPlaced, HandlesKept, CancelledTaskWindsDown
<1>5. SeedingKept'
  BY <1>1 DEF SeedingKept
<1>6. RunsAreRegistered'
  <2>1. ASSUME NEW v \in Tasks, InProgress(v)
        PROVE  IsRegistered(v)'
    <3>1. IsRegistered(v)
      BY <2>1 DEF Inv, RunsAreRegistered
    <3>2. task[v].root \in Roots /\ v # NoTask
      BY <3>1, ActorsAreDistinct DEF IsRegistered, IsMade, Inv, TypeOK
    <3>3. registry'[task[v].root] = registry[task[v].root]
      BY <2>1, <3>1, <3>2 DEF IsRegistered
    <3> QED BY <3>1, <3>3 DEF IsRegistered, IsMade
  <2> QED BY <2>1, <1>3 DEF RunsAreRegistered
<1> QED BY <1>2, <1>4, <1>5, <1>6 DEF Inv

(* Forgetting a cancelled task, or a completed one, is such a step. *)
LEMMA ForgetKeepsInv ==
    ASSUME Inv, NEW r \in Roots, ForgetCancelled(r) \/ ForgetCompleted(r)
    PROVE  Inv'
<1>1. /\ RegistryIsFree /\ registry[r] # NoTask
      /\ State(registry[r]) \in {"cancelled", "completed"}
      /\ registry' = [registry EXCEPT ![r] = NoTask]
      /\ UNCHANGED <<seeding, task, lock, handles, subtask, waiter, owed>>
  BY DEF ForgetCancelled, ForgetCompleted, MayForget
<1>2. ~InProgress(registry[r])
  BY <1>1 DEF InProgress
<1>3. /\ registry' \in [Roots -> Tasks \union {NoTask}]
      /\ \A q \in Roots : q # r => registry'[q] = registry[q]
  BY <1>1 DEF Inv, TypeOK
<1>4. waiter' \in [Waiters -> [state : {"idle", "scanning", "waiting", "returned"},
                               tasks : SUBSET Tasks]]
  BY <1>1 DEF Inv, TypeOK
<1>5. WaitersKept'
  BY <1>1 DEF Inv, WaitersKept, IsFindable, IsMade, InProgress, State
<1> QED BY <1>1, <1>2, <1>3, <1>4, <1>5, ForgettingKeepsInv

-----------------------------------------------------------------------------
(***************************************************************************)
(* Waiting                                                                 *)
(***************************************************************************)

(* A wait that goes on, ... *)
LEMMA CallWaitAndAwaitKeepInv ==
    ASSUME Inv, NEW w \in Waiters,
           CallWait(w) \/ \E t \in Tasks : Await(w, t)
    PROVE  Inv'
<1>1. UNCHANGED <<registry, seeding, task, lock, handles, subtask>>
  BY DEF CallWait, Await
<1>2. /\ owed \in [Waiters -> SUBSET Tasks]
      /\ waiter \in [Waiters -> [state : {"idle", "scanning", "waiting", "returned"},
                                 tasks : SUBSET Tasks]]
  BY DEF Inv, TypeOK
<1>3. \A v \in Tasks : /\ LiveOf(v)' = LiveOf(v)
                       /\ (InProgress(v)' <=> InProgress(v))
                       /\ (IsRegistered(v)' <=> IsRegistered(v))
                       /\ (IsFindable(v)' <=> IsFindable(v))
  BY <1>1 DEF LiveOf, InProgress, State, IsRegistered, IsMade, IsFindable
<1>4. /\ PendingCountsLiveSubtasks' /\ SubtasksPlaced' /\ HandlesKept'
      /\ CancelledTaskWindsDown' /\ SeedingKept' /\ RunsAreRegistered'
  <2>1. seeding # NotSeeding => seeding.task \in Tasks
    BY DEF Inv, TypeOK
  <2> QED BY <1>1, <1>3, <2>1
  DEF Inv, PendingCountsLiveSubtasks, SubtasksPlaced, HandlesKept, CancelledTaskWindsDown,
      SeedingKept, RunsAreRegistered
<1>5. CASE CallWait(w)
  <2>1. /\ waiter' = [waiter EXCEPT ![w].state = "scanning"]
        /\ owed' = [owed EXCEPT ![w] = {t \in Tasks : IsFindable(t) /\ InProgress(t)}]
    BY <1>5 DEF CallWait
  <2>2. TypeOK'
    <3>1. owed' \in [Waiters -> SUBSET Tasks]
      BY <1>2, <2>1
    <3>2. waiter' \in [Waiters -> [state : {"idle", "scanning", "waiting", "returned"},
                                   tasks : SUBSET Tasks]]
      BY <1>2, <2>1
    <3> QED BY <1>1, <3>1, <3>2 DEF Inv, TypeOK
  <2>3. /\ waiter'[w].state = "scanning"
        /\ \A t \in owed'[w] : t \in Tasks /\ IsFindable(t)
        /\ \A x \in Waiters : x # w => waiter'[x] = waiter[x] /\ owed'[x] = owed[x]
        /\ \A x \in Waiters : owed[x] \in SUBSET Tasks
    BY <1>2, <2>1
  <2>4. WaitersKept'
    BY <1>3, <2>3 DEF Inv, WaitersKept
  <2> QED BY <1>4, <2>2, <2>4 DEF Inv
<1>6. ASSUME NEW t \in Tasks, Await(w, t)
      PROVE  Inv'
  <2> DEFINE left == waiter[w].tasks \ {t}
             e == [state |-> IF left = {} THEN "scanning" ELSE "waiting", tasks |-> left]
  <2>1. /\ waiter[w].state = "waiting" /\ ~InProgress(t)
        /\ waiter' = [waiter EXCEPT ![w] = e]
        /\ owed' = owed
    BY <1>6 DEF Await
  <2>2. waiter[w].tasks \in SUBSET Tasks
    BY <1>2
  <2>3. /\ e \in [state : {"idle", "scanning", "waiting", "returned"}, tasks : SUBSET Tasks]
        /\ e.tasks = waiter[w].tasks \ {t} /\ e.state \in {"scanning", "waiting"}
    BY <2>2
  <2> HIDE DEF e
  <2>4. TypeOK'
    <3>1. waiter' \in [Waiters -> [state : {"idle", "scanning", "waiting", "returned"},
                                   tasks : SUBSET Tasks]]
      BY <1>2, <2>1, <2>3
    <3> QED BY <1>1, <2>1, <3>1 DEF Inv, TypeOK
  <2>5. /\ waiter'[w] = e
        /\ \A x \in Waiters : x # w => waiter'[x] = waiter[x]
        /\ \A x \in Waiters : owed[x] \in SUBSET Tasks
    BY <1>2, <2>1
  <2>6. WaitersKept'
    <3>1. ASSUME NEW v \in owed[w], InProgress(v), e.state = "waiting"
          PROVE  v \in e.tasks
      BY <2>1, <2>3, <3>1 DEF Inv, WaitersKept
    <3> QED BY <1>3, <2>1, <2>3, <2>5, <3>1 DEF Inv, WaitersKept
  <2> QED BY <1>4, <2>4, <2>6 DEF Inv
<1> QED BY <1>5, <1>6

(* ... and one that looks at the registry again: every task that runs is in it,
   so that the wait either watches all it owes or can return. *)
LEMMA ScanKeepsInv ==
    ASSUME Inv, NEW w \in Waiters, Scan(w)
    PROVE  Inv'
<1> DEFINE running == {t \in Tasks : InProgress(t) /\ \E r \in Roots : registry'[r] = t}
           e == [state |-> IF running = {} THEN "returned" ELSE "waiting", tasks |-> running]
<1>1. /\ RegistryIsFree
      /\ registry' = [r \in Roots |->
                        IF registry[r] # NoTask /\ State(registry[r]) = "cancelled" THEN NoTask
                        ELSE registry[r]]
      /\ waiter' = [waiter EXCEPT ![w] = e]
      /\ UNCHANGED <<seeding, task, lock, handles, subtask, owed>>
  BY DEF Scan
<1>2. /\ owed \in [Waiters -> SUBSET Tasks]
      /\ registry \in [Roots -> Tasks \union {NoTask}]
      /\ waiter \in [Waiters -> [state : {"idle", "scanning", "waiting", "returned"},
                                 tasks : SUBSET Tasks]]
  BY DEF Inv, TypeOK
<1>3. /\ registry' \in [Roots -> Tasks \union {NoTask}]
      /\ \A r \in Roots : registry'[r] # registry[r] => ~InProgress(registry[r])
  BY <1>1, <1>2 DEF InProgress
<1>4. \A v \in Tasks : InProgress(v) => v \in running
  <2>1. ASSUME NEW v \in Tasks, InProgress(v)
        PROVE  \E r \in Roots : registry'[r] = v
    <3>1. IsRegistered(v)
      BY <2>1 DEF Inv, RunsAreRegistered
    <3>2. task[v].root \in Roots
      BY <3>1 DEF IsRegistered, IsMade, Inv, TypeOK
    <3> QED BY <2>1, <3>1, <3>2, <1>3 DEF IsRegistered
  <2> QED BY <2>1
<1>5. /\ e \in [state : {"idle", "scanning", "waiting", "returned"}, tasks : SUBSET Tasks]
      /\ e.tasks = running
      /\ e.state = "returned" => running = {}
  OBVIOUS
<1> HIDE DEF e, running
<1>6. /\ waiter' \in [Waiters -> [state : {"idle", "scanning", "waiting", "returned"},
                                  tasks : SUBSET Tasks]]
      /\ waiter'[w] = e
      /\ \A x \in Waiters : x # w => waiter'[x] = waiter[x]
      /\ \A x \in Waiters : owed[x] \in SUBSET Tasks
  BY <1>1, <1>2, <1>5
<1>7. WaitersKept'
  <2>1. \A v \in Tasks : /\ (InProgress(v)' <=> InProgress(v))
                         /\ (IsFindable(v)' <=> IsFindable(v))
    BY <1>1 DEF InProgress, State, IsFindable, IsMade
  <2> QED BY <1>1, <1>4, <1>5, <1>6, <2>1 DEF Inv, WaitersKept
<1> QED BY <1>1, <1>3, <1>6, <1>7, ForgettingKeepsInv

-----------------------------------------------------------------------------
(***************************************************************************)
(* The theorems                                                            *)
(***************************************************************************)

(* The invariant holds at first, ... *)
LEMMA InitInv == Init => Inv
<1> SUFFICES ASSUME Init PROVE Inv
  OBVIOUS
<1> USE ActorsAreDistinct DEF Init
<1>1. TypeOK
  BY DEF TypeOK, Unmade, Unspawned
<1>2. \A t \in Tasks : /\ LiveOf(t) = {} /\ task[t].pending = 0 /\ ~task[t].cancelled
                       /\ ~InProgress(t)
  BY DEF LiveOf, Unmade, Unspawned, InProgress, State
<1>3. PendingCountsLiveSubtasks /\ SubtasksPlaced /\ HandlesKept /\ CancelledTaskWindsDown
  BY <1>2, FS_EmptySet
  DEF PendingCountsLiveSubtasks, SubtasksPlaced, HandlesKept, CancelledTaskWindsDown, Unspawned
<1>4. SeedingKept /\ RunsAreRegistered /\ WaitersKept
  BY <1>2 DEF SeedingKept, RunsAreRegistered, WaitersKept
<1> QED BY <1>1, <1>3, <1>4 DEF Inv

(* A seed is enqueued into the task behind the registry's lock, and nothing is
   if that was cancelled. *)
LEMMA SeedKeepsInv ==
    ASSUME Inv, NEW u \in Users, Seed(u) \/ FinishSeeding(u)
    PROVE  Inv'
<1>1. CASE FinishSeeding(u)
  BY <1>1, SeedingKeepsInv DEF FinishSeeding
<1>2. CASE Seed(u)
  <2>1. /\ seeding.by \in Users /\ seeding.seeds > 0
        /\ seeding' = [seeding EXCEPT !.seeds = @ - 1]
        /\ Spawn(u, seeding.task) \/ DontSpawn(u, seeding.task)
    BY <1>2 DEF Seed
  <2>2. /\ seeding # NotSeeding /\ seeding.task \in Tasks
        /\ seeding' \in [by : Users, task : Tasks, seeds : 0..MaxSeeds, locked : BOOLEAN]
        /\ seeding'.locked = seeding.locked /\ seeding'.task = seeding.task
    BY <2>1, SeedTaken
  <2>3. seeding.locked /\ IsRegistered(seeding.task)
    BY <2>2 DEF Inv, SeedingKept
  <2>4. CASE Spawn(u, seeding.task)
    BY <2>2, <2>3, <2>4, SpawnKeepsInv DEF Actors
  <2>5. CASE DontSpawn(u, seeding.task)
    BY <2>2, <2>5, SeedingKeepsInv DEF DontSpawn
  <2> QED BY <2>1, <2>4, <2>5
<1> QED BY <1>1, <1>2

(* What a subtask does: enqueue another, cancel its task, end. *)
LEMMA RunningKeepsInv ==
    ASSUME Inv, NEW s \in Subtasks, Running(s)
    PROVE  Inv'
<1>1. CASE EnqueueChild(s)
  <2> DEFINE t == subtask[s].task
  <2>1. /\ subtask[s].state = "live" /\ seeding' = seeding
        /\ Spawn(s, t) \/ DontSpawn(s, t)
    BY <1>1 DEF EnqueueChild
  <2>2. /\ t \in Tasks /\ task[t].pending > 0
        /\ ~task[t].cancelled => IsRegistered(t)
    BY <2>1, LiveTask
  <2> HIDE DEF t
  <2>3. CASE Spawn(s, t)
    <3>1. IsRegistered(t)
      BY <2>2, <2>3 DEF Spawn, SeesCancelled
    <3>2. seeding' \in [by : Users, task : Tasks, seeds : 0..MaxSeeds, locked : BOOLEAN]
                         \union {NotSeeding}
      BY <2>1 DEF Inv, TypeOK
    <3> QED BY <2>1, <2>2, <2>3, <3>1, <3>2, SpawnKeepsInv DEF Actors
  <2>4. CASE DontSpawn(s, t)
    BY <2>1, <2>4, SeedingKeepsInv DEF DontSpawn
  <2> QED BY <2>1, <2>3, <2>4
<1>2. CASE CancelOwnTask(s)
  <2> DEFINE t == subtask[s].task
  <2>1. /\ subtask[s].state = "live" /\ lock[t] = Unlocked
        /\ lock' = [lock EXCEPT ![t] = [by |-> s, about |-> "drain", subtask |-> NoSubtask]]
        /\ task' = [task EXCEPT ![t].cancelled = TRUE]
        /\ subtask' = [subtask EXCEPT ![s].state = "ending"]
        /\ UNCHANGED <<registry, seeding, handles, waiter, owed>>
    BY <1>2 DEF CancelOwnTask
  <2>2. t \in Tasks
    BY <2>1, LiveTask
  <2> HIDE DEF t
  <2>3. /\ subtask' \in [Subtasks -> [task : Tasks \union {NoTask},
                                      state : {"unspawned", "live", "ending", "ended"},
                                      aborted : BOOLEAN]]
        /\ \A x \in Subtasks :
              subtask'[x] # subtask[x] =>
                /\ subtask'[x].task = subtask[x].task
                /\ subtask'[x].aborted = subtask[x].aborted
                /\ subtask[x].state = "live" /\ subtask'[x].state = "ending"
    BY <2>1 DEF Inv, TypeOK
  <2> QED BY <2>1, <2>2, <2>3, CancelKeepsInv DEF Actors
<1>3. CASE End(s, TRUE) \/ End(s, FALSE)
  BY <1>3, EndKeepsInv
<1> QED BY <1>1, <1>2, <1>3 DEF Running

(* ... and every step keeps it. *)
LEMMA NextKeepsInv == Inv /\ [Next]_vars => Inv'
<1> SUFFICES ASSUME Inv, [Next]_vars PROVE Inv'
  OBVIOUS
<1>1. ASSUME NEW u \in Users, NEW r \in Roots, NEW n \in 0..MaxSeeds, Start(u, r, n)
      PROVE  Inv'
  BY <1>1, StartKeepsInv
<1>2. ASSUME NEW u \in Users, Seeding(u)
      PROVE  Inv'
  BY <1>2, SeedKeepsInv DEF Seeding
<1>3. ASSUME NEW u \in Users, NEW t \in Tasks, CancelTask(u, t)
      PROVE  Inv'
  <2>1. /\ lock[t] = Unlocked
        /\ lock' = [lock EXCEPT ![t] = [by |-> u, about |-> "drain", subtask |-> NoSubtask]]
        /\ task' = [task EXCEPT ![t].cancelled = TRUE]
        /\ UNCHANGED <<registry, seeding, handles, subtask, waiter, owed>>
    BY <1>3 DEF CancelTask, Cancel
  <2>2. subtask' \in [Subtasks -> [task : Tasks \union {NoTask},
                                   state : {"unspawned", "live", "ending", "ended"},
                                   aborted : BOOLEAN]]
    BY <2>1 DEF Inv, TypeOK
  <2> QED BY <2>1, <2>2, CancelKeepsInv DEF Actors
<1>4. ASSUME NEW r \in Roots, ForgetCancelled(r) \/ ForgetCompleted(r)
      PROVE  Inv'
  BY <1>4, ForgetKeepsInv
<1>5. ASSUME NEW s \in Subtasks, Running(s)
      PROVE  Inv'
  BY <1>5, RunningKeepsInv
<1>6. ASSUME NEW a \in Actors, Locked(a)
      PROVE  Inv'
  BY <1>6, LockedKeepsInv DEF Locked
<1>7. ASSUME NEW w \in Waiters, CallWait(w) \/ Waiting(w)
      PROVE  Inv'
  BY <1>7, CallWaitAndAwaitKeepInv, ScanKeepsInv DEF Waiting
<1>8. CASE UNCHANGED vars
  BY <1>8, SeedingKeepsInv DEF vars
<1> QED BY <1>1, <1>2, <1>3, <1>4, <1>5, <1>6, <1>7, <1>8 DEF Next

(* Inv is an invariant of the tasks. *)
THEOREM InvHolds == Spec => []Inv
BY InitInv, NextKeepsInv, PTL DEF Spec

(* No count is ever negative, whatever order subtasks are spawned and end in. *)
THEOREM Typed == Spec => []TypeOK
<1>1. Inv => TypeOK
  BY DEF Inv
<1> QED BY <1>1, InvHolds, PTL

(* A task's pending count is the number of its subtasks that have not ended. *)
THEOREM PendingIsExact == Spec => []PendingCountsLiveSubtasks
<1>1. Inv => PendingCountsLiveSubtasks
  BY DEF Inv
<1> QED BY <1>1, InvHolds, PTL

(* Once a cancel is over, no subtask of the task runs on without having been
   aborted. *)
THEOREM CancelReachesAll == Spec => []CancelledTaskWindsDown
<1>1. Inv => CancelledTaskWindsDown
  BY DEF Inv
<1> QED BY <1>1, InvHolds, PTL

(* No root is enriched by two tasks at once: both would be the registered one. *)
THEOREM RunsAreSingle == Spec => []OneRunPerRoot
<1>1. Inv => OneRunPerRoot
  BY DEF Inv, RunsAreRegistered, IsRegistered, OneRunPerRoot
<1> QED BY <1>1, InvHolds, PTL

(* A wait does not return before what ran when it was called is over. *)
THEOREM WaitsAreLongEnough == Spec => []WaitCoversWhatRan
<1>1. Inv => WaitCoversWhatRan
  BY DEF Inv, WaitersKept, WaitCoversWhatRan
<1> QED BY <1>1, InvHolds, PTL

(* A step ends a task for good, if anyone can see it: only seeds are enqueued
   into a task that is over, and they hide behind the registry's lock. *)
LEMMA StepsKeepWhatIsOver ==
    ASSUME Inv, Next, NEW t \in Tasks, IsFindable(t), ~InProgress(t)
    PROVE  State(t)' \in {State(t), "cancelled"}
<1>1. task[t].pending \in Nat /\ (task[t].cancelled \/ task[t].pending = 0)
  BY LiveCounted, RunsWhilePending
<1>2. /\ task \in [Tasks -> [root : Roots \union {NoRoot}, pending : Nat, successful : Nat,
                            failed : Nat, cancelled : BOOLEAN]]
      /\ task[t] # Unmade
  BY DEF IsFindable, IsMade, Unmade, Inv, TypeOK
<1>3. SUFFICES task'[t].cancelled \/ (task'[t].pending = task[t].pending
                                        /\ task'[t].failed = task[t].failed
                                        /\ task'[t].cancelled = task[t].cancelled)
  BY DEF State
<1>4. ASSUME NEW v \in Tasks, task' = [task EXCEPT ![v].cancelled = TRUE]
      PROVE  task'[t].cancelled \/ task'[t] = task[t]
  BY <1>2, <1>4
<1>5. ASSUME NEW a \in Actors, NEW v \in Tasks, Spawn(a, v),
             (seeding.locked /\ seeding.task = v) \/ task[v].pending > 0
      PROVE  task'[t] = task[t]
  <2>1. v # t
    BY <1>1, <1>5 DEF Spawn, SeesCancelled, IsFindable
  <2> QED BY <1>2, <1>5, <2>1 DEF Spawn
<1>6. ASSUME NEW u \in Users, Seed(u)
      PROVE  task'[t] = task[t]
  <2>1. seeding.task \in Tasks /\ seeding.locked
    BY <1>6, SeedTaken DEF Seed, Inv, SeedingKept
  <2> QED BY <1>5, <1>6, <2>1 DEF Seed, DontSpawn, Actors
<1>7. ASSUME NEW s \in Subtasks, Running(s)
      PROVE  task'[t].cancelled \/ task'[t] = task[t]
  <2>1. /\ subtask[s].state \in {"live", "ending"}
        /\ subtask[s].task \in Tasks /\ task[subtask[s].task].pending > 0
    BY <1>7, LiveTask DEF Running, EnqueueChild, CancelOwnTask, End
  <2>2. CASE EnqueueChild(s)
    BY <1>5, <2>1, <2>2 DEF EnqueueChild, DontSpawn, Actors
  <2>3. CASE CancelOwnTask(s)
    BY <1>4, <2>1, <2>3 DEF CancelOwnTask
  <2>4. ASSUME NEW succeeded \in BOOLEAN, End(s, succeeded)
        PROVE  task'[t].cancelled \/ task'[t] = task[t]
    <3>1. CASE subtask[s].task # t
      BY <1>2, <2>4, <3>1 DEF End
    <3>2. CASE subtask[s].task = t
      <4>1. task[t].cancelled
        BY <1>1, <2>1, <3>2
      <4> QED BY <1>2, <2>4, <3>2, <4>1 DEF End, Ended
    <3> QED BY <3>1, <3>2
  <2> QED BY <1>7, <2>2, <2>3, <2>4 DEF Running
<1>8. ASSUME NEW u \in Users, NEW r \in Roots, NEW n \in 0..MaxSeeds, Start(u, r, n)
      PROVE  task'[t] = task[t]
  BY <1>2, <1>8 DEF Start
<1>9. ASSUME UNCHANGED task
      PROVE  task'[t] = task[t]
  BY <1>9
<1>10. task'[t].cancelled \/ task'[t] = task[t]
  BY <1>4, <1>6, <1>7, <1>8, <1>9
  DEF Next, Seeding, FinishSeeding, CancelTask, Cancel, ForgetCancelled, ForgetCompleted, Locked,
      PushHandle, Drain, CallWait, Waiting, Scan, Await
<1> QED BY <1>10

(* A task that anyone can find over is over for good. *)
THEOREM OverForGood == Spec => OverIsOver
<1>1. ASSUME Inv, [Next]_vars
      PROVE  [\A t \in Tasks : IsFindable(t) /\ ~InProgress(t) =>
                  State(t)' \in {State(t), "cancelled"}]_vars
  BY <1>1, StepsKeepWhatIsOver
<1> QED BY <1>1, InvHolds, PTL DEF Spec, OverIsOver

-----------------------------------------------------------------------------
(***************************************************************************)
(* The draft of an import: who still knows what of it                      *)
(***************************************************************************)

\* A request is handled only once the import was started.
StartIsFirst ==
    seed.step = "idle" => ~entry.there /\ \A r \in Requests : IsAt(r, "idle")

\* What the lookup read is the draft, unless it was stored since.
LookupKnows ==
    seed.step \in {"looking", "found", "adding"} =>
        /\ seed.at <= stored
        /\ entry.there /\ seed.at = stored => seed.seen = Draft

\* What an edit of a work is about to store differs in the work.
EditKnows ==
    \A r \in Requests : IsAt(r, "storing") =>
        /\ request[r].at <= stored
        /\ entry.there /\ request[r].at = stored /\ request[r].ofWork =>
               request[r].draft = [Draft EXCEPT !.work = request[r].draft.work]

\* What an accept has stored is the draft, unless another was stored since.
AcceptKnows ==
    \A r \in Requests : IsAt(r, "claiming") =>
        /\ request[r].at <= stored
        /\ entry.there /\ request[r].at = stored => entry.draft = request[r].draft

\* A claim is one request's, and nothing is stored meanwhile.
ClaimHolds ==
    /\ \A r \in Requests : IsAt(r, "accepting") =>
        /\ entry.there /\ entry.accepting
        /\ request[r].seen = entry.draft
        /\ ~request[r].overtaken => request[r].seen = request[r].draft
    /\ \A r, s \in Requests : IsAt(r, "accepting") /\ IsAt(s, "accepting") => r = s

IInv == SeedingTypeOK /\ StartIsFirst /\ LookupKnows /\ EditKnows /\ AcceptKnows /\ ClaimHolds

-----------------------------------------------------------------------------
(* An import that was started with nothing in its draft has a draft (initial_draft_contents). *)
LEMMA BlankIsADraft == BlankDraft \in Drafts
BY DEF BlankDraft, Drafts, Texts

(* What an import's draft is, saved or not, is a draft (PendingImport::draft). *)
LEMMA DraftIsADraft ==
    ASSUME SeedingTypeOK
    PROVE  Draft \in Drafts
BY DEF SeedingTypeOK, Entries, Draft

(* What an Open Library lookup fills in leaves a draft (merge). *)
LEMMA MergeIsADraft ==
    ASSUME NEW draft \in Drafts, NEW found \in Found
    PROVE  Merge(draft, found) \in Drafts
<1>1. [f \in Fields |-> FillBlank(draft.fields[f], found.fields[f])] \in [Fields -> Texts]
    BY DEF Drafts, Found, Texts, FillBlank
<1>2. draft.items \union found.items \in SUBSET Items
    BY DEF Drafts, Found
<1> QED BY <1>1, <1>2 DEF Merge, Drafts

(* ... and all that was in it: a field that was not blank, an identifier, a credit. *)
LEMMA MergeKeeps ==
    ASSUME NEW draft \in Drafts, NEW found \in Found
    PROVE  IsKept(draft, Merge(draft, found))
BY DEF IsKept, Merge, Drafts, Found, FillBlank

(* Storing a draft leaves an entry of the store (DraftStore::save). *)
LEMMA SaveIsAnEntry ==
    ASSUME NEW e \in Entries, NEW draft \in Drafts
    PROVE  Save(e, draft) \in Entries
BY DEF Save, Entries

(* An entry that goes leaves the query of the import behind. *)
LEMMA GoneIsAnEntry ==
    ASSUME NEW e \in Entries
    PROVE  Gone(e) \in Entries
BY BlankIsADraft DEF Gone, NoEntry, Entries, Lookups

(* A store without the import is what the types say. *)
LEMMA InitIsTyped == SeedingInit => SeedingTypeOK
BY BlankIsADraft DEF SeedingInit, SeedingTypeOK, NoEntry, NoSeed, Idle, Entries, Seedings, Handlings,
   Lookups, SeedSteps, NothingFound, Found
-----------------------------------------------------------------------------

(* Every step of a lookup, of a request and of a discard leaves what the types say. *)
LEMMA StepIsTyped ==
    ASSUME SeedingTypeOK, [SeedingNext]_seedingVars
    PROVE  SeedingTypeOK'
<1>1. CASE StartImport
    <2>1. ASSUME NEW f \in Fields, NEW text \in Entered
          PROVE  [BlankDraft EXCEPT !.fields[f] = text] \in Drafts
        BY BlankIsADraft DEF Drafts, Texts
    <2>2. [BlankDraft EXCEPT !.items = {Isbn}] \in Drafts
        BY BlankIsADraft, SeedingIsTyped DEF Drafts
    <2>3. Queries \subseteq Drafts
        BY <2>1, <2>2 DEF Queries
    <2>4. PICK initial \in Queries :
             entry' = [entry EXCEPT !.there = TRUE, !.initial = initial]
        BY <1>1 DEF StartImport
    <2>5. entry' \in Entries
        BY <2>3, <2>4 DEF SeedingTypeOK, Entries
    <2> QED BY <1>1, <2>5 DEF StartImport, SeedingTypeOK, Seedings, SeedSteps
<1>2. CASE SeedReads
    BY <1>2, DraftIsADraft, BlankIsADraft
    DEF SeedReads, SeedingTypeOK, Seedings, SeedSteps, SeedIsOver, NoSeed, NothingFound, Found, Lookups
<1>3. CASE SeedFinds
    BY <1>3 DEF SeedFinds, SeedingTypeOK, Seedings, SeedSteps, Lookups
<1>4. CASE SeedStores
    <2>1. Merge(seed.seen, seed.found) \in Drafts
        BY MergeIsADraft DEF SeedingTypeOK, Seedings
    <2>2. SeedIsOver \in Seedings
        BY BlankIsADraft
        DEF Seedings, SeedSteps, SeedIsOver, NoSeed, NothingFound, Found, Lookups
    <2>3. Save(entry, Merge(seed.seen, seed.found)) \in Entries
        BY <2>1, SaveIsAnEntry DEF SeedingTypeOK
    <2> QED BY <1>4, <2>2, <2>3 DEF SeedStores, Stores, SeedingTypeOK, Seedings, SeedSteps
<1>5. CASE SeedReadsAgain
    BY <1>5, DraftIsADraft DEF SeedReadsAgain, SeedingTypeOK, Seedings, SeedSteps
<1>6. CASE SeedAdds
    <2> DEFINE kept == [entry EXCEPT !.external = @ \union seed.authors]
               draft == [seed.seen EXCEPT !.credits = @ \union seed.authors]
    <2>1. kept \in Entries /\ draft \in Drafts
        BY DEF SeedingTypeOK, Entries, Seedings, Drafts
    <2>2. SeedIsOver \in Seedings
        BY BlankIsADraft
        DEF Seedings, SeedSteps, SeedIsOver, NoSeed, NothingFound, Found, Lookups
    <2>3. Save(kept, draft) \in Entries
        BY <2>1, SaveIsAnEntry
    <2> QED BY <1>6, <2>2, <2>3 DEF SeedAdds, Stores, SeedingTypeOK, Seedings, SeedSteps
<1>7. CASE SeedRecords
    BY <1>7, BlankIsADraft
    DEF SeedRecords, SeedingTypeOK, Entries, Seedings, SeedSteps, SeedIsOver, NoSeed, NothingFound,
        Found, Lookups
<1>8. CASE SeedIsCutOff
    BY <1>8, BlankIsADraft
    DEF SeedIsCutOff, SeedingTypeOK, Seedings, SeedSteps, SeedIsOver, NoSeed, NothingFound, Found,
        Lookups
<1>9. Idle \in Handlings
    BY BlankIsADraft DEF Idle, Handlings
<1>10. ASSUME NEW r \in Requests, Posts(r)
       PROVE  SeedingTypeOK'
    <2>1. Posted(Draft, entry.external) \subseteq Drafts
        BY DraftIsADraft, SeedingIsTyped DEF SeedingTypeOK, Entries
    <2> QED BY <1>10, <2>1, DraftIsADraft DEF Posts, SeedingTypeOK, Handlings
<1>11. ASSUME NEW r \in Requests, EditsWork(r)
       PROVE  SeedingTypeOK'
    <2>1. ASSUME NEW text \in Entered
          PROVE  [Draft EXCEPT !.work = text] \in Drafts
        BY DraftIsADraft DEF Drafts
    <2>2. PICK text \in Entered : request' = [request EXCEPT ![r] =
                [step |-> "storing", seen |-> Draft, at |-> stored, submit |-> FALSE,
                 ofWork |-> TRUE, overtaken |-> FALSE,
                 draft |-> [Draft EXCEPT !.work = text]]]
        BY <1>11 DEF EditsWork
    <2>3. request'[r] \in Handlings
        BY <2>1, <2>2, DraftIsADraft DEF SeedingTypeOK, Handlings
    <2> QED BY <1>11, <2>2, <2>3 DEF EditsWork, SeedingTypeOK
<1>12. ASSUME NEW r \in Requests, StoresDraft(r)
       PROVE  SeedingTypeOK'
    <2>1. Save(entry, request[r].draft) \in Entries
        BY SaveIsAnEntry DEF SeedingTypeOK, Handlings
    <2>2. request[r] \in Handlings
        BY DEF SeedingTypeOK
    <2>3. [request[r] EXCEPT !.step = "claiming", !.at = stored + 1] \in Handlings
        <3>1. stored + 1 \in Nat
            BY DEF SeedingTypeOK
        <3> QED BY <2>2, <3>1 DEF Handlings
    <2>4. request' \in [Requests -> Handlings]
        BY <1>9, <1>12, <2>2, <2>3 DEF StoresDraft, SeedingTypeOK
    <2> QED BY <1>12, <2>1, <2>4 DEF StoresDraft, Stores, SeedingTypeOK
<1>13. ASSUME NEW r \in Requests, Claims(r)
       PROVE  SeedingTypeOK'
    <2>1. CASE ~Editable
        BY <1>9, <1>13, <2>1 DEF Claims, SeedingTypeOK
    <2>2. CASE Editable
        <3>1. request'[r] = [request[r] EXCEPT !.step = "accepting", !.seen = entry.draft,
                                               !.overtaken = stored # request[r].at]
            BY <1>13, <2>2 DEF Claims, SeedingTypeOK, Handlings
        <3>2. request'[r] \in Handlings
            BY <3>1 DEF SeedingTypeOK, Entries, Handlings
        <3>3. request' = [request EXCEPT ![r] = request'[r]]
            BY <1>13, <2>2 DEF Claims, SeedingTypeOK
        <3> QED BY <1>13, <2>2, <3>2, <3>3 DEF Claims, SeedingTypeOK, Entries
    <2> QED BY <2>1, <2>2
<1>14. ASSUME NEW r \in Requests, GivesUp(r)
       PROVE  SeedingTypeOK'
    BY <1>9, <1>14 DEF GivesUp, SeedingTypeOK, Entries
<1>15. ASSUME NEW r \in Requests, Publishes(r)
       PROVE  SeedingTypeOK'
    BY <1>9, <1>15, GoneIsAnEntry DEF Publishes, SeedingTypeOK
<1>16. ASSUME NEW r \in Requests, IsCutOff(r)
       PROVE  SeedingTypeOK'
    BY <1>9, <1>16 DEF IsCutOff, SeedingTypeOK
<1>17. CASE Discard
    BY <1>17, GoneIsAnEntry DEF Discard, SeedingTypeOK
<1>18. CASE UNCHANGED seedingVars
    BY <1>18 DEF seedingVars, SeedingTypeOK
<1> QED BY <1>1, <1>2, <1>3, <1>4, <1>5, <1>6, <1>7, <1>8, <1>10, <1>11, <1>12, <1>13, <1>14,
           <1>15, <1>16, <1>17, <1>18 DEF SeedingNext, Seeds, Handles

(* What the store, the lookup and the requests hold is always what the types say. *)
THEOREM TypeCorrect == SeedingSpec => []SeedingTypeOK
BY InitIsTyped, StepIsTyped, PTL DEF SeedingSpec

(* Every step leaves what the lookup, the edits and the accepts know of the draft. *)
LEMMA StepKeepsKnowledge ==
    ASSUME IInv, [SeedingNext]_seedingVars
    PROVE  IInv'
<1> DEFINE Knows == StartIsFirst /\ LookupKnows /\ EditKnows /\ AcceptKnows /\ ClaimHolds
<1> USE DEF IInv
<1>0. SeedingTypeOK'
    BY StepIsTyped
<1>a. stored \in Nat /\ seed.at \in Nat /\ \A r \in Requests : request[r].at \in Nat
    BY DEF SeedingTypeOK, Seedings, Handlings
<1>b. ASSUME request' = request, stored' = stored + 1
      PROVE  EditKnows' /\ AcceptKnows'
    <2>1. \A r \in Requests : request[r].step \in {"storing", "claiming"} =>
             request'[r].at <= stored' /\ request'[r].at # stored'
        <3>1. \A r \in Requests : request[r].step \in {"storing", "claiming"} =>
                 request[r].at <= stored
            BY DEF EditKnows, AcceptKnows, IsAt
        <3> QED BY <1>a, <1>b, <3>1
    <2>2. EditKnows'
        BY <1>b, <2>1 DEF EditKnows, IsAt
    <2>3. AcceptKnows'
        BY <1>b, <2>1 DEF AcceptKnows, IsAt
    <2> QED BY <2>2, <2>3
<1>c. ASSUME entry' = entry, request' = request, stored' = stored
      PROVE  EditKnows' /\ AcceptKnows' /\ ClaimHolds'
    BY <1>c DEF EditKnows, AcceptKnows, ClaimHolds, IsAt, Draft
<1>1. CASE StartImport
    <2>1. StartIsFirst'
        BY <1>1 DEF StartImport, StartIsFirst, IsAt, Draft, SeedingTypeOK, Entries, Seedings, Handlings,
           Queries
    <2>2. LookupKnows'
        BY <1>1 DEF StartImport, LookupKnows, IsAt, Draft, SeedingTypeOK, Entries, Seedings, Handlings, Queries
    <2>3. EditKnows'
        BY <1>1 DEF StartImport, StartIsFirst, EditKnows, IsAt
    <2>4. AcceptKnows'
        BY <1>1 DEF StartImport, StartIsFirst, AcceptKnows, IsAt
    <2>5. ClaimHolds'
        BY <1>1 DEF StartImport, ClaimHolds, IsAt, Draft, SeedingTypeOK, Entries, Seedings, Handlings, Queries
    <2> QED BY <1>0, <2>1, <2>2, <2>3, <2>4, <2>5
<1>2. CASE SeedReads
    <2>1. StartIsFirst'
        BY <1>2 DEF SeedReads, StartIsFirst, IsAt, Draft, SeedingTypeOK, Entries, Seedings, Handlings,
           SeedIsOver, NoSeed
    <2>2. LookupKnows'
        BY <1>2 DEF SeedReads, LookupKnows, IsAt, Draft, SeedingTypeOK, Entries, Seedings, Handlings,
           SeedIsOver, NoSeed
    <2>3. EditKnows'
        BY <1>2 DEF SeedReads, EditKnows, IsAt, Draft, SeedingTypeOK, Entries, Seedings, Handlings,
           SeedIsOver, NoSeed
    <2>4. AcceptKnows'
        BY <1>2 DEF SeedReads, AcceptKnows, IsAt, Draft, SeedingTypeOK, Entries, Seedings, Handlings,
           SeedIsOver, NoSeed
    <2>5. ClaimHolds'
        BY <1>2 DEF SeedReads, ClaimHolds, IsAt, Draft, SeedingTypeOK, Entries, Seedings, Handlings,
           SeedIsOver, NoSeed
    <2> QED BY <1>0, <2>1, <2>2, <2>3, <2>4, <2>5
<1>3. CASE SeedFinds
    <2>1. StartIsFirst'
        BY <1>3 DEF SeedFinds, StartIsFirst, IsAt, Draft, SeedingTypeOK, Entries, Seedings, Handlings
    <2>2. LookupKnows'
        BY <1>3 DEF SeedFinds, LookupKnows, IsAt, Draft, SeedingTypeOK, Entries, Seedings, Handlings
    <2>3. EditKnows'
        BY <1>3 DEF SeedFinds, EditKnows, IsAt, Draft, SeedingTypeOK, Entries, Seedings, Handlings
    <2>4. AcceptKnows'
        BY <1>3 DEF SeedFinds, AcceptKnows, IsAt, Draft, SeedingTypeOK, Entries, Seedings, Handlings
    <2>5. ClaimHolds'
        BY <1>3 DEF SeedFinds, ClaimHolds, IsAt, Draft, SeedingTypeOK, Entries, Seedings, Handlings
    <2> QED BY <1>0, <2>1, <2>2, <2>3, <2>4, <2>5
<1>4. CASE SeedStores
    <2>1. StartIsFirst'
        BY <1>4 DEF SeedStores, StartIsFirst, IsAt, Draft, SeedingTypeOK, Entries, Seedings, Handlings,
           Stores, Save, Editable, SeedIsOver, NoSeed
    <2>2. LookupKnows'
        BY <1>4 DEF SeedStores, LookupKnows, IsAt, Draft, SeedingTypeOK, Entries, Seedings, Handlings,
           Stores, Save, Editable, SeedIsOver, NoSeed
    <2>3. EditKnows'
        BY <1>b, <1>c, <1>4 DEF SeedStores, Stores
    <2>4. AcceptKnows'
        BY <1>b, <1>c, <1>4 DEF SeedStores, Stores
    <2>5. ClaimHolds'
        BY <1>4 DEF SeedStores, ClaimHolds, IsAt, Draft, SeedingTypeOK, Entries, Seedings, Handlings,
           Stores, Save, Editable, SeedIsOver, NoSeed
    <2> QED BY <1>0, <2>1, <2>2, <2>3, <2>4, <2>5
<1>5. CASE SeedReadsAgain
    <2>1. StartIsFirst'
        BY <1>5 DEF SeedReadsAgain, StartIsFirst, IsAt, Draft, SeedingTypeOK, Entries, Seedings,
           Handlings
    <2>2. LookupKnows'
        BY <1>5 DEF SeedReadsAgain, LookupKnows, IsAt, Draft, SeedingTypeOK, Entries, Seedings, Handlings
    <2>3. EditKnows'
        BY <1>5 DEF SeedReadsAgain, EditKnows, IsAt, Draft, SeedingTypeOK, Entries, Seedings, Handlings
    <2>4. AcceptKnows'
        BY <1>5 DEF SeedReadsAgain, AcceptKnows, IsAt, Draft, SeedingTypeOK, Entries, Seedings, Handlings
    <2>5. ClaimHolds'
        BY <1>5 DEF SeedReadsAgain, ClaimHolds, IsAt, Draft, SeedingTypeOK, Entries, Seedings, Handlings
    <2> QED BY <1>0, <2>1, <2>2, <2>3, <2>4, <2>5
<1>6. CASE SeedAdds
    <2>1. StartIsFirst'
        BY <1>6 DEF SeedAdds, StartIsFirst, IsAt, Draft, SeedingTypeOK, Entries, Seedings, Handlings,
           Stores, Save, Editable, SeedIsOver, NoSeed
    <2>2. LookupKnows'
        BY <1>6 DEF SeedAdds, LookupKnows, IsAt, Draft, SeedingTypeOK, Entries, Seedings, Handlings,
           Stores, Save, Editable, SeedIsOver, NoSeed
    <2>3. EditKnows'
        BY <1>b, <1>c, <1>6 DEF SeedAdds, Stores
    <2>4. AcceptKnows'
        BY <1>b, <1>c, <1>6 DEF SeedAdds, Stores
    <2>5. ClaimHolds'
        BY <1>6 DEF SeedAdds, ClaimHolds, IsAt, Draft, SeedingTypeOK, Entries, Seedings, Handlings,
           Stores, Save, Editable, SeedIsOver, NoSeed
    <2> QED BY <1>0, <2>1, <2>2, <2>3, <2>4, <2>5
<1>7. CASE SeedRecords
    <2>1. StartIsFirst'
        BY <1>7 DEF SeedRecords, StartIsFirst, IsAt, Draft, SeedingTypeOK, Entries, Seedings,
           Handlings, Editable, SeedIsOver, NoSeed
    <2>2. LookupKnows'
        BY <1>7 DEF SeedRecords, LookupKnows, IsAt, Draft, SeedingTypeOK, Entries, Seedings, Handlings,
           Editable, SeedIsOver, NoSeed
    <2>3. EditKnows'
        BY <1>7 DEF SeedRecords, EditKnows, IsAt, Draft, SeedingTypeOK, Entries, Seedings, Handlings,
           Editable, SeedIsOver, NoSeed
    <2>4. AcceptKnows'
        BY <1>7 DEF SeedRecords, AcceptKnows, IsAt, Draft, SeedingTypeOK, Entries, Seedings, Handlings,
           Editable, SeedIsOver, NoSeed
    <2>5. ClaimHolds'
        BY <1>7 DEF SeedRecords, ClaimHolds, IsAt, Draft, SeedingTypeOK, Entries, Seedings, Handlings,
           Editable, SeedIsOver, NoSeed
    <2> QED BY <1>0, <2>1, <2>2, <2>3, <2>4, <2>5
<1>8. CASE SeedIsCutOff
    <2>1. StartIsFirst'
        BY <1>8 DEF SeedIsCutOff, StartIsFirst, IsAt, Draft, SeedingTypeOK, Entries, Seedings,
           Handlings, SeedIsOver, NoSeed
    <2>2. LookupKnows'
        BY <1>8 DEF SeedIsCutOff, LookupKnows, IsAt, Draft, SeedingTypeOK, Entries, Seedings,
           Handlings, SeedIsOver, NoSeed
    <2>3. EditKnows'
        BY <1>8 DEF SeedIsCutOff, EditKnows, IsAt, Draft, SeedingTypeOK, Entries, Seedings, Handlings,
           SeedIsOver, NoSeed
    <2>4. AcceptKnows'
        BY <1>8 DEF SeedIsCutOff, AcceptKnows, IsAt, Draft, SeedingTypeOK, Entries, Seedings,
           Handlings, SeedIsOver, NoSeed
    <2>5. ClaimHolds'
        BY <1>8 DEF SeedIsCutOff, ClaimHolds, IsAt, Draft, SeedingTypeOK, Entries, Seedings, Handlings,
           SeedIsOver, NoSeed
    <2> QED BY <1>0, <2>1, <2>2, <2>3, <2>4, <2>5
<1>9. ASSUME NEW r \in Requests, Posts(r)
       PROVE  Knows'
    <2>1. StartIsFirst'
        BY <1>9 DEF Posts, StartIsFirst, IsAt, Draft, SeedingTypeOK, Entries, Seedings, Handlings
    <2>2. LookupKnows'
        BY <1>9 DEF Posts, LookupKnows, IsAt, Draft, SeedingTypeOK, Entries, Seedings, Handlings
    <2>3. EditKnows'
        BY <1>9 DEF Posts, EditKnows, IsAt, Draft, SeedingTypeOK, Entries, Seedings, Handlings
    <2>4. AcceptKnows'
        BY <1>9 DEF Posts, AcceptKnows, IsAt, Draft, SeedingTypeOK, Entries, Seedings, Handlings
    <2>5. ClaimHolds'
        BY <1>9 DEF Posts, ClaimHolds, IsAt, Draft, SeedingTypeOK, Entries, Seedings, Handlings
    <2> QED BY <1>0, <2>1, <2>2, <2>3, <2>4, <2>5
<1>10. ASSUME NEW r \in Requests, EditsWork(r)
       PROVE  Knows'
    <2>1. StartIsFirst'
        BY <1>10 DEF EditsWork, StartIsFirst, IsAt, Draft, SeedingTypeOK, Entries, Seedings, Handlings,
           Drafts
    <2>2. LookupKnows'
        BY <1>10 DEF EditsWork, LookupKnows, IsAt, Draft, SeedingTypeOK, Entries, Seedings, Handlings,
           Drafts
    <2>3. EditKnows'
        <3>1. PICK text \in Entered : request'[r] =
                [step |-> "storing", seen |-> Draft, at |-> stored, submit |-> FALSE,
                 ofWork |-> TRUE, overtaken |-> FALSE,
                 draft |-> [Draft EXCEPT !.work = text]]
            BY <1>10 DEF EditsWork, SeedingTypeOK
        <3>2. [Draft EXCEPT !.work = text].work = text
            BY DraftIsADraft DEF Drafts
        <3>3. Draft' = Draft /\ stored' = stored /\ entry' = entry
            BY <1>10 DEF EditsWork, Draft
        <3>4. \A q \in Requests \ {r} : request'[q] = request[q]
            BY <1>10 DEF EditsWork, SeedingTypeOK
        <3> QED BY <1>a, <3>1, <3>2, <3>3, <3>4 DEF EditKnows, IsAt
    <2>4. AcceptKnows'
        BY <1>10 DEF EditsWork, AcceptKnows, IsAt, Draft, SeedingTypeOK, Entries, Seedings, Handlings,
           Drafts
    <2>5. ClaimHolds'
        BY <1>10 DEF EditsWork, ClaimHolds, IsAt, Draft, SeedingTypeOK, Entries, Seedings, Handlings,
           Drafts
    <2> QED BY <1>0, <2>1, <2>2, <2>3, <2>4, <2>5
<1>11. ASSUME NEW r \in Requests, StoresDraft(r)
       PROVE  Knows'
    <2>a. request'[r] \in {Idle, [request[r] EXCEPT !.step = "claiming", !.at = stored + 1]}
        BY <1>11 DEF StoresDraft, SeedingTypeOK
    <2>b. request'[r].step \in {"idle", "claiming"}
        <3>1. request[r] \in Handlings
            BY DEF SeedingTypeOK
        <3>2. Idle.step = "idle"
            BY DEF Idle
        <3>3. [request[r] EXCEPT !.step = "claiming", !.at = stored + 1].step = "claiming"
            BY <3>1 DEF Handlings
        <3> QED BY <2>a, <3>2, <3>3
    <2>1. StartIsFirst'
        BY <1>11 DEF StoresDraft, StartIsFirst, IsAt, Draft, SeedingTypeOK, Entries, Seedings,
           Handlings, Stores, Save, Editable, Idle
    <2>2. LookupKnows'
        BY <1>11 DEF StoresDraft, LookupKnows, IsAt, Draft, SeedingTypeOK, Entries, Seedings,
           Handlings, Stores, Save, Editable, Idle
    <2>3. EditKnows'
        <3>1. \A q \in Requests \ {r} : request'[q] = request[q]
            BY <1>11 DEF StoresDraft, SeedingTypeOK
        <3>2. request'[r].step # "storing"
            BY <2>b
        <3>3. CASE Editable
            <4>1. stored' = stored + 1
                BY <1>11, <3>3 DEF StoresDraft, Stores
            <4>2. \A q \in Requests : IsAt(q, "storing") => request[q].at <= stored
                BY DEF EditKnows
            <4>3. \A q \in Requests : IsAt(q, "storing")' =>
                     request'[q].at <= stored' /\ request'[q].at # stored'
                BY <1>a, <3>1, <3>2, <4>1, <4>2 DEF IsAt
            <4> QED BY <4>3 DEF EditKnows
        <3>4. CASE ~Editable
            <4>1. Draft' = Draft /\ stored' = stored /\ entry' = entry
                BY <1>11, <3>4 DEF StoresDraft, Draft
            <4> QED BY <3>1, <3>2, <4>1 DEF EditKnows, IsAt
        <3> QED BY <3>3, <3>4
    <2>4. AcceptKnows'
        <3>1. \A q \in Requests \ {r} : request'[q] = request[q]
            BY <1>11 DEF StoresDraft, SeedingTypeOK
        <3>2. CASE Editable
            <4>1. stored' = stored + 1 /\ entry'.draft = request[r].draft
                BY <1>11, <3>2 DEF StoresDraft, Stores, Save, SeedingTypeOK, Entries
            <4>2. request'[r] = Idle
                    \/ (request'[r].draft = request[r].draft /\ request'[r].at = stored')
                BY <2>a, <4>1 DEF SeedingTypeOK, Handlings
            <4> QED BY <1>a, <3>1, <4>1, <4>2 DEF AcceptKnows, IsAt, Idle
        <3>3. CASE ~Editable
            <4>1. request'[r] = Idle /\ stored' = stored /\ entry' = entry
                BY <1>11, <3>3 DEF StoresDraft, SeedingTypeOK
            <4> QED BY <3>1, <4>1 DEF AcceptKnows, IsAt, Idle
        <3> QED BY <3>2, <3>3
    <2>5. ClaimHolds'
        <3>1. \A q \in Requests \ {r} : request'[q] = request[q]
            BY <1>11 DEF StoresDraft, SeedingTypeOK
        <3>2. request'[r].step # "accepting"
            BY <2>b
        <3>3. CASE Editable
            BY <3>1, <3>2, <3>3 DEF ClaimHolds, IsAt, Editable
        <3>4. CASE ~Editable
            <4>1. entry' = entry
                BY <1>11, <3>4 DEF StoresDraft
            <4> QED BY <3>1, <3>2, <4>1 DEF ClaimHolds, IsAt
        <3> QED BY <3>3, <3>4
    <2> QED BY <1>0, <2>1, <2>2, <2>3, <2>4, <2>5
<1>12. ASSUME NEW r \in Requests, Claims(r)
       PROVE  Knows'
    <2>1. StartIsFirst'
        BY <1>12 DEF Claims, StartIsFirst, IsAt, Draft, SeedingTypeOK, Entries, Seedings, Handlings,
           Editable, Idle
    <2>2. LookupKnows'
        BY <1>12 DEF Claims, LookupKnows, IsAt, Draft, SeedingTypeOK, Entries, Seedings, Handlings,
           Editable, Idle
    <2>3. EditKnows'
        BY <1>12 DEF Claims, EditKnows, IsAt, Draft, SeedingTypeOK, Entries, Seedings, Handlings,
           Editable, Idle
    <2>4. AcceptKnows'
        BY <1>12 DEF Claims, AcceptKnows, IsAt, Draft, SeedingTypeOK, Entries, Seedings, Handlings,
           Editable, Idle
    <2>5. ClaimHolds'
        <3>1. \A q \in Requests \ {r} : request'[q] = request[q]
            BY <1>12 DEF Claims, SeedingTypeOK
        <3>2. CASE Editable
            <4>1. entry' = [entry EXCEPT !.accepting = TRUE]
                BY <1>12, <3>2 DEF Claims
            <4>2. request'[r] = [request[r] EXCEPT !.step = "accepting", !.seen = entry.draft,
                                                   !.overtaken = stored # request[r].at]
                BY <1>12, <3>2 DEF Claims, SeedingTypeOK, Handlings
            <4>3. \A q \in Requests \ {r} : request[q].step # "accepting"
                BY <3>2 DEF ClaimHolds, IsAt, Editable
            <4>4. entry'.there /\ entry'.accepting /\ entry'.draft = entry.draft
                BY <3>2, <4>1 DEF Editable, SeedingTypeOK, Entries
            <4>5. /\ request'[r].seen = entry.draft
                  /\ request'[r].overtaken = (stored # request[r].at)
                  /\ request'[r].draft = request[r].draft
                BY <4>2 DEF SeedingTypeOK, Handlings
            <4>6. stored = request[r].at => entry.draft = request[r].draft
                BY <1>12, <3>2 DEF Claims, AcceptKnows, Editable
            <4>7. \A q \in Requests : IsAt(q, "accepting")' => q = r
                BY <3>1, <4>3 DEF IsAt
            <4> QED BY <4>4, <4>5, <4>6, <4>7 DEF ClaimHolds
        <3>3. CASE ~Editable
            <4>1. request'[r] = Idle /\ entry' = entry
                BY <1>12, <3>3 DEF Claims, SeedingTypeOK
            <4> QED BY <3>1, <4>1 DEF ClaimHolds, IsAt, Idle
        <3> QED BY <3>2, <3>3
    <2> QED BY <1>0, <2>1, <2>2, <2>3, <2>4, <2>5
<1>13. ASSUME NEW r \in Requests, GivesUp(r)
       PROVE  Knows'
    <2>1. StartIsFirst'
        BY <1>13 DEF GivesUp, StartIsFirst, IsAt, Draft, SeedingTypeOK, Entries, Seedings, Handlings,
           Idle
    <2>2. LookupKnows'
        BY <1>13 DEF GivesUp, LookupKnows, IsAt, Draft, SeedingTypeOK, Entries, Seedings, Handlings, Idle
    <2>3. EditKnows'
        BY <1>13 DEF GivesUp, EditKnows, IsAt, Draft, SeedingTypeOK, Entries, Seedings, Handlings, Idle
    <2>4. AcceptKnows'
        BY <1>13 DEF GivesUp, AcceptKnows, IsAt, Draft, SeedingTypeOK, Entries, Seedings, Handlings, Idle
    <2>5. ClaimHolds'
        BY <1>13 DEF GivesUp, ClaimHolds, IsAt, Draft, SeedingTypeOK, Entries, Seedings, Handlings, Idle
    <2> QED BY <1>0, <2>1, <2>2, <2>3, <2>4, <2>5
<1>14. ASSUME NEW r \in Requests, Publishes(r)
       PROVE  Knows'
    <2>1. StartIsFirst'
        BY <1>14 DEF Publishes, StartIsFirst, IsAt, Draft, SeedingTypeOK, Entries, Seedings, Handlings,
           Gone, NoEntry, Idle
    <2>2. LookupKnows'
        BY <1>14 DEF Publishes, LookupKnows, IsAt, Draft, SeedingTypeOK, Entries, Seedings, Handlings,
           Gone, NoEntry, Idle
    <2>3. EditKnows'
        BY <1>14, ZenonT(60) DEF Publishes, EditKnows, IsAt, Draft, SeedingTypeOK, Entries, Seedings, Handlings,
           Gone, NoEntry, Idle
    <2>4. AcceptKnows'
        BY <1>14 DEF Publishes, AcceptKnows, IsAt, Draft, SeedingTypeOK, Entries, Seedings, Handlings,
           Gone, NoEntry, Idle
    <2>5. ClaimHolds'
        BY <1>14 DEF Publishes, ClaimHolds, IsAt, Draft, SeedingTypeOK, Entries, Seedings, Handlings,
           Gone, NoEntry, Idle
    <2> QED BY <1>0, <2>1, <2>2, <2>3, <2>4, <2>5
<1>15. ASSUME NEW r \in Requests, IsCutOff(r)
       PROVE  Knows'
    <2>1. StartIsFirst'
        BY <1>15 DEF IsCutOff, StartIsFirst, IsAt, Draft, SeedingTypeOK, Entries, Seedings, Handlings,
           Idle
    <2>2. LookupKnows'
        BY <1>15 DEF IsCutOff, LookupKnows, IsAt, Draft, SeedingTypeOK, Entries, Seedings, Handlings,
           Idle
    <2>3. EditKnows'
        BY <1>15 DEF IsCutOff, EditKnows, IsAt, Draft, SeedingTypeOK, Entries, Seedings, Handlings, Idle
    <2>4. AcceptKnows'
        BY <1>15 DEF IsCutOff, AcceptKnows, IsAt, Draft, SeedingTypeOK, Entries, Seedings, Handlings,
           Idle
    <2>5. ClaimHolds'
        BY <1>15 DEF IsCutOff, ClaimHolds, IsAt, Draft, SeedingTypeOK, Entries, Seedings, Handlings, Idle
    <2> QED BY <1>0, <2>1, <2>2, <2>3, <2>4, <2>5
<1>16. CASE Discard
    <2>1. StartIsFirst'
        BY <1>16 DEF Discard, StartIsFirst, IsAt, Draft, SeedingTypeOK, Entries, Seedings, Handlings,
           Editable, Gone, NoEntry
    <2>2. LookupKnows'
        BY <1>16 DEF Discard, LookupKnows, IsAt, Draft, SeedingTypeOK, Entries, Seedings, Handlings,
           Editable, Gone, NoEntry
    <2>3. EditKnows'
        BY <1>16 DEF Discard, EditKnows, IsAt, Draft, SeedingTypeOK, Entries, Seedings, Handlings,
           Editable, Gone, NoEntry
    <2>4. AcceptKnows'
        BY <1>16 DEF Discard, AcceptKnows, IsAt, Draft, SeedingTypeOK, Entries, Seedings, Handlings,
           Editable, Gone, NoEntry
    <2>5. ClaimHolds'
        BY <1>16 DEF Discard, ClaimHolds, IsAt, Draft, SeedingTypeOK, Entries, Seedings, Handlings,
           Editable, Gone, NoEntry
    <2> QED BY <1>0, <2>1, <2>2, <2>3, <2>4, <2>5
<1>17. CASE UNCHANGED seedingVars
    BY <1>17 DEF seedingVars, SeedingTypeOK, StartIsFirst, LookupKnows, EditKnows, AcceptKnows, ClaimHolds,
                IsAt, Draft
<1> QED BY <1>0, <1>1, <1>2, <1>3, <1>4, <1>5, <1>6, <1>7, <1>8, <1>9, <1>10, <1>11, <1>12,
   <1>13, <1>14, <1>15, <1>16, <1>17
       DEF SeedingNext, Seeds, Handles

(* An import that nobody started is known to nobody. *)
LEMMA InitIsKnown == SeedingInit => IInv
BY InitIsTyped DEF IInv, SeedingInit, StartIsFirst, LookupKnows, EditKnows, AcceptKnows, ClaimHolds,
   IsAt, NoEntry, NoSeed, Idle

(* What the lookup, the edits and the accepts know of the draft, at any time. *)
THEOREM Knowledge == SeedingSpec => []IInv
BY InitIsKnown, StepKeepsKnowledge, PTL DEF SeedingSpec

-----------------------------------------------------------------------------
(* A store by the lookup that no other overtook keeps what is in the draft. *)
LEMMA LookupKeeps ==
    ASSUME IInv, [SeedingNext]_seedingVars, seed' # seed, stored' # stored, seed.at = stored
    PROVE  IsKept(Draft, entry'.draft)
<1> USE DEF IInv
<1>1. CASE SeedStores
    <2>1. /\ Editable
          /\ entry'.draft = Merge(seed.seen, seed.found)
        BY <1>1 DEF SeedStores, Stores, Save, SeedingTypeOK, Entries
    <2>2. seed.seen = Draft /\ seed.seen \in Drafts /\ seed.found \in Found
        BY <1>1, <2>1 DEF SeedStores, LookupKnows, Editable, SeedingTypeOK, Seedings
    <2> QED BY <2>1, <2>2, MergeKeeps
<1>2. CASE SeedAdds
    <2>1. /\ Editable
          /\ entry'.draft = [seed.seen EXCEPT !.credits = @ \union seed.authors]
        BY <1>2 DEF SeedAdds, Stores, Save, SeedingTypeOK, Entries
    <2>2. seed.seen = Draft /\ seed.seen \in Drafts
        BY <1>2, <2>1 DEF SeedAdds, LookupKnows, Editable, SeedingTypeOK, Seedings
    <2> QED BY <2>1, <2>2 DEF IsKept, Drafts
<1>3. SeedStores \/ SeedAdds
    BY DEF SeedingNext, Seeds, Handles, StartImport, SeedReads, SeedFinds, SeedReadsAgain, SeedRecords,
       SeedIsCutOff, Posts, EditsWork, StoresDraft, Claims, GivesUp, Publishes, IsCutOff,
       Discard, seedingVars
<1> QED BY <1>1, <1>2, <1>3

(* ... and so does that of a work, which changes the work alone. *)
LEMMA EditKeeps ==
    ASSUME IInv, [SeedingNext]_seedingVars, NEW r \in Requests, IsAt(r, "storing"), request[r].ofWork,
           stored' # stored, request'[r] # request[r], request[r].at = stored
    PROVE  entry'.draft = [Draft EXCEPT !.work = entry'.draft.work]
<1> USE DEF IInv
<1>1. PICK q \in Requests : StoresDraft(q)
    BY DEF SeedingNext, Seeds, Handles, StartImport, SeedReads, SeedFinds, SeedReadsAgain, SeedRecords,
       SeedStores, SeedAdds, SeedIsCutOff, Posts, EditsWork, Claims, GivesUp, Publishes,
       IsCutOff, Discard, seedingVars
<1>2. q = r
    BY <1>1 DEF StoresDraft, SeedingTypeOK
<1>3. Editable /\ entry'.draft = request[r].draft
    BY <1>1, <1>2 DEF StoresDraft, Stores, Save, SeedingTypeOK, Entries
<1>4. request[r].draft = [Draft EXCEPT !.work = request[r].draft.work]
    BY <1>3 DEF EditKnows, Editable
<1> QED BY <1>3, <1>4

(* For any requests, fields and authors, and however often the draft is stored: a lookup
   and the edit of a work lose only what was stored between their read and their write. *)
THEOREM LookupsLoseOnlyToOverlap == SeedingSpec => LosesOnlyToOverlap
<1> DEFINE Keeps ==
        /\ seed' # seed /\ stored' # stored /\ seed.at = stored =>
            IsKept(Draft, entry'.draft)
        /\ \A r \in Requests :
            IsAt(r, "storing") /\ request[r].ofWork /\ stored' # stored
              /\ request'[r] # request[r] /\ request[r].at = stored =>
                entry'.draft = [Draft EXCEPT !.work = entry'.draft.work]
<1>1. IInv /\ [SeedingNext]_seedingVars => [Keeps]_seedingVars
    BY LookupKeeps, EditKeeps
<1> QED BY <1>1, Knowledge, PTL DEF SeedingSpec, LosesOnlyToOverlap

(* For any requests and however often the draft is stored: what an accept publishes is what
   the store has, and is what it posted unless another stored before it had its claim. *)
THEOREM AcceptsPublishWhatWasPosted == SeedingSpec => PublishesWhatWasPosted
<1> DEFINE Confirms ==
        \A r \in Requests :
            IsAt(r, "accepting") /\ entry.there /\ ~entry'.there =>
                /\ request[r].seen = entry.draft
                /\ ~request[r].overtaken => request[r].seen = request[r].draft
<1>1. IInv => \A r \in Requests : IsAt(r, "accepting") =>
                  /\ request[r].seen = entry.draft
                  /\ ~request[r].overtaken => request[r].seen = request[r].draft
    BY DEF IInv, ClaimHolds
<1>2. IInv /\ [SeedingNext]_seedingVars => [Confirms]_seedingVars
    BY <1>1
<1> QED BY <1>2, Knowledge, PTL DEF SeedingSpec, PublishesWhatWasPosted

=============================================================================
