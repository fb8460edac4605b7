-------------------------------- MODULE Sched --------------------------------
(***************************************************************************)
(* The timer interrupt (drivers/timer/timer.c), the round-robin accounting  *)
(* it drives (scheduler/scheduler.c) and the process table on top of it     *)
(* (process/process.c).                                                     *)
(*                                                                          *)
(* The timer handler runs through an interrupt gate: a tick is one step.    *)
(* It may come between any two stores of the shell's thread, which creates  *)
(* processes (`spawn`) and copies the tables out (`sched`, `taskmgr`)       *)
(* without turning interrupts off; those calls are therefore one step per   *)
(* access to what the handler reads or writes.  Entries are filled first    *)
(* and made visible by the increment of their table's count.                *)
(***************************************************************************)
EXTENDS Integers, Sequences, Functions

CONSTANTS
    SCHED_MAX_TASKS,
    PROCESS_MAX,
    TimeSlice,          \* time_slice_ticks of every caller
    TickRange,          \* 2^64: the tick counters are uint64_t
    MaxTicks            \* bound: ticks in one behaviour (none if TickRange <= MaxTicks)

ASSUME SchedAssumption ==
    /\ SCHED_MAX_TASKS \in Nat /\ SCHED_MAX_TASKS >= 2
    /\ PROCESS_MAX \in Nat /\ PROCESS_MAX >= 2
    /\ TimeSlice \in Nat
    /\ TickRange \in Nat \ {0}
    /\ MaxTicks \in Nat

TaskSlots == 0 .. SCHED_MAX_TASKS - 1
ProcessSlots == 0 .. PROCESS_MAX - 1

VARIABLES
    ticks,                                              \* timer.c
    tasks, task_count, current_index, total_ticks,      \* scheduler.c
    next_task_id, slice_progress,
    processes, process_count, next_pid,                 \* process.c
    pc,         \* where the shell's thread stands
    snap,       \* the copies `sched` has made so far
    reply       \* what the last `spawn` returned

sched == <<tasks, task_count, current_index, total_ticks, next_task_id, slice_progress>>
procs == <<processes, process_count, next_pid>>
vars == <<ticks, sched, procs, pc, snap, reply>>

TickCount == 0 .. TickRange - 1
Task == [id : Nat, state : {"unused", "runnable"}, ticks_seen : TickCount, slice : Nat]
Process == [pid : Nat, task : Nat, state : {"unused", "ready", "running"}, born : TickCount]

NoTask == [id |-> 0, state |-> "unused", ticks_seen |-> 0, slice |-> 0]
NoProcess == [pid |-> 0, task |-> 0, state |-> "unused", born |-> 0]
NoSnap == [total |-> 0, rows |-> <<>>]

SpawnSteps == {"id", "state", "slice", "publish", "bind", "born", "count"}

TypeOK ==
    /\ ticks \in TickCount
    /\ tasks \in [TaskSlots -> Task]
    /\ task_count \in 0 .. SCHED_MAX_TASKS
    /\ current_index \in TaskSlots
    /\ total_ticks \in TickCount
    /\ next_task_id \in Nat
    /\ slice_progress \in Nat
    /\ processes \in [ProcessSlots -> Process]
    /\ process_count \in 0 .. PROCESS_MAX
    /\ next_pid \in Nat
    /\ pc \in {"idle", "copy", "show"} \cup SpawnSteps
    /\ snap \in [total : TickCount, rows : Seq(TickCount)]
    /\ reply \in {"none", "created", "failed"}

-----------------------------------------------------------------------------

\* scheduler_register_task: a slice of 0 becomes 1
Slice == IF TimeSlice = 0 THEN 1 ELSE TimeSlice

Registered(i) == [id |-> i + 1, state |-> "runnable", ticks_seen |-> 0, slice |-> Slice]
Created(i) == [pid |-> i + 1, task |-> i + 1, born |-> 0,
               state |-> IF i = 0 THEN "running" ELSE "ready"]

\* timer_init, scheduler_init and process_init run with interrupts off and leave
\* "kernel-shell" and "idle" registered; then kmain executes sti.
Init ==
    /\ ticks = 0
    /\ tasks = [i \in TaskSlots |-> IF i < 2 THEN Registered(i) ELSE NoTask]
    /\ task_count = 2
    /\ current_index = 0
    /\ total_ticks = 0
    /\ next_task_id = 3
    /\ slice_progress = 0
    /\ processes = [i \in ProcessSlots |-> IF i < 2 THEN Created(i) ELSE NoProcess]
    /\ process_count = 2
    /\ next_pid = 3
    /\ pc = "idle"
    /\ snap = NoSnap
    /\ reply = "none"

-----------------------------------------------------------------------------
(* timer_interrupt_handler and scheduler_on_timer_tick.                     *)

Inc(n) == (n + 1) % TickRange

Runnable(i) == tasks[i].state = "runnable"

\* runnable_count_now() = 0
NoneRunnable == \A i \in TaskSlots : i < task_count => ~Runnable(i)

\* advance_to_next_runnable: the first runnable task after `from`, in a circle
\* over the registered ones that ends at `from` itself
\* (Mutant: a circle over the whole table.)
HopOverTable(from, k) == (from + k) % SCHED_MAX_TASKS
Hop(from, k) == (from + k) % task_count

\* Mutant: the search starts at the first slot each time.
SearchFromZero(from, to) ==
    /\ to < task_count /\ Runnable(to) /\ to # from
    /\ \A j \in 0 .. to - 1 : j # from => ~Runnable(j)

advance_to_next_runnable(from, to) ==
    \E k \in 1 .. task_count :
        /\ to = Hop(from, k)
        /\ Runnable(to)
        /\ \A j \in 1 .. k - 1 : ~Runnable(Hop(from, j))

\* Mutants: the slice compared with >; the tick that ends a slice not charged.
ChargeOneMore(i, progress) ==
    /\ tasks' = [tasks EXCEPT ![i].ticks_seen = Inc(@)]
    /\ IF progress + 1 > tasks[i].slice
       THEN /\ slice_progress' = 0
            /\ \E to \in TaskSlots : advance_to_next_runnable(i, to) /\ current_index' = to
       ELSE slice_progress' = progress + 1 /\ current_index' = i
ChargeUnlessLast(i, progress) ==
    IF progress + 1 >= tasks[i].slice
    THEN /\ slice_progress' = 0
         /\ \E to \in TaskSlots : advance_to_next_runnable(i, to) /\ current_index' = to
         /\ UNCHANGED tasks
    ELSE /\ tasks' = [tasks EXCEPT ![i].ticks_seen = Inc(@)]
         /\ slice_progress' = progress + 1 /\ current_index' = i

\* One tick is charged to task i, whose slice stood at `progress`.
Charge(i, progress) ==
    /\ tasks' = [tasks EXCEPT ![i].ticks_seen = Inc(@)]
    /\ IF progress + 1 >= tasks[i].slice
       THEN /\ slice_progress' = 0
            /\ \E to \in TaskSlots :
                /\ advance_to_next_runnable(i, to)
                /\ current_index' = to
       ELSE /\ slice_progress' = progress + 1
            /\ current_index' = i

scheduler_on_timer_tick ==
    /\ total_ticks' = Inc(total_ticks)
    /\ IF NoneRunnable
       THEN UNCHANGED <<tasks, current_index, slice_progress>>
       ELSE \E i \in TaskSlots :
            IF Runnable(current_index)
            THEN i = current_index /\ Charge(i, slice_progress)
            ELSE advance_to_next_runnable(current_index, i) /\ Charge(i, 0)

timer_interrupt_handler ==
    /\ total_ticks < MaxTicks
    /\ ticks' = Inc(ticks)
    /\ scheduler_on_timer_tick
    /\ UNCHANGED <<task_count, next_task_id, procs, pc, snap, reply>>

-----------------------------------------------------------------------------
(* process_create_kernel, called by the shell's `spawn`.                    *)

SpawnRefused ==
    /\ pc = "idle"
    /\ process_count >= PROCESS_MAX \/ task_count >= SCHED_MAX_TASKS
    /\ reply' = "failed"
    /\ UNCHANGED <<ticks, sched, procs, pc, snap>>

\* Mutant: only the process table is looked at.
SpawnOverTasks ==
    /\ pc = "idle"
    /\ process_count < PROCESS_MAX
    /\ pc' = "id"
    /\ UNCHANGED <<ticks, sched, procs, snap, reply>>

Spawn ==
    /\ pc = "idle"
    /\ process_count < PROCESS_MAX
    /\ task_count < SCHED_MAX_TASKS
    /\ pc' = "id"
    /\ UNCHANGED <<ticks, sched, procs, snap, reply>>

\* scheduler_register_task, store by store
TaskId ==
    /\ pc = "id"
    /\ tasks' = [tasks EXCEPT ![task_count].id = next_task_id]
    /\ next_task_id' = next_task_id + 1
    /\ pc' = "state"
    /\ UNCHANGED <<ticks, task_count, current_index, total_ticks, slice_progress,
                   procs, snap, reply>>

TaskState ==
    /\ pc = "state"
    /\ tasks' = [tasks EXCEPT ![task_count] =
                    [@ EXCEPT !.state = "runnable", !.ticks_seen = 0]]
    /\ pc' = "slice"
    /\ UNCHANGED <<ticks, task_count, current_index, total_ticks, next_task_id,
                   slice_progress, procs, snap, reply>>

TaskSlice ==
    /\ pc = "slice"
    /\ tasks' = [tasks EXCEPT ![task_count].slice = Slice]
    /\ pc' = "publish"
    /\ UNCHANGED <<ticks, task_count, current_index, total_ticks, next_task_id,
                   slice_progress, procs, snap, reply>>

TaskPublish ==
    /\ pc = "publish"
    /\ task_count' = task_count + 1
    /\ pc' = "bind"
    /\ UNCHANGED <<ticks, tasks, current_index, total_ticks, next_task_id,
                   slice_progress, procs, snap, reply>>

\* Mutant: the id that the next task will get.
BindNext ==
    /\ pc = "bind"
    /\ processes' = [processes EXCEPT ![process_count] =
            [@ EXCEPT !.pid = next_pid, !.task = next_task_id, !.state = "ready"]]
    /\ next_pid' = next_pid + 1
    /\ pc' = "born"
    /\ UNCHANGED <<ticks, sched, process_count, snap, reply>>

\* the rest of process_create_kernel; the task just registered is the last one
ProcessBind ==
    /\ pc = "bind"
    /\ processes' = [processes EXCEPT ![process_count] =
            [@ EXCEPT !.pid = next_pid,
                      !.task = tasks[task_count - 1].id,
                      !.state = IF process_count = 0 THEN "running" ELSE "ready"]]
    /\ next_pid' = next_pid + 1
    /\ pc' = "born"
    /\ UNCHANGED <<ticks, sched, process_count, snap, reply>>

ProcessBorn ==
    /\ pc = "born"
    /\ processes' = [processes EXCEPT ![process_count].born = ticks]
    /\ pc' = "count"
    /\ UNCHANGED <<ticks, sched, process_count, next_pid, snap, reply>>

\* Mutant: the new process is not counted.
NotPublished ==
    /\ pc = "count"
    /\ reply' = "created"
    /\ pc' = "idle"
    /\ UNCHANGED <<ticks, sched, procs, snap>>

ProcessPublish ==
    /\ pc = "count"
    /\ process_count' = process_count + 1
    /\ reply' = "created"
    /\ pc' = "idle"
    /\ UNCHANGED <<ticks, sched, processes, next_pid, snap>>

-----------------------------------------------------------------------------
(* `sched` and `taskmgr`: the total first, then the rows one by one.        *)

scheduler_get_stats ==
    /\ pc = "idle"
    /\ snap' = [total |-> total_ticks, rows |-> <<>>]
    /\ pc' = "copy"
    /\ UNCHANGED <<ticks, sched, procs, reply>>

\* Mutants: the total read after the rows; the row index not advanced.
TotalLast ==
    /\ pc = "copy"
    /\ IF Len(snap.rows) < task_count
       THEN /\ snap' = [snap EXCEPT !.rows = Append(@, tasks[Len(snap.rows)].ticks_seen)]
            /\ pc' = "copy"
       ELSE /\ snap' = [snap EXCEPT !.total = total_ticks]
            /\ pc' = "show"
    /\ UNCHANGED <<ticks, sched, procs, reply>>
SameRowAgain ==
    /\ pc = "copy"
    /\ Len(snap.rows) < task_count
    /\ snap' = [snap EXCEPT !.rows = <<tasks[Len(@)].ticks_seen>>]
    /\ UNCHANGED <<ticks, sched, procs, pc, reply>>

scheduler_copy_tasks ==
    /\ pc = "copy"
    /\ IF Len(snap.rows) < task_count
       THEN /\ snap' = [snap EXCEPT !.rows =
                            Append(@, tasks[Len(snap.rows)].ticks_seen)]
            /\ pc' = "copy"
       ELSE /\ pc' = "show"
            /\ UNCHANGED snap
    /\ UNCHANGED <<ticks, sched, procs, reply>>

Show ==
    /\ pc = "show"
    /\ snap' = NoSnap
    /\ pc' = "idle"
    /\ UNCHANGED <<ticks, sched, procs, reply>>

-----------------------------------------------------------------------------

\* A call of the shell's thread that has begun.
Continue ==
    \/ TaskId \/ TaskState \/ TaskSlice \/ TaskPublish
    \/ ProcessBind \/ ProcessBorn \/ ProcessPublish
    \/ scheduler_copy_tasks \/ Show

Next ==
    \/ timer_interrupt_handler
    \/ SpawnRefused \/ Spawn \/ scheduler_get_stats
    \/ Continue

Spec == Init /\ [][Next]_vars

\* The PIT never stops, and the interrupted thread always gets on.
FairSpec == Spec /\ WF_vars(timer_interrupt_handler) /\ WF_vars(Continue)

-----------------------------------------------------------------------------
(* Properties.                                                              *)

Tasks == 0 .. task_count - 1
Processes == 0 .. process_count - 1

\* Every visible process is bound to a visible scheduler task of its own, in the
\* order of creation, and has its own PID: no refusal, and no tick between two
\* stores of a creation, leaves a process without a task or a task shared.
ProcessesBound ==
    \A i \in Processes :
        /\ i \in Tasks
        /\ processes[i].task = tasks[i].id
        /\ \A j \in Processes : i # j =>
            /\ processes[i].pid # processes[j].pid
            /\ processes[i].task # processes[j].task

\* A creation that failed left nothing behind: between calls the two tables have
\* the same length.
NoOrphanTask == pc \notin SpawnSteps => task_count = process_count

\* The handler only ever charges a task that is completely registered, and no
\* task is charged more than its slice before the next one's turn.
TurnsAreBounded ==
    /\ current_index \in Tasks
    /\ tasks[current_index].state = "runnable"
    /\ slice_progress < tasks[current_index].slice

\* Every tick is charged to exactly one task: the total is the sum of the rows,
\* also after the counters wrap, and equals what the timer counts.
TicksAccounted ==
    /\ ticks = total_ticks
    /\ total_ticks = SumFunction([i \in Tasks |-> tasks[i].ticks_seen]) % TickRange

\* A tick during the copy may make the rows newer than the total but never older,
\* and never newer than the present: what `sched` prints lies between the two.
SnapshotBetween ==
    pc = "show" /\ MaxTicks < TickRange =>
        /\ Len(snap.rows) = task_count
        /\ snap.total <= SumFunction(snap.rows)
        /\ SumFunction(snap.rows) <= total_ticks

\* Tasks take turns in the order of their slots: the two boot tasks never drift
\* apart by more than one slice, however many are spawned between their turns.
EvenShares ==
    MaxTicks < TickRange =>
        LET lead == tasks[0].ticks_seen - tasks[1].ticks_seen
        IN /\ current_index = 0 => lead = slice_progress
           /\ current_index = 1 => lead = Slice - slice_progress
           /\ current_index > 1 => lead = 0

\* Round robin starves nobody: every registered task has its turn again and again.
EveryTaskRuns ==
    \A i \in TaskSlots : (i < task_count) ~> (current_index = i)

\* Every creation and every listing ends, whatever the timer does.
CallsReturn == (pc # "idle") ~> (pc = "idle")

=============================================================================
