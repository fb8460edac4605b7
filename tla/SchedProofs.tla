----------------------------- MODULE SchedProofs -----------------------------
(***************************************************************************)
(* Proofs about the scheduler and the process table, for every size of the  *)
(* two tables, every time slice and any number of ticks.                    *)
(***************************************************************************)
EXTENDS Sched, SequenceTheorems, FiniteSetTheorems, TLAPS

Filling == {"state", "slice", "publish"}
Binding == {"bind", "born", "count"}

\* The counts, and how far a creation under way has moved them.
Counts ==
    /\ task_count = process_count + (IF pc \in Binding THEN 1 ELSE 0)
    /\ next_task_id = task_count + 1 + (IF pc \in Filling THEN 1 ELSE 0)
    /\ next_pid = process_count + 1 + (IF pc \in {"born", "count"} THEN 1 ELSE 0)
    /\ task_count >= 2
    /\ pc \in SpawnSteps => process_count < PROCESS_MAX
    /\ pc \in SpawnSteps \ Binding => task_count < SCHED_MAX_TASKS

\* Visible tasks are complete; the one being registered is complete as far as the
\* registration has got.
TasksInv ==
    /\ \A i \in TaskSlots : i < task_count =>
        tasks[i].id = i + 1 /\ tasks[i].state = "runnable" /\ tasks[i].slice = Slice
    /\ pc \in Filling => tasks[task_count].id = task_count + 1
    /\ pc \in {"slice", "publish"} => tasks[task_count].state = "runnable"
    /\ pc = "publish" => tasks[task_count].slice = Slice

\* The same for the processes.
ProcessesInv ==
    /\ \A i \in ProcessSlots : i < process_count =>
        processes[i].pid = i + 1 /\ processes[i].task = i + 1
    /\ pc \in {"born", "count"} =>
        /\ processes[process_count].pid = process_count + 1
        /\ processes[process_count].task = process_count + 1

Turn ==
    /\ current_index < task_count
    /\ slice_progress < Slice

SInv == TypeOK /\ Counts /\ TasksInv /\ ProcessesInv /\ Turn

\* The normalised slice is positive.
LEMMA SlicePositive == Slice \in Nat /\ Slice > 0
BY SchedAssumption DEF Slice

\* A counter stays within its width.
LEMMA IncType == ASSUME NEW n \in TickCount PROVE Inc(n) \in TickCount
BY SchedAssumption DEF Inc, TickCount

\* 0 is a counter value.
LEMMA ZeroTick == 0 \in TickCount
BY SchedAssumption DEF TickCount

\* The boot tasks satisfy the invariant.
LEMMA SInvInit == Init => SInv
<1> SUFFICES ASSUME Init PROVE SInv
    OBVIOUS
<1> USE SchedAssumption, SlicePositive, ZeroTick
<1>1. <<>> \in Seq(TickCount)
    BY EmptySeq
<1>2. TypeOK
    <2>1. tasks \in [TaskSlots -> Task]
        BY DEF Init, Registered, NoTask, Task, TaskSlots
    <2>2. processes \in [ProcessSlots -> Process]
        BY DEF Init, Created, NoProcess, Process, ProcessSlots
    <2>3. snap \in [total : TickCount, rows : Seq(TickCount)]
        BY <1>1 DEF Init, NoSnap
    <2>4. /\ ticks \in TickCount /\ total_ticks \in TickCount
          /\ task_count \in 0 .. SCHED_MAX_TASKS /\ current_index \in TaskSlots
          /\ process_count \in 0 .. PROCESS_MAX
          /\ next_task_id \in Nat /\ slice_progress \in Nat /\ next_pid \in Nat
        BY DEF Init, TaskSlots
    <2>5. pc \in {"idle", "copy", "show"} \cup SpawnSteps /\ reply \in {"none", "created", "failed"}
        BY DEF Init
    <2> QED BY <2>1, <2>2, <2>3, <2>4, <2>5 DEF TypeOK
<1>3. Counts
    BY DEF Init, Counts, Filling, Binding, SpawnSteps
<1>4. TasksInv
    BY DEF Init, TasksInv, Registered, TaskSlots, Filling
<1>5. ProcessesInv
    BY DEF Init, ProcessesInv, Created, ProcessSlots
<1>6. Turn
    BY DEF Init, Turn
<1> QED BY <1>2, <1>3, <1>4, <1>5, <1>6 DEF SInv

\* With every registered task runnable, advancing is one step round the circle.
LEMMA AdvanceIsNext ==
    ASSUME TypeOK, TasksInv, task_count >= 1,
           NEW from \in TaskSlots, from < task_count,
           NEW to \in TaskSlots, advance_to_next_runnable(from, to)
    PROVE  /\ to = IF from + 1 = task_count THEN 0 ELSE from + 1
           /\ to < task_count
<1>0. task_count \in Nat /\ from \in Nat /\ task_count <= SCHED_MAX_TASKS /\ SCHED_MAX_TASKS \in Nat
    BY SchedAssumption DEF TypeOK, TaskSlots
<1>1. Hop(from, 1) = (IF from + 1 = task_count THEN 0 ELSE from + 1)
    BY <1>0 DEF Hop
<1>2. Hop(from, 1) \in TaskSlots /\ Hop(from, 1) < task_count
    BY <1>0, <1>1 DEF TaskSlots
<1>3. Runnable(Hop(from, 1))
    BY <1>2 DEF Runnable, TasksInv
<1>4. PICK k \in 1 .. task_count :
        /\ to = Hop(from, k)
        /\ \A j \in 1 .. k - 1 : ~Runnable(Hop(from, j))
    BY DEF advance_to_next_runnable
<1>5. k = 1
    <2>1. k > 1 => 1 \in 1 .. k - 1
        BY <1>0
    <2> QED BY <1>0, <1>3, <1>4, <2>1
<1> QED BY <1>1, <1>2, <1>4, <1>5

\* What a tick does, given the invariant: it charges the current task and either
\* stays with it or hands over to the next.
Ticked ==
    /\ tasks' = [tasks EXCEPT ![current_index].ticks_seen = Inc(@)]
    /\ \/ /\ slice_progress + 1 < Slice
          /\ slice_progress' = slice_progress + 1
          /\ current_index' = current_index
       \/ /\ slice_progress + 1 = Slice
          /\ slice_progress' = 0
          /\ current_index' = IF current_index + 1 = task_count THEN 0 ELSE current_index + 1
    /\ current_index' < task_count
    /\ current_index' \in TaskSlots

\* A tick always finds its current task runnable, so it never skips one.
LEMMA TickCharges == SInv /\ timer_interrupt_handler => Ticked
<1> SUFFICES ASSUME SInv, timer_interrupt_handler PROVE Ticked
    OBVIOUS
<1>0. /\ current_index \in TaskSlots /\ current_index < task_count
      /\ slice_progress \in Nat /\ slice_progress < Slice /\ task_count >= 2
      /\ TypeOK /\ TasksInv /\ task_count \in Nat
    BY SchedAssumption DEF SInv, TypeOK, Turn, Counts
<1>1. Runnable(current_index) /\ tasks[current_index].slice = Slice
    BY <1>0 DEF TasksInv, Runnable
<1>2. ~NoneRunnable
    BY <1>0, <1>1 DEF NoneRunnable
<1>3. Charge(current_index, slice_progress)
    BY <1>1, <1>2 DEF timer_interrupt_handler, scheduler_on_timer_tick
<1>4. tasks' = [tasks EXCEPT ![current_index].ticks_seen = Inc(@)]
    BY <1>3 DEF Charge
<1>5. CASE slice_progress + 1 >= Slice
    <2>1. PICK to \in TaskSlots :
            advance_to_next_runnable(current_index, to) /\ current_index' = to
        BY <1>1, <1>3, <1>5 DEF Charge
    <2>2. /\ to = IF current_index + 1 = task_count THEN 0 ELSE current_index + 1
          /\ to < task_count
        BY <1>0, <2>1, AdvanceIsNext
    <2>3. slice_progress' = 0
        BY <1>1, <1>3, <1>5 DEF Charge
    <2>4. slice_progress + 1 = Slice
        BY <1>0, <1>5, SlicePositive
    <2> QED BY <1>4, <2>1, <2>2, <2>3, <2>4 DEF Ticked
<1>6. CASE ~(slice_progress + 1 >= Slice)
    <2>1. slice_progress' = slice_progress + 1 /\ current_index' = current_index
        BY <1>1, <1>3, <1>6 DEF Charge
    <2>2. slice_progress + 1 < Slice
        BY <1>0, <1>6, SlicePositive
    <2> QED BY <1>0, <1>4, <2>1, <2>2 DEF Ticked
<1> QED BY <1>5, <1>6

\* A tick preserves the invariant.
LEMMA SInvTick == SInv /\ timer_interrupt_handler => SInv'
<1> SUFFICES ASSUME SInv, timer_interrupt_handler PROVE SInv'
    OBVIOUS
<1>0. Ticked
    BY TickCharges
<1>1. UNCHANGED <<task_count, next_task_id, processes, process_count, next_pid, pc, snap, reply>>
    BY DEF timer_interrupt_handler, procs
<1>2. TypeOK'
    <2>1. tasks' \in [TaskSlots -> Task]
        BY <1>0, IncType DEF Ticked, SInv, TypeOK, Task
    <2>2. ticks' \in TickCount /\ total_ticks' \in TickCount
        BY IncType DEF timer_interrupt_handler, scheduler_on_timer_tick, SInv, TypeOK
    <2>3. current_index' \in TaskSlots /\ slice_progress' \in Nat
        BY <1>0 DEF Ticked, SInv, TypeOK
    <2> QED BY <1>1, <2>1, <2>2, <2>3 DEF SInv, TypeOK
<1>3. Counts'
    BY <1>1 DEF SInv, Counts
<1>4. TasksInv'
    <2>1. \A i \in TaskSlots : /\ tasks'[i].id = tasks[i].id
                               /\ tasks'[i].state = tasks[i].state
                               /\ tasks'[i].slice = tasks[i].slice
        BY <1>0 DEF Ticked, SInv, TypeOK, Task
    <2>2. pc \in Filling => task_count \in TaskSlots
        BY SchedAssumption DEF SInv, TypeOK, Counts, TaskSlots, Filling, SpawnSteps, Binding
    <2> QED BY <1>1, <2>1, <2>2 DEF SInv, TasksInv, Filling
<1>5. ProcessesInv'
    BY <1>1 DEF SInv, ProcessesInv
<1>6. Turn'
    <2>1. slice_progress' < Slice
        BY <1>0, SlicePositive DEF Ticked, SInv, TypeOK
    <2> QED BY <1>0, <1>1, <2>1 DEF Ticked, Turn
<1> QED BY <1>2, <1>3, <1>4, <1>5, <1>6 DEF SInv

\* A step of a creation preserves the invariant: each store brings the entry one
\* field closer to completion, and only the last one makes it visible.
LEMMA SInvTask == SInv /\ (TaskId \/ TaskState \/ TaskSlice) => SInv'
<1> SUFFICES ASSUME SInv, TaskId \/ TaskState \/ TaskSlice PROVE SInv'
    OBVIOUS
<1>0. task_count \in TaskSlots /\ task_count \in Nat
    <2>1. pc \in SpawnSteps \ Binding
        BY DEF TaskId, TaskState, TaskSlice, SpawnSteps, Binding
    <2> QED BY <2>1, SchedAssumption DEF SInv, TypeOK, Counts, TaskSlots
<1>1. UNCHANGED <<ticks, task_count, current_index, total_ticks, slice_progress,
                  processes, process_count, next_pid, snap, reply>>
    BY DEF TaskId, TaskState, TaskSlice, procs
<1>2. tasks' \in [TaskSlots -> Task]
    <2>1. CASE TaskId
        BY <1>0, <2>1 DEF SInv, TypeOK, Task, TaskId
    <2>2. CASE TaskState
        BY <1>0, <2>2, ZeroTick DEF SInv, TypeOK, Task, TaskState
    <2>3. CASE TaskSlice
        BY <1>0, <2>3, SlicePositive DEF SInv, TypeOK, Task, TaskSlice
    <2> QED BY <2>1, <2>2, <2>3
<1>3. TypeOK'
    <2>1. pc' \in {"idle", "copy", "show"} \cup SpawnSteps
        BY DEF TaskId, TaskState, TaskSlice, SpawnSteps
    <2>2. next_task_id' \in Nat
        BY DEF SInv, TypeOK, TaskId, TaskState, TaskSlice
    <2> QED BY <1>1, <1>2, <2>1, <2>2 DEF SInv, TypeOK
<1>4. Counts'
    BY <1>1 DEF SInv, TypeOK, Counts, TaskId, TaskState, TaskSlice, Filling, Binding, SpawnSteps
<1>5. \A i \in TaskSlots : i < task_count => tasks'[i] = tasks[i]
    BY <1>0 DEF SInv, TypeOK, TaskId, TaskState, TaskSlice
<1>6. TasksInv'
    <2>1. CASE TaskId
        <3>1. tasks'[task_count].id = task_count + 1
            BY <1>0, <2>1 DEF SInv, TypeOK, Task, Counts, TaskId, Filling
        <3> QED BY <1>1, <1>5, <2>1, <3>1 DEF SInv, TasksInv, TaskId, Filling
    <2>2. CASE TaskState
        <3>1. tasks'[task_count].id = task_count + 1 /\ tasks'[task_count].state = "runnable"
            BY <1>0, <2>2 DEF SInv, TypeOK, Task, TasksInv, TaskState, Filling
        <3> QED BY <1>1, <1>5, <2>2, <3>1 DEF SInv, TasksInv, TaskState, Filling
    <2>3. CASE TaskSlice
        <3>1. /\ tasks'[task_count].id = task_count + 1 /\ tasks'[task_count].state = "runnable"
              /\ tasks'[task_count].slice = Slice
            BY <1>0, <2>3 DEF SInv, TypeOK, Task, TasksInv, TaskSlice, Filling
        <3> QED BY <1>1, <1>5, <2>3, <3>1 DEF SInv, TasksInv, TaskSlice, Filling
    <2> QED BY <2>1, <2>2, <2>3
<1>7. ProcessesInv'
    BY <1>1 DEF SInv, ProcessesInv, TaskId, TaskState, TaskSlice
<1>8. Turn'
    BY <1>1 DEF SInv, Turn
<1> QED BY <1>3, <1>4, <1>6, <1>7, <1>8 DEF SInv

\* Making the task visible preserves the invariant.
LEMMA SInvPublish == SInv /\ TaskPublish => SInv'
<1> SUFFICES ASSUME SInv, TaskPublish PROVE SInv'
    OBVIOUS
<1>0. task_count \in TaskSlots /\ task_count \in Nat /\ task_count < SCHED_MAX_TASKS
    BY SchedAssumption DEF SInv, TypeOK, Counts, TaskSlots, SpawnSteps, Binding, TaskPublish
<1>1. /\ UNCHANGED <<ticks, tasks, current_index, total_ticks, next_task_id, slice_progress,
                     processes, process_count, next_pid, snap, reply>>
      /\ pc = "publish" /\ pc' = "bind" /\ task_count' = task_count + 1
    BY DEF TaskPublish, procs
<1>2. TypeOK'
    <2>1. task_count' \in 0 .. SCHED_MAX_TASKS
        BY <1>0, <1>1, SchedAssumption
    <2>2. pc' \in {"idle", "copy", "show"} \cup SpawnSteps
        BY <1>1 DEF SpawnSteps
    <2> QED BY <1>1, <2>1, <2>2 DEF SInv, TypeOK
<1>3. Counts'
    BY <1>1 DEF SInv, TypeOK, Counts, Filling, Binding, SpawnSteps
<1>4. TasksInv'
    <2>1. \A i \in TaskSlots : i < task_count + 1 => i < task_count \/ i = task_count
        BY <1>0 DEF TaskSlots
    <2> QED BY <1>0, <1>1, <2>1 DEF SInv, TasksInv, Filling
<1>5. ProcessesInv'
    BY <1>1 DEF SInv, ProcessesInv
<1>6. Turn'
    BY <1>0, <1>1 DEF SInv, Turn, TypeOK, TaskSlots
<1> QED BY <1>2, <1>3, <1>4, <1>5, <1>6 DEF SInv

\* Binding a process to its task and publishing it preserve the invariant.
LEMMA SInvProcess == SInv /\ (ProcessBind \/ ProcessBorn \/ ProcessPublish) => SInv'
<1> SUFFICES ASSUME SInv, ProcessBind \/ ProcessBorn \/ ProcessPublish PROVE SInv'
    OBVIOUS
<1>0. /\ process_count \in ProcessSlots /\ process_count \in Nat /\ process_count < PROCESS_MAX
      /\ task_count = process_count + 1
      /\ task_count - 1 \in TaskSlots /\ tasks[task_count - 1].id = process_count + 1
    <2>1. pc \in Binding /\ pc \in SpawnSteps
        BY DEF ProcessBind, ProcessBorn, ProcessPublish, Binding, SpawnSteps
    <2>2. /\ process_count \in Nat /\ process_count < PROCESS_MAX
          /\ task_count = process_count + 1
        BY <2>1 DEF SInv, TypeOK, Counts
    <2>3. task_count - 1 \in TaskSlots /\ task_count - 1 < task_count
        BY <2>2, SchedAssumption DEF SInv, TypeOK, TaskSlots
    <2>4. tasks[task_count - 1].id = task_count - 1 + 1
        BY <2>3 DEF SInv, TasksInv
    <2> QED BY <2>2, <2>3, <2>4, SchedAssumption DEF ProcessSlots
<1>1. UNCHANGED <<ticks, tasks, task_count, current_index, total_ticks, next_task_id,
                  slice_progress, snap>>
    BY DEF ProcessBind, ProcessBorn, ProcessPublish, sched
<1>2. processes' \in [ProcessSlots -> Process]
    <2>1. CASE ProcessBind
        <3>1. PICK st \in {"ready", "running"} :
                processes' = [processes EXCEPT ![process_count] =
                    [@ EXCEPT !.pid = next_pid, !.task = tasks[task_count - 1].id,
                              !.state = st]]
            BY <2>1 DEF ProcessBind
        <3>2. next_pid \in Nat /\ tasks[task_count - 1].id \in Nat
              /\ processes \in [ProcessSlots -> Process]
            BY <1>0 DEF SInv, TypeOK
        <3>3. [processes[process_count] EXCEPT !.pid = next_pid,
                  !.task = tasks[task_count - 1].id, !.state = st] \in Process
            BY <1>0, <3>2 DEF Process
        <3> QED BY <1>0, <3>1, <3>2, <3>3
    <2>2. CASE ProcessBorn
        BY <1>0, <2>2 DEF SInv, TypeOK, Process, ProcessBorn
    <2>3. CASE ProcessPublish
        BY <2>3 DEF SInv, TypeOK, ProcessPublish
    <2> QED BY <2>1, <2>2, <2>3
<1>3. TypeOK'
    <2>1. pc' \in {"idle", "copy", "show"} \cup SpawnSteps
        BY DEF ProcessBind, ProcessBorn, ProcessPublish, SpawnSteps
    <2>2. next_pid' \in Nat /\ process_count' \in 0 .. PROCESS_MAX
        BY <1>0, SchedAssumption DEF SInv, TypeOK, ProcessBind, ProcessBorn, ProcessPublish
    <2>3. reply' \in {"none", "created", "failed"}
        BY DEF SInv, TypeOK, ProcessBind, ProcessBorn, ProcessPublish
    <2> QED BY <1>1, <1>2, <2>1, <2>2, <2>3 DEF SInv, TypeOK
<1>4. Counts'
    BY <1>0, <1>1 DEF SInv, TypeOK, Counts, ProcessBind, ProcessBorn, ProcessPublish,
                      Filling, Binding, SpawnSteps
<1>5. TasksInv'
    BY <1>1 DEF SInv, TasksInv, ProcessBind, ProcessBorn, ProcessPublish, Filling
<1>6. ProcessesInv'
    <2>1. CASE ProcessBind
        <3>1. processes'[process_count].pid = process_count + 1
              /\ processes'[process_count].task = process_count + 1
            BY <1>0, <2>1 DEF SInv, TypeOK, Process, Counts, ProcessBind
        <3>2. \A i \in ProcessSlots : i < process_count => processes'[i] = processes[i]
            BY <1>0, <2>1 DEF SInv, TypeOK, ProcessBind
        <3> QED BY <2>1, <3>1, <3>2 DEF SInv, ProcessesInv, ProcessBind
    <2>2. CASE ProcessBorn
        <3>1. processes'[process_count].pid = process_count + 1
              /\ processes'[process_count].task = process_count + 1
            BY <1>0, <2>2 DEF SInv, TypeOK, Process, ProcessesInv, ProcessBorn
        <3>2. \A i \in ProcessSlots : i < process_count => processes'[i] = processes[i]
            BY <1>0, <2>2 DEF SInv, TypeOK, ProcessBorn
        <3> QED BY <2>2, <3>1, <3>2 DEF SInv, ProcessesInv, ProcessBorn
    <2>3. CASE ProcessPublish
        <3>1. \A i \in ProcessSlots :
                i < process_count + 1 => i < process_count \/ i = process_count
            BY <1>0 DEF ProcessSlots
        <3> QED BY <2>3, <3>1 DEF SInv, ProcessesInv, ProcessPublish
    <2> QED BY <2>1, <2>2, <2>3
<1>7. Turn'
    BY <1>1 DEF SInv, Turn
<1> QED BY <1>3, <1>4, <1>5, <1>6, <1>7 DEF SInv

\* The calls that only look, or that are refused, preserve the invariant.
LEMMA SInvLook ==
    SInv /\ (SpawnRefused \/ Spawn \/ scheduler_get_stats \/ scheduler_copy_tasks \/ Show
             \/ UNCHANGED vars)
        => SInv'
<1> SUFFICES ASSUME SInv, SpawnRefused \/ Spawn \/ scheduler_get_stats
                          \/ scheduler_copy_tasks \/ Show \/ UNCHANGED vars
             PROVE  SInv'
    OBVIOUS
<1>1. UNCHANGED <<ticks, tasks, task_count, current_index, total_ticks, next_task_id,
                  slice_progress, processes, process_count, next_pid>>
    BY DEF SpawnRefused, Spawn, scheduler_get_stats, scheduler_copy_tasks, Show, sched, procs, vars
<1>2. /\ pc' \in {"idle", "copy", "show", "id"} \/ pc' = pc
      /\ pc' = "id" => pc = "id" \/ (process_count < PROCESS_MAX /\ task_count < SCHED_MAX_TASKS)
    BY DEF SpawnRefused, Spawn, scheduler_get_stats, scheduler_copy_tasks, Show, vars
<1>3. pc \in {"idle", "copy", "show"} \/ pc' = pc
    BY DEF SpawnRefused, Spawn, scheduler_get_stats, scheduler_copy_tasks, Show, vars
<1>4. snap' \in [total : TickCount, rows : Seq(TickCount)]
    <2>1. CASE SpawnRefused \/ Spawn \/ UNCHANGED vars
        BY <2>1 DEF SInv, TypeOK, SpawnRefused, Spawn, vars
    <2>2. CASE scheduler_get_stats \/ Show
        <3>1. <<>> \in Seq(TickCount)
            BY EmptySeq
        <3>2. \E t \in TickCount : snap' = [total |-> t, rows |-> <<>>]
            BY <2>2, ZeroTick DEF SInv, TypeOK, scheduler_get_stats, Show, NoSnap
        <3> QED BY <3>1, <3>2
    <2>3. CASE scheduler_copy_tasks
        <3>1. CASE UNCHANGED snap
            BY <3>1 DEF SInv, TypeOK
        <3>2. CASE /\ Len(snap.rows) < task_count
                   /\ snap' = [snap EXCEPT !.rows = Append(@, tasks[Len(snap.rows)].ticks_seen)]
            <4>1. snap.rows \in Seq(TickCount) /\ Len(snap.rows) \in Nat
                BY LenProperties DEF SInv, TypeOK
            <4>2. Len(snap.rows) \in TaskSlots
                BY <3>2, <4>1, SchedAssumption DEF SInv, TypeOK, TaskSlots
            <4>3. tasks[Len(snap.rows)].ticks_seen \in TickCount
                BY <4>2 DEF SInv, TypeOK, Task
            <4>4. Append(snap.rows, tasks[Len(snap.rows)].ticks_seen) \in Seq(TickCount)
                BY <4>1, <4>3
            <4> QED BY <3>2, <4>4 DEF SInv, TypeOK
        <3> QED BY <2>3, <3>1, <3>2 DEF scheduler_copy_tasks
    <2> QED BY <2>1, <2>2, <2>3
<1>5. TypeOK'
    <2>1. pc' \in {"idle", "copy", "show"} \cup SpawnSteps
        BY <1>2 DEF SInv, TypeOK, SpawnSteps
    <2>2. reply' \in {"none", "created", "failed"}
        BY DEF SInv, TypeOK, SpawnRefused, Spawn, scheduler_get_stats, scheduler_copy_tasks,
               Show, vars
    <2> QED BY <1>1, <1>4, <2>1, <2>2 DEF SInv, TypeOK
<1>6. Counts'
    BY <1>1, <1>2, <1>3 DEF SInv, Counts, Filling, Binding, SpawnSteps
<1>7. TasksInv' /\ ProcessesInv' /\ Turn'
    BY <1>1, <1>2 DEF SInv, TasksInv, ProcessesInv, Turn, Filling
<1> QED BY <1>5, <1>6, <1>7 DEF SInv

\* SInv is inductive.
LEMMA SInvStep == SInv /\ [Next]_vars => SInv'
BY SInvTick, SInvTask, SInvPublish, SInvProcess, SInvLook DEF Next, Continue

\* The inductive invariant of the two tables.
THEOREM SchedInvariant == Spec => []SInv
BY SInvInit, SInvStep, PTL DEF Spec

\* Every reachable state is well typed.
THEOREM SchedTypeCorrect == Spec => []TypeOK
<1>1. SInv => TypeOK
    BY DEF SInv
<1> QED BY <1>1, SchedInvariant, PTL

\* The handler charges only completely registered tasks and none beyond its slice.
THEOREM TurnsBounded == Spec => []TurnsAreBounded
<1>1. SInv => TurnsAreBounded
    BY SchedAssumption DEF SInv, TypeOK, Turn, TasksInv, TurnsAreBounded, Tasks, TaskSlots
<1> QED BY <1>1, SchedInvariant, PTL

\* Every visible process has a task and a PID of its own.
THEOREM ProcessesAlwaysBound == Spec => []ProcessesBound
<1>1. SInv => ProcessesBound
    <2> SUFFICES ASSUME SInv, NEW i \in Processes
                 PROVE  /\ i \in Tasks
                        /\ processes[i].task = tasks[i].id
                        /\ \A j \in Processes : i # j =>
                            /\ processes[i].pid # processes[j].pid
                            /\ processes[i].task # processes[j].task
        BY DEF ProcessesBound
    <2>1. process_count \in Nat /\ process_count <= task_count /\ task_count \in Nat
          /\ process_count <= PROCESS_MAX /\ task_count <= SCHED_MAX_TASKS
        BY SchedAssumption DEF SInv, TypeOK, Counts
    <2>2. \A j \in Processes : j \in ProcessSlots /\ j < process_count /\ j \in Nat
        BY <2>1, SchedAssumption DEF Processes, ProcessSlots
    <2>3. \A j \in Processes : processes[j].pid = j + 1 /\ processes[j].task = j + 1
        BY <2>2 DEF SInv, ProcessesInv
    <2>4. i \in Tasks /\ i \in TaskSlots /\ i < task_count
        BY <2>1, <2>2, SchedAssumption DEF Tasks, TaskSlots
    <2>5. tasks[i].id = i + 1
        BY <2>4 DEF SInv, TasksInv
    <2> QED BY <2>2, <2>3, <2>4, <2>5
<1> QED BY <1>1, SchedInvariant, PTL

\* Between calls every task has its process.
THEOREM NoOrphans == Spec => []NoOrphanTask
<1>1. SInv => NoOrphanTask
    BY DEF SInv, TypeOK, Counts, NoOrphanTask, Binding, SpawnSteps
<1> QED BY <1>1, SchedInvariant, PTL

-----------------------------------------------------------------------------

\* Without wrap-around no task has more ticks than there were.
NoWrap ==
    MaxTicks < TickRange =>
        /\ total_ticks <= MaxTicks
        /\ \A i \in TaskSlots : tasks[i].ticks_seen <= total_ticks

EInv == SInv /\ NoWrap /\ EvenShares

\* The boot tasks are the first two slots of the table.
LEMMA BootSlots == 0 \in TaskSlots /\ 1 \in TaskSlots
BY SchedAssumption DEF TaskSlots

\* Steps other than a tick leave the counters of the visible tasks alone.
LEMMA OthersKeepTicks ==
    ASSUME SInv, Next, ~timer_interrupt_handler
    PROVE  /\ UNCHANGED <<total_ticks, current_index, slice_progress>>
           /\ tasks'[0].ticks_seen = tasks[0].ticks_seen
           /\ tasks'[1].ticks_seen = tasks[1].ticks_seen
           /\ \A i \in TaskSlots : tasks'[i].ticks_seen \in {0, tasks[i].ticks_seen}
<1>0. task_count \in Nat /\ task_count >= 2 /\ tasks \in [TaskSlots -> Task]
    BY DEF SInv, TypeOK, Counts
<1>1. CASE UNCHANGED tasks
    <2>1. UNCHANGED <<total_ticks, current_index, slice_progress>>
        BY DEF Next, Continue, SpawnRefused, Spawn, scheduler_get_stats, TaskId, TaskState,
               TaskSlice, TaskPublish, ProcessBind, ProcessBorn, ProcessPublish,
               scheduler_copy_tasks, Show, sched
    <2> QED BY <1>1, <2>1
<1>2. CASE TaskId
    BY <1>0, <1>2, BootSlots DEF TaskId, Task
<1>3. CASE TaskState
    BY <1>0, <1>3, BootSlots DEF TaskState, Task
<1>4. CASE TaskSlice
    BY <1>0, <1>4, BootSlots DEF TaskSlice, Task
<1> QED BY <1>1, <1>2, <1>3, <1>4
        DEF Next, Continue, SpawnRefused, Spawn, scheduler_get_stats, TaskPublish, ProcessBind,
            ProcessBorn, ProcessPublish, scheduler_copy_tasks, Show, sched

\* Before any wrap a tick adds one to the total and to the current task.
LEMMA TickAdds ==
    ASSUME SInv, NoWrap, MaxTicks < TickRange, timer_interrupt_handler
    PROVE  /\ total_ticks < MaxTicks /\ total_ticks' = total_ticks + 1
           /\ \A i \in TaskSlots :
                tasks'[i].ticks_seen = IF i = current_index THEN tasks[i].ticks_seen + 1
                                       ELSE tasks[i].ticks_seen
<1>0. /\ total_ticks \in Nat /\ tasks \in [TaskSlots -> Task] /\ current_index \in TaskSlots
      /\ \A i \in TaskSlots : tasks[i].ticks_seen \in Nat /\ tasks[i].ticks_seen <= total_ticks
      /\ MaxTicks \in Nat /\ TickRange \in Nat
    BY SchedAssumption DEF NoWrap, SInv, TypeOK, TickCount, Task
<1>1. total_ticks < MaxTicks /\ total_ticks' = total_ticks + 1
    BY <1>0 DEF timer_interrupt_handler, scheduler_on_timer_tick, Inc
<1>2. Inc(tasks[current_index].ticks_seen) = tasks[current_index].ticks_seen + 1
    <2>1. tasks[current_index].ticks_seen + 1 < TickRange
        BY <1>0, <1>1
    <2> QED BY <1>0, <2>1 DEF Inc
<1>3. Ticked
    BY TickCharges
<1> QED BY <1>0, <1>1, <1>2, <1>3 DEF Ticked, Task

\* Equal turns are preserved by every step.
LEMMA EInvStep == EInv /\ [Next]_vars => EInv'
<1> SUFFICES ASSUME EInv, [Next]_vars, MaxTicks < TickRange PROVE NoWrap' /\ EvenShares'
    BY SInvStep DEF EInv, NoWrap, EvenShares
<1>0. /\ SInv /\ total_ticks \in Nat /\ tasks \in [TaskSlots -> Task]
      /\ total_ticks <= MaxTicks
      /\ \A i \in TaskSlots : tasks[i].ticks_seen <= total_ticks
      /\ \A i \in TaskSlots : tasks[i].ticks_seen \in Nat
      /\ MaxTicks \in Nat /\ TickRange \in Nat
    BY SchedAssumption DEF EInv, NoWrap, SInv, TypeOK, TickCount, Task
<1>1. CASE timer_interrupt_handler
    <2>0. Ticked /\ current_index \in TaskSlots /\ current_index \in Nat
          /\ task_count \in Nat /\ task_count >= 2 /\ slice_progress \in Nat
        BY <1>0, <1>1, TickCharges, SchedAssumption DEF SInv, TypeOK, Counts, TaskSlots
    <2>1. total_ticks < MaxTicks /\ total_ticks' = total_ticks + 1
        BY <1>1, TickAdds DEF EInv
    <2>2. \A i \in TaskSlots :
            tasks'[i].ticks_seen = IF i = current_index THEN tasks[i].ticks_seen + 1
                                   ELSE tasks[i].ticks_seen
        BY <1>1, TickAdds DEF EInv
    <2>3. NoWrap'
        BY <1>0, <2>1, <2>2 DEF NoWrap
    <2>4. EvenShares'
        <3> DEFINE t0 == tasks[0].ticks_seen
                   t1 == tasks[1].ticks_seen
        <3>1. /\ t0' = IF current_index = 0 THEN t0 + 1 ELSE t0
              /\ t1' = IF current_index = 1 THEN t1 + 1 ELSE t1
              /\ t0 \in Nat /\ t1 \in Nat
            BY <1>0, <2>2, BootSlots
        <3>2. /\ current_index = 0 => t0 - t1 = slice_progress
              /\ current_index = 1 => t0 - t1 = Slice - slice_progress
              /\ current_index > 1 => t0 - t1 = 0
            BY DEF EInv, EvenShares
        <3>3. /\ current_index' = 0 => t0' - t1' = slice_progress'
              /\ current_index' = 1 => t0' - t1' = Slice - slice_progress'
              /\ current_index' > 1 => t0' - t1' = 0
            <4> HIDE DEF t0, t1
            <4> QED BY <2>0, <3>1, <3>2, SlicePositive DEF Ticked
        <3> QED BY <3>3 DEF EvenShares
    <2> QED BY <2>3, <2>4
<1>2. CASE Next /\ ~timer_interrupt_handler
    <2>1. /\ UNCHANGED <<total_ticks, current_index, slice_progress>>
          /\ tasks'[0].ticks_seen = tasks[0].ticks_seen
          /\ tasks'[1].ticks_seen = tasks[1].ticks_seen
          /\ \A i \in TaskSlots : tasks'[i].ticks_seen \in {0, tasks[i].ticks_seen}
        BY <1>0, <1>2, OthersKeepTicks
    <2>2. NoWrap'
        BY <1>0, <2>1 DEF NoWrap
    <2>3. EvenShares'
        BY <2>1 DEF EInv, EvenShares
    <2> QED BY <2>2, <2>3
<1>3. CASE UNCHANGED vars
    BY <1>3 DEF EInv, NoWrap, EvenShares, vars, sched
<1> QED BY <1>1, <1>2, <1>3

\* As long as the tick counters have not wrapped, the two boot tasks have had the
\* same number of turns up to the one under way.
THEOREM SharesStayEven == Spec => []EvenShares
<1>1. Init => EInv
    <2> SUFFICES ASSUME Init PROVE NoWrap /\ EvenShares
        BY SInvInit DEF EInv
    <2>1. \A i \in TaskSlots : tasks[i].ticks_seen = 0
        BY DEF Init, Registered, NoTask
    <2> QED BY <2>1, BootSlots, SchedAssumption DEF Init, NoWrap, EvenShares
<1>2. EInv => EvenShares
    BY DEF EInv
<1> QED BY <1>1, <1>2, EInvStep, PTL DEF Spec

-----------------------------------------------------------------------------
(* Sums: what `sched` prints against what the tasks have been charged.       *)

Plus(a, b) == b + a
AnyOf(s) == CHOOSE x \in s : TRUE
F == INSTANCE Folding WITH op <- Plus, pick <- AnyOf

Numbers(f, n) == f \in [1 .. n -> Int]

\* g gives each part of 1 .. n the sum of f over it.
IsSum(g, f, n) ==
    /\ g[{}] = 0
    /\ \A A \in SUBSET (1 .. n) : g[A] \in Int
    /\ \A A \in SUBSET (1 .. n) : \A x \in 1 .. n : x \notin A => g[A \cup {x}] = f[x] + g[A]

\* The fold sums f, whichever index is taken first.
LEMMA FoldIsSum ==
  ASSUME NEW n \in Nat, NEW f, Numbers(f, n)
  PROVE  IsSum(F!Folded(0, f), f, n)
<1>0. PICK g : g = F!Folded(0, f)
  OBVIOUS
<1> DEFINE Good(A) == g[A] \in Int /\ \A x \in A : g[A] = f[x] + g[A \ {x}]
           N == {m \in Nat : \A A \in SUBSET (1 .. n) : Cardinality(A) <= m => Good(A)}
<1>1. \A s : s # {} => AnyOf(s) \in s
  BY DEF AnyOf
<1>2. \A s \in SUBSET (1 .. n) : g[s] = IF s = {} THEN 0 ELSE f[AnyOf(s)] + g[s \ {AnyOf(s)}]
  <2>1. F!Picks(n)
    BY <1>1 DEF F!Picks
  <2>2. DOMAIN f = 1 .. n
    BY DEF Numbers
  <2>3. F!Folds(g, 0, f)
    BY <1>0, <2>1, <2>2, F!FoldExists
  <2> QED BY <2>2, <2>3 DEF F!Folds, Plus
<1>3. g[{}] = 0 /\ Good({})
  <2>1. {} \in SUBSET (1 .. n)
    OBVIOUS
  <2>2. g[{}] = 0
    BY <1>2, <2>1
  <2> QED BY <2>2
<1>4. \A A \in SUBSET (1 .. n) : IsFiniteSet(A) /\ Cardinality(A) \in Nat
  <2>1. IsFiniteSet(1 .. n)
    BY FS_Interval
  <2> QED BY <2>1, FS_Subset, FS_CardinalityType
<1>5. ASSUME NEW A \in SUBSET (1 .. n), NEW x \in A
      PROVE  A \ {x} \in SUBSET (1 .. n) /\ Cardinality(A \ {x}) = Cardinality(A) - 1
  <2>1. IsFiniteSet(A)
    BY <1>4
  <2> QED BY <2>1, FS_RemoveElement
<1>6. 0 \in N
  <2>1. \A A \in SUBSET (1 .. n) : Cardinality(A) <= 0 => A = {}
    BY <1>4, FS_EmptySet
  <2> HIDE DEF Good
  <2> QED BY <1>3, <2>1
<1>7. ASSUME NEW m \in Nat, m \in N PROVE m + 1 \in N
  <2> HIDE DEF Good
  <2> SUFFICES ASSUME NEW A \in SUBSET (1 .. n), Cardinality(A) <= m + 1 PROVE Good(A)
    OBVIOUS
  <2> USE DEF Good
  <2>1. ASSUME NEW x \in A
        PROVE  A \ {x} \in SUBSET (1 .. n) /\ Cardinality(A \ {x}) <= m /\ Good(A \ {x})
    <3> HIDE DEF Good
    <3>1. Cardinality(A \ {x}) <= m /\ A \ {x} \in SUBSET (1 .. n)
      BY <1>4, <1>5, <2>1
    <3> QED BY <1>7, <3>1
  <2>2. CASE A = {}
    BY <1>3, <2>2
  <2>3. CASE A # {}
    <3>1. PICK p \in A : g[A] = f[p] + g[A \ {p}]
      BY <1>1, <1>2, <2>3
    <3>2. f[p] \in Int /\ g[A \ {p}] \in Int
      BY <2>1 DEF Numbers
    <3>3. ASSUME NEW x \in A, x # p PROVE g[A] = f[x] + g[A \ {x}]
      <4>1. PICK B \in SUBSET (1 .. n) : B = (A \ {p}) \ {x}
        OBVIOUS
      <4>2. B = (A \ {x}) \ {p}
        BY <4>1
      <4>3. g[A \ {p}] = f[x] + g[B]
        BY <2>1, <3>3, <4>1
      <4>4. g[A \ {x}] = f[p] + g[B]
        BY <2>1, <3>3, <4>2
      <4>5. g[B] \in Int
        <5> HIDE DEF Good
        <5>1. Cardinality(B) = Cardinality(A \ {p}) - 1
          <6>1. x \in A \ {p} /\ A \ {p} \in SUBSET (1 .. n)
            BY <3>3
          <6> QED BY <1>5, <4>1, <6>1
        <5>2. Cardinality(A \ {p}) <= m /\ Cardinality(A \ {p}) \in Int
          BY <1>4, <2>1
        <5>3. Good(B)
          BY <1>7, <5>1, <5>2
        <5> QED BY <5>3 DEF Good
      <4>6. f[x] \in Int
        BY DEF Numbers
      <4> QED BY <3>1, <3>2, <4>3, <4>4, <4>5, <4>6
    <3>4. \A x \in A : g[A] = f[x] + g[A \ {x}]
      BY <3>1, <3>3
    <3>5. g[A] \in Int
      BY <3>1, <3>2
    <3> QED BY <3>4, <3>5
  <2> QED BY <2>2, <2>3
<1>8. \A A \in SUBSET (1 .. n) : Good(A)
  <2> HIDE DEF Good
  <2>1. \A m \in Nat : m \in N
    <3> HIDE DEF N
    <3> QED BY <1>6, <1>7, F!SetOfNats
  <2> QED BY <1>4, <2>1
<1>9. ASSUME NEW A \in SUBSET (1 .. n), NEW x \in 1 .. n, x \notin A PROVE g[A \cup {x}] = f[x] + g[A]
  <2>1. A \cup {x} \in SUBSET (1 .. n) /\ x \in A \cup {x} /\ (A \cup {x}) \ {x} = A
    BY <1>9
  <2> QED BY <1>8, <2>1
<1> QED BY <1>0, <1>3, <1>8, <1>9 DEF IsSum

LEMMA SumIsSum ==
  ASSUME NEW n \in Nat, NEW f, Numbers(f, n)
  PROVE  \E g : IsSum(g, f, n) /\ SumFunction(f) = g[1 .. n]
<1>1. SumFunction(f) = F!Folded(0, f)[DOMAIN f]
  BY DEF SumFunction, SumFunctionOnSet, FoldFunctionOnSet, MapThenFoldSet, F!Folded, F!Folds, AnyOf, Plus
<1>2. DOMAIN f = 1 .. n
  BY DEF Numbers
<1> QED BY <1>1, <1>2, FoldIsSum

\* A sum of smaller numbers is no larger.
LEMMA SumsCompare ==
  ASSUME NEW n \in Nat, NEW f, NEW h, Numbers(f, n), Numbers(h, n),
         NEW g, NEW k, IsSum(g, f, n), IsSum(k, h, n), \A x \in 1 .. n : f[x] <= h[x]
  PROVE  g[1 .. n] <= k[1 .. n]
<1> DEFINE T == {A \in SUBSET (1 .. n) : g[A] <= k[A]}
<1>1. {} \in T
  BY DEF IsSum
<1>2. ASSUME NEW A \in SUBSET (1 .. n), NEW x \in 1 .. n, A \in T, x \notin A PROVE A \cup {x} \in T
  <2>1. g[A \cup {x}] = f[x] + g[A] /\ k[A \cup {x}] = h[x] + k[A]
    BY <1>2 DEF IsSum
  <2>2. f[x] \in Int /\ h[x] \in Int /\ g[A] \in Int /\ k[A] \in Int /\ f[x] <= h[x] /\ g[A] <= k[A]
    BY <1>2 DEF Numbers, IsSum
  <2>3. f[x] + g[A] <= h[x] + k[A]
    BY <2>2
  <2> QED BY <2>1, <2>3
<1>3. \A A \in SUBSET (1 .. n) : A \in T
  <2> HIDE DEF T
  <2> QED BY <1>1, <1>2, F!SetOfParts
<1> QED BY <1>3

LEMMA SumOfSmaller ==
  ASSUME NEW n \in Nat, NEW f, NEW h, Numbers(f, n), Numbers(h, n), \A x \in 1 .. n : f[x] <= h[x]
  PROVE  SumFunction(f) <= SumFunction(h) /\ SumFunction(f) \in Int
<1>1. PICK g : IsSum(g, f, n) /\ SumFunction(f) = g[1 .. n]
  BY SumIsSum
<1>2. PICK k : IsSum(k, h, n) /\ SumFunction(h) = k[1 .. n]
  BY SumIsSum
<1>3. g[1 .. n] \in Int
  BY <1>1 DEF IsSum
<1> QED BY <1>1, <1>2, <1>3, SumsCompare

\* One number changes by d.
LEMMA SumOfUpdate ==
  ASSUME NEW n \in Nat, NEW f, NEW h, Numbers(f, n), Numbers(h, n),
         NEW i \in 1 .. n, \A x \in 1 .. n : x # i => h[x] = f[x]
  PROVE  SumFunction(h) = SumFunction(f) - f[i] + h[i]
<1>1. PICK g : IsSum(g, f, n) /\ SumFunction(f) = g[1 .. n]
  BY SumIsSum
<1>2. PICK k : IsSum(k, h, n) /\ SumFunction(h) = k[1 .. n]
  BY SumIsSum
<1> DEFINE l == [A \in SUBSET (1 .. n) |-> IF i \in A THEN g[A] - f[i] + h[i] ELSE g[A]]
<1>3. IsSum(l, h, n)
  <2>1. l[{}] = 0
    BY <1>1 DEF IsSum
  <2>2. \A A \in SUBSET (1 .. n) : l[A] \in Int
    BY <1>1 DEF IsSum, Numbers
  <2>3. ASSUME NEW A \in SUBSET (1 .. n), NEW x \in 1 .. n, x \notin A PROVE l[A \cup {x}] = h[x] + l[A]
    <3>1. g[A \cup {x}] = f[x] + g[A] /\ g[A] \in Int /\ f[x] \in Int /\ h[x] \in Int /\ f[i] \in Int /\ h[i] \in Int
      BY <1>1, <2>3 DEF IsSum, Numbers
    <3>2. A \cup {x} \in SUBSET (1 .. n)
      OBVIOUS
    <3>3. l[A] = IF i \in A THEN g[A] - f[i] + h[i] ELSE g[A]
      OBVIOUS
    <3>4. l[A \cup {x}] = IF i \in A \/ i = x THEN g[A \cup {x}] - f[i] + h[i] ELSE g[A \cup {x}]
      BY <3>2
    <3> HIDE DEF l
    <3>5. CASE x = i
      BY <2>3, <3>1, <3>3, <3>4, <3>5
    <3>6. CASE x # i
      BY <3>1, <3>3, <3>4, <3>6
    <3> QED BY <3>5, <3>6
  <2> QED BY <2>1, <2>2, <2>3 DEF IsSum
<1>4. l[1 .. n] = g[1 .. n] - f[i] + h[i]
  OBVIOUS
<1>5. l[1 .. n] = k[1 .. n]
  <2>1. \A x \in 1 .. n : h[x] <= h[x]
    BY DEF Numbers
  <2>2. l[1 .. n] \in Int /\ k[1 .. n] \in Int
    BY <1>2, <1>3 DEF IsSum
  <2> HIDE DEF l
  <2>3. l[1 .. n] <= k[1 .. n] /\ k[1 .. n] <= l[1 .. n]
    BY <1>2, <1>3, <2>1, SumsCompare
  <2> QED BY <2>2, <2>3
<1> HIDE DEF l
<1> QED BY <1>1, <1>2, <1>4, <1>5

\* One number more.
LEMMA SumOfLonger ==
  ASSUME NEW n \in Nat, NEW f, NEW h, Numbers(f, n), Numbers(h, n + 1), \A x \in 1 .. n : h[x] = f[x]
  PROVE  SumFunction(h) = SumFunction(f) + h[n + 1]
<1>1. PICK g : IsSum(g, f, n) /\ SumFunction(f) = g[1 .. n]
  BY SumIsSum
<1>2. PICK k : IsSum(k, h, n + 1) /\ SumFunction(h) = k[1 .. n + 1]
  BY SumIsSum
<1>3. IsSum(k, f, n)
  <2>1. \A A \in SUBSET (1 .. n) : A \in SUBSET (1 .. n + 1)
    OBVIOUS
  <2>2. \A x \in 1 .. n : x \in 1 .. n + 1
    OBVIOUS
  <2> QED BY <1>2, <2>1, <2>2 DEF IsSum
<1>4. k[1 .. n] = g[1 .. n]
  <2>1. \A x \in 1 .. n : f[x] <= f[x]
    BY DEF Numbers
  <2>2. g[1 .. n] \in Int /\ k[1 .. n] \in Int
    BY <1>1, <1>3 DEF IsSum
  <2>3. g[1 .. n] <= k[1 .. n] /\ k[1 .. n] <= g[1 .. n]
    BY <1>1, <1>3, <2>1, SumsCompare
  <2> QED BY <2>2, <2>3
<1>5. k[1 .. n + 1] = h[n + 1] + k[1 .. n]
  <2>1. 1 .. n \in SUBSET (1 .. n + 1) /\ n + 1 \in 1 .. n + 1 /\ n + 1 \notin 1 .. n
    OBVIOUS
  <2>2. 1 .. n + 1 = (1 .. n) \cup {n + 1}
    OBVIOUS
  <2>3. k[(1 .. n) \cup {n + 1}] = h[n + 1] + k[1 .. n]
    BY <1>2, <2>1 DEF IsSum
  <2> QED BY <2>2, <2>3
<1>6. k[1 .. n] \in Int /\ h[n + 1] \in Int
  BY <1>3 DEF IsSum, Numbers
<1> QED BY <1>1, <1>2, <1>4, <1>5, <1>6

LEMMA SumOfZeros ==
  ASSUME NEW n \in Nat, NEW f, Numbers(f, n), \A x \in 1 .. n : f[x] = 0
  PROVE  SumFunction(f) = 0
<1>1. PICK g : IsSum(g, f, n) /\ SumFunction(f) = g[1 .. n]
  BY SumIsSum
<1>2. IsSum([A \in SUBSET (1 .. n) |-> 0], f, n)
  BY DEF IsSum
<1>3. PICK k : IsSum(k, f, n) /\ k[1 .. n] = 0
  BY <1>2
<1>4. g[1 .. n] <= 0 /\ 0 <= g[1 .. n]
  BY <1>1, <1>3, SumsCompare
<1> QED BY <1>1, <1>4 DEF IsSum

-----------------------------------------------------------------------------
\* The charges of the visible tasks; and the table half copied: the rows there are,
\* and what the others would be if they were copied now.
Seen == [i \in 1 .. task_count |-> tasks[i - 1].ticks_seen]
Mixed == [i \in 1 .. task_count |->
            IF i <= Len(snap.rows) THEN snap.rows[i] ELSE tasks[i - 1].ticks_seen]

\* Before any wrap the total is the sum of the charges, and the copied total is no
\* more than the table half copied.
SumInv ==
    MaxTicks < TickRange =>
        /\ total_ticks = SumFunction(Seen)
        /\ pc \in {"slice", "publish"} => tasks[task_count].ticks_seen = 0
        /\ pc \in {"copy", "show"} =>
             /\ Len(snap.rows) <= task_count /\ (pc = "show" => Len(snap.rows) = task_count)
             /\ \A i \in 1 .. Len(snap.rows) : snap.rows[i] <= tasks[i - 1].ticks_seen
             /\ snap.total <= SumFunction(Mixed)

SumTyped ==
    /\ task_count \in Nat /\ \A i \in 1 .. task_count : i - 1 \in TaskSlots /\ i - 1 < task_count
    /\ \A i \in TaskSlots : tasks[i].ticks_seen \in Nat
    /\ Len(snap.rows) \in Nat /\ snap.rows \in [1 .. Len(snap.rows) -> Nat] /\ snap.total \in Nat
    /\ Numbers(Seen, task_count) /\ Numbers(Mixed, task_count)

LEMMA SumTypes == SInv => SumTyped
<1> SUFFICES ASSUME SInv PROVE SumTyped
    OBVIOUS
<1>1. /\ task_count \in Nat /\ task_count <= SCHED_MAX_TASKS /\ tasks \in [TaskSlots -> Task]
      /\ snap.rows \in Seq(TickCount) /\ snap.total \in TickCount /\ TickCount \subseteq Nat
    BY SchedAssumption DEF SInv, TypeOK, TickCount
<1>2. \A i \in 1 .. task_count : i - 1 \in TaskSlots /\ i - 1 < task_count
    BY <1>1, SchedAssumption DEF TaskSlots
<1>3. \A i \in TaskSlots : tasks[i].ticks_seen \in Nat
    BY <1>1 DEF Task
<1>4. Len(snap.rows) \in Nat /\ snap.rows \in [1 .. Len(snap.rows) -> TickCount]
    BY <1>1, LenProperties
<1>5. snap.rows \in [1 .. Len(snap.rows) -> Nat]
    BY <1>1, <1>4
<1>6. Numbers(Seen, task_count)
    BY <1>1, <1>2, <1>3 DEF Numbers, Seen
<1>7. Numbers(Mixed, task_count)
    BY <1>1, <1>2, <1>3, <1>4, <1>5 DEF Numbers, Mixed
<1> QED BY <1>1, <1>2, <1>3, <1>4, <1>5, <1>6, <1>7 DEF SumTyped

\* A tick moves the total and one task, which may or may not be copied yet.
LEMMA SumTick ==
    ASSUME EInv, EInv', SumInv, timer_interrupt_handler, MaxTicks < TickRange
    PROVE  SumInv'
<1>0. SInv /\ NoWrap /\ SInv'
    BY DEF EInv
<1>1. UNCHANGED <<task_count, pc, snap>>
    BY DEF timer_interrupt_handler
<1>2. /\ total_ticks' = total_ticks + 1
      /\ \A i \in TaskSlots :
           tasks'[i].ticks_seen = IF i = current_index THEN tasks[i].ticks_seen + 1
                                  ELSE tasks[i].ticks_seen
    BY <1>0, TickAdds
<1>3. PICK n \in Nat : n = task_count
    BY <1>0, SumTypes DEF SumTyped
<1>4. /\ Numbers(Seen, n) /\ Numbers(Seen', n) /\ Numbers(Mixed, n) /\ Numbers(Mixed', n)
      /\ \A i \in 1 .. n : i - 1 \in TaskSlots
      /\ \A i \in TaskSlots : tasks[i].ticks_seen \in Nat
    <2>1. SumTyped /\ SumTyped'
        BY <1>0, SumTypes, PTL
    <2> QED BY <1>1, <1>3, <2>1 DEF SumTyped
<1>5. current_index + 1 \in 1 .. n /\ (current_index + 1) - 1 = current_index /\ current_index \in TaskSlots
    BY <1>0, <1>3, SchedAssumption DEF SInv, TypeOK, Turn, TaskSlots
<1>6. total_ticks' = SumFunction(Seen')
    <2>1. \A i \in 1 .. n : Seen[i] = tasks[i - 1].ticks_seen /\ Seen'[i] = tasks'[i - 1].ticks_seen
        BY <1>1, <1>3 DEF Seen
    <2>2. \A i \in 1 .. n : i # current_index + 1 => Seen'[i] = Seen[i]
        BY <1>2, <1>4, <1>5, <2>1, SchedAssumption DEF TaskSlots
    <2>3. Seen'[current_index + 1] = Seen[current_index + 1] + 1
        BY <1>2, <1>4, <1>5, <2>1
    <2>4. SumFunction(Seen') = SumFunction(Seen) - Seen[current_index + 1] + Seen'[current_index + 1]
        BY <1>4, <1>5, <2>2, SumOfUpdate
    <2>5. Seen[current_index + 1] \in Int /\ total_ticks = SumFunction(Seen) /\ total_ticks \in Int
        <3>1. total_ticks = SumFunction(Seen)
            BY DEF SumInv
        <3>2. total_ticks \in Int
            BY <1>0, SchedAssumption DEF SInv, TypeOK, TickCount
        <3> QED BY <1>4, <1>5, <3>1, <3>2 DEF Numbers
    <2> QED BY <1>2, <2>3, <2>4, <2>5
<1>7. SumFunction(Mixed) <= SumFunction(Mixed') /\ SumFunction(Mixed) \in Int /\ SumFunction(Mixed') \in Int
    <2>1. \A i \in 1 .. n : Mixed[i] <= Mixed'[i]
        <3>1. \A i \in 1 .. n : tasks[i - 1].ticks_seen <= tasks'[i - 1].ticks_seen
            BY <1>2, <1>4
        <3>2. \A i \in 1 .. n : Mixed[i] \in Int
            BY <1>4 DEF Numbers
        <3> QED BY <1>1, <1>3, <3>1, <3>2 DEF Mixed
    <2>2. \A i \in 1 .. n : Mixed'[i] <= Mixed'[i]
        BY <1>4 DEF Numbers
    <2> QED BY <1>4, <2>1, <2>2, SumOfSmaller
<1>8. ASSUME pc \in {"copy", "show"}
      PROVE  /\ Len(snap.rows) <= task_count /\ (pc = "show" => Len(snap.rows) = task_count)
             /\ \A i \in 1 .. Len(snap.rows) : snap.rows[i] <= tasks'[i - 1].ticks_seen
             /\ snap.total <= SumFunction(Mixed')
    <2>1. /\ Len(snap.rows) <= n /\ (pc = "show" => Len(snap.rows) = task_count)
          /\ \A i \in 1 .. Len(snap.rows) : snap.rows[i] <= tasks[i - 1].ticks_seen
          /\ snap.total <= SumFunction(Mixed)
        BY <1>3, <1>8 DEF SumInv
    <2>2. Len(snap.rows) \in Nat /\ snap.rows \in [1 .. Len(snap.rows) -> Nat] /\ snap.total \in Nat
        BY <1>0, SumTypes DEF SumTyped
    <2>3. \A i \in 1 .. Len(snap.rows) : snap.rows[i] <= tasks'[i - 1].ticks_seen
        <3>1. \A i \in 1 .. Len(snap.rows) : i \in 1 .. n /\ snap.rows[i] \in Nat
            BY <2>1, <2>2
        <3> QED BY <1>2, <1>4, <2>1, <3>1
    <2> QED BY <1>3, <1>7, <2>1, <2>2, <2>3
<1>9. pc \in {"slice", "publish"} => tasks'[task_count].ticks_seen = 0
    <2>1. pc \in {"slice", "publish"} => task_count \in TaskSlots /\ current_index # task_count
        BY <1>0, SchedAssumption DEF SInv, TypeOK, Counts, Turn, TaskSlots, SpawnSteps, Binding
    <2> QED BY <1>2, <2>1 DEF SumInv
<1> QED BY <1>1, <1>6, <1>8, <1>9 DEF SumInv

\* Filling the entry after the last one shows nowhere.
LEMMA SumTask ==
    ASSUME SInv, SumInv, TaskId \/ TaskState \/ TaskSlice, MaxTicks < TickRange
    PROVE  SumInv'
<1>1. /\ UNCHANGED <<task_count, total_ticks, snap>> /\ pc \in {"id", "state", "slice"}
      /\ pc' \in {"state", "slice", "publish"} /\ (pc' = "slice" => TaskState) /\ (pc' = "publish" => TaskSlice)
    BY DEF TaskId, TaskState, TaskSlice
<1>2. task_count \in TaskSlots /\ task_count \in Nat /\ tasks \in [TaskSlots -> Task]
    BY <1>1, SchedAssumption DEF SInv, TypeOK, Counts, TaskSlots, SpawnSteps, Binding
<1>3. \A i \in TaskSlots : i # task_count => tasks'[i] = tasks[i]
    BY <1>2 DEF TaskId, TaskState, TaskSlice
<1>4. Seen' = Seen
    <2>1. \A i \in 1 .. task_count : i - 1 \in TaskSlots /\ i - 1 # task_count
        BY SumTypes DEF SumTyped
    <2>2. \A i \in 1 .. task_count : tasks'[i - 1].ticks_seen = tasks[i - 1].ticks_seen
        BY <1>3, <2>1
    <2> QED BY <1>1, <2>2 DEF Seen
<1>5. pc' \in {"slice", "publish"} => tasks'[task_count].ticks_seen = 0
    <2>1. CASE TaskState
        BY <1>2, <2>1 DEF TaskState, Task
    <2>2. CASE TaskSlice
        <3>1. tasks[task_count].ticks_seen = 0
            BY <2>2 DEF TaskSlice, SumInv
        <3> QED BY <1>2, <2>2, <3>1 DEF TaskSlice, Task
    <2> QED BY <1>1, <2>1, <2>2
<1>6. total_ticks = SumFunction(Seen)
    BY DEF SumInv
<1>7. pc' \notin {"copy", "show"}
    BY <1>1
<1> QED BY <1>1, <1>4, <1>5, <1>6, <1>7 DEF SumInv

\* A task becomes visible without a charge.
LEMMA SumPublish ==
    ASSUME SInv, SInv', SumInv, TaskPublish, MaxTicks < TickRange
    PROVE  SumInv'
<1>1. /\ UNCHANGED <<tasks, total_ticks>> /\ task_count' = task_count + 1
      /\ pc = "publish" /\ pc' = "bind"
    BY DEF TaskPublish
<1>2. SumTyped /\ SumTyped'
    BY SumTypes, PTL
<1>3. PICK n \in Nat : n = task_count
    BY <1>2 DEF SumTyped
<1>4. Numbers(Seen, n) /\ Numbers(Seen', n + 1)
    BY <1>1, <1>2, <1>3 DEF SumTyped
<1>5. (\A i \in 1 .. n : Seen'[i] = Seen[i]) /\ Seen'[n + 1] = 0
    <2>1. tasks[n].ticks_seen = 0 /\ (n + 1) - 1 = n
        BY <1>1, <1>3 DEF SumInv
    <2>2. \A i \in 1 .. n : i \in 1 .. n + 1
        OBVIOUS
    <2> QED BY <1>1, <1>3, <2>1, <2>2 DEF Seen
<1>6. SumFunction(Seen') = SumFunction(Seen) + 0
    BY <1>4, <1>5, SumOfLonger
<1>7. total_ticks = SumFunction(Seen) /\ total_ticks \in Int
    BY SchedAssumption DEF SumInv, SInv, TypeOK, TickCount
<1> QED BY <1>1, <1>6, <1>7 DEF SumInv

\* The total is copied first.
LEMMA SumStats ==
    ASSUME SInv, SumInv, scheduler_get_stats, MaxTicks < TickRange
    PROVE  SumInv'
<1>1. /\ UNCHANGED <<tasks, total_ticks, task_count>> /\ pc' = "copy"
      /\ snap' = [total |-> total_ticks, rows |-> <<>>]
    BY DEF scheduler_get_stats, sched
<1>2. snap'.total = total_ticks /\ snap'.rows = <<>> /\ Len(snap'.rows) = 0
    BY <1>1
<1>3. Seen' = Seen
    BY <1>1 DEF Seen
<1>4. Mixed' = Seen
    <2>1. \A i \in 1 .. task_count : ~(i <= Len(snap'.rows))
        BY <1>2
    <2> QED BY <1>1, <2>1 DEF Mixed, Seen
<1>5. total_ticks = SumFunction(Seen) /\ total_ticks \in Int /\ task_count \in Nat
    BY SchedAssumption, SumTypes DEF SumInv, SumTyped, SInv, TypeOK, TickCount
<1>6. snap'.total <= SumFunction(Mixed')
    BY <1>2, <1>4, <1>5
<1>7. Len(snap'.rows) <= task_count /\ \A i \in 1 .. Len(snap'.rows) : FALSE
    BY <1>2, <1>5
<1> QED BY <1>1, <1>3, <1>5, <1>6, <1>7 DEF SumInv

\* A row is copied as it is now.
LEMMA SumCopy ==
    ASSUME SInv, SumInv, scheduler_copy_tasks, MaxTicks < TickRange
    PROVE  SumInv'
<1>1. UNCHANGED <<tasks, total_ticks, task_count>> /\ pc = "copy"
    BY DEF scheduler_copy_tasks, sched
<1>2. Seen' = Seen /\ total_ticks = SumFunction(Seen)
    BY <1>1 DEF Seen, SumInv
<1>3. /\ Len(snap.rows) <= task_count /\ snap.total <= SumFunction(Mixed)
      /\ \A i \in 1 .. Len(snap.rows) : snap.rows[i] <= tasks[i - 1].ticks_seen
    BY <1>1 DEF SumInv
<1>4. SumTyped
    BY SumTypes
<1>5. CASE Len(snap.rows) < task_count
    <2> DEFINE m == Len(snap.rows)
               row == tasks[m].ticks_seen
    <2>1. pc' = "copy" /\ snap' = [snap EXCEPT !.rows = Append(@, row)]
        BY <1>5 DEF scheduler_copy_tasks
    <2>2. m \in Nat /\ m \in TaskSlots /\ m + 1 \in 1 .. task_count /\ (m + 1) - 1 = m /\ task_count \in Nat
        <3>1. m \in Nat /\ task_count \in Nat /\ m < task_count
            BY <1>4, <1>5 DEF SumTyped
        <3>2. m + 1 \in 1 .. task_count /\ (m + 1) - 1 = m
            BY <3>1
        <3> QED BY <1>4, <3>1, <3>2 DEF SumTyped
    <2>3. row \in TickCount /\ row \in Nat
        BY <2>2, SchedAssumption DEF SInv, TypeOK, Task, TickCount
    <2>4. /\ Len(snap'.rows) = m + 1 /\ snap'.rows[m + 1] = row
          /\ \A i \in 1 .. m : snap'.rows[i] = snap.rows[i]
          /\ snap'.total = snap.total
        <3>1. snap \in [total : TickCount, rows : Seq(TickCount)]
            BY DEF SInv, TypeOK
        <3>2. snap'.rows = Append(snap.rows, row) /\ snap'.total = snap.total
            BY <2>1, <3>1
        <3> HIDE DEF row
        <3> QED BY <2>3, <3>1, <3>2, AppendProperties
    <2>5. Mixed' = Mixed
        <3>1. ASSUME NEW i \in 1 .. task_count
              PROVE  (IF i <= m + 1 THEN snap'.rows[i] ELSE tasks[i - 1].ticks_seen)
                      = (IF i <= m THEN snap.rows[i] ELSE tasks[i - 1].ticks_seen)
            <4>1. i \in Nat /\ (i <= m => i \in 1 .. m) /\ (i <= m + 1 /\ ~(i <= m) => i = m + 1)
                BY <2>2
            <4>2. i <= m => i <= m + 1
                BY <2>2
            <4> QED BY <2>2, <2>4, <4>1, <4>2
        <3> QED BY <1>1, <2>4, <3>1 DEF Mixed
    <2>6. \A i \in 1 .. m + 1 : snap'.rows[i] <= tasks[i - 1].ticks_seen
        <3>1. \A i \in 1 .. m + 1 : i \in 1 .. m \/ i = m + 1
            BY <2>2
        <3>2. row <= row
            BY <2>3
        <3> QED BY <1>3, <2>2, <2>4, <3>1, <3>2
    <2>7. m + 1 <= task_count
        BY <2>2
    <2> HIDE DEF m, row
    <2> QED BY <1>1, <1>2, <1>3, <2>1, <2>4, <2>5, <2>6, <2>7 DEF SumInv
<1>6. CASE ~(Len(snap.rows) < task_count)
    <2>1. pc' = "show" /\ snap' = snap
        BY <1>6 DEF scheduler_copy_tasks
    <2>2. Mixed' = Mixed
        BY <1>1, <2>1 DEF Mixed
    <2>3. Len(snap.rows) = task_count
        BY <1>3, <1>4, <1>6 DEF SumTyped
    <2> QED BY <1>1, <1>2, <1>3, <2>1, <2>2, <2>3 DEF SumInv
<1> QED BY <1>5, <1>6

LEMMA SumStep == EInv /\ SumInv /\ [Next]_vars => SumInv'
<1> SUFFICES ASSUME EInv, SumInv, [Next]_vars, MaxTicks < TickRange PROVE SumInv'
    BY DEF SumInv
<1>1. SInv /\ EInv' /\ SInv'
    BY EInvStep DEF EInv
<1>2. CASE timer_interrupt_handler
    BY <1>1, <1>2, SumTick
<1>3. CASE TaskId \/ TaskState \/ TaskSlice
    BY <1>1, <1>3, SumTask
<1>4. CASE TaskPublish
    BY <1>1, <1>4, SumPublish
<1>5. CASE scheduler_get_stats
    BY <1>1, <1>5, SumStats
<1>6. CASE scheduler_copy_tasks
    BY <1>1, <1>6, SumCopy
<1>7. CASE SpawnRefused \/ Spawn \/ ProcessBind \/ ProcessBorn \/ ProcessPublish \/ Show
    <2>1. UNCHANGED <<tasks, task_count, total_ticks>> /\ pc' \notin {"slice", "publish", "copy", "show"}
        BY <1>7 DEF SpawnRefused, Spawn, ProcessBind, ProcessBorn, ProcessPublish, Show, sched
    <2>2. Seen' = Seen
        BY <2>1 DEF Seen
    <2> QED BY <2>1, <2>2 DEF SumInv
<1>8. CASE UNCHANGED vars
    <2>1. UNCHANGED <<tasks, task_count, total_ticks, pc, snap>>
        BY <1>8 DEF vars, sched
    <2>2. Seen' = Seen /\ Mixed' = Mixed
        BY <2>1 DEF Seen, Mixed
    <2> QED BY <2>1, <2>2 DEF SumInv
<1> QED BY <1>2, <1>3, <1>4, <1>5, <1>6, <1>7, <1>8 DEF Next, Continue

LEMMA EInvInit == Init => EInv
<1> SUFFICES ASSUME Init PROVE NoWrap /\ EvenShares
    BY SInvInit DEF EInv
<1>1. \A i \in TaskSlots : tasks[i].ticks_seen = 0
    BY DEF Init, Registered, NoTask
<1> QED BY <1>1, BootSlots, SchedAssumption DEF Init, NoWrap, EvenShares

LEMMA SumInit == Init => SumInv
<1> SUFFICES ASSUME Init PROVE SumInv
    OBVIOUS
<1>1. SumTyped /\ task_count = 2 /\ total_ticks = 0 /\ pc = "idle"
    BY SInvInit, SumTypes DEF Init
<1>2. \A i \in 1 .. task_count : Seen[i] = 0
    <2>1. \A i \in TaskSlots : tasks[i].ticks_seen = 0
        BY DEF Init, Registered, NoTask
    <2> QED BY <1>1, <2>1 DEF Seen, SumTyped
<1>3. SumFunction(Seen) = 0
    BY <1>1, <1>2, SumOfZeros DEF SumTyped
<1> QED BY <1>1, <1>3 DEF SumInv

\* scheduler_get_stats and scheduler_copy_tasks: whatever ticks come during the copy,
\* the rows that `sched` prints sum to no less than the total it prints and no more
\* than the present one, until a counter wraps.
THEOREM SnapshotIsBetween == Spec => []SnapshotBetween
<1>1. Init => EInv /\ SumInv
    BY EInvInit, SumInit
<1>2. EInv /\ SumInv /\ [Next]_vars => EInv' /\ SumInv'
    BY EInvStep, SumStep
<1>3. EInv /\ SumInv => SnapshotBetween
    <2> SUFFICES ASSUME EInv, SumInv, pc = "show", MaxTicks < TickRange
                 PROVE  /\ Len(snap.rows) = task_count
                        /\ snap.total <= SumFunction(snap.rows)
                        /\ SumFunction(snap.rows) <= total_ticks
        BY DEF SnapshotBetween
    <2>1. /\ Len(snap.rows) = task_count /\ total_ticks = SumFunction(Seen) /\ snap.total <= SumFunction(Mixed)
          /\ \A i \in 1 .. Len(snap.rows) : snap.rows[i] <= tasks[i - 1].ticks_seen
        BY DEF SumInv
    <2>2. SumTyped
        BY SumTypes DEF EInv
    <2>3. PICK n \in Nat : n = task_count
        BY <2>2 DEF SumTyped
    <2>4. Numbers(snap.rows, n) /\ Numbers(Seen, n) /\ Numbers(Mixed, n)
        BY <2>1, <2>2, <2>3 DEF SumTyped, Numbers
    <2>5. \A i \in 1 .. n : snap.rows[i] \in Int /\ Mixed[i] <= snap.rows[i] /\ snap.rows[i] <= Seen[i]
        <3>1. \A i \in 1 .. n : snap.rows[i] \in Int
            BY <2>4 DEF Numbers
        <3> QED BY <2>1, <2>3, <3>1 DEF Mixed, Seen
    <2>6. SumFunction(Mixed) <= SumFunction(snap.rows) /\ SumFunction(Mixed) \in Int
        BY <2>4, <2>5, SumOfSmaller
    <2>7. SumFunction(snap.rows) <= SumFunction(Seen) /\ SumFunction(snap.rows) \in Int
        BY <2>4, <2>5, SumOfSmaller
    <2>8. snap.total \in Int
        BY <2>2 DEF SumTyped
    <2> QED BY <2>1, <2>6, <2>7, <2>8
<1> QED BY <1>1, <1>2, <1>3, PTL DEF Spec

=============================================================================
