------------------------------ MODULE MCMachine ------------------------------
(***************************************************************************)
(* The parts under the kernel's subsystems, which share no variable: a      *)
(* behaviour is one of one part, the focus, and the others stay as they     *)
(* are, since their steps in between would change nothing. Of the scheduler *)
(* this is the instance with a tick counter that wraps, without end, which  *)
(* liveness needs; Sched.cfg counts ticks exactly.                          *)
(***************************************************************************)
EXTENDS Kheap, AtaSelfTest, Irq, Mouse, Console, Vmm

CONSTANTS SCHED_MAX_TASKS, PROCESS_MAX, TimeSlice, TickRange, MaxTicks

VARIABLES
    ticks, tasks, task_count, current_index, total_ticks, next_task_id, slice_progress,
    processes, process_count, next_pid, sched_pc, snap, reply,
    focus

S == INSTANCE Sched WITH pc <- sched_pc

MouseDeltas == {-1, 1}

heapVars == <<heap_start, heap_current, heap_end, allocation_count, pc, blocks, dirty>>
schedVars ==
    <<ticks, tasks, task_count, current_index, total_ticks, next_task_id, slice_progress,
      processes, process_count, next_pid, sched_pc, snap, reply>>
hardwareVars == <<irqVars, mouseVars, consoleVars>>
machineVars == <<focus, heapVars, diskTestVars, hardwareVars, vmmVars, schedVars>>

MachineInit ==
    /\ focus \in {"heap", "disk", "irq", "mouse", "console", "vmm", "sched"}
    /\ Init /\ DiskTestInit /\ IrqInit /\ MouseInit /\ ConsoleInit /\ VmmInit /\ S!Init

IrqFocus(A) ==
    focus = "irq" /\ A
    /\ UNCHANGED <<focus, heapVars, diskTestVars, mouseVars, consoleVars, vmmVars, schedVars>>

SchedFocus(A) ==
    focus = "sched" /\ A /\ UNCHANGED <<focus, heapVars, diskTestVars, hardwareVars, vmmVars>>

MachineNext ==
    \/ /\ focus = "heap" /\ Next
       /\ UNCHANGED <<focus, diskTestVars, hardwareVars, vmmVars, schedVars>>
    \/ /\ focus = "disk" /\ DiskTestNext
       /\ UNCHANGED <<focus, heapVars, hardwareVars, vmmVars, schedVars>>
    \/ /\ focus = "mouse" /\ MouseNext
       /\ UNCHANGED <<focus, heapVars, diskTestVars, irqVars, consoleVars, vmmVars, schedVars>>
    \/ /\ focus = "console" /\ ConsoleNext
       /\ UNCHANGED <<focus, heapVars, diskTestVars, irqVars, mouseVars, vmmVars, schedVars>>
    \/ /\ focus = "vmm" /\ VmmNext
       /\ UNCHANGED <<focus, heapVars, diskTestVars, hardwareVars, schedVars>>
    \/ IrqFocus(IrqNext)
    \/ SchedFocus(S!Next)

\* The fairness of Irq.tla and Sched.tla; the other parts need none.
MachineSpec ==
    /\ MachineInit /\ [][MachineNext]_machineVars
    /\ WF_machineVars(IrqFocus(Boot)) /\ WF_machineVars(IrqFocus(Accept))
    /\ WF_machineVars(IrqFocus(idt_dispatch))
    /\ WF_machineVars(SchedFocus(S!timer_interrupt_handler)) /\ WF_machineVars(SchedFocus(S!Continue))

\* scheduler.c: round robin starves nobody: in the instance whose ticks never end,
\* every registered task has its turn again and again.
EveryTaskRuns == focus = "sched" => S!EveryTaskRuns

\* process.c and shell.c: every creation and every listing ends, whatever the timer does.
CallsReturn == focus = "sched" => S!CallsReturn
=============================================================================
