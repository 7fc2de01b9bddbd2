----------------------------- MODULE MrtkContext -----------------------------
(***************************************************************************)
(* The kernel of MrtkKernel on the CPU of the F28377D: what the context    *)
(* switch, the tick interrupt and the first contexts do to the registers,  *)
(* to the stacks of the tasks and to the three gates a tick has to pass,   *)
(* INTM, the INT1 bit of IER and PIEACK.  Here the masks decide whether a  *)
(* tick is taken, and RestoreContext overwrites the IER a frame has saved. *)
(*                                                                         *)
(* A register holds the name of the code that last wrote it; a stack holds *)
(* the frames of the switch code.  The frames of C calls are not modelled. *)
(***************************************************************************)
EXTENDS MrtkKernel, SequencesExt

\* What TRAP and an interrupt push, 32 bits at a time, in this order.
HwWords == <<"T_ST0", "AH_AL", "PH_PL", "AR1_AR0", "DP_ST1", "DBGSTAT_IER", "PC">>

CpuWords == <<"AR1H_AR0H", "XAR2", "XAR3", "XAR4", "XAR5", "XAR6", "XAR7", "XT", "RPC">>

FpuWords == <<"R0H", "R1H", "R2H", "R3H", "R4H", "R5H", "R6H", "R7H", "STF", "RB">>

Words == ToSet(HwWords \o CpuWords \o FpuWords)

TASK_CONTEXT_HALF == 32

\* The STACK words that the demos and mrtk_Init give a task.
TASK_CONTEXT_SIZE == 64

VARIABLES
    reg,      \* the registers: who wrote each, and the mask bit it holds
    stack,    \* the words between the start of a task's stack and its SP
    PIEACK,   \* a tick was taken and has not been acknowledged
    written   \* history: what a task's own code last wrote in the registers

cpu == <<reg, stack, PIEACK, written>>

(* The registers when the code `by` has written all of them.  A mask bit    *)
(* is kept in the word it is saved with: INTM with ST1, INT1 with IER.      *)
RegistersOf(by, intm, int1) ==
    [w \in Words |-> [by |-> by, word |-> w,
                      on |-> \/ w = "DP_ST1" /\ intm
                             \/ w = "DBGSTAT_IER" /\ int1]]

INTM == reg["DP_ST1"].on

INT1 == reg["DBGSTAT_IER"].on

\* The macros of the port; DBGM, which they set with INTM, masks no tick.
Dint(file) == [file EXCEPT !["DP_ST1"].on = TRUE]

Eint(file) == [file EXCEPT !["DP_ST1"].on = FALSE]

-----------------------------------------------------------------------------
(* A machine is the registers and the stack in use. *)
Push(m, words) ==
    [m EXCEPT !.stk = @ \o [i \in DOMAIN words |-> m.reg[words[i]]]]

\* How far from the top of the stack a word lies, when words are popped in order.
Depth(words, w) == CHOOSE i \in DOMAIN words : words[i] = w

Pop(m, words) ==
    [reg |-> [w \in Words |-> IF w \in ToSet(words)
                             THEN m.stk[Len(m.stk) + 1 - Depth(words, w)]
                             ELSE m.reg[w]],
     stk |-> SubSeq(m.stk, 1, Len(m.stk) - Len(words))]

\* What the switch code itself computes with: ACC and XAR0, XAR1.
Scratch(m) ==
    [m EXCEPT !.reg = [w \in Words |->
        IF w \in {"T_ST0", "AH_AL", "AR1_AR0", "AR1H_AR0H"}
        THEN [by |-> <<NoOwner, "switch">>, word |-> w, on |-> FALSE]
        ELSE m.reg[w]]]

Trap(m) == [Push(m, HwWords) EXCEPT !.reg = Dint(@)]

Iret(m) == Pop(m, Reverse(HwWords))

SaveContextLate(m) == Push(Push(Scratch(m), CpuWords), FpuWords)

SaveContext(m) == Push(Scratch(Push(m, CpuWords)), FpuWords)

OverwriteNothing(m) == m

\* The saved IER is under the PC and AR1H:AR0H: it becomes the current one.
OverwriteIER(m) ==
    [m EXCEPT !.stk[Len(m.stk) - 2].on = m.reg["DBGSTAT_IER"].on]

RestoreContext(m) ==
    LET fpu == Pop(m, <<"RB", "STF", "R7H", "R6H", "R5H", "R4H", "R3H", "R2H", "R1H", "R0H">>)
        low == Pop(fpu, <<"RPC", "XT", "XAR7", "XAR6", "XAR5", "XAR4", "XAR3", "XAR2">>)
    IN  Pop(OverwriteIER(Scratch(low)), <<"AR1H_AR0H">>)

\* Made outside of a critical section.
taskcontextinitOpen(t) ==
    Push([reg |-> RegistersOf(<<t, "start">>, FALSE, FALSE), stk |-> <<>>],
         HwWords \o CpuWords \o FpuWords).stk

(* The context of a new task.  mrtk_CreateTask makes it inside a critical   *)
(* section, so the ST1 that it copies from the CPU has interrupts off.      *)
mrtk_taskcontextinit(t) ==
    Push([reg |-> RegistersOf(<<t, "start">>, TRUE, FALSE), stk |-> <<>>],
         HwWords \o CpuWords \o FpuWords).stk

\* A task that was switched out goes on in mrtk_sched, which turns interrupts
\* on; a new task starts with the ST1 of its context.
Resumed(file) == IF file["PC"].by[2] = "start" THEN file ELSE Eint(file)

(* _RTOSINT_Handler, by TRAP, with TaskToSleepSP and TaskToExecuteSP set.   *)
ContextSwitch(run, hgh) ==
    LET slept == SaveContext(Trap([reg |-> reg, stk |-> stack[run]]))
        runs  == Iret(RestoreContext(Scratch([reg |-> slept.reg, stk |-> stack[hgh]])))
    IN  /\ reg' = Resumed(runs.reg)
        /\ stack' = [stack EXCEPT ![run] = slept.stk, ![hgh] = runs.stk]

\* The end of mrtk_sched, which has chosen RunningTask'.
SchedContext ==
    /\ IF RunningTask' # RunningTask
       THEN ContextSwitch(RunningTask, RunningTask')
       ELSE reg' = Eint(reg) /\ UNCHANGED stack
    /\ UNCHANGED <<PIEACK, written>>

-----------------------------------------------------------------------------
\* After mrtk_BoardInit, mrtk_Init and mrtk_CreateTask: no interrupt enabled.
ContextInit ==
    /\ Init
    /\ reg = RegistersOf(<<NoOwner, "boot">>, FALSE, FALSE)
    /\ stack = [t \in Tasks |-> mrtk_taskcontextinit(t)]
    /\ PIEACK = FALSE
    /\ written = [t \in Tasks |-> "start"]

\* mrtk_systick_init enables INT1.
systick_init == RegistersOf(<<NoOwner, "boot">>, FALSE, TRUE)

\* _Starthghrdyprio leaves the stack of main for that of the first task.
Starthghrdyprio ==
    /\ Start
    /\ LET runs == Iret(RestoreContext(Scratch(
                      [reg |-> systick_init, stk |-> stack[RunningTask']])))
       IN  reg' = runs.reg /\ stack' = [stack EXCEPT ![RunningTask'] = runs.stk]
    /\ UNCHANGED <<PIEACK, written>>

\* A task computes, and leaves a critical section.
Compute(t) ==
    /\ \E v \in {"one", "two"} \ {written[t]} :
          /\ written' = [written EXCEPT ![t] = v]
          /\ reg' = Eint(RegistersOf(<<t, v>>, INTM, INT1))
    /\ UNCHANGED <<stack, PIEACK>>

\* The CPU takes a tick when no gate is shut.
TickOpen == ~INTM /\ INT1 /\ ~PIEACK

(* The hardware pushes its words and shuts all gates; cpu_timer0_isr saves  *)
(* what else it uses, and mrtk_tick turns interrupts off for its loop.      *)
TickInterrupt ==
    /\ TickOpen
    /\ TickTaken
    /\ stack' = [stack EXCEPT ![RunningTask] =
                    Push([reg |-> reg, stk |-> @], HwWords \o CpuWords \o FpuWords).stk]
    /\ reg' = Dint(RegistersOf(<<RunningTask, "isr">>, INTM, FALSE))
    /\ PIEACK' = TRUE
    /\ UNCHANGED written

\* The acknowledge and the return from cpu_timer0_isr.
TickReturn ==
    /\ AckTick
    /\ PIEACK' = FALSE
    /\ LET back == Pop([reg |-> reg, stk |-> stack[RunningTask]],
                       Reverse(HwWords \o CpuWords \o FpuWords))
       IN  reg' = back.reg /\ stack' = [stack EXCEPT ![RunningTask] = back.stk]
    /\ UNCHANGED written

ContextNext ==
    \/ (\E t \in Users : PlaceTask(t)) /\ UNCHANGED cpu
    \/ Starthghrdyprio
    \/ \E t \in Tasks : KernelCall(t) /\ Compute(t)
    \/ \E t \in Users, d \in WaitTimes : WaitBegin(t, d) /\ Compute(t)
    \/ \E t \in Users : WaitSched(t) /\ SchedContext
    \/ TickInterrupt
    \/ (TickSkip \/ TickDelay \/ TickWake) /\ UNCHANGED cpu
    \/ TickSched /\ SchedContext
    \/ TickReturn

ContextSpec == ContextInit /\ [][ContextNext]_<<vars, cpu>>

-----------------------------------------------------------------------------
\* The code that the running task is in: the interrupt's, or its own.
RunningCode ==
    <<RunningTask, IF isrOwner = RunningTask THEN "isr" ELSE written[RunningTask]>>

(* Whatever switches and ticks have come between two instructions of a     *)
(* task, it finds every register, its PC included, as it left it, and a    *)
(* new task finds those of its first context (mrtk_contextswitch.asm:104). *)
RegistersKept ==
    MrtkRunning =>
        \A w \in Words : reg[w].by = RunningCode /\ reg[w].word = w

(* No tick is masked but where the kernel needs it: the masks are open in  *)
(* every task that is past its first critical section, as soon as the      *)
(* last tick has been acknowledged, although each frame has an IER of its  *)
(* own, and that of a new task is 0 (mrtk_contextswitch.asm:35).           *)
TicksNotMasked ==
    MrtkRunning /\ isrOwner = NoOwner /\ pc[RunningTask] # "new" => TickOpen

(* Frames do not pile up: a task has at most one interrupt frame and one   *)
(* switch frame on its stack, and they fit in the TASK_CONTEXT_SIZE words  *)
(* that mrtk_Init gives the idle task and never checks (mrtk.c:213).       *)
StackFits == \A t \in Tasks : Len(stack[t]) <= TASK_CONTEXT_SIZE

(* The CPU's masks implement the rule of MrtkKernel for when a tick may be *)
(* taken: with them, every behaviour is one of the kernel's.               *)
KernelImplemented == Spec
=============================================================================
