# A TLA+ development of MRTK

MRTK is a small real-time kernel for multicore microcontrollers: tasks are
partitioned over the CPUs before the start, and every CPU schedules its own
tasks by earliest deadline first (EDF). This directory holds a TLA+ model of its kernel
(`src/kernel`) and of the port to the two-core F28377D
(`src/portings/F28377D`), the TLC configurations that check it, and theorems
about it with proofs checked by TLAPS.

Paths below are relative to the repository's `src/` directory.

## 1. Inventory

### The system's parts

| part | source | state | operations |
|---|---|---|---|
| deadline queues | `kernel/src/mrtk_heap.c` | per CPU a ready and a waiting row of `HEAP` entries, `last_element`, `full_level` | insert, remove first, remove by task, swap, nearest |
| scheduler | `kernel/src/mrtk_sched.c`, `mrtk_contextswitch.asm` | `RunningTasks`, `MrtkRunning`, State of the TCBs | `mrtk_sched`, the switch |
| partition | `kernel/src/mrtk_sched.c` | `TasksToPartitioned`, `ProcessorCapacityList`, `TaskPerProcAllocation` | `mrtk_partitioned`, the two sorts, the feasibility test |
| waits and tick | `kernel/src/mrtk_eventhandler.c`, `mrtk_port_timer.c` | `MrtkTime_ms`, `Delay`, nesting counter, the interrupt's acknowledge | `mrtk_wait`, `mrtk_tick`, `mrtk_exitinterrupt`, `systickhandler` |
| start | `kernel/src/mrtk.c` | all tables | `mrtk_Init`, `mrtk_start` |
| tasks | `kernel/src/mrtk_task.c` | `TaskTcbTable` | `mrtk_CreateTask`, `mrtk_DeleteTask` |
| multicore lock | `kernel/src/mrtk_sync.c`, `mrtk_port_sync.c` | `Choosing`, `Number`, deadline, one of each per CPU, in shared RAM | `mrtk_InitLock`, `mrtk_lock`, `mrtk_unlock` |
| semaphores | `kernel/src/mrtk_sem.c` | event table, counter, waiting queue of the CPU | create, pend with or without timeout, post |
| message queues | `kernel/src/mrtk_msgqueue.c` | ring, indices, count, `TaskId` of the event | create, pend, post |
| contexts | `mrtk_contextswitch.asm`, `mrtk_port.c`, `mrtk_port_timer.c` of the port | registers, stacks, `INTM`, `IER`, `PIEACK` | first context, save, restore, tick entry and return |
| priority table | `kernel/src/mrtk_priotable.c` | two tables that nothing reads | four searches for a set bit, called by nobody |
| pandaboard port | `portings/pandaboard_dualcortexm3` | registers, timers, bit-band lock bytes | those of an older kernel |

### How they interact

* A task calls `mrtk_wait`, a semaphore or a queue. Each call changes its TCB and
  the queues inside a critical section (interrupts off), leaves it, and calls
  `mrtk_sched`, which takes the head of the ready queue in a critical section of
  its own and switches if it is another task. The calls come back from
  `mrtk_sched` when the task is switched in again.
* The tick interrupt increments the time, counts the delay of every `SUSPENDED`
  task down, makes those at zero `READY`, and calls `mrtk_sched` at its end. The
  interrupt is acknowledged only when `systickhandler` has come back, that is,
  when the interrupted task runs again.
* `mrtk_sched` hands two stack pointers to a `TRAP` handler, which saves all registers
  on one stack and loads them from the other; a tick pushes a frame on the stack of the
  task that it interrupts. The masks in these frames decide when the next tick can come.
* `mrtk_DeleteTask` clears a TCB inside a critical section and calls `mrtk_sched` there.
* Every CPU runs its own binary with its own copy of the kernel's tables. The
  only state that two CPUs share is the words of the lock.

### What is hard

* *Interleavings on one CPU.* A tick fits between any two critical sections:
  between the suspension and the switch of `mrtk_wait`, between the test
  of a counter and the switch of a pend, between the post and the switch of a poster.
  What the task that then runs does, a post for example, happens inside the call of the
  task that was switched out.
* *The owed acknowledge.* A tick that switches tasks leaves the hardware blocked
  until the interrupted task runs again.
* *Frames.* A task may hold an interrupt frame with a switch frame on top of it, each with
  masks of its own; registers are used before they are saved, and after they are loaded.
* *Two CPUs.* Each access of the lock to a shared word interleaves with those of
  the other CPU; the words have no initial value, are compared in 32 bits and read in 16.
* *The heap's arithmetic.* `i << 1 + 1` is `i << 2`; the swap uses a 32-bit
  temporary for a 64-bit deadline; a removal by name may leave a hole.
* *Timeouts.* A post may come between the tick that ends a timeout and the moment
  its task runs.
* *Stale state.* The queue keeps copies of deadlines; an event remembers the last
  task that blocked on it; a released task keeps the State that its pend gave it.

### What makes each part correct

* *Queue*: nothing is lost, doubled or changed, and the head is the nearest deadline.
* *Kernel*: a task is in exactly one place; a wait ends at its tick; the ready
  task with the nearest deadline runs; the owed acknowledge comes; a deleted task
  does not run.
* *Contexts*: a task finds its registers as it left them, ticks are not masked, frames fit.
* *Partition*: what is placed can meet its deadlines; what is accepted is placed once.
* *Lock*: exclusion, order of service, no deadlock or starvation.
* *Semaphore*: tokens are neither lost nor made; a released task runs.
* *Message queue*: a bounded FIFO channel whose receiver does not sleep on a message, and
  whose posts make nobody ready who is not asleep.

`PROJECT.json` lists the hazards at their lines, with the properties meant for each.

## 2. The modules

```
MrtkHeap (operators) ── MrtkQueue ── (abstract) DeadlineQueue
   │                       └ MrtkQueueProofs ── MrtkHeapProofs
   ├── MrtkPartition ── MrtkAlgorithmProofs ── MrtkHeapProofs
   └── MrtkKernel ── MrtkTask ── MrtkKernelProofs ── MrtkHeapProofs
             ├── MrtkContext (implements MrtkKernel)
             │         └ MrtkContextProofs (over MrtkKernelProofs)
             ├── MrtkSem ── MrtkSemProofs (over MrtkKernelProofs)
             └── MrtkMsgQueue ── (abstract) MessageChannel
                       └ MrtkMsgQueueProofs
MrtkPrioTable (operators) ── MrtkAlgorithmProofs
MrtkLock ── (abstract) AbstractLock
   └ MrtkLockProofs
```

`MC<Module>` gives a module's function-valued constants their values for TLC. `MCMsgUses`
also joins the two specifications of `MrtkMsgQueue` in one run: each behaviour chooses one.

**MrtkHeap** translates `mrtk_heap.c` as operators on one queue
`[tab, last, full]`. The sift loops are a bounded composition of one turn (a row
has 59 entries, so five or four turns are enough): no recursion, so that the
provers can reason about them. `MinChild` looks at `2i` and `4i`, as the C
expression does; `SwapQueueItems` cuts one deadline to 32 bits.

**MrtkQueue** is one queue as a state machine: `ReadySpec` inserts and takes
the head, `WaitingSpec` also removes by name. **DeadlineQueue** is the set of entries
it promises to be; the refinement mapping is `held <- Held(queue)`.

**MrtkKernel** is the kernel of one CPU. A step is a critical section:
`PlaceTask` and `Start` (the tail of `mrtk_partitioned`, `mrtk_start`),
`KernelCall` (the code of a task, as far as it first enables interrupts),
`WaitBegin` and `WaitSched` (the two halves of `mrtk_wait`), and the tick,
`TickBegin` (time, ownership of the acknowledge), one of `TickSkip`, `TickDelay`,
`TickWake` per turn of the loop of `mrtk_tick`, `TickSched` (`mrtk_exitinterrupt`),
`AckTick`. `Sched` is `mrtk_sched`, with the context switch: the program counter
`pc[t]` of the task switched out stays where it is.

**MrtkTask** adds `DeleteTask` to it: one critical section, `SchedFrom` included, for every
task that `mrtk_DeleteTask` does not refuse. Once the CPU has been switched to a cleared
TCB, whose stack pointer is NULL, the model stands still (`StackLost`).

**MrtkContext** composes the kernel with the CPU: every action of `MrtkKernel` is joined
with what it does to `reg`, `stack` and `PIEACK`. A register holds the name of the code
that last wrote it, so a stale or a foreign value shows. `SaveContext`, `RestoreContext`
and `OverwriteIER` are the macros of `mrtk_contextswitch.asm`, word by word where the
order matters. Here `TickInterrupt` has no rule of the kernel's as its guard:
the masks decide, and the kernel (`KernelImplemented == Spec`) is what it must implement.

**MrtkPrioTable** has the four bit searches, on words that are sets of bits.

**MrtkSem** and **MrtkMsgQueue** extend the kernel with the two sections of a pend, around
the switch (`SemBlock`/`SemSched`/`SemReturn`, `QpendBlock`/`QpendSched`/
`QpendReturn`, `QpendTimeout`), and with the section and the switch of a post.
**MessageChannel** is the bounded FIFO sequence that the ring implements, by
`channel`, the messages between `QOut` and `QIn`. `MrtkMsgQueue` has three specifications
of the calls and ticks around the same actions:
* `DemoSpec`: the calls of `demos/four_tasks_demo.c`, ticks at any time. A post may find
  the receiver ready already (`msgq_empty`);
* `DemoIdleSpec`: the same calls, and the tasks have made their first calls when the first
  tick comes, so it finds the idle task. It then owes the acknowledge whenever another
  task runs, the hardware holds the tick back, and *every* tick finds it
  (`EveryTickFindsIdle`). No call is ever interrupted;
* `KeepsUpSpec`: any calls, and ticks at any time, inside a call as well. Instead it takes
  for granted what it is about: that a post finds its receiver asleep in `mrtk_Qpend` or on
  its way to sleep.

**MrtkPartition** is `main` up to `mrtk_start`: `CreateTask` in any order,
`BeginPartition` (the sort by capacity), one turn of the placing loop per step
(`PlaceTask`, `GiveUp`), `Start`. `IsEdfSchedulingFeasible` is the code's test.

**MrtkLock** is the bakery of `mrtk_sync.c`, with a step for every access to a word
that the other CPU may write. `TakeNumber` has both outcomes of a read the compiler
may or may not repeat, as the pointers are not `volatile`. `Uint16Of` is the cast of
every read that uses a word's value; the comparison of two numbers is of whole words.
**AbstractLock** is a lock without algorithm: a task asks, joins those that wait, at a
place in their `order` that is settled then, behind all who waited when it asked, and gets
in when nobody is before it. Of the bakery, `Ask` is the flag that is raised, `Join` the
one store of the number, and `order` the order of the numbers, then of the deadlines.

### What the models assume

Where the code depends on a usage rule or on the hardware, the rule is written down here.

* *Interrupts.* They do not nest; a tick is pending at most once while it is not
  acknowledged. The tick that could come inside `mrtk_start`, between the start of the
  timer and the first task, is left out: the timer has just been loaded.
* *Bounds.* `MaxTime` bounds the time (no tick past it), so no deadline reaches
  2^32; `MaxNumber` bounds the numbers of the lock; `MaxTokens`, the posts of a
  signaller; `MaxEntries` and `MaxSearched`, the entries of a queue.
* *Heap.* `TaskId` of an entry never used is the value it would have after a removal:
  the code reads neither. Reads past the row by a removal by name with
  an index of 15 or more are not reached (`MaxSearched`).
* *Kernel.* The tasks are those placed on this CPU; the other CPU's kernel is the same
  model with `CpuId` 1.
* *Deletion.* A deleted task is not created again, and nothing is deleted before the start.
* *Contexts.* The C compiler's own saves are not visible here: a call returns with the
  stack it was entered with, and `cpu_timer0_isr`, an `interrupt` function, saves all that
  the hardware does not. `DBGM` masks no tick. Between `mrtk_systick_init` and the first
  task interrupts are on, and no tick comes (see *Interrupts*).
* *Semaphores.* A task takes a semaphore once and posts what it holds, or signals.
* *Message queue.* The receiver is not task 0. Either the queue is used as in
  `demos/four_tasks_demo.c` (a sender waits before each post, a receiver does not call
  `mrtk_wait` once it has blocked on the queue) and the first tick finds the idle task,
  or the receiver keeps up (`KeepsUp`): it is in `mrtk_Qpend` and sleeps whenever one
  posts, and no wait or timeout is of one tick.
* *Partition.* Float32 is replaced by exact fractions (`Scale`, a common multiple of
  the periods); deadlines are within periods, as `kernel/inc/mrtk_task.h:15` asks, and
  periods below 2^32; the usage is 1 to 99 per cent; the arguments are valid. A row of
  a queue has room for `NB_USERS_TASK_MAX` tasks and two more entries, as in the
  configuration (56 tasks, 59 entries).
* *Lock.* One task of each CPU uses it (`OneTaskPerCpu`), the deadlines differ in 16
  bits (`DistinctDeadlines`: the code compares them there), numbers stay below
  2^16 (`NoWrap`), and a number left in the RAM is within the same bound
  (`StaleNumbersFit`); stale flags and deadlines may be any 32-bit words. A number and the
  two stored deadlines are read in one step, as a stored deadline does not change.

## 3. The runs

Each passing run checks a type invariant, and properties that several steps, or
several actors, are needed to break. Every property has at least one mutation of a
modelled definition that breaks it in its own run (`PROJECT.json`, "mutants").

| run | instance | what it shows |
|---|---|---|
| `queue` | 5 tasks, 3 deadlines, up to 5 entries, removals by name from at most 2 | well formed (`QueueOK`, `LevelOK`); an entry inserted nearest of all comes first; the entries at 1, 2, 4, 8 stay in order with the two children that the code looks at; the queue implements the set of entries (`KeepsEntries`) |
| `kernel` | 3 tasks, waits of 2 or 3 ticks, 6 ticks, a tick anywhere, deletions | no task lost, queued twice or under a stale key, whatever is deleted; every wait ends at its tick; the owed acknowledge comes; a switch goes to the nearest ready task |
| `context` | 2 tasks, waits of 1 or 2 ticks, 4 ticks | registers kept across switches and ticks; no tick masked but where the kernel needs it; frames fit in 64 words; the CPU implements the kernel |
| `partition` | 4 tasks of 5 shapes in any order, 2 CPUs, 90 per cent | what is placed meets its deadlines by the *exact* demand, though the code tests an upper bound up to a limit; TRUE means everything placed once; both lists are in order when read |
| `lock` | one task per CPU, words of 8 bits cut to 4, three stale values of each kind | exclusion, first come first served, `AbstractLock`; every task served, when the words were zero |
| `sem` | 3 tasks, a binary semaphore, one signaller, no timeouts | tokens conserved up to the release of a waiter; one queue per task; the nearest waiter is released |
| `msgq` | sender, receiver, a bystander, 2 cells, 2 messages, timeouts; the calls of the demo, or ticks and calls at any time to a receiver that keeps up | a FIFO channel across the wrap of the indices; no message missed, one that is posted between the test of `QEntries` and the switch included; a message there for each pend released; a post of the demo finds its receiver asleep |

Each takes seconds, `msgq` (404 864 states) about twenty. The bounds are enough for the
cases that matter: four entries are where the child index first goes wrong, and five
reach the third level; three tasks make a chain of two preemptions; six ticks are two
complete longest waits of each task, with the window of `mrtk_wait` hit in between; two tasks and
the idle task have every pair of frames (first, switched out, interrupted and switched out);
two cells make the ring wrap at both ends; five ticks let a tick fall into `mrtk_Qpend`,
a post follow it there, and a second pend time out; numbers of 0, 1 and 3 put a stale
number below, at and above a fresh one, and a word of 16 reads as 0 in four bits.

### Disagreements between the code and what is said of it

Five runs check one property each, a statement of a document or comment that the code
does not keep. TLC shows how. `PROJECT.json` quotes the lines ("findings").

| run | property | what happens |
|---|---|---|
| `queue_nearest` | `NearestFirst` | with four entries the head of the queue is not the nearest: `i << 1 + 1` is the grandchild |
| `kernel_edf` | `RunsNearest` | `mrtk_sched` never compares the running task, so the switch at the end of a tick takes the CPU from the nearest task and gives it to a later deadline, or to the idle task |
| `task_deleted` | `DeletedNotElected` | a `READY` task that is deleted keeps its entry in the ready queue, and is elected with a NULL stack |
| `sem_lost` | `ReleasedNotLost` | a task released by a post runs in State `WAITING`; preempted, it is in no queue |
| `msgq_empty` | `ThereIsMsg` | every post makes the last receiver ready again, whatever it is doing: it is queued twice and a later pend returns with no message. In both uses of `msgq` the same property holds |

### Where the properties end

The passing runs hold under the assumptions above, and these are not decoration.
A change of one constant shows each of them needed:

* `kernel.cfg` with `WaitTimes = {1, 3}`: `WakesOnTime` fails. A wait of one tick may
  end in the window of `mrtk_wait`; the task is then queued while it runs.
* `queue.cfg` with `MaxSearched = 3`: `KeepsEntries` fails. A removal by name
  leaves a hole, and the last entry falls out of the queue.
* `SpineSorted` stops short of the deepest index: with a full row (`queue.cfg` with
  `QueueSize = 6`) the loop of a removal breaks off at `4i >= MRTK_QUEUE_SIZE`
  (`mrtk_heap.c:240`), and the entry it leaves there may be later than the one at `2i`.
* `kernel.cfg` with a fourth user task: `SwitchPicksNearest` fails, for the reason of
  `queue_nearest`; up to three it is a theorem (section 4).
* `queue.cfg` with `U32 = 4` and deadlines past it: a swap truncates a deadline.
* `lock.cfg` with `InitialNumbers = {0, 16}`: exclusion fails, and first come first served.
  A stale number of 2^16 is larger than any other in the comparison of
  `mrtk_port_sync.c:127`, and reads as 0 everywhere else: a CPU that adds 1 to it takes
  the number 1 again, and the other does not see that it waits. The words are not
  initialised, so a lock needs its numbers cleared before its first use.
* `lock.cfg` with `U16 = 5`: a number wraps, and exclusion fails. With
  `Deadline <- MCDeadlineWide`: two deadlines equal in 16 bits, exclusion fails. With
  `Cpu <- MCCpuShared`: two tasks of one CPU share a ticket, exclusion fails.
* From stale flags, and stale numbers within the bound, a lock is safe but may never be
  granted: a `Choosing` left at 1 by a CPU that does not lock stops the other. Hence the
  premise of `EveryTaskServed`.
* `kernel.cfg` without the exception that `AcknowledgeComes` names: a tick in the window
  of `mrtk_wait` is acknowledged by a task that needs a further tick to run
  (`mrtk_eventhandler.c:47`, `mrtk_port_timer.c:62`). If all tasks then wait, the clock
  stands still for ever.
* `sem.cfg` with `Timeouts = {0, 2}`: `TokensConserved` fails. A task that timed out and
  was posted to before it runs answers `EVENT_TIMEOUT`, and the post is lost
  (`mrtk_sem.c:99`). With two semaphores a post of one releases a task that waits for
  the other.
* No property of a passing run says that a task released by a semaphore runs again, for it
  may not. `ReleasedNotLost` (`sem_lost`) catches one that has returned from its pend. One
  that is switched out by a tick before the `mrtk_sched` of its own pend, and posted to
  there, is dropped by that `mrtk_sched` (`mrtk_sem.c:95`), as its State is still `WAITING`;
  `TokensConserved` goes on counting it among the released.
* `context.cfg`: `StackFits` holds with 52 words, an interrupt frame and a switch frame.
  The 12 that are left of `TASK_CONTEXT_SIZE` are all that the C calls in between have.
* `TicksNotMasked` is about restored masks: the clock stop of the window of `mrtk_wait`
  is a tick that is not acknowledged, and remains.
* `msgq.cfg` with `Receivers = {0}`: `NoMissedMessage` fails, as `TaskId` 0 means nobody.
  With the calls of the demo and ticks that preempt any task `ThereIsMsg` fails
  (`msgq_empty`); without `LongSleeps` `ReadyOnce` does: a wait or a timeout of one tick ends
  before its task has gone to sleep.
* Nothing is said of what a receiver of `msgq` must eventually get. That a wait returns at
  all depends on ticks, and the clock may stop in the window of `mrtk_wait` (above).

### Fairness

* `lock`: a task that is locking keeps executing, and leaves its critical section
  (`WF` of `LockStep(t)` and of `Unlock(t)`, none of `StartChoosing(t)`, as no
  task has to lock). The two CPUs run at the same time and `mrtk_lock` is a busy loop, so
  its task is at a step whenever it is not preempted; that a task preempted by its own
  kernel comes back is the scheduling of that kernel, which is assumed here.
* All other runs are safety only, and assume no fairness.

The `lock` and `partition` configurations switch the deadlock check off: a lock
at the bound of its numbers, and a program that has started, stop legitimately.

## 4. The proofs

All are for every value of the constants that the named assumptions allow.

**Queues** (`MrtkHeapProofs`, `MrtkQueueProofs`). A swap moves entries. A turn of a
sift loop is a swap or nothing, so a sift permutes the table; from that,
`InsertAddsEntry` (one more entry, the queue well formed) and `RemoveFirstTakesRoot`
(exactly the root gone). They need deadlines below 2^32. `ReadyQueueOK` and
`ReadyQueueKeepsEntries` follow for the ready queue: it implements `DeadlineQueue`
although its head is not always the nearest.

What is left of the order is proved too. `SiftUpSettles` shows that five turns are enough
for any row of the configuration, so an insertion ends at the root or below a parent that
is not later: `ReadyQueueNearestInserted`. The entries at 1, 2, 4, 8 and their children
at `2i` and `4i` stay in order (`ReadyQueueSpine`): while an entry rises or sinks, only
the comparisons with that entry may be out of order, and the entry above is no later than
those below it. `WaitingQueueLevels` covers removals by name as well.

**Nearest deadline** (`MrtkKernelProofs`, at its end). On a CPU with at most three user tasks
(`FewTasks`) `KernelSwitchesToNearest` proves `SwitchPicksNearest` of `TaskSpec`. The
ready queue never holds more entries than there are user tasks (`QueueFits`, from the
kernel's invariant by counting), and with three entries the head has no grandchild:
`InsertNearest` and `RemoveNearest` keep it the nearest, `HeadIsNearest` makes it the task
that a switch goes to. The claim of `README.md:7` is true of switches there; that a
switch also comes when it should not is `kernel_edf`.

**Kernel** (`MrtkKernelProofs`), for every number of tasks, deadlines, waits
of two ticks or more (`NoWaitOfOne`), and deletions: the theorems are of `TaskSpec`. The properties are not inductive; `IInv` adds
* `QueueInv`, `BootInv`: what the queue holds, what start-up has done so far;
* `RunningInv`: the running task is `EXECUTING`, but in the window of `mrtk_wait`;
* `TickInv`: while a tick is processed the task it interrupted is the running one;
* `WaitInv`: a task in the window of `mrtk_wait` runs and has two ticks to go, or was
  interrupted there, and a tick wakes it only after it has been switched out;
* `DueInv`: a delay and the time add up to the tick that ends the wait, counting
  whether the tick in progress has reached the task.

One lemma per action. `SchedStep` is the part that all switches share, `SchedFromStep` its
form for a caller that has changed the State of a task, as the deletion does, and
`RoomForTask` shows that a row sized by the configuration never overflows: members are
distinct tasks. The theorems are `KernelTypes`, `KernelReadyOnce`, `KernelLosesNoTask`,
`KernelKeys`, `KernelWakesOnTime` and `KernelAcknowledges`. `mrtk_sched` matters to each of them:
it decides by `State` whether a task goes back into the queue.

**Contexts** (`MrtkContextProofs`), for any tasks, under `NoWaitOfOne`. The invariant
`ContextInv` joins the kernel's `IInv` with
* `StackInv`: a task that is switched out has one frame of 26 words with its own registers
  on its stack, on top of the frame of the interrupt if it owes an acknowledge, and the
  running task has that last frame only;
* `MaskInv`: `INTM` is set in a new task and inside the loop of `mrtk_tick`, and `INT1` is
  clear exactly as long as a tick is not acknowledged;
* `NewInv`: a task that is not past its first call has its first context, and has not
  been interrupted.

A frame is the `Image` of registers in the order in which they were pushed. `Popped` and
`ImageConcat` say that popping the names in the reverse order gives the registers back;
`SaveFrame` and `RestoreFrame` apply this to the macros word by word, with the mode bits and
the scratch registers the handler has used before it saves them. `IEROverwritten` is the
point of `OverwriteIER`: a frame comes back with the `INT1` of the CPU in the place of its
own, and that is the value `MaskInv` asks for. `SwitchFrames` puts the two together, and
`OpenGates` shows that the masks are open only where the kernel may take a tick. From these
`ContextKeepsRegisters`, `ContextMasksNoTick`, `ContextStackFits`, and, step by step,
`ContextImplementsKernel`.

**Semaphores** (`MrtkSemProofs`), for any tasks and counters, under `NoWaitOfOne` and
`NoTimeouts` (with a timeout a post can be lost, see `sem.cfg` above). `PlacesInv` is the
kernel's part: a task that waits is in the waiting queue alone until a post moves it, a
suspended task is in no queue, the running task in none but between the two sections of
its own pend. It is weaker than the kernel's `IInv`, as a task released by a post runs
in State `WAITING` and may be in no queue at all (`sem_lost`). `SchedHandsOver` and
`SchedPlaces` are what all switches share. `EventsInv` ties each pending task to its event.
`SemTypes` and `SemOneQueue` follow for any number of semaphores. `SemTokensConserved`
needs `OneSemaphore`: the waiting queue does not say what a task waits for.
`SemReleasesNearest` needs `FewTasks`, as in the kernel: the waiting queue then holds three
entries at most (`WaitersFit`), so its head is the nearest, and a deadline does not change
while its task waits (`WaitersInv`).

**Message queue** (`MrtkMsgQueueProofs`). `QueueImplementsChannel`: the ring of any size,
with any senders and receivers, implements the bounded channel, given that `ThereIsMsg`
holds throughout. `RingInv` says that `QIn` is `QEntries` cells after `QOut`, modulo the size
(`AtValue`, `NextIsAt`). The premise is the comment of `mrtk_msgqueue.c:143`; `msgq_empty`
shows that the code does not always keep it, and without it `QEntries` wraps below zero.

`DemoIdleSpec` keeps it. Its tasks wait, and are never interrupted, because an acknowledge is
owed while they run: `EveryTickFindsIdle` (`MrtkKernelProofs`) proves that from the first tick
on, by `FirstIdleInv`, and `CallsKeepDebt` carries it over to the calls. The theorems `MsgTypes`,
`MsgReadyOnce`, `DemoPostsFindSleeper`, `PendFindsMessage` and, from the last one,
`DemoQueueImplementsChannel` need `DemoRegime`, for any number of other tasks, any size,
deadlines, waits and timeouts:
* `OneToOne`: one sender, and one receiver that is not task 0 (0 means nobody in `TaskId`);
* `IdleIsLast`: no deadline reaches that of the idle task, which `LLONG_MAX` makes the last;
* `NoPendTimeout` or `ReceiverIsNearest`: no pend has a timeout, or the receiver has a
  smaller deadline than all others.

`four_tasks_demo.c` is within it: task 3 posts, task 4 pends without a timeout. One sender, and
no timeouts or the nearest receiver, are needed: with two senders, and with timeouts and a
receiver that is not the nearest, TLC finds `ReadyOnce` violated in variants of `msgq.cfg`, as
a post finds the receiver ready already.

The invariant `MsgInv` joins `RingInv` with
* `ReadyInv`: the ready queue as in the kernel, and the idle task at its head only when
  alone (`IdleBehind`). The heap does not give the nearest in general, but it never puts the
  farthest first, which is enough: no post is overtaken by the idle task and its ticks;
* `IdleInv`: the idle task runs when no user task is ready, but for a sender that preempted
  itself, so a tick finds nobody ready when it begins;
* `PlaceInv`: where a call can be switched out. No tick interrupts a user task, so a pend is
  left between `mrtk_sched` and its second section only;
* `PendInv`: a released receiver finds a message or has timed out, and one that still sleeps has
  none; the event names the receiver from its first block on;
* `SendInv`: while the receiver is ready the sender has used the post of its last wait. In
  a tick that ends a pend, the receiver is put first in the queue and elected, before a
  sender that the same tick wakes could post to it a second time.

The kernel's `IInv` is no part of it: a timed pend suspends a task with a delay that a post
leaves in its TCB, and `mrtk_Qpend` sets no `wait`.

`KeepsUpSpec` keeps it too, with ticks inside the calls. `NoMessageMissed`, `KeepsUpReadyOnce`
and `KeepsUpImplementsChannel` need `UpRegime`, one receiver (`OneReceiver`) and `IdleIsLast`,
for any number of senders and any timeouts but those of one tick. The invariant `UpInv` joins
`RingInv`, `ReadyInv` and `TickInv` with
* `ExecInv`: only the task on the CPU is `EXECUTING`, so that one in a pend that is in no
  queue and not on the CPU must be asleep;
* `WindowInv`: a task that runs although it sleeps is between the two sections of a wait or
  a pend, and no tick ends its delay there: it has two to go, or the tick in progress has
  passed it;
* `BlockedInv`: from the test of `QEntries` on the receiver sleeps while the queue is empty,
  and when it no longer sleeps there is a message or it has timed out.

The step that matters is a post in the window (`QpostUp`): it makes the receiver `READY`, so
that its own `mrtk_sched`, when it runs again, does not drop it. (A semaphore leaves it
`WAITING` there, and loses it.)

**Lock** (`MrtkLockProofs`), from any stale flags and deadlines, under `OneTaskPerCpu`,
`DistinctDeadlines`, `NoWrap` and `StaleNumbersFit`, together `Conditions`. The casts are part
of the definitions; the invariant shows that under these conditions they change no number.
`IInv` is
* `OwnInv`: what a task knows of its own words;
* `BoundInv`: a task that reads takes a number past the bound only if another has the
  largest number and waits for its flag, so that numbers do not creep up;
* `OrderInv`, `AheadInv`: a number chosen after another task has looked at the flag, or
  has stored its own, will be larger, also while it is still being read;
* `TurnInv`: the task in its critical section comes before every task with a number, by
  number and then by deadline.

`Before` is antisymmetric where the deadlines differ, which gives
`LockMutualExclusion`; `AheadInv` at the entry gives `LockFirstComeFirstServed`;
with the mappings `mode` and `order` the steps are `Ask`, `Join`, `Enter`, `Leave` or
stuttering: `LockImplementsAbstract`. That the store of a number is a `Join` is where
`OrderInv` and `AheadInv` meet: no number that others hold changes, and none of those who
waited before is overtaken.

**Partition** (`MrtkAlgorithmProofs`), for any tasks, properties, usage and order of
creation that `PartitionAssumption` allows. `FeasibleTasksMeetDeadlines` is the mathematics
of `mrtk_IsEdfSchedulingFeasible`: at every time `x`, up to the limit and beyond it, the jobs
of an accepted set of tasks that are due by `x` fit in `x`. The code's demand bounds what the
jobs need (`JobsFitDemand`), so below the limit its test decides. Beyond the limit
(`BeyondLimit`), demand is at most `U * (x + margin)`, `U` the usage allowed, and
`x (1 - U) >= U * margin` is what the limit says; a task set that the code tests at no time at
all (margin 0) is accepted for its usage alone, and rightly so.

The invariant `IInv` of the partition is
* `TaskInv`, `PlaceInv`: a task created waits in `TasksToPartitioned` once, or belongs to
  one CPU, until the tasks start;
* `PhaseInv`: the list is sorted while the loop runs, and empty when it returns TRUE;
* `ListInv`: the list of processors has each CPU once, in order of the load, and its
  `total_capacity` is the sum of the capacities of its tasks;
* `QueuesInv`: a ready queue is well formed and holds the tasks of its CPU, each under
  its deadline;
* `DeadlineInv`: they meet their deadlines at *every* time (the runs look up to
  `2 * Scale`).

`PartitionMeetsDeadlines`, `PartitionPlacesOnce` and `PartitionBiggestToLeastLoaded` follow.
The queue part is `InsertAddsEntry` again, with `RoomForUser`: a row is never full, as its
members are distinct tasks. The sorts and the sums of the code are folds, and a fold chooses
a recursive function on the subsets of a set. That the function exists, that it
is the only one and what it returns is shown by `SubsetInduction` (stated for a *set* of
subsets, and proved from a counterexample with the fewest elements), so these are
theorems and no assumptions: `SumStep`, `SumBound`, `SortSorts`.

**Bit searches** (`MrtkAlgorithmProofs`), for every word. `Searching` says of a turn of
the loop: the bits skipped are 0, the rest of the word is the word shifted by them, and a
set bit lies in the window. `SkipRightSearches` halves the window; after the last turn it
has two bits, and the code's last test tells them apart. `RightFindsLowest32` and
`RightFindsLowest8` follow; `LeftMissesOdd` shows that the 32-bit search from the left, which
tests bit 1 at the end instead of the top bit, answers the even number below for every
word whose only bit is odd and not the top bit. TLC has no part in this:
the words are too many, and the operators have no state.

**Model-checked only.** Liveness (`EveryTaskServed`): fairness and ENABLED are outside what
TLAPS proves. The removal by name has no proof
that it keeps entries, as it does lose them. Every other property of a passing run is a
theorem.

## 5. Not modelled

* `mrtk_CreateTaskGeneralized`: unfinished. It never stores the absolute deadline, puts
  the task in no list, and nothing calls it.
* Creating a task again. An existing one is refused, but only after its initial context
  has been written over the frames of its stack (`mrtk_task.c:227`), which `RegistersKept`
  forbids; a deleted one may still have its old entry in the ready queue. A deletion
  before the start leaves the task in `TasksToPartitioned`, whose length
  `NbTaskToPartitioned` never shrinks.
* The frames of C calls, and the registers a C function may change between two calls.
* `mrtk_Qcreate` is the initial state of the queue; the table of free control blocks is
  not there.
* A usage of 1.0 (`mrtk_sched.c:82`) makes a limit infinite in Float32, and a deadline
  past the period wraps a Uint32 there: the models take neither.
* `mrtk_InitPrioTable`, which clears two tables that nothing reads; string comparison,
  the empty timer file, linker files.
* The pandaboard port: its interface is that of an older kernel (names, arguments and
  types differ), and this kernel cannot be built with it.
* `mrtk_sched_from_isr`, which is never called.
* The hardware test-and-set of the F28377D, which always answers TRUE
  (`mrtk_port.c:120`) and is not compiled in.

## 6. Plan

The order is by importance to the system.

1. Queue, with the abstract set of entries; proofs. *Done.*
2. Kernel of one CPU: waits, ticks, switches; proofs. *Done.*
3. Lock of two CPUs, with the abstract lock; proofs. *Done.*
4. Semaphores and message queues over the kernel; proofs, `ThereIsMsg` from the demo's
   calls and from a receiver that keeps up among them. *Done.*
5. Partition; proofs. *Done.*
6. Deletion of tasks over the kernel; proofs. *Done.*
7. Contexts: registers, stacks and masks under the kernel; proofs. *Done.*
8. Bit searches of the priority table; proofs. *Done.*
9. `mrtk_Qcreate` and several queues; a passing regime of semaphores with timeouts;
   creation of a task that exists or existed.
10. What is left of the heap's order as theorems of the queue, and the nearest deadline for
    three tasks as a theorem of the kernel. *Done.*
