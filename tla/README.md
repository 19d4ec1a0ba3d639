# Verification of cs452-kernel

cs452-kernel is a real-time microkernel for the Raspberry Pi 4 (aarch64, one
core) with the user-level servers and programs that drive a Märklin model
railway on top of it. This directory models its parts in TLA+, from the kernel's
descriptors to the routes of trains on the two real tracks, checks them with TLC
on small instances, and proves with TLAPS the main invariants of the kernel, the
allocators, the containers and the servers for every size (clock, Märklin, console,
name, track and snake server, and the coordinator), and the safety of a train's tasks on
a ring of any length.

Contents: 1 inventory, 2 plan, 3 the modules and the code, 4 the runs,
5 the proofs, 6 other disagreements between code and documentation,
7 what is not modelled.

## 1. Inventory

| Part | Source | State | Operations | What makes it hard |
|---|---|---|---|---|
| Kernel loop, task states, system calls | kernel/src/kernel.c, task-state.c | task descriptors, the running task | Create, MyTid, MyParentTid, Yield, Exit, KillAllChildren, KillChild, Send, Receive, Reply, AwaitEvent | blocked tasks woken by other tasks and by interrupts; lazy kill; one link field with two uses |
| Ready queues and tids | kernel/src/task-queue.c | a list per priority, `global_tid` | push, schedule, add, get, free_tid, kill_children | tids of 16 bits, NULL parents, the running task is in no queue |
| Event queues, interrupts | kernel/src/event-queue.c, interrupts.c | a list per event | block, unblock_one, unblock_all, handle_interrupt | an interrupt at any instruction of any task |
| Descriptor and stack allocators | kernel/src/task-alloc.c, stack-alloc.c | free list, slab counters, stack bitmap | new, free | slabs given back while interleaved in the free list; two allocators in step |
| Clock server, notifier, delay queue | src/clock-server.c, clock-queue.c, clock.c, sys-clock.c | the delay queue (256) | Time, Delay, DelayUntil, notify | a 64-bit counter read in halves, a bounded sorted queue, delays that are over before they are queued |
| Name server | src/nameserver.c | hash table of names | RegisterAs, WhoIs | full table, names registered twice |
| Märklin server | src/marklin-server.c, uart-server.c | queues of bytes and readers, CTS state | Getc, Putc, Puts, WaitOutputEmpty, notifications | CTS changes out of order, merged or dropped |
| Console server | src/console-server.c, uart-server.c | queues of keys and readers | Getc, Puts, notifications | keys of several bytes, an interrupt that finds nobody waiting |
| Containers | src/deque.c, priority-queue.c | ring buffer, binary heap | push, pop, decrease | wrap-around, full and empty |
| Track server | track-control/src/track-server.c, track-segment-locking.c | segment locks, per-train requests, timeout notifiers | lock one / all / either of two, free, free all, register, timeout | requests that block, time out, or are served by another train's free; trains stopped while they wait |
| Coordinator, sensor queue, position | track-control/src/track-control-coordinator.c, sensor-queue.c, sensor-worker.c, position.c | who waits for which sensor, what is predicted of each train | register, done, wait for sensor, sensor data, set speed | several tasks of one train wait for one sensor; changes of speed between a sensor and the next wait; killed tasks |
| Train tasks | track-control/src/train.c | the current and the next route, what each notifier does | plan, execute, stop | a train and its three notifiers send to each other; locks refused while it moves |
| Routing, track and speed data | track-control/src/routing.c, track-data.c, speed-data.c, track.c | none; the tables | plan_stopped_route, plan_in_progress_route, switch_throw | distances of 32 bits in priorities of 16, paired switches, hand-edited tables, decision points |
| Snake game server and timer | final-project/src/snake.c, sensor-queue.c | order, speed and distance of the trains, who is expected at each sensor | sensor, timer, end | trains told apart by their order only; queued changes of speed; server and timer send to each other |
| Snake game user server | final-project/src/user.c | the way that the player chose | choose a branch | not modelled |

How the parts interact. User tasks trap into the kernel with a system call; an
interrupt traps the running task too. Every server is a task in a loop of
Receive, handle, Reply; it is reached through calls (`Delay`, `Getc`,
`track_server_lock_*`...) that Send it one message. Interrupts reach a server
through *notifiers*: tasks of higher priority that loop over AwaitEvent and Send
to the server. There is no shared memory between tasks and no persistent state;
the hard behaviours are the orders in which messages, interrupts, replies and
kills can happen, limits of queues and pools, and counters that wrap.

What makes each part correct:

* **Kernel.** A descriptor has one owner; active tids differ; a parent pointer is
  never stale; exactly one task runs and there always is one to run; whoever is
  blocked is in the queue that will wake it; a send to a server that keeps
  receiving is received.
* **Allocators.** No descriptor or stack is handed out twice, none is lost, and a
  stack is free whenever a descriptor is.
* **Clock server.** No delay ends early; none that is over is left behind; every
  delay ends.
* **Märklin server.** No byte is sent to a busy controller; order is kept both
  ways; no change of CTS is missed; every byte is sent.
* **Console server.** No key is lost, repeated, reordered or misread; no reader
  waits while a key is queued.
* **Track server.** A train holds only what is locked for it; no train waits for
  what is free; every call with a timeout returns.
* **Coordinator.** Whoever waits for a sensor has one entry for it, the entries do
  not run out, the prediction is in step with the train, and nothing is left of a
  train that is gone.
* **Train.** Administrator and notifier never send to each other; the train is only
  on segments locked for it; switches are set before it comes; a stopped train moves
  only by a new plan; it arrives.
* **Routing.** The data of the track is consistent; the search is exact; a plan
  throws the right switches, locks what it drives on, and has its decision point
  where a refusal leaves the train in the one segment that it keeps.
* **Snake server.** Every report of a sensor is taken for the right train, every
  speed is supported, every grace period ends.
* **Containers and name table.** They are the abstract queue, priority queue and
  map that their users take them for.

## 2. Plan

Done, in this order: Kernel on DescPool, with its proofs; TaskAlloc below it;
ClockServer, TrackServer, MarklinServer, ConsoleServer; Deque, PriorityQueue and
NameServer against their abstract types; Routing with the data of
the tracks and trains; Train; Coordinator; Snake.

Proved (section 5): the kernel's invariants and, with the idle task left
alone, that its scheduler always finds a task, and without kills that blocked tasks are
queued; the allocators, the deque, the binary heap and the name table, which refine their abstract
specifications; NeverEarly of ClockServer; NoOverrun, InOrder and ReadInOrder of
MarklinServer; NoKeyLost and ReadersServed of ConsoleServer; NoLostWakeup and HeldIsLocked
of TrackServer; QueueSound and PositionInStep of Coordinator; NoMutualSend, OnlyOnLocked,
SwitchesBefore and StaysStopped of Train; SpeedsSupported, GraceTimed and RightTrains
of Snake. What is left to TLC, and why, is listed at the end of section 5.

Composition: Kernel is written on the operators of DescPool, TaskAlloc implements
it. The servers are written on what the kernel promises a program: messages are
received in the order they are sent, notifiers run before their server. Each
server module says in its header which of the kernel's scheduling it contains
(MarklinServer keeps the ready queue of its notifiers, since their order is what
it depends on). Routing uses the heap of PriorityQueue, instantiated with its 140
nodes. Train takes from the track server that a list is locked as a whole or not at
all (HeldIsLocked) and that a refusal comes at the timeout (TimeoutsAnswered), and
from Routing what a plan locks and where its decision point lies (StretchesLocked,
DecisionInLastSegment).

## 3. The modules and the code

| Module | Models | Abstract specification |
|---|---|---|
| Kernel | kernel.c, task-state.c, task-queue.c, event-queue.c, interrupts.c | |
| TaskAlloc | task-alloc.c, stack-alloc.c | DescPool: a set of descriptors in use |
| ClockServer | clock-server.c, clock-queue.c, clock.c, sys-clock.c | |
| MarklinServer | marklin-server.c and the calls of uart-server.c | |
| ConsoleServer | console-server.c | |
| TrackServer | track-server.c, track-segment-locking.c | |
| Deque | deque.c | BoundedDeque: a sequence that drops on full |
| PriorityQueue | priority-queue.c | MinQueue: a bag of values from which a least one is taken |
| NameServer | nameserver.c | Registry: a map from names to tids |
| Coordinator | track-control-coordinator.c, sensor-queue.c, position.c | |
| Train | train.c | |
| Routing | routing.c, switch_throw of track.c | |
| SpeedData, TrackData | the tables and formulas of speed-data.c, the tables of track-data.c | |
| Snake | final-project: snake.c, sensor-queue.c | |

MCKernel, MCTrackServer, MCTrain, MCCoordinator and MCRouting instantiate one module
each. MCParts (data structures, allocators, console server, snake server), MCServers
(track server, Märklin server, coordinator), MCTimed (clock server, track
server, train) and MCSending (Märklin server, kernel) hold several side by side: a
behaviour runs one of them, the one that the initial state chooses, under its own
fairness, and the others stay as they are. The theorems are in KernelProofs, AllocProofs (TaskAlloc,
Deque, PriorityQueue), TimedProofs (ClockServer, Train), MarklinProofs, ServerProofs (ConsoleServer,
NameServer), TrackControlProofs (TrackServer, Coordinator) and SnakeProofs, and what they need of
lists and loops in ListLemmas.
Definitions whose comment says `faulty` are variants with one planted
mistake: each property is shown to notice one.

**Kernel.** The kernel runs with interrupts masked, so a behaviour alternates
between two kinds of atomic steps: `Schedule` (kernel_main up to the activation
of a task: take the first runnable task of the highest priority, deallocate it
instead if it is marked killed) and a step in which the running task traps: one of
the `Sys...` actions or an `Interrupt`, followed by the tail of the kernel loop
(`Requeue`: clear the running state, push to the ready queue, leave the loop when
no user task is left). The variables are the fields of `task_t`, one function each
(`tid`, `parent`, `prio`, `ready_state`, `wsn` for waiting_senders_next, `ewn` for
event_wait_next), the ready queues `rq` (a sequence for each linked list), the
event queues `front` and `back` with the real links, because a killed task leaves
stale ones, and `global_tid`. The intrusive link `wsn` is kept as it is: one field
for two purposes. `kmain` says that the loop has been left, that the kernel hangs
in the endless loop of SYS_MSG_SEND, or that it has dereferenced the NULL that an
empty ready queue returns. A read through a NULL parent gives the constant
`NullTid`. Tids keep their widths: `MaxUTid` is the limit of the counter and
`MaxSTid` of the `int16_t` to which it is assigned. What tasks do is the constant
`Program`: which calls a task of each priority may make.

**TaskAlloc.** The linked free list is a sequence in the order in which the code
keeps it (by slab); counters are uninitialised before a slab's first use. New and
Free drive the stack allocator as SYS_CREAT and task_dealloc do.

**ClockServer.** Clients send requests (`Time`, `Delay`, `DelayUntil`), the server
takes them in any order, the timer interrupt wakes the notifier, its notification
dequeues what is ready. Time passes between any two steps and between the two
reads of `get_curr_ticks`; `Word` is 2^32 there. The test that a delay is over is
strict in the code, and so in the model.

**MarklinServer.** State machine `advanceState`, queue, readers, tasks that wait
for an empty queue; two CTS notifiers and one read notifier with their ready queue
and event queue; the UART's interrupt, whose handler reads the *level* of CTS when
it runs; the controller (external), which drops CTS after a byte and raises it
again, and answers sensor requests with two bytes per module. The server replies
to a notifier before it handles the notification, which is two steps.

**ConsoleServer.** The receive FIFO and its timeout interrupt (external), the read
notifier byte by byte, with the recognition of arrow keys in the bytes it has
buffered, and the server, again in two steps per notification. The FIFO and the
server's queue of keys drop what finds them full; `dropped` remembers that one did.

**TrackServer.** A step is one message handled. `held` is what a train's task
believes it has locked, computed from what the call in track-segment-locking.c
makes of the reply (some ignore it). The timeout notifier of a train delays, then
sends; a train can be killed at any time and started again.

**Deque, PriorityQueue, NameServer.** The arrays and indices of the code, with an
abstract specification of what their users rely on. heapify and
priority_queue_bubble_up, which call themselves one level on, are loops of `Levels` steps
(`Sink`, `Rise`) that do nothing once the code would stop; 15 steps are enough for indices of
16 bits, which is part of what is proved. Routing makes its first heap with the same
`Heapify` in the order of priority_queue_init, grouped in halves for TLC's stack.

**Routing, TrackData, SpeedData.** TrackData is track-data.c node by node, in one
line each (name, reverse, edges with their lengths, segment; a mirror edge is not
repeated). SpeedData has the measured velocities, accelerations, stopping distances
and short moves. `Init` chooses a query and which segments are in use; each step
takes one node from the heap (`Visit`, `Reach`, `GiveUp`, in the order of the tests
in the code); `Plan` is everything after the search, for a train, a speed, an offset
and one of the three calls that the planner makes. Priorities are cut to 16 bits,
`DIST_TRAVELLED` of an unreached node wraps as it does in 32 bits, C's division
rounds to zero, and what the empty deque returns is what the code reads there.

**Train.** `train_tc` is where train_tc and execute_plan are; `notifier` is what each of the
three notifiers does (wait for a sensor, delay, lock, send its report). A Send to a
notifier is a step that is possible when the notifier receives, and a Receive one
when a notifier reports, so that all orders of reports occur. The track is a ring of
sensors with a segment between each two and plans are those of routing.c on it. The
train rolls over sensors, brakes and stops; other trains take and free segments.
Assumed of time, and said in the header: tasks are fast against trains, and the
decision point lies where Routing shows that it lies.

**Coordinator.** One action per message; the lists of the sensor queue as sequences,
its pool as a count, so that running out of entries (`panic`) is a state, as is the failed
assertion on the module of the sensor that a train waited for last (`trapped`): after
either the coordinator does nothing more. The walk of sensor_queue_free_train leaves its
list after the first removal. The report of a
sensor replies to its entries one after the other (`AfterReplies`), each reply seeing what
the replies before it have done to the queues and positions. Of position.c
the states and the queued changes of speed are kept; predicted times are any of a
set. Tasks of a train can be killed at any time and started again; `gen` tells the
incarnations apart. The console sets the speed of any train, so a train may register with
a position that earlier commands have left, and MSG_TC_TRAIN_DONE clears the traces of
any. A train is started again only when its tasks are done or killed (section 6, *A train
started twice*).

**Snake.** The server's message handlers with all branches of the speed adjustment,
the queue of expected trains per sensor, and the timer task. Trains pass the sensors
of a ring in their order, each reported once or more, and a new head is picked up
while others are still under way; `ahead` and `behind` are where the trains really are. A distance of every range that the code compares
with stands for all of them.

## 4. The runs

| Run | What it shows | Instance |
|---|---|---|
| kernel_life | TypeOK, OneOwner, TidsUnique, NeverWraps, ParentActive while tasks create, kill, block and exit in every order | 6 descriptors in 2 slabs, tids up to 6 / 13 |
| kernel_queues | BlockedQueued: whoever is blocked in Send or AwaitEvent is in the queue that wakes it. NoFault: there is always a task to run, though clients try to kill the idle task | clients, a server and its notifiers; 5 descriptors, 4 events |
| kernel_spin | **violated**: NoSpin | two notifiers that send to a busy server |
| parts_alone | Deque: Refines. PriorityQueue: HeapRefines. NameServer: NamesRefine. TaskAlloc: PoolRefines, SlabsSound. ConsoleServer: NoKeyLost, ReadersServed. Snake: SpeedsSupported, GraceTimed, RightTrains | a deque of 4, a heap of 4, a table of 3, 3 slabs of 2; 2 readers, 4 bytes of an arrow key's alphabet; 3 trains on a ring of 4 sensors |
| servers_safe | TrackServer: HeldIsLocked, NoLostWakeup. MarklinServer: NoOverrun, InOrder, ReadInOrder with CTS changing at any time. Coordinator: QueueSound, PositionInStep | 3 trains that lock and free; 2 clients, 2 bytes, a sensor request among them; 2 trains with 2 notifiers and 4 entries, 1 kill |
| timed_live | ClockServer: NeverEarly, DelaysEnd. TrackServer: TimeoutsAnswered with every call and stops. Train: NoMutualSend, OnlyOnLocked, SwitchesBefore, StaysStopped, TrainArrives | 2 clients, a queue of 2, delays of 0 to 2 ticks; 2 trains; a ring of 9, segments taken by others twice |
| sending_live | MarklinServer: EveryByteSent when changes of CTS are not closer than a notifier's way to Send. Kernel: SendsReceived | 1 client; 4 descriptors, 4 events |
| routes | TrackSound, PrioritiesExact, SearchExact, SwitchesSet, StretchesLocked, DecisionInLastSegment | both tracks, 20 starts, 5 ends, 3 sets of segments in use, 3 trains, 2 speeds, the three calls |
| track_two | **violated**: HeldIsLocked | 2 trains that ask for one of two lists |
| train_runaway | **violated**: OnlyOnLocked | a lock refused to a train that goes backwards at speed |
| train_stuck | **violated**: NoMutualSend | a lock refused to a train that still accelerates |
| coord_kill | **violated**: KilledForgotten | 2 trains, 1 kill |

Bounds and why they are enough. *kernel_life*: three tasks exist at start-up (idle,
name server, first user task), so six descriptors leave three to create, in a
second slab that fills, empties and is given back; the tid limits are below the
number of creations, so that both the failure of Create by `int16_t` and the end
of the counter are near. *kernel_queues*: two tasks besides the server
and the first client, so that two notifiers wait for one event; in *sending_live*
there is one, because two notifiers that interrupts keep waking can starve the server
for as long as they do. No more than one sender waits at a time in either, since the
second one hangs the kernel (kernel_spin). *Clock*: the queue is full with both clients
waiting; MaxTime is after the longest delay that can start in the first half of the run
and stands for all later times. *Märklin*: two bytes make the server wait for the whole
cycle of CTS between them; the queues hold more than is put, so that drops (section
6) do not mask lost bytes. *Track server*: segments 1 and 2 are contended for by all
trains, each train starts on one of its own. *Coordinator*: both notifiers of both
trains can wait for one sensor, which needs all entries of the pool; eight entries for
three trains of two notifiers that wait (of the three, the speed and the locking
notifier take turns) leave two spare. Two speeds besides 0 are enough for a change after
a constant speed; the trap is reached both by a speed command and by a report. *Train*: four gaps to the goal make
one plan of each kind (accelerate, constant, stop) and the way back is long enough for
the same; two takings by others refuse a lock, and refuse the way forwards on the new
plan. *Routes*: with the ends on the loops, on the middle switches and next to dead
ends, and starts in every module of sensors, every kind of plan occurs on both tracks.
*Snake*: three trains are the fewest for the bunched case; a snake of two sensors on a
ring of four keeps two sensors between head and tail, as on the real loop; two speeds
make most changes be refused for some train. *parts_alone*: four bytes hold an arrow key
preceded or followed by another byte, and every broken prefix, and overflow a FIFO and a
queue of three; five values make a heap
of three levels overflow; four names in two buckets exceed the table. Where
`CHECK_DEADLOCK FALSE` is given, the system may stop: the kernel leaves its loop when no
user task remains, trains may wait for each other, the bound on bytes, keys or kills is
used up, a table is full, or the snake game has ended.

Fairness. *Kernel*: WF of scheduling and of the running task's trap (the CPU goes
on, and the timer interrupts a task that makes no call), and SF of Receive by each
task: a server's loop always comes back to Receive. *ClockServer*: WF of time, of
the timer interrupt and of the server's receipt of each message (it is above its
clients). *TrackServer*: WF of each notifier's timeout, which rests on DelaysEnd.
*MarklinServer*: WF of the server, of the interrupt and of the controller's
changes of CTS; SF of each notifier, because an interrupt may put it behind the
others again and again but not for ever. *Train*: WF of the tasks (they are the only
ones of their priority to run), of the end of a delay, of the rolling train, and of
every other train leaving a segment; the last is an assumption on the other trains,
not a fact of this one. In *timed_live* locks are refused only to a train that goes
forwards at constant speed: the two other cases, a train that goes backwards and one that
accelerates, have the faults shown by train_runaway and train_stuck, and a passing
run cannot contain them.

The five violations. **kernel_spin**: `task-state.c:161` says "add to back of
receiver task's queue"; the loop below it advances with
`cur = rcv_t->waiting_senders_next`, always the first sender, so the second
sender to a busy task hangs the kernel. **track_two**:
`track-segment-locking.h:52` says that the call for two lists "returns -1 for
failed, 0 for first and 1 for second"; on a timeout the server tries the lists of
the notifier's message, which were never set, and the call returns a number of the
reply whether it was refused or not, so a train may drive on segments of another.
**train_runaway**: after a refusal train_tc turns a reversed train to face forwards
again (train.c:705) but keeps `current_node`, which is a node of the reversed
direction; the next plan takes the train to face the way that it does not, and it
drives off its segments. `tc2.tex:296`: "we require that each train's administrator
task has acquired the respective lock before a train can be in a segment of the
track". **train_stuck**: execute_plan leaves on a refusal (train.c:541) while the
speed notifier still delays for SPD_REACHED; the flags that are "to not overwhelm
notifiers and not to excessively block" (train.c:446) start anew, the next plan sends
to the notifier, and if that reports first each waits for the other. **coord_kill**:
sensor_queue_free_train (sensor-queue.c:173) goes on from the entry that it has just
put in the free list, so the second entry of a train at a sensor stays when
program-tasks.c:152 does "deregister on behalf of killed train". Such entries use up
the pool of eight (then the coordinator panics), and set the position of the train's
next task to one that has passed a sensor.

## 5. The proofs

Each theorem holds for every value of the constants that satisfies the named
assumptions of the module and the hypothesis that the theorem states, if any. A
hypothesis about how the system is used is a definition of the proof module. Each of
them is what the code or its programs keep to, or excludes a disagreement that
section 4 or 6 shows; it is said below what goes wrong without it.

| Theorem | States | Hypothesis |
|---|---|---|
| KernelProofs: TypeCorrect | `[]TypeOK` | |
| DescriptorsHaveOneOwner | `[]OneOwner` | |
| ActiveTidsUnique | `[]TidsUnique` | |
| TidSearchNeverWraps | `[]NeverWraps` | |
| ParentsStayActive | `[]ParentActive` | |
| SchedulerFindsTask | `[]NoFault` | IdleLeftAlone |
| EventWaitersFound | `[]EventWaitersQueued`, the part of BlockedQueued about AwaitEvent | NoKills |
| BlockedFound | `[]BlockedQueued`, with SendersFound for the part about Send | NoKills and `[]NoChain` |
| AllocProofs: AllocatorsSound | `[]SlabsSound` | Sizes |
| AllocatorRefines | PoolRefines: TaskAlloc implements DescPool | Sizes |
| TypeCorrect | `[]TypeOK` of Deque | |
| Implements | Refines: Deque implements BoundedDeque | |
| HeapImplements | HeapRefines: PriorityQueue implements MinQueue | |
| TimedProofs: DelaysNeverEarly | NeverEarly | InRange |
| AlwaysOnLocked | `[]OnlyOnLocked` | RefusedAtSpeed |
| NeverMutual | `[]NoMutualSend` | RefusedAtSpeed |
| ThrownBefore | SwitchesBefore | RefusedAtSpeed |
| StartedByPlan | StaysStopped | RefusedAtSpeed |
| MarklinProofs: NeverOverruns | NoOverrun | |
| BytesGoOutInOrder | `[]InOrder` | `[]RoomToWrite` |
| BytesComeInOrder | `[]ReadInOrder` | `[]RoomToRead` |
| ServerProofs: KeysNeverLost | `[]NoKeyLost` | |
| ReadersAlwaysServed | `[]ReadersServed` | |
| NamesImplement | NamesRefine: NameServer implements Registry | |
| TrackControlProofs: WaitersAreServed | `[]NoLostWakeup` | FreedOneByOne |
| HoldsWhatIsLocked | `[]HeldIsLocked` | UsedSafely |
| QueueAlwaysSound | `[]QueueSound` | |
| PositionsStayInStep | `[]PositionInStep` | |
| SnakeProofs: SpeedsAlwaysSupported | `[]SpeedsSupported` | |
| GraceAlwaysTimed | `[]GraceTimed` | |
| AlwaysRightTrains | `[]RightTrains` | |

**KernelProofs**, for every set of descriptors and slabs, every number of
priorities and events and every `Program`. Assumed, in DescPool and Kernel:
descriptors are finite and partitioned into slabs; there is a user priority and a
server priority; tids fit their widths and `MaxSTid` plus the number of descriptors
stays below `MaxUTid`, which 32767 + 1024 < 65535 satisfies.

* OneOwner, TidsUnique, NeverWraps and ParentActive follow from one inductive
  invariant,
  `Inv == TypeOK /\ OneOwner /\ TidsBelow /\ TidsUnique /\ NeverWraps /\ ParentActive`,
  where TidsBelow says that no active tid exceeds `global_tid`. None of the parts is
  inductive alone. TidsUnique needs that the search, which does not see the
  running task, only gives tids above all of the active ones, which fails once the
  counter wraps; that it never wraps is NeverWraps, whose argument is a count: each
  Create that fails by `int16_t` leaks one descriptor, and the counter passes
  MaxSTid by at most the number of leaked ones. ParentActive needs OneOwner (a
  freed descriptor is not a live parent) and TidsUnique (the orphaning loop compares
  tids, not pointers).
* SchedulerFindsTask adds to Inv that one task, the idle task of kernel_init, is live,
  has no parent, is ready or running and is nobody's waiting sender. The last part is
  needed because the fields of a waiting sender are written by the one who receives
  from it. IdleLeftAlone: idle_task_main makes no system call (kernel.c:25), no server
  kills what has the idle priority, and the word read through a NULL parent is no tid.
  The last is needed since the kill of children compares the tid of each task's parent
  with that of the killer, also where the parent is NULL: were the word at address 0
  equal to the killer's tid, the idle task would count as its child.
* EventWaitersFound and SendersFound: WaitInv adds to Inv that the running task is in
  STATE_RUNNING, that blocked tasks are active, that `wsn` links only tasks in
  STATE_SEND_WAIT and each once, and Listed: every event queue is a list that ends at
  `back`, tasks are linked once and only while they wait, and whoever waits is reached
  from a `front`. `Waiters` is a least set closed under the links, so what a push or a pop
  does to it is shown by giving the closed set; that two queues have no task in common
  follows from there being one link to a task. Each step is of one of six kinds (StepKind)
  and each kind keeps WaitInv. The sender links are part of it since a Receive sets the
  state of whatever `wsn` points to. NoKills: KillChild lets a waiting task be freed while
  it is linked (section 6). NoChain: a task that waits to send, or is gone, has no sender
  waiting for it (section 6, *Chains of senders*; servers do not end). In
  kernel_queues nothing is killed: the kernel refuses the clients the idle task. NoChain
  holds there. That a second sender hangs the kernel (kernel_spin) contradicts neither:
  that sender still runs and never gets into a queue.

**AllocProofs.** *TaskAlloc*, for every number and size of slabs (Sizes: slabs hold at least one
descriptor). The invariant: the free list has exactly the descriptors of active slabs
that no task has, once each *and in the order of their slabs*; a slab is active exactly
if it has tasks, and its counter is their number; the stacks of the tasks differ. The
counters are the part that SlabsSound does not mention: they decide when a slab is given
back, so without them neither the list nor the set of active slabs is inductive.
SlabsSound contains FailsOnlyWhenFull, that an allocation is refused only when every
descriptor has a task.

*Deque*, for every buffer size: the indices stay in the buffer and `size` is the
distance from front to back, the fact that tells full from empty; then a step simulation
with one lemma per operation.

*PriorityQueue*, for every capacity up to 32767 (HeapAssumption, the range of the indices) and
all values and priorities. The invariant (HeapInv): the values are distinct and no node but the
root has a lower priority than its parent. Within an operation one node breaks it. LowAt says
that only this node may be lower than its parent, *and* that its children are not lower than
that parent; without the second part a step of bubble_up would repair one pair and break two.
HighAt is the same for heapify, and only from a given node on, since priority_queue_init
orders the subtrees from the last one up. A step repairs the order or moves the broken node
one level on (RiseKeeps, SinkKeeps); a level halves or doubles its index, so it ends within
15 of them (BubbleUpOrders, HeapifyOrders). Swaps keep the set of nodes, hence the priority of
each value (PriSame), and that the root is least follows from the least index at which
it would not be (RootLeast).

**TimedProofs.** *ClockServer*. The invariant: every message on its way asks for a tick at or
after the goal of its sender (SentInTime), and so does every entry of the delay queue,
which has one entry per client (QueuedInTime); NeverEarly is then a fact of each step.
The queue need not be known to be sorted: an entry that is answered is compared with the
time itself. InRange: the counter and each delay in microseconds fit a word. Without it
the torn read and the truncated delay of section 6 end delays early.

*Train*, for every length of the ring, start, goal, acceleration and stopping distance,
number of segments that other trains take, and order of the reports (TrainAssumption: the
ring has a sensor, and a train does not stop at once). The four theorems rest on one
invariant, TrainInv, that follows a plan through its stages. Gaps and nodes are numbered by their distance to the goal
in the train's direction (`Gap(k, d)`, `Node(k, d)`), which makes the arithmetic on the ring
one of plain numbers (RingMod, NodeIs, Apart), and what routing.c plans from a gaps to b
gaps before the goal a stretch of these numbers (RouteIs). OnPlan(a, b, p, d) then says of a
plan being executed: the train has come to p; the path that is left is the sensors from p
down; the switches of the whole plan are set; the gaps from p to b are locked, and those of
the next plan once the lock notifier has reported; and the gap that the train is in is the one
before the sensor that the route notifier waits for, or the one after it while that notifier
reports. A sensor's report frees the gap just left, which is in neither stretch because
no two numbers are the same gap: that is OnlyOnLocked. SpeedsInStep adds that a train whose
speed notifier still owes an acceleration is moving already, which StaysStopped needs, and
that a refusal comes when nothing else is waited for; TasksInStep, that the notifiers at work
are those waited for, which NoMutualSend needs. When the train is turned round, a stretch
becomes its mirror image (TurnedRound). RefusedAtSpeed says that locks are refused only to a
train that goes forwards at constant speed; without it train_runaway and train_stuck
are behaviours, and OnlyOnLocked and NoMutualSend are false. TLC checked TrainInv on rings of
1 to 12 sensors before it was proved.

**MarklinProofs**, for every spacing of the changes of CTS, so also for those that are
merged, lost or overtaken. NeverOverruns counts: each change of the line since the last
byte is pending, with a notifier, being handled or used up by the server's state, and in
only one of these places; so `Underway + Used <= Changes`, and a server that is READY has
used both. That a notification exists once (OneMessage, WaitOnce) is what makes the count
inductive. BytesGoOutInOrder: what is on the wire followed by what is queued, as it will
be put on the wire, is what the server took. BytesComeInOrder: what was delivered, is
queued, is being handled and is on its way is what came, and a byte on its way is in one
place. Both are about behaviours in which no queue is full, because the code drops bytes
at a full one (section 6, *Full output queue*); the hypothesis is about the queue at the
moment of the push, not about how much the clients write altogether. Assumed:
`StringsAssumption`, that strings consist of bytes.

**ServerProofs.** *ConsoleServer*, for all keys, clients and capacities. The invariant
has six parts. The two that matter say what the theorems say of a notification in any
place that it can be in: Kept, that what was typed is what was taken from the FIFO, each
arrow key spelled as its three bytes, followed by what is in it, unless a key was dropped;
and NoneStarves, that while a key is queued no reader waits. They are inductive because the
notifier's message exists once (Notified), each client has one request (Requests), and
whoever is blocked in Getc is queued or its request is on its way (Known). The notifier
takes bytes out of the FIFO and looks for arrow keys in what it has buffered before, so
Kept is stated on the bytes and not on the keys. ConsoleAssumption: no byte is
the code of an arrow key, which the code puts above 127, and there is room for every
reader to wait; a reader that finds no room would be forgotten.

*NameServer*, for all names, hash functions and table sizes. The invariant: there is a number
N of entries in use, they are the first N, the links of a bucket lead to larger indices of
the same bucket and miss none of it, and no name is stored twice. It gives what the
walks of RegisterAs and WhoIs return: a walk along increasing links ends (WalkEnds), and
stops at the one entry with the name if there is one.

**TrackControlProofs.** *TrackServer*, for all trains, segments and lists. Both theorems rest on one
description of what the loops over a list of segments compute (`Try`). *WaitersAreServed*:
that blocked trains are those whose request cannot be granted is inductive once it is
known which request each blocked train has. A free tries every blocked train in turn,
and what one of them locks takes away from the others only. FreedOneByOne: MSG_TS_FREE_ALL, which a stopped train's last
task also causes, frees without trying anyone again (section 6). *HoldsWhatIsLocked* needs
that the segment a train starts on is never locked for another (StartOwn), that no
notifier can refuse a request without timeout (NoEarlyRefusal), that a notifier delays
for the request at hand (NotifiersFresh), and that nothing is told to a killed task.
UsedSafely: no calls for two lists (track_two), trains that are stopped do not use the
call that believes every refusal (section 6, *Late timeouts*), and each train is
registered on a segment of its own (section 6, *Registering*). Trains may still be
stopped, time out, be refused and free everything at any time.

*Coordinator*, for all trains, sensors, speeds and expected times. The invariant: the
lists of the sensor queue are sorted and name a task once (QueueOK), no entry is of a
task that is still to be started (NoneToCome), a notifier has an entry at a sensor exactly
if it waits for it (WaitersListed), and the prediction of a train of which no task was killed
waits exactly while its route notifier does, so that none waits for a train that has no
sensor yet (TrainInStep). WaitersListed holds until the
pool is used up and the coordinator panics. That it is not used up before the
first kill is a count: each entry belongs to one train and notifier, no two to the same,
and CoordAssumption gives the pool two entries for each train. After a kill entries
stay behind (coord_kill), so QueueSound claims no more. What it claims of the trap is
TrapExplained: the train in question has never waited for a sensor, and either it has
changed from a speed that it had already reached (*A speed changed before the first
sensor*, section 6) or tasks of it were killed: then an entry left behind of a route
notifier is answered for the next task, which TrainInStep excludes before a kill. The
reply loop changes the queues
while it goes through one of them; each of its rounds keeps the lists sound.

**SnakeProofs**, for every number of trains, ring, speeds and distances. SafeInv says of a
game that goes on: the speeds of the trains and those queued are supported, every grace
period is timed by the one timer task, and the queue of each sensor lists exactly
the trains that have not passed it since the head did, in their order. The last part is
what RightTrains needs, and it has to relate the queues to where the trains really are:
`behind` does not increase from the head to the tail, and the head is never a whole lap
ahead. SnakeAssumption: the snake is at least two sensors shorter than the ring (MaxLag + 2
<= Ring), or else the head would find the queue of its next sensor in use; very
low, medium and very high speed are in this order and above the stop and reverse of the
decoder.

**ListLemmas.** The prover cannot use the library's induction theorems. A loop of the code
is instead described by the list of its intermediate values, which exists by one lemma
(LoopExists), and what holds at its end is shown by the least step at which it fails
(NatMin), so that no induction over an operator is needed. WalkEnds says that what follows
links to larger indices ends. The rest are facts about Append, Tail, SubSeq, InsertAt and
concatenation, element by element.

Only model-checked:

* Liveness (SendsReceived, DelaysEnd, EveryByteSent, TimeoutsAnswered, TrainArrives) and what
  rests on ENABLED, which the prover does not do.
* Everything in Routing: its loops are RECURSIVE operators, which the prover cannot be used
  with, and its properties are about the tables of the two tracks, which TLC evaluates in
  full.

## 6. Other disagreements between code and documentation

Met while modelling and seen as counterexamples with the constants named here;
they are not among the runs. In each the model is the same; only constants, and
the property named, differ.

* *Chains of senders.* `msg.h:6` says a message "is copied to the memory of the
  task to which it is sent". `waiting_senders_next` is both the head of a task's
  queue of senders and its link in the queue in which it waits (task-state.c:182):
  if A waits to send to B and B to send to C, C receives A's message too. (Kernel,
  tasks of one priority that send to each other.) The programs of the repository do
  not build such chains: servers do not send to tasks that send to them.
* *Killed while waiting for an event.* `task.h:94` says KillChild "causes specified
  child task (and all it's children) to cease execution immediately". The kill is
  lazy (task-state.c:125) and event_queue_unblock_one sets STATE_READY whatever
  the state was, so an interrupt in between revives the task. And `task.h:80`,
  "It is removed from all priority queues, send queues, receive queues and event
  queues": task_dealloc leaves it in the event queue, whose later waiters are cut
  off when the descriptor is used again (EventWaitersQueued, with a Program in
  which parents kill tasks that wait for the timer).
* *Torn read of the time.* sys-clock.c:18 reads the high word, "read hi first, less
  likely to change", then the low word; a carry in between makes the time 2^32
  ticks (71 minutes) too small and a Delay end early, though `clock.h:40` says
  "Blocks the caller until at least until the specified number of ticks has
  elapsed". (ClockServer with Word = 4, MaxTime = 8: NeverEarly.)
* *Long and negative delays.* clock.c:37 casts the length in microseconds to
  uint32_t, so 429497 ticks or more are taken modulo 2^32 (Word = 8, a delay of 4
  ticks of 2: NeverEarly). `clock.h:62` documents "-2 negative delay" for
  DelayUntil, but the int becomes a huge uint64_t first (clock.c:51): the call is
  not rejected and never returns.
* *Late timeouts.* The notifier of a request whose train was stopped still runs; its
  message ends whatever the restarted train has asked since, and
  track_server_lock_all_segments does not look at the reply, though
  `track-segment-locking.h:24` says it "Blocks until timeout (if specified) or until
  all segment locks acquired" (TrackServer with stops: HeldIsLocked).
* *Registering.* MSG_TS_TRAIN_REGISTER (track-server.c:409) overwrites the lock of
  whoever has the segment; train.c:624 says "guarantee that we are the only train in
  our segment (i hope)" (trains that start on one segment: HeldIsLocked).
* *A speed changed before the first sensor.* position.c:74 says "already have an estimate
  to next sensor". Two equal speed commands make a speed constant (position.c:122); a
  third, different one is then taken for a change on the way to a sensor
  (position.c:147), and if the train has not waited for one yet, the module it waited at
  last is 0 and `uassert(0 <= act_sensor_mod ...)` (sensor-queue.c:118) traps the
  coordinator: `tr 24 9`, `tr 24 9`, `tr 24 0` are enough. An entry of a killed route
  notifier, answered for a train that is started again, leads there as well
  (position.c:267). Both are reached in servers_safe; `trapped` is the state, and
  QueueSound says that there is no third way.
* *A train started twice.* program-tasks.c:99 says that `trains` "stores last created for
  killing". If `tc` is given for a train that has a task, the new task is refused and
  ends, but its tid replaces the one of the running task (program-tasks.c:141). The next
  `st` then kills nothing, and "deregister on behalf of killed train"
  (program-tasks.c:152) takes the running train's waits from the coordinator: its
  notifiers are never answered. And `st` before any `tc` reads an uninitialised entry.
  (By reading; Coordinator assumes that trains are not started twice.)
* *free_all.* MSG_TS_FREE_ALL (track-server.c:386) does not try the blocked trains
  again as MSG_TS_FREE_SEGMENTS does (TrainCalls with ALL and FREE_ALL: NoLostWakeup).
* *Asking.* `track-segment-locking.h:49` says "returns true if the given segmentID is
  locked"; the server answers SUCCESS when it is free (track-server.c:140) and the
  call returns true for SUCCESS.
* *Swapped CTS changes.* An interrupt between AwaitEvent and Send of the first CTS
  notifier (marklin-server.c:252) puts it behind the second; the server sees CTS high
  before low and waits for ever. `docs/k4/k4.tex:369`: "our server can ensure it does
  not miss any CTS signal changes". (MarklinServer, Spacing = "handled": EveryByteSent.)
* *Full output queue.* deque_push_back drops and the server replies success;
  `uart-server.h:52` says "On return the only guarantee is that the character has been
  queued". (WriteCap = 2.)
* *Half duplex.* handleSending looks only at the CTS state, so a byte may be sent while
  sensor data is outstanding; `docs/k4/k4.tex:372` says "during this time, no bytes can
  be sent to the Märklin". The flag described there, MARKLIN_RECEIVING_SENSOR, is never
  set. And the counter of outstanding bytes is set to the number of modules, half of
  what comes (`k4.tex:379`: "Once the counter reaches 0, the server can be sure that
  all expected bytes have been received").
* *A key left in the FIFO.* A receive timeout that fires while the read notifier is not
  in AwaitEvent wakes nobody and is cleared (interrupts.c:101): the key waits until the
  next is typed. `k4.tex:389`: "The notifier waits on this interrupt and when triggered
  flushes the bytes present in the FIFO".

* *The penalty.* `tc2.tex:133` says routing multiplies "the distance of any currently
  in-use segments by a fixed penalty multiplier". Because of the inverted
  answer (*Asking*) it multiplies that of free ones; and it is applied to the last edge
  only, since the weighted distance is computed from the plain distance of the
  predecessor (routing.c:226). SearchExact therefore claims shortest paths only where
  nothing was penalised.
* *Unreachable ends.* routing.c:195 tests for the end before routing.c:201 tests that
  the node can be reached, so an end that the heap happens to give first among the
  unreachable nodes is "found". For an end that is the start, or not a sensor, the
  loops after the search pop the empty queue for ever (`LOST` in Routing).
* *An acceleration that ends at the end* is a NORMAL_SEGMENT with no decision point
  (routing.c:411, :495), from which train.c plans from the destination to itself;
  routing.h says "All Path Finding Methods return the routing actions to the end of
  the sector, and the decision point of the sector".
* *Offsets.* With an offset of a third of the stretch or more the decision point lies
  after the sensor at the end of the sector, though `routing.h` says "the latest time
  before the sector-end sensor"; DecisionInLastSegment is claimed without offset.
* *Dead ends.* The stretch to a destination whose segment goes on beyond it is not
  asked for (the exception in StretchesLocked).
* *Sizes.* init_track_a writes track[140] to track[143]; `track-data.h:5` says "The
  track initialization functions expect an array of this size", which is 140.
  speed-data.c assigns short_moves[0][16] twice and leaves [17] unset, and a distance
  above a row reads past it.
* *Locks of a reversed train.* train.c:382 subtracts 75 ticks from a delay that is
  unsigned and may be smaller: the time to decide wraps to hours and the lock is
  never refused.
* *Switches of the next route.* `train.c:519` "throw next route's switches" throws those
  left of the current one, which there are none of; the next route's are thrown when it
  is begun (SwitchesBefore shows that this is early enough here).
* *End of a short move.* It frees all but the segment behind its first sensor, not the
  one where it stands (the exception in OnlyOnLocked).
* *Position.* position.h:31 says "discard earlier speed changes"; a reset queued after
  a change keeps the older change, and the early return for the first sensor after a
  start leaves both queued. SP_REVERSE (15) is taken for a speed. The adjustment in
  trn_position_reached_sensor looks for an entry that was taken out just before.
* *Sensor robustness.* The periodic check for missed sensors of `tc2.tex:317` is not in
  the code.
* *The end of the snake game.* main.c:70 "need to manually shut down snake": the user
  server ends first, so a sensor reported in between reaches uassert(next) (`panic` in
  Snake); and when the timer task is due just then, its Send and the server's Send of
  END wait for each other.
* *A missed sensor in the snake game* leaves an entry in the queue of the sensor; the
  next lap is taken for the rest of this one, and the game does not go on. Snake
  assumes that every train is reported at every sensor.

## 7. What is not modelled

* The context switch and boot code: assembly, its effect is the atomic step of Kernel.
* Displays, parsing of commands, string formatting: text only.
* The arithmetic of predicted times (position.c) and of distances between the trains
  of the snake: real-valued physics; the models take any value of a set.
* The player's choices and the tables of sensors in the user server (user.c): what of
  it reaches the snake server is left open in Snake.
* The copies of the track and speed tables in final-project/, device registers, earlier
  assignments' programs, the preset demonstration program and the start-up of tasks.
* Limits that are in the models but that no property is about, because the programs of the
  repository do not come to them: the 257th task that delays at once is dropped from the
  clock queue, and a task that registers more names than the table holds stops the name
  server. And circular waits: trains that lock without timeout may wait for each other for
  ever, in the track server (servers_safe) as in the code.
* Within the modelled parts: message contents, return values of calls that no property
  needs, deque_move and the iteration bounds of deque_itr (its only caller is a
  display), the overflow of fixed-size message buffers, the memory around arrays that
  are read or written out of bounds, MSG_TS_REQUEST_SEGMENTS_AND_OR_NO_TIMEOUT, which no
  call sends, and the debouncing of sensor reports.
