------------------------------- MODULE Kernel -------------------------------
(***************************************************************************)
(* The microkernel of cs452-kernel: task descriptors, the priority ready   *)
(* queues and scheduler, task creation and killing, Send/Receive/Reply and *)
(* the event queues fed by the interrupt handler.                          *)
(*                                                                         *)
(* The kernel runs with interrupts masked, so everything between two       *)
(* context switches is one atomic step.  A behaviour alternates between a  *)
(* scheduling step (kernel_main lines 82-90) and a step in which the       *)
(* running task traps back, by a system call or by an interrupt, and the   *)
(* handler and the tail of the kernel loop (lines 107-119) are executed.   *)
(*                                                                         *)
(* What user tasks do is the constant Program: the system calls that a     *)
(* task of a given priority may make, and with which argument.  The        *)
(* theorems hold for every Program; the runs choose small ones.            *)
(***************************************************************************)
EXTENDS DescPool, Integers, Sequences, FiniteSets, SequencesExt

CONSTANTS
  NullTask,          \* the NULL task_t pointer
  N_PRIORITY,        \* number of priorities, P_IDLE = 0 is the lowest
  N_SERVER_PRIORITY, \* how many of the highest ones belong to servers
  FirstTid,          \* global_tid when the kernel starts (50)
  MaxSTid,           \* INT16_MAX: the largest tid an int16_t holds
  MaxUTid,           \* UINT16_MAX: the largest tid a uint16_t holds
  WRAP_AROUND_TID,   \* where the search for a tid restarts (300)
  NullTid,           \* the uint16_t that NULL->tid reads from low memory
  N_EVENTS,          \* events are 0..N_EVENTS-1, TIMER_TICK = 0
  Program            \* which calls a task of each priority may make

P_IDLE == 0
P_LOW == 1
P_SERVER_LO == N_PRIORITY - N_SERVER_PRIORITY
Priority == 0 .. N_PRIORITY - 1
UserPriority == P_IDLE + 1 .. N_PRIORITY - N_SERVER_PRIORITY - 1
NAMESERVER_TID == 1
TIMER_TICK == 0
Event == 0 .. N_EVENTS - 1
ReadyState == {"RUNNING", "READY", "SEND_WAIT", "RPLY_WAIT", "RCV_WAIT",
               "EVENT_WAIT", "KILLED"}
Call == {"CREAT", "YIELD", "EXIT", "KILL_CHILD", "KILL",
         "SEND", "RCV", "RPLY", "AWAIT"}

ASSUME NullAssumption == NullTask \notin Desc
ASSUME PriorityAssumption ==
  /\ N_PRIORITY \in Nat /\ N_SERVER_PRIORITY \in Nat
  /\ P_LOW \in UserPriority
  /\ P_SERVER_LO \in Priority
ASSUME EventAssumption == N_EVENTS \in Nat \ {0}
ASSUME TidAssumption ==
  /\ FirstTid \in Nat /\ MaxSTid \in Nat /\ MaxUTid \in Nat
  /\ WRAP_AROUND_TID \in Nat /\ NullTid \in 0 .. MaxUTid
  /\ NAMESERVER_TID <= FirstTid
  /\ FirstTid + 2 <= MaxSTid
  \* 32767 + 1024 descriptors stay below 65535
  /\ MaxSTid + Cardinality(Desc) < MaxUTid
\* A program is a set of triples <<caller's priority, call, argument>>: the
\* argument is the priority of the task created, killed, sent or replied to,
\* or the event awaited, and 0 for the calls that have none.
ASSUME ProgramAssumption == Program \subseteq Priority \X Call \X Nat

VARIABLES
  kmain,       \* "run", "exit" (loop left), "spin" (in an endless loop), "fault"
  cur,         \* curr_user_task while it runs, NullTask in the kernel
  rq,          \* the ready queue of each priority (front, back, next)
  global_tid,  \* task_queue.global_tid
  tid, parent, prio, ready_state, \* fields of task_t
  wsn,         \* task_t.waiting_senders_next
  ewn,         \* task_t.event_wait_next
  dest,        \* x1 of a task's last Send: the tid it sends to
  front, back  \* event_queue.front and .back

vars == <<kmain, cur, used, rq, global_tid, tid, parent, prio, ready_state,
          wsn, ewn, dest, front, back>>

-----------------------------------------------------------------------------
(* Ready queues: task-queue.c                                              *)

InQueues(q) == UNION {Range(q[p]) : p \in Priority}
Queued == InQueues(rq)

\* task_queue_push: to the back of the queue of the task's priority
Push(q, p, t) == [q EXCEPT ![p] = Append(@, t)]

\* task_queue_empty: no task left but idle and server tasks
NoUserTask(q) == \A p \in UserPriority : q[p] = <<>>

\* The word read as cur->parent->tid; through a NULL parent it is whatever
\* low memory holds.
ParentTid(d) == IF parent[d] = NullTask THEN NullTid ELSE tid[parent[d]]

\* task_queue_get_tid: the first tid after global_tid that no queued task has,
\* -1 if there is none (as the set of the one result)
TidsFromFirst == FirstTid + 1 .. MaxUTid  \* faulty: restarts every search
TidsSkipping == global_tid + 2 .. MaxUTid  \* faulty: skips a tid
TidsTried ==
  (IF global_tid = MaxUTid THEN WRAP_AROUND_TID ELSE global_tid + 1) .. MaxUTid
FreeTids == TidsTried \ {tid[d] : d \in Queued}
GetTid ==
  IF FreeTids = {} THEN {-1} ELSE {k \in FreeTids : \A j \in FreeTids : k <= j}

\* task_queue_kill_children: the tasks of the user priorities it marks, found
\* by recursion over "parent->tid"
Killable == UNION {Range(rq[p]) : p \in UserPriority}
ClosedUnderChildren(S, k) ==
  \A d \in Killable :
    (ParentTid(d) = k \/ \E e \in S : ParentTid(d) = tid[e]) => d \in S
Descendants(k) ==
  {d \in Killable :
     \A S \in SUBSET Killable : ClosedUnderChildren(S, k) => d \in S}

\* The recursion does not end when it comes back to a task it is under.  Real
\* parent links have no cycle; the word behind NULL can close one.
KillRecurses(k) ==
  \E d \in Descendants(k) \cap Descendants(NullTid) : tid[d] = NullTid

-----------------------------------------------------------------------------
(* The tail of the kernel loop (kernel.c:107-119) for a task that ran      *)

\* STATE_RUNNING ends when the task is queued again
AfterRun(s) == IF s = "RUNNING" THEN "READY" ELSE s

\* task_queue_add of the task that ran; st and q are the ready states and
\* queues as its handler left them
Requeue(t, st, q) ==
  LET q1 == Push(q, prio[t], t) IN
  /\ ready_state' = [st EXCEPT ![t] = AfterRun(@)]
  /\ rq' = q1
  /\ cur' = NullTask
  /\ kmain' = IF NoUserTask(q1) THEN "exit" ELSE "run"

\* task_queue_free_tid: the parent pointers of t's children become NULL
NotOrphaned(t, q) == parent  \* faulty: they do not
Orphaned(t, q) ==
  [d \in Desc |->
     IF d \in InQueues(q) /\ ParentTid(d) = tid[t] THEN NullTask ELSE parent[d]]

\* task_dealloc: orphan the children, give back stack and descriptor
Dealloc(t, q) ==
  /\ parent' = Orphaned(t, q)
  /\ ready_state' = [ready_state EXCEPT ![t] = "KILLED"]
  /\ used' = used \ {t}
  /\ rq' = q
  /\ cur' = NullTask
  /\ kmain' = IF NoUserTask(q) THEN "exit" ELSE "run"
  /\ UNCHANGED <<global_tid, tid, prio, wsn, ewn, dest, front, back>>

Requeued(t) == \* a call that changes nothing but the queues
  /\ Requeue(t, ready_state, rq)
  /\ UNCHANGED <<used, global_tid, tid, parent, prio, wsn, ewn, dest, front, back>>

\* The kernel never comes back from its handler
Stuck(how) ==
  /\ kmain' = how
  /\ UNCHANGED <<cur, used, rq, global_tid, tid, parent, prio, ready_state,
                 wsn, ewn, dest, front, back>>

Calls(t, c, a) ==
  /\ kmain = "run"
  /\ t = cur
  /\ <<prio[t], c, a>> \in Program

-----------------------------------------------------------------------------
(* Scheduling: task_queue_schedule                                         *)

Runnable(p) ==
  {i \in DOMAIN rq[p] : ready_state[rq[p][i]] \in {"READY", "KILLED"}}

\* The first runnable task of the highest priority that has one
Scheduled(p, i) ==
  /\ i \in Runnable(p)
  /\ \A j \in Runnable(p) : i <= j
  /\ \A h \in Priority : h > p => Runnable(h) = {}

ScheduleReady(p, i) ==
  LET t == rq[p][i] IN
  /\ kmain = "run" /\ cur = NullTask
  /\ Scheduled(p, i)
  /\ ready_state[t] = "READY"
  /\ ready_state' = [ready_state EXCEPT ![t] = "RUNNING"]
  /\ cur' = t
  /\ rq' = [rq EXCEPT ![p] = RemoveAt(@, i)]
  /\ UNCHANGED <<kmain, used, global_tid, tid, parent, prio, wsn, ewn, dest,
                 front, back>>

\* faulty: the killed task stays linked
ScheduleKilledLinked(p, i) ==
  /\ kmain = "run" /\ cur = NullTask
  /\ Scheduled(p, i)
  /\ ready_state[rq[p][i]] = "KILLED"
  /\ Dealloc(rq[p][i], rq)

ScheduleKilled(p, i) ==
  /\ kmain = "run" /\ cur = NullTask
  /\ Scheduled(p, i)
  /\ ready_state[rq[p][i]] = "KILLED"
  /\ Dealloc(rq[p][i], [rq EXCEPT ![p] = RemoveAt(@, i)])

\* kernel.c:85 dereferences the NULL that task_queue_schedule returned
ScheduleNone ==
  /\ kmain = "run" /\ cur = NullTask
  /\ \A p \in Priority : Runnable(p) = {}
  /\ Stuck("fault")

-----------------------------------------------------------------------------
(* System calls: task_svc_handle                                           *)

\* task_init: registers, parent and priority (it also makes the task READY)
TaskInit(d, t, p) ==
  /\ parent' = [parent EXCEPT ![d] = t]
  /\ prio' = [prio EXCEPT ![d] = p]
  /\ dest' = [dest EXCEPT ![d] = 0]

\* task_clear of the descriptors in c (it also clears their tids)
TaskClear(c) ==
  /\ wsn' = [x \in Desc |-> IF x \in c THEN NullTask ELSE wsn[x]]
  /\ ewn' = [x \in Desc |-> IF x \in c THEN NullTask ELSE ewn[x]]

\* SYS_CREAT with descriptor d: task_clear of the set c, task_init, then
\* task_queue_add, whose int16_t turns tids above MaxSTid into errors.  The
\* error path returns -2 and keeps descriptor and stack.
CreateTask(t, p, d, c) ==
  LET st == [ready_state EXCEPT ![d] = "READY"]
      cleared == [x \in Desc |-> IF x \in c THEN 0 ELSE tid[x]]
  IN
  /\ used' = used \cup {d}
  /\ TaskInit(d, t, p)
  /\ TaskClear(c)
  /\ UNCHANGED <<front, back>>
  /\ \E k \in GetTid :
       /\ global_tid' = IF k = -1 THEN global_tid ELSE k
       /\ \/ /\ k \notin 0 .. MaxSTid
             /\ tid' = cleared
             /\ Requeue(t, st, rq)
          \/ /\ k \in 0 .. MaxSTid
             /\ tid' = [cleared EXCEPT ![d] = k]
             /\ Requeue(t, st, Push(rq, p, d))

\* faulty: the priority is not validated
SysCreatUnchecked(t, p) ==
  /\ Calls(t, "CREAT", p)
  /\ \E n \in NewDesc : CreateTask(t, p, n[1], n[2])

SysCreat(t, p) ==
  /\ Calls(t, "CREAT", p)
  /\ \/ /\ p \notin Priority \/ NewDesc = {}  \* returns -1, -2
        /\ Requeued(t)
     \/ /\ p \in Priority
        /\ \E n \in NewDesc : CreateTask(t, p, n[1], n[2])

\* SYS_YIELD, and SYS_TID, SYS_PTID and SYS_IDLE_STATUS, which only read
SysYield(t) ==
  /\ Calls(t, "YIELD", 0)
  /\ Requeued(t)

SysExit(t) ==
  /\ Calls(t, "EXIT", 0)
  /\ Dealloc(t, rq)

SysKillChild(t) ==
  /\ Calls(t, "KILL_CHILD", 0)
  /\ \/ /\ KillRecurses(tid[t])
        /\ Stuck("fault")
     \/ /\ ~KillRecurses(tid[t])
        /\ Requeue(t, [d \in Desc |-> IF d \in Descendants(tid[t])
                                      THEN "KILLED" ELSE ready_state[d]], rq)
        /\ UNCHANGED <<used, global_tid, tid, parent, prio, wsn, ewn, dest,
                       front, back>>

\* c is what task_queue_get finds for the tid given, NullTask for no task
MayKillAny(t, c) == c # NullTask  \* faulty: no authorisation
MayKill(t, c) == c # NullTask /\ (parent[c] = t \/ prio[t] >= P_SERVER_LO)
SysKill(t, c) ==
  \/ /\ c = NullTask
     /\ \E p \in Priority : Calls(t, "KILL", p)
     /\ Requeued(t)
  \/ /\ c # NullTask
     /\ Calls(t, "KILL", prio[c])
     /\ \/ ~MayKill(t, c) /\ Requeued(t)
        \/ MayKill(t, c) /\ KillRecurses(tid[c]) /\ Stuck("fault")
        \/ /\ MayKill(t, c) /\ ~KillRecurses(tid[c])
           /\ Requeue(t, [d \in Desc |-> IF d = c \/ d \in Descendants(tid[c])
                                         THEN "KILLED" ELSE ready_state[d]], rq)
           /\ UNCHANGED <<used, global_tid, tid, parent, prio, wsn, ewn, dest,
                          front, back>>

\* Send called first: append t to the waiting senders of r.  The loop that
\* should find the last one reloads the first one, and never ends if there is
\* one.  SendOverwrites (faulty) drops the loop.
SendOverwrites(t, r) ==
  /\ Requeue(t, [ready_state EXCEPT ![t] = "SEND_WAIT"], rq)
  /\ wsn' = [wsn EXCEPT ![r] = t]
SendFirst(t, r) ==
  \/ /\ wsn[r] = NullTask
     /\ Requeue(t, [ready_state EXCEPT ![t] = "SEND_WAIT"], rq)
     /\ wsn' = [wsn EXCEPT ![r] = t]
  \/ /\ wsn[r] # NullTask
     /\ kmain' = "spin"
     /\ ready_state' = [ready_state EXCEPT ![t] = "SEND_WAIT"]
     /\ UNCHANGED <<cur, rq, wsn>>

SysSend(t, r) ==
  \/ /\ r = NullTask
     /\ \E p \in Priority : Calls(t, "SEND", p)
     /\ Requeued(t)
  \/ /\ r # NullTask
     /\ Calls(t, "SEND", prio[r])
     /\ dest' = [dest EXCEPT ![t] = tid[r]]
     /\ UNCHANGED <<used, global_tid, tid, parent, prio, ewn, front, back>>
     /\ \/ /\ ready_state[r] = "RCV_WAIT"
           /\ Requeue(t, [ready_state EXCEPT ![t] = "RPLY_WAIT", ![r] = "READY"], rq)
           /\ UNCHANGED wsn
        \/ /\ ready_state[r] # "RCV_WAIT"
           /\ SendFirst(t, r)

\* faulty: the sender is unlinked but not moved to STATE_RPLY_WAIT
SysReceiveSilent(t) ==
  /\ Calls(t, "RCV", 0)
  /\ UNCHANGED <<used, global_tid, tid, parent, prio, ewn, dest, front, back>>
  /\ LET s == wsn[t] IN
     \/ /\ s # NullTask
        /\ wsn' = [wsn EXCEPT ![t] = wsn[s], ![s] = NullTask]
        /\ Requeue(t, ready_state, rq)
     \/ /\ s = NullTask
        /\ UNCHANGED wsn
        /\ Requeue(t, [ready_state EXCEPT ![t] = "RCV_WAIT"], rq)

SysReceive(t) ==
  /\ Calls(t, "RCV", 0)
  /\ UNCHANGED <<used, global_tid, tid, parent, prio, ewn, dest, front, back>>
  /\ LET s == wsn[t] IN
     \/ /\ s # NullTask
        /\ wsn' = [wsn EXCEPT ![t] = wsn[s], ![s] = NullTask]
        /\ Requeue(t, [ready_state EXCEPT ![s] = "RPLY_WAIT"], rq)
     \/ /\ s = NullTask
        /\ UNCHANGED wsn
        /\ Requeue(t, [ready_state EXCEPT ![t] = "RCV_WAIT"], rq)

SysReply(t, s) ==
  \/ /\ s = NullTask
     /\ \E p \in Priority : Calls(t, "RPLY", p)
     /\ Requeued(t)
  \/ /\ s # NullTask
     /\ Calls(t, "RPLY", prio[s])
     /\ Requeue(t, [ready_state EXCEPT
                      ![s] = IF @ = "RPLY_WAIT" THEN "READY" ELSE @], rq)
     /\ UNCHANGED <<used, global_tid, tid, parent, prio, wsn, ewn, dest, front, back>>

\* event_queue_block
SysAwait(t, e) ==
  /\ Calls(t, "AWAIT", e)
  /\ \/ /\ e \notin Event  \* returns -1
        /\ Requeued(t)
     \/ /\ e \in Event
        /\ \/ /\ back[e] = NullTask
              /\ front' = [front EXCEPT ![e] = t]
              /\ UNCHANGED ewn
           \/ /\ back[e] # NullTask
              /\ ewn' = [ewn EXCEPT ![back[e]] = t]
              /\ UNCHANGED front
        /\ back' = [back EXCEPT ![e] = t]
        /\ Requeue(t, [ready_state EXCEPT ![t] = "EVENT_WAIT"], rq)
        /\ UNCHANGED <<used, global_tid, tid, parent, prio, wsn, dest>>

-----------------------------------------------------------------------------
(* Interrupts: handle_interrupt                                            *)

\* The tasks event_queue_unblock_all pops: it follows event_wait_next from
\* the front and clears the links it has followed
Waiters(e) ==
  {d \in Desc :
     \A S \in SUBSET Desc :
       /\ front[e] \in S
       /\ \A x \in S : ewn[x] # NullTask => ewn[x] \in S
       => d \in S}

TimerInterrupt(t) ==
  LET w == IF front[TIMER_TICK] = NullTask THEN {} ELSE Waiters(TIMER_TICK) IN
  /\ kmain = "run" /\ t = cur
  /\ Requeue(t, [d \in Desc |-> IF d \in w THEN "READY" ELSE ready_state[d]], rq)
  /\ ewn' = [d \in Desc |-> IF d \in w THEN NullTask ELSE ewn[d]]
  /\ front' = [front EXCEPT ![TIMER_TICK] = NullTask]
  /\ back' = [back EXCEPT ![TIMER_TICK] = IF front[TIMER_TICK] = NullTask
                                          THEN @ ELSE NullTask]
  /\ UNCHANGED <<used, global_tid, tid, parent, prio, wsn, dest>>

\* The back of queue e once its head h is popped
BackKept(v, e, h) == v.back[e]  \* faulty: the last task popped stays the back
BackAfterPop(v, e, h) == IF v.ewn[h] = NullTask THEN NullTask ELSE v.back[e]

\* event_queue_unblock_one of event e if it is in S, on the event queues v
UnblockOne(v, e, S) ==
  LET h == v.front[e] IN
  IF e \notin S \/ h = NullTask THEN v
  ELSE [st    |-> [v.st EXCEPT ![h] = "READY"],
        ewn   |-> [v.ewn EXCEPT ![h] = NullTask],
        front |-> [v.front EXCEPT ![e] = v.ewn[h]],
        back  |-> [v.back EXCEPT ![e] = BackAfterPop(v, e, h)]]

CONSOLE_RX == 1
MARKLIN_RX == 2
MARKLIN_CTS == 3

\* S: the UART causes pending when the handler reads the mask registers
UartInterrupt(t, S) ==
  LET v0 == [st |-> ready_state, ewn |-> ewn, front |-> front, back |-> back]
      v == UnblockOne(UnblockOne(UnblockOne(v0, MARKLIN_CTS, S), MARKLIN_RX, S),
                      CONSOLE_RX, S)
  IN
  /\ kmain = "run" /\ t = cur
  /\ Requeue(t, v.st, rq)
  /\ ewn' = v.ewn /\ front' = v.front /\ back' = v.back
  /\ UNCHANGED <<used, global_tid, tid, parent, prio, wsn, dest>>

-----------------------------------------------------------------------------
\* kernel_init: user_main, the name server and the idle task
KernelInit(u, n, i) ==
  /\ u # n /\ u # i /\ n # i
  /\ kmain = "run" /\ cur = NullTask
  /\ used = {u, n, i}
  /\ rq = [p \in Priority |->
             CASE p = P_IDLE -> <<i>> [] p = P_LOW -> <<u>>
               [] p = P_SERVER_LO -> <<n>> [] OTHER -> <<>>]
  /\ global_tid = FirstTid + 2
  /\ tid = [d \in Desc |-> CASE d = n -> NAMESERVER_TID [] d = u -> FirstTid + 1
                             [] d = i -> FirstTid + 2 [] OTHER -> 0]
  /\ prio = [d \in Desc |-> CASE d = n -> P_SERVER_LO [] d = u -> P_LOW
                              [] OTHER -> P_IDLE]
  /\ parent = [d \in Desc |-> NullTask]
  /\ ready_state = [d \in Desc |-> IF d \in used THEN "READY" ELSE "KILLED"]
  /\ wsn = [d \in Desc |-> NullTask]
  /\ ewn = [d \in Desc |-> NullTask]
  /\ dest = [d \in Desc |-> 0]
  /\ front = [e \in Event |-> NullTask]
  /\ back = [e \in Event |-> NullTask]

Init == \E s \in Slabs : \E u, n, i \in s : KernelInit(u, n, i)

Schedule ==
  \/ \E p \in Priority : \E i \in DOMAIN rq[p] :
       ScheduleReady(p, i) \/ ScheduleKilled(p, i)
  \/ ScheduleNone
Found == Queued \cup {NullTask}  \* what task_queue_get may return
Syscall(t) ==
  \/ \E p \in 0 .. N_PRIORITY : SysCreat(t, p)
  \/ SysYield(t)
  \/ SysExit(t)
  \/ SysKillChild(t)
  \/ \E c \in Found : SysKill(t, c)
  \/ \E r \in Found : SysSend(t, r)
  \/ SysReceive(t)
  \/ \E s \in Found : SysReply(t, s)
  \/ \E e \in 0 .. N_EVENTS : SysAwait(t, e)
Interrupt(t) ==
  \/ TimerInterrupt(t)
  \/ \E S \in SUBSET (Event \ {TIMER_TICK}) : UartInterrupt(t, S)

Next == Schedule \/ \E t \in Desc : Syscall(t) \/ Interrupt(t)
Spec == Init /\ [][Next]_vars

\* The kernel loop keeps scheduling, a running task always comes back to the
\* kernel, and a task that receives does so again and again whenever it runs
\* (every server is an endless loop around Receive).
FairSpec ==
  /\ Spec
  /\ WF_vars(Schedule)
  /\ WF_vars(\E t \in Desc : Syscall(t) \/ Interrupt(t))
  /\ \A t \in Desc : SF_vars(SysReceive(t))

-----------------------------------------------------------------------------
(* Properties                                                              *)

Live == {d \in Desc : d = cur \/ d \in Queued}
Leaked == used \ Live

\* Every field holds a value of its C type, and every pointer is NULL or
\* points to a descriptor.
TypeOK ==
  /\ kmain \in {"run", "exit", "spin", "fault"}
  /\ cur \in Desc \cup {NullTask}
  /\ used \in SUBSET Desc
  /\ rq \in [Priority -> Seq(Desc)]
  /\ global_tid \in 0 .. MaxUTid
  /\ tid \in [Desc -> 0 .. MaxUTid]
  /\ parent \in [Desc -> Desc \cup {NullTask}]
  /\ prio \in [Desc -> Priority]
  /\ ready_state \in [Desc -> ReadyState]
  /\ wsn \in [Desc -> Desc \cup {NullTask}]
  /\ ewn \in [Desc -> Desc \cup {NullTask}]
  /\ dest \in [Desc -> 0 .. MaxUTid]
  /\ front \in [Event -> Desc \cup {NullTask}]
  /\ back \in [Event -> Desc \cup {NullTask}]

\* Each task is linked once, in the queue of its priority
WellQueued(q, pr) ==
  \A p \in Priority : \A i \in 1 .. Len(q[p]) :
    /\ pr[q[p][i]] = p
    /\ \A j \in 1 .. Len(q[p]) : q[p][i] = q[p][j] => i = j

\* A descriptor has one owner (kernel.c "drop ownership"): it is running, or
\* linked once in the ready queue of its own priority, or neither; and one
\* that is running or linked has not been given back to task_alloc.
OneOwner ==
  /\ Live \subseteq used
  /\ cur \notin Queued
  /\ WellQueued(rq, prio)

\* No two active tasks have the same tid (task.h: "must be unique"), though
\* task_queue_get_tid does not look at the running task.
TidsUnique ==
  \A d, e \in Live : tid[d] = tid[e] => d = e

\* The search for a tid never wraps around: when int16_t makes Create fail,
\* every failure leaks a descriptor, and they run out first.
NeverWraps == global_tid <= MaxSTid + Cardinality(Leaked)

\* The parent pointer that MyParentTid follows is NULL or the task that
\* created this one, still active: never a freed or reused descriptor.
ParentActive ==
  \A d \in Live :
    parent[d] # NullTask => parent[d] \in Live /\ tid[parent[d]] < tid[d]

\* The kernel never enters the endless loop of task-state.c:164.
NoSpin == kmain # "spin"

\* The scheduler always finds a task to run.
NoFault == kmain # "fault"

\* Following waiting_senders_next from task r
SendersOf(r) ==
  {d \in Desc :
     \A S \in SUBSET Desc :
       /\ wsn[r] # NullTask => wsn[r] \in S
       /\ \A x \in S : wsn[x] # NullTask => wsn[x] \in S
       => d \in S}

\* A task blocked in Send is in the sender queue of the task it sent to.
SendersQueued ==
  \A s \in Queued : ready_state[s] = "SEND_WAIT" =>
    \E r \in Live : tid[r] = dest[s] /\ s \in SendersOf(r)

\* A task blocked on an event is in the queue of some event: an interrupt can
\* still wake it.
EventWaitersQueued ==
  \A d \in Live : ready_state[d] = "EVENT_WAIT" =>
    \E e \in Event : front[e] # NullTask /\ d \in Waiters(e)

\* A blocked task is linked in the queue that wakes it (task-state.c:182, 244).
BlockedQueued == SendersQueued /\ EventWaitersQueued

\* A task blocked in Send is received in the end.
SendsReceived ==
  \A d \in Desc :
    (kmain = "run" /\ ready_state[d] = "SEND_WAIT") ~>
    (kmain # "run" \/ ready_state[d] # "SEND_WAIT")
=============================================================================
