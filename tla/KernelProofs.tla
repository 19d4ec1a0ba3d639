---------------------------- MODULE KernelProofs ----------------------------
(***************************************************************************)
(* Theorems about Kernel, for every set of descriptors, every number of    *)
(* priorities, tids and events, and every program the tasks may run: the   *)
(* type invariant, then the inductive invariant Inv, which says that a     *)
(* descriptor has one owner, that tids are unique and never wrap, and that *)
(* parent pointers never dangle.  On top of Inv: IdleInv, that the idle    *)
(* task stays runnable, and WaitInv, that the links of the event queues    *)
(* form lists of exactly the tasks that wait and that a task blocked in    *)
(* Send is linked once, by which no blocked task is forgotten.             *)
(***************************************************************************)
EXTENDS Kernel, FiniteSetTheorems, SequenceTheorems, TLAPS

\* Appending adds exactly the appended element to the range of a queue.
LEMMA RangeAppend ==
  ASSUME NEW s \in Seq(Desc), NEW t \in Desc
  PROVE  Range(Append(s, t)) = Range(s) \cup {t}
<1> DEFINE a == Append(s, t)
<1>1. /\ DOMAIN a = 1 .. Len(s) + 1 /\ DOMAIN s = 1 .. Len(s)
      /\ Len(s) \in Nat
      /\ \A i \in 1 .. Len(s) : a[i] = s[i]
      /\ a[Len(s) + 1] = t
  OBVIOUS
<1> HIDE DEF a
<1>2. ASSUME NEW x \in Range(a) PROVE x \in Range(s) \cup {t}
  <2>1. PICK i \in 1 .. Len(s) + 1 : x = a[i]
    BY <1>1, <1>2 DEF Range
  <2>2. CASE i = Len(s) + 1
    BY <2>1, <2>2, <1>1
  <2>3. CASE i \in 1 .. Len(s)
    BY <2>1, <2>3, <1>1 DEF Range
  <2>4. QED BY <2>2, <2>3, <1>1
<1>3. ASSUME NEW x \in Range(s) PROVE x \in Range(a)
  <2>1. PICK i \in 1 .. Len(s) : x = s[i]
    BY <1>1, <1>3 DEF Range
  <2>2. i \in DOMAIN a /\ x = a[i]
    BY <2>1, <1>1
  <2>3. QED BY <2>2 DEF Range
<1>4. t \in Range(a)
  <2>1. Len(s) + 1 \in DOMAIN a /\ t = a[Len(s) + 1]
    BY <1>1
  <2>2. QED BY <2>1 DEF Range
<1>5. Range(a) = Range(s) \cup {t}
  BY <1>2, <1>3, <1>4
<1>6. QED BY <1>5 DEF a

\* task_queue_push adds exactly the pushed task to the ready queues.
LEMMA PushQueues ==
  ASSUME NEW q \in [Priority -> Seq(Desc)], NEW p \in Priority, NEW t \in Desc
  PROVE  /\ Push(q, p, t) \in [Priority -> Seq(Desc)]
         /\ InQueues(Push(q, p, t)) = InQueues(q) \cup {t}
<1>1. Push(q, p, t) \in [Priority -> Seq(Desc)]
  BY DEF Push
<1>3. \A r \in Priority : Range(Push(q, p, t)[r]) =
        IF r = p THEN Range(q[r]) \cup {t} ELSE Range(q[r])
  BY RangeAppend DEF Push
<1>4. InQueues(Push(q, p, t)) = InQueues(q) \cup {t}
  BY <1>3 DEF InQueues
<1>5. QED BY <1>1, <1>4

\* Unlinking position i keeps the other elements, in their order.
LEMMA RemoveAtElements ==
  ASSUME NEW s \in Seq(Desc), NEW i \in 1 .. Len(s)
  PROVE  /\ RemoveAt(s, i) \in Seq(Desc)
         /\ Len(RemoveAt(s, i)) = Len(s) - 1
         /\ \A j \in 1 .. Len(s) - 1 :
              RemoveAt(s, i)[j] = IF j < i THEN s[j] ELSE s[j + 1]
<1> DEFINE a == SubSeq(s, 1, i - 1)
           b == SubSeq(s, i + 1, Len(s))
<1>1. /\ a \in Seq(Desc) /\ Len(a) = i - 1
      /\ \A j \in 1 .. i - 1 : a[j] = s[j]
  <2>1. \A j \in 1 .. i - 1 : s[j] \in Desc
    OBVIOUS
  <2>2. QED BY <2>1, SubSeqProperties, Z3
<1>2. /\ b \in Seq(Desc) /\ Len(b) = Len(s) - i
      /\ \A j \in 1 .. Len(s) - i : b[j] = s[i + j]
  <2>1. \A j \in i + 1 .. Len(s) : s[j] \in Desc
    OBVIOUS
  <2>2. /\ b \in Seq(Desc)
        /\ Len(b) = IF i + 1 <= Len(s) THEN Len(s) - (i + 1) + 1 ELSE 0
        /\ \A j \in 1 .. Len(s) - (i + 1) + 1 : b[j] = s[(i + 1) + j - 1]
    BY <2>1, SubSeqProperties, Z3
  <2> HIDE DEF b
  <2>3. QED BY <2>2
<1> HIDE DEF a, b
<1>3. /\ a \o b \in Seq(Desc)
      /\ Len(a \o b) = Len(s) - 1
      /\ \A j \in 1 .. Len(s) - 1 : (a \o b)[j] = IF j < i THEN s[j] ELSE s[j + 1]
  <2>1. /\ a \o b \in Seq(Desc) /\ Len(a \o b) = Len(a) + Len(b)
        /\ \A j \in 1 .. Len(a) + Len(b) :
             (a \o b)[j] = IF j <= Len(a) THEN a[j] ELSE b[j - Len(a)]
    <3>1. a \in Seq(Desc) /\ b \in Seq(Desc)
      BY <1>1, <1>2
    <3>2. QED BY <3>1, ConcatProperties, Zenon
  <2>2. ASSUME NEW j \in 1 .. Len(s) - 1
        PROVE (a \o b)[j] = IF j < i THEN s[j] ELSE s[j + 1]
    <3>1. CASE j < i
      <4>1. (a \o b)[j] = a[j] /\ a[j] = s[j]
        BY <1>1, <1>2, <2>1, <3>1
      <4>2. QED BY <4>1, <3>1
    <3>2. CASE ~(j < i)
      <4>1. (a \o b)[j] = b[j - (i - 1)] /\ j - (i - 1) \in 1 .. Len(s) - i
        BY <1>1, <1>2, <2>1, <3>2
      <4>2. b[j - (i - 1)] = s[i + (j - (i - 1))] /\ i + (j - (i - 1)) = j + 1
        BY <1>2, <4>1
      <4>3. QED BY <4>1, <4>2, <3>2
    <3>3. QED BY <3>1, <3>2
  <2>3. QED BY <2>1, <2>2, <1>1, <1>2
<1>4. QED BY <1>3 DEF RemoveAt, a, b

-----------------------------------------------------------------------------
(* Type correctness                                                        *)

\* task_queue_add of the task that ran keeps the kernel state well typed.
LEMMA RequeueType ==
  ASSUME TypeOK, NEW t \in Desc, NEW st \in [Desc -> ReadyState],
         NEW q \in [Priority -> Seq(Desc)], Requeue(t, st, q)
  PROVE  /\ kmain' \in {"run", "exit", "spin", "fault"}
         /\ cur' \in Desc \cup {NullTask}
         /\ rq' \in [Priority -> Seq(Desc)]
         /\ ready_state' \in [Desc -> ReadyState]
<1>1. prio[t] \in Priority
  BY DEF TypeOK
<1>2. rq' \in [Priority -> Seq(Desc)]
  BY <1>1, PushQueues DEF Requeue
<1>3. ready_state' \in [Desc -> ReadyState]
  BY DEF Requeue, ReadyState, AfterRun
<1>4. QED
  BY <1>2, <1>3 DEF Requeue

\* So does a call that changes nothing but the queues.
LEMMA RequeuedType ==
  ASSUME TypeOK, NEW t \in Desc, Requeued(t)
  PROVE  TypeOK'
<1>1. Requeue(t, ready_state, rq)
  BY DEF Requeued
<1>2. QED
  BY <1>1, RequeueType DEF Requeued, TypeOK

\* task_dealloc keeps the kernel state well typed.
LEMMA DeallocType ==
  ASSUME TypeOK, NEW t \in Desc, NEW q \in [Priority -> Seq(Desc)], Dealloc(t, q)
  PROVE  TypeOK'
<1>1. parent' \in [Desc -> Desc \cup {NullTask}]
  BY DEF TypeOK, Dealloc, Orphaned
<1>2. ready_state' \in [Desc -> ReadyState]
  BY DEF TypeOK, Dealloc, ReadyState
<1>3. QED
  BY <1>1, <1>2 DEF TypeOK, Dealloc

\* task_alloc_new returns a descriptor that is not in use, and clears
\* (task_clear) only descriptors that are not in use.
LEMMA NewDescFree ==
  ASSUME TypeOK, NEW n \in NewDesc
  PROVE  n[1] \in Desc \ used /\ n[2] \subseteq Desc \ used /\ n[1] \in n[2]
<1>1. CASE FreeList # {}
  <2>1. PICK d \in FreeList : n = <<d, {d}>>
    BY <1>1 DEF NewDesc
  <2>2. d \in Desc \ used
    BY DescAssumption DEF FreeList, ActiveSlabs
  <2>3. QED BY <2>1, <2>2
<1>2. CASE FreeList = {}
  <2>1. PICK s \in Slabs \ ActiveSlabs : \E d \in s : n = <<d, s>>
    BY <1>2 DEF NewDesc
  <2>2. PICK d \in s : n = <<d, s>>
    BY <2>1
  <2>3. s \subseteq Desc \ used
    BY <2>1, DescAssumption DEF ActiveSlabs
  <2>4. QED BY <2>2, <2>3
<1>3. QED BY <1>1, <1>2

\* task_queue_get_tid returns -1 or a uint16_t.
LEMMA GetTidType ==
  ASSUME TypeOK, NEW k \in GetTid
  PROVE  k = -1 \/ k \in 0 .. MaxUTid
BY TidAssumption DEF GetTid, FreeTids, TidsTried, TypeOK

\* SYS_CREAT that gets a descriptor keeps the kernel state well typed.
LEMMA CreateType ==
  ASSUME TypeOK, NEW t \in Desc, NEW p \in Priority, NEW n \in NewDesc,
         CreateTask(t, p, n[1], n[2])
  PROVE  TypeOK'
<1> DEFINE d == n[1]  c == n[2]
           st == [ready_state EXCEPT ![d] = "READY"]
           cleared == [x \in Desc |-> IF x \in c THEN 0 ELSE tid[x]]
<1>1. d \in Desc
  BY NewDescFree
<1>2. PICK k \in GetTid :
        /\ global_tid' = IF k = -1 THEN global_tid ELSE k
        /\ \/ /\ k \notin 0 .. MaxSTid
              /\ tid' = cleared
              /\ Requeue(t, st, rq)
           \/ /\ k \in 0 .. MaxSTid
              /\ tid' = [cleared EXCEPT ![d] = k]
              /\ Requeue(t, st, Push(rq, p, d))
  BY DEF CreateTask, TaskInit, TaskClear
<1>3. st \in [Desc -> ReadyState] /\ cleared \in [Desc -> 0 .. MaxUTid]
  <2>1. st \in [Desc -> ReadyState]
    BY DEF TypeOK, ReadyState
  <2>2. 0 \in 0 .. MaxUTid /\ tid \in [Desc -> 0 .. MaxUTid]
    BY TidAssumption DEF TypeOK
  <2>3. \A x \in Desc : (IF x \in c THEN 0 ELSE tid[x]) \in 0 .. MaxUTid
    BY <2>2
  <2>4. QED BY <2>1, <2>3
<1>4. Push(rq, p, d) \in [Priority -> Seq(Desc)]
  BY <1>1, PushQueues DEF TypeOK
<1>5. global_tid' \in 0 .. MaxUTid
  BY <1>2, GetTidType DEF TypeOK
<1>6. tid' \in [Desc -> 0 .. MaxUTid]
  <2>1. k \in 0 .. MaxSTid => k \in 0 .. MaxUTid
    BY GetTidType, TidAssumption
  <2>2. QED BY <1>2, <1>3, <2>1
<1>7. /\ kmain' \in {"run", "exit", "spin", "fault"}
      /\ cur' \in Desc \cup {NullTask}
      /\ rq' \in [Priority -> Seq(Desc)]
      /\ ready_state' \in [Desc -> ReadyState]
  <2>1. rq \in [Priority -> Seq(Desc)]
    BY DEF TypeOK
  <2>2. QED BY <1>2, <1>3, <1>4, <2>1, RequeueType
<1>8. /\ used' \in SUBSET Desc /\ parent' \in [Desc -> Desc \cup {NullTask}]
      /\ prio' \in [Desc -> Priority] /\ dest' \in [Desc -> 0 .. MaxUTid]
      /\ wsn' \in [Desc -> Desc \cup {NullTask}]
      /\ ewn' \in [Desc -> Desc \cup {NullTask}]
      /\ UNCHANGED <<front, back>>
  <2>1. 0 \in 0 .. MaxUTid
    BY TidAssumption
  <2>2. /\ used' \in SUBSET Desc /\ parent' \in [Desc -> Desc \cup {NullTask}]
        /\ prio' \in [Desc -> Priority] /\ dest' \in [Desc -> 0 .. MaxUTid]
    BY <1>1, <2>1, SMTT(60) DEF CreateTask, TaskInit, TaskClear, TypeOK
  <2>3. /\ wsn' \in [Desc -> Desc \cup {NullTask}]
        /\ ewn' \in [Desc -> Desc \cup {NullTask}]
        /\ UNCHANGED <<front, back>>
    BY DEF CreateTask, TaskInit, TaskClear, TypeOK
  <2>4. QED BY <2>2, <2>3
<1>9. QED
  BY <1>5, <1>6, <1>7, <1>8 DEF TypeOK

\* Unlinking a task in task_queue_schedule keeps the queues well typed.
LEMMA RemoveType ==
  ASSUME TypeOK, NEW p \in Priority, NEW i \in DOMAIN rq[p]
  PROVE  /\ rq[p][i] \in Desc
         /\ [rq EXCEPT ![p] = RemoveAt(@, i)] \in [Priority -> Seq(Desc)]
<1>1. rq[p] \in Seq(Desc) /\ i \in 1 .. Len(rq[p])
  BY DEF TypeOK
<1>2. QED
  BY <1>1, RemoveAtElements DEF TypeOK

\* SYS_CREAT keeps the kernel state well typed.
LEMMA SysCreatType ==
  ASSUME TypeOK, NEW t \in Desc, NEW p \in 0 .. N_PRIORITY, SysCreat(t, p)
  PROVE  TypeOK'
BY RequeuedType, CreateType DEF SysCreat

\* SYS_KILL_CHILD keeps the kernel state well typed.
LEMMA SysKillChildType ==
  ASSUME TypeOK, NEW t \in Desc, SysKillChild(t)
  PROVE  TypeOK'
<1>1. CASE Stuck("fault")
  BY <1>1 DEF Stuck, TypeOK
<1>2. CASE ~KillRecurses(tid[t])
  <2> DEFINE st == [d \in Desc |-> IF d \in Descendants(tid[t])
                                   THEN "KILLED" ELSE ready_state[d]]
  <2>1. Requeue(t, st, rq) /\ rq \in [Priority -> Seq(Desc)]
    BY <1>2 DEF SysKillChild, TypeOK
  <2>2. st \in [Desc -> ReadyState]
    BY DEF TypeOK, ReadyState
  <2>3. UNCHANGED <<used, global_tid, tid, parent, prio, wsn, ewn, dest, front, back>>
    BY <1>2 DEF SysKillChild
  <2> HIDE DEF st
  <2>4. QED BY <2>1, <2>2, <2>3, RequeueType DEF TypeOK
<1>3. QED BY <1>1, <1>2 DEF SysKillChild

\* SYS_KILL keeps the kernel state well typed.
LEMMA SysKillType ==
  ASSUME TypeOK, NEW t \in Desc, NEW c \in Found, SysKill(t, c)
  PROVE  TypeOK'
<1>1. CASE Requeued(t)
  BY <1>1, RequeuedType
<1>2. CASE Stuck("fault")
  BY <1>2 DEF Stuck, TypeOK
<1>3. CASE c # NullTask /\ MayKill(t, c) /\ ~KillRecurses(tid[c])
  <2> DEFINE st == [d \in Desc |-> IF d = c \/ d \in Descendants(tid[c])
                                   THEN "KILLED" ELSE ready_state[d]]
  <2>1. Requeue(t, st, rq) /\ rq \in [Priority -> Seq(Desc)]
    BY <1>3 DEF SysKill, TypeOK
  <2>2. st \in [Desc -> ReadyState]
    BY DEF TypeOK, ReadyState
  <2>3. UNCHANGED <<used, global_tid, tid, parent, prio, wsn, ewn, dest, front, back>>
    BY <1>3 DEF SysKill
  <2> HIDE DEF st
  <2>4. QED BY <2>1, <2>2, <2>3, RequeueType DEF TypeOK
<1>4. QED BY <1>1, <1>2, <1>3 DEF SysKill

\* task_queue_get returns a descriptor or NULL.
LEMMA FoundType ==
  ASSUME TypeOK, NEW r \in Found, r # NullTask
  PROVE  r \in Desc
BY DEF Found, Queued, InQueues, TypeOK, Range

\* SYS_MSG_SEND keeps the kernel state well typed.
LEMMA SysSendType ==
  ASSUME TypeOK, NEW t \in Desc, NEW r \in Found, SysSend(t, r)
  PROVE  TypeOK'
<1>1. CASE Requeued(t)
  BY <1>1, RequeuedType
<1>2. CASE r # NullTask /\ ~Requeued(t)
  <2>1. r \in Desc
    BY <1>2, FoundType
  <2> DEFINE st1 == [ready_state EXCEPT ![t] = "RPLY_WAIT", ![r] = "READY"]
             st2 == [ready_state EXCEPT ![t] = "SEND_WAIT"]
  <2>2. st1 \in [Desc -> ReadyState] /\ st2 \in [Desc -> ReadyState]
    BY DEF TypeOK, ReadyState
  <2>3. /\ \/ Requeue(t, st1, rq) \/ Requeue(t, st2, rq)
           \/ /\ kmain' = "spin" /\ ready_state' = st2
              /\ UNCHANGED <<cur, rq>>
        /\ dest' = [dest EXCEPT ![t] = tid[r]]
        /\ wsn' = wsn \/ wsn' = [wsn EXCEPT ![r] = t]
        /\ UNCHANGED <<used, global_tid, tid, parent, prio, ewn, front, back>>
    BY <1>2 DEF SysSend, SendFirst
  <2>4. dest' \in [Desc -> 0 .. MaxUTid] /\ wsn' \in [Desc -> Desc \cup {NullTask}]
    BY <2>1, <2>3 DEF TypeOK
  <2>5. rq \in [Priority -> Seq(Desc)]
    BY DEF TypeOK
  <2> HIDE DEF st1, st2
  <2>6. /\ kmain' \in {"run", "exit", "spin", "fault"}
        /\ cur' \in Desc \cup {NullTask}
        /\ rq' \in [Priority -> Seq(Desc)]
        /\ ready_state' \in [Desc -> ReadyState]
    BY <2>2, <2>3, <2>5, RequeueType DEF TypeOK
  <2>7. QED BY <2>3, <2>4, <2>6 DEF TypeOK
<1>3. QED BY <1>1, <1>2 DEF SysSend

\* SYS_MSG_RCV keeps the kernel state well typed.
LEMMA SysReceiveType ==
  ASSUME TypeOK, NEW t \in Desc, SysReceive(t)
  PROVE  TypeOK'
<1> DEFINE s == wsn[t]
           st == IF s # NullTask THEN [ready_state EXCEPT ![s] = "RPLY_WAIT"]
                 ELSE [ready_state EXCEPT ![t] = "RCV_WAIT"]
<1>1. st \in [Desc -> ReadyState] /\ rq \in [Priority -> Seq(Desc)]
  BY DEF TypeOK, ReadyState
<1>2. Requeue(t, st, rq)
  BY DEF SysReceive
<1>3. wsn' \in [Desc -> Desc \cup {NullTask}]
  BY DEF SysReceive, TypeOK
<1> HIDE DEF st
<1>4. QED BY <1>1, <1>2, <1>3, RequeueType DEF SysReceive, TypeOK

\* SYS_MSG_RPLY keeps the kernel state well typed.
LEMMA SysReplyType ==
  ASSUME TypeOK, NEW t \in Desc, NEW s \in Found, SysReply(t, s)
  PROVE  TypeOK'
<1>1. CASE Requeued(t)
  BY <1>1, RequeuedType
<1>2. CASE s # NullTask
  <2> DEFINE st == [ready_state EXCEPT ![s] = IF @ = "RPLY_WAIT" THEN "READY" ELSE @]
  <2>1. st \in [Desc -> ReadyState] /\ rq \in [Priority -> Seq(Desc)]
    BY <1>2, FoundType DEF TypeOK, ReadyState
  <2>2. /\ Requeue(t, st, rq)
        /\ UNCHANGED <<used, global_tid, tid, parent, prio, wsn, ewn, dest, front, back>>
    BY <1>2 DEF SysReply
  <2> HIDE DEF st
  <2>3. QED BY <2>1, <2>2, RequeueType DEF TypeOK
<1>3. QED BY <1>1, <1>2 DEF SysReply

\* SYS_AWAIT keeps the kernel state well typed.
LEMMA SysAwaitType ==
  ASSUME TypeOK, NEW t \in Desc, NEW e \in 0 .. N_EVENTS, SysAwait(t, e)
  PROVE  TypeOK'
<1>1. CASE Requeued(t)
  BY <1>1, RequeuedType
<1>2. CASE e \in Event /\ ~Requeued(t)
  <2> DEFINE st == [ready_state EXCEPT ![t] = "EVENT_WAIT"]
  <2>1. st \in [Desc -> ReadyState] /\ rq \in [Priority -> Seq(Desc)]
    BY DEF TypeOK, ReadyState
  <2>2. /\ Requeue(t, st, rq)
        /\ UNCHANGED <<used, global_tid, tid, parent, prio, wsn, dest>>
    BY <1>2 DEF SysAwait
  <2>3. /\ front' \in [Event -> Desc \cup {NullTask}]
        /\ back' \in [Event -> Desc \cup {NullTask}]
        /\ ewn' \in [Desc -> Desc \cup {NullTask}]
    BY <1>2 DEF SysAwait, TypeOK
  <2> HIDE DEF st
  <2>4. QED BY <2>1, <2>2, <2>3, RequeueType DEF TypeOK
<1>3. QED BY <1>1, <1>2 DEF SysAwait

\* The timer interrupt keeps the kernel state well typed.
LEMMA TimerInterruptType ==
  ASSUME TypeOK, NEW t \in Desc, TimerInterrupt(t)
  PROVE  TypeOK'
<1> DEFINE w == IF front[TIMER_TICK] = NullTask THEN {} ELSE Waiters(TIMER_TICK)
           st == [d \in Desc |-> IF d \in w THEN "READY" ELSE ready_state[d]]
<1>1. st \in [Desc -> ReadyState] /\ rq \in [Priority -> Seq(Desc)]
  BY DEF TypeOK, ReadyState
<1>2. Requeue(t, st, rq) /\ UNCHANGED <<used, global_tid, tid, parent, prio, wsn, dest>>
  BY DEF TimerInterrupt
<1>3. /\ front' \in [Event -> Desc \cup {NullTask}]
      /\ back' \in [Event -> Desc \cup {NullTask}]
  BY DEF TimerInterrupt, TypeOK
<1>4. ewn' \in [Desc -> Desc \cup {NullTask}]
  BY DEF TimerInterrupt, TypeOK
<1> HIDE DEF st
<1>5. QED BY <1>1, <1>2, <1>3, <1>4, RequeueType DEF TypeOK

\* The event queues and ready states that UnblockOne works on
EventQueues == [st    : [Desc -> ReadyState],
                ewn   : [Desc -> Desc \cup {NullTask}],
                front : [Event -> Desc \cup {NullTask}],
                back  : [Event -> Desc \cup {NullTask}]]

\* event_queue_unblock_one keeps event queues and ready states well typed.
LEMMA UnblockOneType ==
  ASSUME NEW v \in EventQueues, NEW e, NEW S \in SUBSET Event
  PROVE  UnblockOne(v, e, S) \in EventQueues
<1>1. CASE e \notin S \/ v.front[e] = NullTask
  BY <1>1 DEF UnblockOne
<1>2. CASE ~(e \notin S \/ v.front[e] = NullTask)
  <2> DEFINE h == v.front[e]
             u == UnblockOne(v, e, S)
  <2>1. h \in Desc /\ e \in Event
    BY <1>2 DEF EventQueues
  <2>2. u = [st    |-> [v.st EXCEPT ![h] = "READY"],
             ewn   |-> [v.ewn EXCEPT ![h] = NullTask],
             front |-> [v.front EXCEPT ![e] = v.ewn[h]],
             back  |-> [v.back EXCEPT ![e] = BackAfterPop(v, e, h)]]
    BY <1>2 DEF UnblockOne
  <2>3. /\ [v.st EXCEPT ![h] = "READY"] \in [Desc -> ReadyState]
        /\ [v.ewn EXCEPT ![h] = NullTask] \in [Desc -> Desc \cup {NullTask}]
        /\ [v.front EXCEPT ![e] = v.ewn[h]] \in [Event -> Desc \cup {NullTask}]
        /\ [v.back EXCEPT ![e] = BackAfterPop(v, e, h)]
             \in [Event -> Desc \cup {NullTask}]
    BY <2>1 DEF EventQueues, ReadyState, BackAfterPop
  <2>4. QED BY <2>2, <2>3 DEF EventQueues
<1>3. QED BY <1>1, <1>2

\* The UART interrupt keeps the kernel state well typed.
LEMMA UartInterruptType ==
  ASSUME TypeOK, NEW t \in Desc, NEW S \in SUBSET (Event \ {TIMER_TICK}),
         UartInterrupt(t, S)
  PROVE  TypeOK'
<1> DEFINE v0 == [st |-> ready_state, ewn |-> ewn, front |-> front, back |-> back]
           v == UnblockOne(UnblockOne(UnblockOne(v0, MARKLIN_CTS, S), MARKLIN_RX, S),
                           CONSOLE_RX, S)
<1>1. v0 \in EventQueues
  BY DEF TypeOK, EventQueues
<1>2. v \in EventQueues
  <2> HIDE DEF v0
  <2>1. S \in SUBSET Event
    OBVIOUS
  <2>2. QED BY <1>1, <2>1, UnblockOneType
<1>3. /\ Requeue(t, v.st, rq)
      /\ ewn' = v.ewn /\ front' = v.front /\ back' = v.back
      /\ UNCHANGED <<used, global_tid, tid, parent, prio, wsn, dest>>
  BY DEF UartInterrupt
<1> HIDE DEF v
<1>4. /\ v.st \in [Desc -> ReadyState] /\ v.ewn \in [Desc -> Desc \cup {NullTask}]
      /\ v.front \in [Event -> Desc \cup {NullTask}]
      /\ v.back \in [Event -> Desc \cup {NullTask}]
  BY <1>2 DEF EventQueues
<1>5. rq \in [Priority -> Seq(Desc)]
  BY DEF TypeOK
<1>6. QED BY <1>3, <1>4, <1>5, RequeueType DEF TypeOK

\* kernel_init leaves a well typed state.
LEMMA InitType == Init => TypeOK
<1> SUFFICES ASSUME Init PROVE TypeOK
  OBVIOUS
<1>1. PICK s \in Slabs : \E u, n, i \in s : KernelInit(u, n, i)
  BY DEF Init
<1>2. PICK u \in s, n \in s, i \in s : KernelInit(u, n, i)
  BY <1>1
<1>3. u \in Desc /\ n \in Desc /\ i \in Desc
  BY DescAssumption
<1>4. /\ P_IDLE \in Priority /\ P_LOW \in Priority /\ P_SERVER_LO \in Priority
      /\ 0 \in 0 .. MaxUTid /\ NAMESERVER_TID \in 0 .. MaxUTid
      /\ FirstTid + 1 \in 0 .. MaxUTid /\ FirstTid + 2 \in 0 .. MaxUTid
  <2>1. Cardinality(Desc) \in Nat
    BY DescAssumption, FS_CardinalityType
  <2>2. QED
    BY <2>1, PriorityAssumption, TidAssumption
       DEF P_IDLE, P_LOW, P_SERVER_LO, Priority, UserPriority, NAMESERVER_TID
<1>5. rq \in [Priority -> Seq(Desc)]
  BY <1>2, <1>3 DEF KernelInit
<1>6. tid \in [Desc -> 0 .. MaxUTid] /\ prio \in [Desc -> Priority]
  BY <1>2, <1>4 DEF KernelInit
<1>7. ready_state \in [Desc -> ReadyState]
  BY <1>2 DEF KernelInit, ReadyState
<1>8. /\ used \in SUBSET Desc /\ cur = NullTask /\ kmain = "run"
      /\ global_tid \in 0 .. MaxUTid
      /\ parent \in [Desc -> Desc \cup {NullTask}]
      /\ wsn \in [Desc -> Desc \cup {NullTask}]
      /\ ewn \in [Desc -> Desc \cup {NullTask}]
      /\ dest \in [Desc -> 0 .. MaxUTid]
      /\ front \in [Event -> Desc \cup {NullTask}]
      /\ back \in [Event -> Desc \cup {NullTask}]
  BY <1>2, <1>3, <1>4 DEF KernelInit
<1>9. QED BY <1>5, <1>6, <1>7, <1>8 DEF TypeOK

\* Every step of the kernel keeps its state well typed.
LEMMA NextType == TypeOK /\ [Next]_vars => TypeOK'
<1> SUFFICES ASSUME TypeOK, [Next]_vars PROVE TypeOK'
  OBVIOUS
<1>1. CASE UNCHANGED vars
  BY <1>1 DEF vars, TypeOK
<1>2. ASSUME NEW p \in Priority, NEW i \in DOMAIN rq[p], ScheduleReady(p, i)
      PROVE  TypeOK'
  BY <1>2, RemoveType DEF ScheduleReady, TypeOK, ReadyState
<1>3. ASSUME NEW p \in Priority, NEW i \in DOMAIN rq[p], ScheduleKilled(p, i)
      PROVE  TypeOK'
  BY <1>3, RemoveType, DeallocType DEF ScheduleKilled
<1>4. CASE ScheduleNone
  BY <1>4 DEF ScheduleNone, Stuck, TypeOK
<1>5. ASSUME NEW t \in Desc, Syscall(t)
      PROVE  TypeOK'
  <2>1. CASE SysYield(t)
    BY <2>1, RequeuedType DEF SysYield
  <2>2. CASE SysExit(t)
    <3>1. rq \in [Priority -> Seq(Desc)]
      BY DEF TypeOK
    <3>2. QED BY <2>2, <3>1, DeallocType DEF SysExit
  <2>3. QED
    BY <1>5, <2>1, <2>2, SysCreatType, SysKillChildType, SysKillType, SysSendType,
       SysReceiveType, SysReplyType, SysAwaitType DEF Syscall
<1>6. ASSUME NEW t \in Desc, Interrupt(t)
      PROVE  TypeOK'
  BY <1>6, TimerInterruptType, UartInterruptType DEF Interrupt
<1>7. QED
  BY <1>1, <1>2, <1>3, <1>4, <1>5, <1>6 DEF Next, Schedule

\* Every reachable state of the kernel, whatever its tasks do, is well typed.
THEOREM TypeCorrect == Spec => []TypeOK
BY InitType, NextType, PTL DEF Spec

-----------------------------------------------------------------------------
(* Ownership of descriptors, tids and parents                              *)

\* Tids are handed out upwards, so that of every active task is at most
\* global_tid, and it fits in the int16_t of task_queue_add.
TidsBelow ==
  \A d \in Live : /\ tid[d] \in 1 .. MaxSTid
                  /\ tid[d] <= global_tid

\* The inductive invariant
Inv ==
  /\ TypeOK
  /\ OneOwner
  /\ TidsBelow
  /\ TidsUnique
  /\ NeverWraps
  /\ ParentActive

\* Where a task is linked
LEMMA InQueuesElement ==
  ASSUME NEW q \in [Priority -> Seq(Desc)], NEW d
  PROVE  d \in InQueues(q) <=> \E p \in Priority : \E i \in 1 .. Len(q[p]) : q[p][i] = d
<1>1. \A p \in Priority : q[p] \in Seq(Desc) /\ DOMAIN q[p] = 1 .. Len(q[p])
  OBVIOUS
<1>2. QED BY <1>1 DEF InQueues, Range

\* Pushing a task that is linked nowhere keeps every task linked at most
\* once, in the queue of its priority.
LEMMA PushWellQueued ==
  ASSUME NEW q \in [Priority -> Seq(Desc)], NEW pr \in [Desc -> Priority],
         WellQueued(q, pr), NEW t \in Desc, t \notin InQueues(q)
  PROVE  WellQueued(Push(q, pr[t], t), pr)
<1> DEFINE r == Push(q, pr[t], t)
<1>1. SUFFICES ASSUME NEW p \in Priority, NEW i \in 1 .. Len(r[p]),
                      NEW j \in 1 .. Len(r[p])
               PROVE  pr[r[p][i]] = p /\ (r[p][i] = r[p][j] => i = j)
  BY DEF WellQueued
<1>2. CASE p # pr[t]
  BY <1>2 DEF WellQueued, Push
<1>3. CASE p = pr[t]
  <2>1. /\ r[p] = Append(q[p], t) /\ q[p] \in Seq(Desc)
        /\ Len(q[p]) \in Nat /\ Len(r[p]) = Len(q[p]) + 1
        /\ r[p][Len(q[p]) + 1] = t
        /\ \A k \in 1 .. Len(q[p]) : r[p][k] = q[p][k]
    BY <1>3 DEF Push
  <2>2. \A k \in 1 .. Len(q[p]) : q[p][k] # t
    BY InQueuesElement
  <2> HIDE DEF r
  <2>3. QED BY <1>3, <2>1, <2>2 DEF WellQueued
<1>4. QED BY <1>2, <1>3

\* Unlinking a task keeps the other tasks linked once, and this one nowhere.
LEMMA RemoveWellQueued ==
  ASSUME TypeOK, WellQueued(rq, prio), NEW p \in Priority, NEW i \in DOMAIN rq[p]
  PROVE  LET q == [rq EXCEPT ![p] = RemoveAt(@, i)] IN
         /\ WellQueued(q, prio)
         /\ InQueues(q) = Queued \ {rq[p][i]}
         /\ rq[p][i] \in Queued
<1> DEFINE q == [rq EXCEPT ![p] = RemoveAt(@, i)]
           t == rq[p][i]
<1>0. rq \in [Priority -> Seq(Desc)]
  BY DEF TypeOK
<1>1. /\ rq \in [Priority -> Seq(Desc)] /\ rq[p] \in Seq(Desc)
      /\ i \in 1 .. Len(rq[p]) /\ Len(rq[p]) \in Nat
  BY <1>0, SMTT(60)
<1>2. /\ q \in [Priority -> Seq(Desc)]
      /\ \A h \in Priority : h # p => q[h] = rq[h]
      /\ Len(q[p]) = Len(rq[p]) - 1
      /\ \A j \in 1 .. Len(rq[p]) - 1 :
           q[p][j] = IF j < i THEN rq[p][j] ELSE rq[p][j + 1]
  BY <1>1, RemoveType, RemoveAtElements
<1> HIDE DEF q
<1>3. t \in Queued
  BY <1>1, InQueuesElement DEF Queued
<1>4. WellQueued(q, prio)
  <2>1. SUFFICES ASSUME NEW h \in Priority, NEW a \in 1 .. Len(q[h]), NEW b \in 1 .. Len(q[h])
                 PROVE  prio[q[h][a]] = h /\ (q[h][a] = q[h][b] => a = b)
    BY DEF WellQueued
  <2>2. CASE h # p
    BY <1>2, <2>2 DEF WellQueued
  <2>3. CASE h = p
    <3> DEFINE f(x) == IF x < i THEN x ELSE x + 1
    <3>1. /\ f(a) \in 1 .. Len(rq[p]) /\ f(b) \in 1 .. Len(rq[p])
          /\ f(a) = f(b) => a = b
      BY <1>1, <1>2, <2>3
    <3>2. q[p][a] = rq[p][f(a)] /\ q[p][b] = rq[p][f(b)]
      BY <1>1, <1>2, <2>3
    <3> HIDE DEF f
    <3>3. QED BY <2>3, <3>1, <3>2 DEF WellQueued
  <2>4. QED BY <2>2, <2>3
<1>5. ASSUME NEW d \in InQueues(q) PROVE d \in Queued \ {t}
  <2>0. PICK h \in Priority : \E a \in 1 .. Len(q[h]) : q[h][a] = d
    BY <1>2, <1>5, InQueuesElement
  <2>1. PICK a \in 1 .. Len(q[h]) : q[h][a] = d
    BY <2>0
  <2>2. CASE h # p
    <3>1. q[h] = rq[h] /\ prio[d] = h /\ prio[t] = p
      BY <1>1, <1>2, <2>1, <2>2 DEF WellQueued
    <3>2. d \in Queued
      BY <1>1, <2>1, <3>1, InQueuesElement DEF Queued
    <3>3. QED BY <2>2, <3>1, <3>2
  <2>3. CASE h = p
    <3>1. PICK x \in 1 .. Len(rq[p]) : x # i /\ d = rq[p][x]
      <4> DEFINE y == IF a < i THEN a ELSE a + 1
      <4>1. y \in 1 .. Len(rq[p]) /\ y # i
        BY <1>1, <1>2, <2>3
      <4>2. d = rq[p][y]
        BY <1>1, <1>2, <2>1, <2>3
      <4> HIDE DEF y
      <4>3. QED BY <4>1, <4>2
    <3>2. d # t
      BY <1>1, <3>1 DEF WellQueued
    <3>3. d \in Queued
      BY <1>1, <3>1, InQueuesElement DEF Queued
    <3>4. QED BY <3>2, <3>3
  <2>4. QED BY <2>2, <2>3
<1>6. ASSUME NEW d \in Queued, d # t PROVE d \in InQueues(q)
  <2>0. PICK h \in Priority : \E x \in 1 .. Len(rq[h]) : rq[h][x] = d
    BY <1>1, <1>6, InQueuesElement DEF Queued
  <2>1. PICK x \in 1 .. Len(rq[h]) : rq[h][x] = d
    BY <2>0
  <2>2. \E a \in 1 .. Len(q[h]) : q[h][a] = d
    <3>1. CASE h # p
      BY <1>2, <2>1, <3>1
    <3>2. CASE h = p /\ x < i
      <4>1. x \in 1 .. Len(q[p]) /\ q[p][x] = rq[p][x]
        BY <1>1, <1>2, <2>1, <3>2
      <4>2. QED BY <2>1, <3>2, <4>1
    <3>3. CASE h = p /\ ~(x < i)
      <4>1. x > i
        BY <1>1, <1>6, <2>1, <3>3
      <4>2. x - 1 \in 1 .. Len(q[p]) /\ q[p][x - 1] = rq[p][(x - 1) + 1] /\ (x - 1) + 1 = x
        BY <1>1, <1>2, <2>1, <3>3, <4>1
      <4>3. QED BY <2>1, <3>3, <4>2
    <3>4. QED BY <3>1, <3>2, <3>3
  <2>3. QED BY <1>2, <2>2, InQueuesElement
<1>7. QED BY <1>3, <1>4, <1>5, <1>6 DEF q

\* Every linked task is a descriptor.
LEMMA QueuedDesc ==
  ASSUME rq \in [Priority -> Seq(Desc)]
  PROVE  Queued \subseteq Desc
<1>1. SUFFICES ASSUME NEW d \in Queued PROVE d \in Desc
  OBVIOUS
<1>2. PICK p \in Priority : \E i \in 1 .. Len(rq[p]) : rq[p][i] = d
  BY InQueuesElement DEF Queued
<1>3. QED BY <1>2

\* A step that only moves tasks between running and queued keeps the rest.
LEMMA FrameInv ==
  ASSUME Inv, TypeOK', OneOwner', Live' = Live,
         UNCHANGED <<used, global_tid, tid, parent>>
  PROVE  Inv'
<1>1. Leaked' = Leaked
  BY DEF Leaked
<1>2. TidsBelow' /\ TidsUnique' /\ ParentActive'
  BY DEF Inv, TidsBelow, TidsUnique, ParentActive
<1>3. NeverWraps'
  BY <1>1 DEF Inv, NeverWraps
<1>4. QED BY <1>2, <1>3 DEF Inv

\* Every call and interrupt that ends in task_queue_add of the task that ran
Kept(t) ==
  /\ t = cur
  /\ cur' = NullTask
  /\ rq' = Push(rq, prio[t], t)
  /\ UNCHANGED <<used, global_tid, tid, parent, prio>>

\* Such a step keeps the inductive invariant.
LEMMA KeptInv ==
  ASSUME Inv, TypeOK', NEW t \in Desc, Kept(t)
  PROVE  Inv'
<1>1. /\ rq \in [Priority -> Seq(Desc)] /\ prio \in [Desc -> Priority]
      /\ WellQueued(rq, prio) /\ t \notin Queued
  BY DEF Inv, TypeOK, OneOwner, Kept
<1>2. Queued' = Queued \cup {t}
  BY <1>1, PushQueues DEF Kept, Queued
<1>3. Live' = Live
  BY <1>2, NullAssumption DEF Live, Kept
<1>4. WellQueued(rq', prio')
  BY <1>1, PushWellQueued DEF Kept, Queued
<1>5. OneOwner'
  <2>1. cur' \notin Queued'
    <3>1. Queued \subseteq Desc
      BY <1>1, QueuedDesc
    <3>2. QED BY <1>2, <3>1, NullAssumption DEF Kept
  <2>2. QED BY <1>3, <1>4, <2>1 DEF OneOwner, Inv, Kept
<1>6. QED BY <1>3, <1>5, FrameInv DEF Kept

\* Scheduling a ready task keeps the inductive invariant.
LEMMA ScheduleReadyInv ==
  ASSUME Inv, TypeOK', NEW p \in Priority, NEW i \in DOMAIN rq[p], ScheduleReady(p, i)
  PROVE  Inv'
<1> DEFINE t == rq[p][i]
<1>1. TypeOK /\ WellQueued(rq, prio) /\ cur = NullTask
  BY DEF Inv, OneOwner, ScheduleReady
<1>2. /\ WellQueued(rq', prio') /\ Queued' = Queued \ {t} /\ t \in Queued
  BY <1>1, RemoveWellQueued DEF ScheduleReady, Queued
<1>3. Live' = Live
  BY <1>1, <1>2, NullAssumption DEF ScheduleReady, Live
<1>4. OneOwner'
  BY <1>2, <1>3 DEF OneOwner, Inv, ScheduleReady
<1>5. QED BY <1>3, <1>4, FrameInv DEF ScheduleReady

\* task_dealloc of a task that is no longer linked keeps the inductive
\* invariant: its children are orphaned before it stops being active.
LEMMA DeallocInv ==
  ASSUME Inv, TypeOK', NEW t \in Live, NEW q, WellQueued(q, prio),
         InQueues(q) = Live \ {t}, Dealloc(t, q)
  PROVE  Inv'
<1>1. Live' = Live \ {t} /\ Queued' = Live \ {t} /\ cur' = NullTask
  BY NullAssumption DEF Live, Dealloc, Queued
<1>2. OneOwner'
  <2>1. Live' \subseteq used'
    BY <1>1 DEF Inv, OneOwner, Dealloc
  <2>2. cur' \notin Queued'
    BY <1>1, NullAssumption DEF Live
  <2>3. WellQueued(rq', prio')
    BY DEF Dealloc
  <2>4. QED BY <2>1, <2>2, <2>3 DEF OneOwner
<1>3. TidsBelow' /\ TidsUnique'
  BY <1>1 DEF Inv, TidsBelow, TidsUnique, Dealloc
<1>4. Leaked' = Leaked
  BY <1>1 DEF Leaked, Dealloc
<1>5. NeverWraps'
  BY <1>4 DEF Inv, NeverWraps, Dealloc
<1>6. ParentActive'
  <2>1. SUFFICES ASSUME NEW d \in Live', parent'[d] # NullTask
                 PROVE  parent'[d] \in Live' /\ tid'[parent'[d]] < tid'[d]
    BY DEF ParentActive
  <2>2. d \in Live /\ d \in InQueues(q) /\ d \in Desc
    BY <1>1 DEF Live
  <2>3. parent'[d] = parent[d] /\ ParentTid(d) # tid[t]
    BY <2>1, <2>2 DEF Dealloc, Orphaned
  <2>4. parent[d] \in Live /\ tid[parent[d]] < tid[d] /\ tid[parent[d]] # tid[t]
    BY <2>1, <2>2, <2>3 DEF Inv, ParentActive, ParentTid
  <2>5. QED BY <1>1, <2>3, <2>4 DEF Dealloc
<1>7. QED BY <1>2, <1>3, <1>5, <1>6 DEF Inv

\* Until a tid above MaxSTid is reached no tid is in use above global_tid, so
\* the search stops at once.
LEMMA NextTid ==
  ASSUME Inv, NEW k \in GetTid
  PROVE  k = global_tid + 1 /\ global_tid \in Nat
<1>1. Leaked \in SUBSET Desc /\ IsFiniteSet(Desc)
  BY DescAssumption DEF Leaked, Inv, TypeOK
<1>2. Cardinality(Leaked) <= Cardinality(Desc) /\ Cardinality(Desc) \in Nat
      /\ Cardinality(Leaked) \in Nat
  BY <1>1, FS_Subset, FS_CardinalityType
<1>3. global_tid \in Nat /\ global_tid < MaxUTid
  BY <1>2, TidAssumption DEF Inv, NeverWraps, TypeOK
<1>4. TidsTried = global_tid + 1 .. MaxUTid
  BY <1>3, TidAssumption DEF TidsTried
<1>5. \A d \in Queued : tid[d] <= global_tid /\ tid[d] \in Nat
  <2>1. Queued \subseteq Live
    BY QueuedDesc DEF Live, Inv, TypeOK
  <2>2. QED BY <2>1, TidAssumption DEF Inv, TidsBelow
<1>6. FreeTids = global_tid + 1 .. MaxUTid
  BY <1>3, <1>4, <1>5, TidAssumption DEF FreeTids
<1>7. QED BY <1>3, <1>6, TidAssumption DEF GetTid

\* SYS_CREAT keeps the inductive invariant: the new tid is above those of all
\* active tasks, and each one that int16_t cannot hold leaks a descriptor.
LEMMA CreateInv ==
  ASSUME Inv, TypeOK', NEW t \in Desc, t = cur, NEW p \in Priority, NEW n \in NewDesc,
         CreateTask(t, p, n[1], n[2])
  PROVE  Inv'
<1> DEFINE d == n[1]  c == n[2]
           st == [ready_state EXCEPT ![d] = "READY"]
           cleared == [x \in Desc |-> IF x \in c THEN 0 ELSE tid[x]]
<1>1. /\ d \in Desc /\ d \notin used /\ d \in c /\ c \cap used = {}
      /\ rq \in [Priority -> Seq(Desc)] /\ prio \in [Desc -> Priority]
      /\ tid \in [Desc -> 0 .. MaxUTid] /\ parent \in [Desc -> Desc \cup {NullTask}]
      /\ used \subseteq Desc
      /\ Live \subseteq used /\ t \in Live /\ d \notin Live /\ d # t
      /\ WellQueued(rq, prio) /\ t \notin Queued
  BY NewDescFree DEF Inv, TypeOK, OneOwner, Live
<1>2. PICK k \in GetTid :
        /\ global_tid' = IF k = -1 THEN global_tid ELSE k
        /\ \/ /\ k \notin 0 .. MaxSTid
              /\ tid' = cleared
              /\ Requeue(t, st, rq)
           \/ /\ k \in 0 .. MaxSTid
              /\ tid' = [cleared EXCEPT ![d] = k]
              /\ Requeue(t, st, Push(rq, p, d))
  BY DEF CreateTask, TaskInit, TaskClear
<1>3. k = global_tid + 1 /\ global_tid \in Nat /\ global_tid' = k
  BY <1>2, NextTid
<1>4. /\ used' = used \cup {d} /\ prio' = [prio EXCEPT ![d] = p]
      /\ parent' = [parent EXCEPT ![d] = t] /\ cur' = NullTask
  BY <1>2 DEF CreateTask, TaskInit, TaskClear, Requeue
<1>5. Queued \subseteq Live /\ d \notin Queued
  BY <1>1, QueuedDesc DEF Live
<1>6. WellQueued(rq, prio')
  <2>1. \A h \in Priority : \A i \in 1 .. Len(rq[h]) : prio'[rq[h][i]] = prio[rq[h][i]]
    <3>1. ASSUME NEW h \in Priority, NEW i \in 1 .. Len(rq[h])
          PROVE  rq[h][i] # d /\ rq[h][i] \in Desc
      BY <1>1, <1>5, InQueuesElement DEF Queued
    <3>2. QED BY <1>4, <1>1, <3>1
  <2>2. QED BY <1>1, <2>1 DEF WellQueued
<1>7. \A x \in Live : tid'[x] = tid[x] /\ parent'[x] = parent[x] /\ x \in Desc
  <2>1. \A x \in Live : x \in Desc /\ x \notin c /\ x # d
    BY <1>1
  <2>2. QED BY <1>1, <1>2, <1>4, <2>1
<1>8. CASE k \notin 0 .. MaxSTid
  <2>1. rq' = Push(rq, prio[t], t) /\ prio'[t] = prio[t]
    BY <1>1, <1>2, <1>4, <1>8 DEF Requeue
  <2>2. Queued' = Queued \cup {t}
    BY <1>1, <2>1, PushQueues DEF Queued
  <2>3. Live' = Live
    BY <1>1, <1>4, <2>2, NullAssumption DEF Live
  <2>4. WellQueued(rq', prio')
    <3>1. prio' \in [Desc -> Priority]
      BY <1>1, <1>4
    <3>2. QED BY <1>1, <1>6, <2>1, <3>1, PushWellQueued DEF Queued
  <2>5. OneOwner'
    BY <1>1, <1>4, <1>5, <2>2, <2>3, <2>4, NullAssumption DEF OneOwner, Live
  <2>6. TidsBelow' /\ TidsUnique' /\ ParentActive'
    BY <1>3, <1>7, <2>3, TidAssumption DEF Inv, TidsBelow, TidsUnique, ParentActive
  <2>7. NeverWraps'
    <3>1. Leaked' = Leaked \cup {d} /\ d \notin Leaked
      BY <1>1, <1>4, <2>3 DEF Leaked
    <3>2. IsFiniteSet(Leaked)
      BY <1>1, DescAssumption, FS_Subset DEF Leaked
    <3>3. Cardinality(Leaked') = Cardinality(Leaked) + 1 /\ Cardinality(Leaked) \in Nat
      BY <3>1, <3>2, FS_AddElement, FS_CardinalityType
    <3>4. QED BY <1>3, <3>3, TidAssumption DEF Inv, NeverWraps
  <2>8. QED BY <2>5, <2>6, <2>7 DEF Inv
<1>9. CASE k \in 0 .. MaxSTid
  <2> DEFINE q == Push(rq, p, d)
  <2>1. rq' = Push(q, prio[t], t) /\ prio'[t] = prio[t] /\ prio'[d] = p
        /\ tid'[d] = k
    BY <1>1, <1>2, <1>4, <1>9 DEF Requeue
  <2>2. prio' \in [Desc -> Priority]
    BY <1>1, <1>4
  <2>3. q \in [Priority -> Seq(Desc)] /\ InQueues(q) = Queued \cup {d}
    BY <1>1, PushQueues DEF Queued
  <2>4. WellQueued(q, prio')
    BY <1>1, <1>5, <1>6, <2>1, <2>2, PushWellQueued DEF Queued
  <2> HIDE DEF q
  <2>5. Queued' = Queued \cup {d, t}
    <3>1. prio[t] \in Priority
      BY <1>1
    <3>2. InQueues(Push(q, prio[t], t)) = InQueues(q) \cup {t}
      BY <2>3, <3>1, PushQueues
    <3>3. Queued' = InQueues(Push(q, prio[t], t))
      BY <2>1 DEF Queued
    <3>4. QED BY <2>3, <3>2, <3>3
  <2>6. Live' = Live \cup {d}
    BY <1>1, <1>4, <2>5, NullAssumption DEF Live
  <2>7. WellQueued(rq', prio')
    BY <1>1, <2>1, <2>2, <2>3, <2>4, PushWellQueued
  <2>8. OneOwner'
    BY <1>1, <1>4, <1>5, <2>5, <2>6, <2>7, NullAssumption DEF OneOwner, Live
  <2>9. TidsBelow'
    BY <1>3, <1>7, <1>9, <2>1, <2>6, TidAssumption DEF Inv, TidsBelow
  <2>10. TidsUnique'
    BY <1>1, <1>3, <1>7, <2>1, <2>6, TidAssumption DEF Inv, TidsBelow, TidsUnique
  <2>11. ParentActive'
    <3>1. ASSUME NEW x \in Live, parent'[x] # NullTask
          PROVE  parent'[x] \in Live' /\ tid'[parent'[x]] < tid'[x]
      BY <1>7, <2>6, <3>1 DEF Inv, ParentActive
    <3>2. parent'[d] \in Live' /\ tid'[parent'[d]] < tid'[d]
      BY <1>1, <1>3, <1>4, <1>7, <2>1, <2>6, TidAssumption DEF Inv, TidsBelow
    <3>3. QED BY <2>6, <3>1, <3>2 DEF ParentActive
  <2>12. NeverWraps'
    <3>1. Leaked' = Leaked
      BY <1>1, <1>4, <2>6 DEF Leaked
    <3>2. Cardinality(Leaked) \in Nat
      BY <1>1, DescAssumption, FS_Subset, FS_CardinalityType DEF Leaked
    <3>3. QED BY <1>3, <1>9, <3>1, <3>2, TidAssumption DEF NeverWraps
  <2>13. QED BY <2>8, <2>9, <2>10, <2>11, <2>12 DEF Inv
<1>10. QED BY <1>8, <1>9

\* A queue with one element is a sequence whose range is that element.
LEMMA OneElement ==
  ASSUME NEW x
  PROVE  /\ Len(<<x>>) = 1 /\ <<x>>[1] = x
         /\ Range(<<x>>) = {x}
<1>1. Len(<<x>>) = 1 /\ <<x>>[1] = x /\ DOMAIN <<x>> = {1}
  OBVIOUS
<1> DEFINE s == <<x>>
<1>2. s[1] = x /\ DOMAIN s = {1}
  BY <1>1
<1> HIDE DEF s
<1>3. Range(s) = {x}
  BY <1>2, Zenon DEF Range
<1>4. QED BY <1>1, <1>3 DEF s

\* kernel_init establishes the inductive invariant.
LEMMA InitInv == Init => Inv
<1> SUFFICES ASSUME Init PROVE Inv
  OBVIOUS
<1>0. TypeOK
  BY InitType
<1>1. PICK s \in Slabs : \E u, n, i \in s : KernelInit(u, n, i)
  BY DEF Init
<1>2. PICK u \in s, n \in s, i \in s : KernelInit(u, n, i)
  BY <1>1
<1>3. u \in Desc /\ n \in Desc /\ i \in Desc /\ u # n /\ u # i /\ n # i
  BY <1>2, DescAssumption DEF KernelInit
<1>4. /\ P_IDLE \in Priority /\ P_LOW \in Priority /\ P_SERVER_LO \in Priority
      /\ P_IDLE # P_LOW /\ P_IDLE # P_SERVER_LO /\ P_LOW # P_SERVER_LO
  BY PriorityAssumption DEF P_IDLE, P_LOW, P_SERVER_LO, Priority, UserPriority
<1>5. /\ rq[P_IDLE] = <<i>> /\ rq[P_LOW] = <<u>> /\ rq[P_SERVER_LO] = <<n>>
      /\ \A p \in Priority : p \notin {P_IDLE, P_LOW, P_SERVER_LO} => rq[p] = <<>>
      /\ cur = NullTask /\ used = {u, n, i}
      /\ prio[n] = P_SERVER_LO /\ prio[u] = P_LOW /\ prio[i] = P_IDLE
      /\ tid[n] = NAMESERVER_TID /\ tid[u] = FirstTid + 1 /\ tid[i] = FirstTid + 2
      /\ parent = [d \in Desc |-> NullTask] /\ global_tid = FirstTid + 2
  BY <1>2, <1>3, <1>4 DEF KernelInit
<1>6. /\ Range(<<i>>) = {i} /\ Range(<<u>>) = {u} /\ Range(<<n>>) = {n}
      /\ Range(<<>>) = {}
  <2>1. Range(<<>>) = {}
    BY DEF Range
  <2>2. QED BY <2>1, OneElement
<1>7. Queued = {u, n, i}
  <2>1. \A p \in Priority : Range(rq[p]) =
          IF p = P_IDLE THEN {i} ELSE IF p = P_LOW THEN {u}
          ELSE IF p = P_SERVER_LO THEN {n} ELSE {}
    BY <1>4, <1>5, <1>6
  <2>2. QED BY <1>4, <2>1 DEF Queued, InQueues
<1>8. Live = {u, n, i}
  BY <1>3, <1>5, <1>7, NullAssumption DEF Live
<1>9. OneOwner
  <2>1. WellQueued(rq, prio)
    <3>1. SUFFICES ASSUME NEW p \in Priority, NEW j \in 1 .. Len(rq[p]),
                          NEW k \in 1 .. Len(rq[p])
                   PROVE  prio[rq[p][j]] = p /\ j = k
      BY DEF WellQueued
    <3>2. CASE p = P_IDLE
      <4>1. Len(rq[p]) = 1 /\ rq[p][1] = i
        BY <1>5, <3>2, OneElement
      <4>2. j = 1 /\ k = 1
        BY <4>1
      <4>3. prio[i] = p
        BY <1>5, <3>2
      <4>4. QED BY <4>1, <4>2, <4>3
    <3>3. CASE p = P_LOW
      <4>1. Len(rq[p]) = 1 /\ rq[p][1] = u
        BY <1>5, <3>3, OneElement
      <4>2. j = 1 /\ k = 1
        BY <4>1
      <4>3. prio[u] = p
        BY <1>5, <3>3
      <4>4. QED BY <4>1, <4>2, <4>3
    <3>4. CASE p = P_SERVER_LO
      <4>1. Len(rq[p]) = 1 /\ rq[p][1] = n
        BY <1>5, <3>4, OneElement
      <4>2. j = 1 /\ k = 1
        BY <4>1
      <4>3. prio[n] = p
        BY <1>5, <3>4
      <4>4. QED BY <4>1, <4>2, <4>3
    <3>5. CASE p \notin {P_IDLE, P_LOW, P_SERVER_LO}
      BY <1>5, <3>5
    <3>6. QED BY <3>2, <3>3, <3>4, <3>5
  <2>2. QED BY <1>3, <1>5, <1>7, <1>8, <2>1, NullAssumption DEF OneOwner
<1>10. TidsBelow /\ TidsUnique
  BY <1>5, <1>8, TidAssumption DEF TidsBelow, TidsUnique, NAMESERVER_TID
<1>11. NeverWraps
  <2>1. Leaked = {}
    BY <1>5, <1>8 DEF Leaked
  <2>2. QED BY <1>5, <2>1, TidAssumption, FS_EmptySet DEF NeverWraps
<1>12. ParentActive
  BY <1>3, <1>5, <1>8 DEF ParentActive
<1>13. QED BY <1>0, <1>9, <1>10, <1>11, <1>12 DEF Inv

\* Every system call keeps the inductive invariant.
LEMMA SyscallInv ==
  ASSUME Inv, TypeOK', NEW t \in Desc, Syscall(t)
  PROVE  Inv'
<1> DEFINE Same == UNCHANGED <<cur, rq, used, global_tid, tid, parent, prio>>
<1>1. t = cur
  BY DEF Syscall, SysCreat, SysYield, SysExit, SysKillChild, SysKill, SysSend,
         SysReceive, SysReply, SysAwait, Calls
<1>2. ASSUME Same PROVE Inv'
  BY <1>2 DEF Inv, OneOwner, TidsBelow, TidsUnique, NeverWraps, ParentActive,
              Leaked, Live, Queued
<1>3. ASSUME NEW p \in 0 .. N_PRIORITY, SysCreat(t, p) PROVE Inv'
  <2>1. CASE Requeued(t)
    BY <1>1, <2>1, KeptInv DEF Kept, Requeued, Requeue
  <2>2. QED BY <1>1, <1>3, <2>1, CreateInv DEF SysCreat
<1>4. CASE SysExit(t)
  <2>1. t \in Live /\ InQueues(rq) = Live \ {t}
    BY <1>1, QueuedDesc DEF Live, Queued, Inv, OneOwner, TypeOK
  <2>2. QED BY <1>4, <2>1, DeallocInv DEF SysExit, Inv, OneOwner
<1>5. CASE SysYield(t)
  BY <1>1, <1>5, KeptInv DEF Kept, SysYield, Requeued, Requeue
<1>6. CASE SysKillChild(t)
  <2>1. Same \/ Kept(t)
    BY <1>1, <1>6 DEF Kept, SysKillChild, Stuck, Requeue
  <2>2. QED BY <1>2, <2>1, KeptInv
<1>7. ASSUME NEW c \in Found, SysKill(t, c) PROVE Inv'
  <2>1. Same \/ Kept(t)
    BY <1>1, <1>7 DEF Kept, SysKill, Stuck, Requeued, Requeue
  <2>2. QED BY <1>2, <2>1, KeptInv
<1>8. ASSUME NEW r \in Found, SysSend(t, r) PROVE Inv'
  <2>1. Same \/ Kept(t)
    BY <1>1, <1>8 DEF Kept, SysSend, SendFirst, Requeued, Requeue
  <2>2. QED BY <1>2, <2>1, KeptInv
<1>9. CASE SysReceive(t)
  BY <1>1, <1>9, KeptInv DEF Kept, SysReceive, Requeue
<1>10. ASSUME NEW s \in Found, SysReply(t, s) PROVE Inv'
  BY <1>1, <1>10, KeptInv DEF Kept, SysReply, Requeued, Requeue
<1>11. ASSUME NEW e \in 0 .. N_EVENTS, SysAwait(t, e) PROVE Inv'
  BY <1>1, <1>11, KeptInv DEF Kept, SysAwait, Requeued, Requeue
<1>12. QED
  BY <1>3, <1>4, <1>5, <1>6, <1>7, <1>8, <1>9, <1>10, <1>11 DEF Syscall

\* Every step of the kernel keeps the inductive invariant.
LEMMA NextInv == Inv /\ [Next]_vars => Inv'
<1> SUFFICES ASSUME Inv, [Next]_vars PROVE Inv'
  OBVIOUS
<1>0. TypeOK'
  BY NextType DEF Inv
<1>1. CASE UNCHANGED vars
  BY <1>1 DEF vars, Inv, TypeOK, OneOwner, TidsBelow, TidsUnique, NeverWraps,
              ParentActive, Leaked, Live, Queued
<1>2. ASSUME NEW p \in Priority, NEW i \in DOMAIN rq[p], ScheduleReady(p, i)
      PROVE  Inv'
  BY <1>0, <1>2, ScheduleReadyInv
<1>3. ASSUME NEW p \in Priority, NEW i \in DOMAIN rq[p], ScheduleKilled(p, i)
      PROVE  Inv'
  <2> DEFINE t == rq[p][i]
             q == [rq EXCEPT ![p] = RemoveAt(@, i)]
  <2>1. TypeOK /\ WellQueued(rq, prio) /\ cur = NullTask
    BY <1>3 DEF Inv, OneOwner, ScheduleKilled
  <2>2. WellQueued(q, prio) /\ InQueues(q) = Queued \ {t} /\ t \in Queued
    BY <2>1, RemoveWellQueued
  <2>3. Live = Queued
    BY <2>1, QueuedDesc, NullAssumption DEF Live, TypeOK
  <2>4. Dealloc(t, q)
    BY <1>3 DEF ScheduleKilled
  <2> HIDE DEF q, t
  <2>5. QED BY <1>0, <2>2, <2>3, <2>4, DeallocInv
<1>4. CASE ScheduleNone
  BY <1>0, <1>4 DEF ScheduleNone, Stuck, Inv, OneOwner, TidsBelow, TidsUnique,
              NeverWraps, ParentActive, Leaked, Live, Queued
<1>5. ASSUME NEW t \in Desc, Syscall(t)
      PROVE  Inv'
  BY <1>0, <1>5, SyscallInv
<1>6. ASSUME NEW t \in Desc, Interrupt(t)
      PROVE  Inv'
  <2>1. CASE TimerInterrupt(t)
    BY <1>0, <2>1, KeptInv DEF Kept, TimerInterrupt, Requeue
  <2>2. ASSUME NEW S \in SUBSET (Event \ {TIMER_TICK}), UartInterrupt(t, S) PROVE Inv'
    BY <1>0, <2>2, KeptInv DEF Kept, UartInterrupt, Requeue
  <2>3. QED BY <1>6, <2>1, <2>2 DEF Interrupt
<1>7. QED
  BY <1>1, <1>2, <1>3, <1>4, <1>5, <1>6 DEF Next, Schedule

\* Every reachable state satisfies the inductive invariant.
THEOREM Invariance == Spec => []Inv
BY InitInv, NextInv, PTL DEF Spec

\* A descriptor is never in two places: whatever tasks create, kill, send or
\* await, task_queue_schedule never returns a task that is already running or
\* already freed, and a ready queue never contains a task twice.
THEOREM DescriptorsHaveOneOwner == Spec => []OneOwner
<1>1. Inv => OneOwner
  BY DEF Inv
<1>2. QED BY <1>1, Invariance, PTL

\* No two active tasks ever have the same tid.
THEOREM ActiveTidsUnique == Spec => []TidsUnique
<1>1. Inv => TidsUnique
  BY DEF Inv
<1>2. QED BY <1>1, Invariance, PTL

\* task_queue_get_tid never gets as far as wrapping around.
THEOREM TidSearchNeverWraps == Spec => []NeverWraps
<1>1. Inv => NeverWraps
  BY DEF Inv
<1>2. QED BY <1>1, Invariance, PTL

\* The parent pointers of active tasks never dangle.
THEOREM ParentsStayActive == Spec => []ParentActive
<1>1. Inv => ParentActive
  BY DEF Inv
<1>2. QED BY <1>1, Invariance, PTL

-----------------------------------------------------------------------------
(* The scheduler always finds a task                                       *)

\* What the code and its programs provide: idle_task_main makes no system
\* call (kernel.c:25), no server kills a task of the idle priority, and the
\* word that NULL->tid reads is no tid the kernel hands out.
IdleLeftAlone ==
  /\ \A c, a : <<P_IDLE, c, a>> \notin Program
  /\ \A p \in Priority : p >= P_SERVER_LO => <<p, "KILL", P_IDLE>> \notin Program
  /\ NullTid \notin 1 .. MaxSTid

\* Task i is active at the idle priority, has no parent that could kill it,
\* runs or is ready, and is in nobody's list of waiting senders.
Idles(i) ==
  /\ i \in Live
  /\ prio[i] = P_IDLE
  /\ parent[i] = NullTask
  /\ ready_state[i] = IF i = cur THEN "RUNNING" ELSE "READY"
  /\ \A d \in Desc : wsn[d] # i

\* The inductive invariant: kernel_init's idle task stays as it is.
IdleInv ==
  /\ Inv
  /\ kmain # "fault"
  /\ \E i \in Desc : Idles(i)

\* The end of the kernel loop leaves the idle task queued and ready.
LEMMA RequeueIdle ==
  ASSUME Inv, NEW i \in Live, NEW t \in Desc, t = cur,
         NEW st \in [Desc -> ReadyState], NEW q \in [Priority -> Seq(Desc)],
         Queued \subseteq InQueues(q),
         st[i] = "READY" \/ (i = t /\ st[i] = "RUNNING"),
         Requeue(t, st, q)
  PROVE  /\ i \in Live' /\ cur' = NullTask /\ kmain' # "fault"
         /\ ready_state'[i] = "READY"
<1>1. i \in Desc /\ i # NullTask /\ (i = t \/ i \in Queued)
  BY NullAssumption DEF Live
<1>2. prio[t] \in Priority
  BY DEF Inv, TypeOK
<1>3. Queued' = InQueues(q) \cup {t}
  BY <1>2, PushQueues DEF Queued, Requeue
<1>4. i \in Live'
  BY <1>1, <1>3 DEF Live
<1>5. ready_state'[i] = "READY"
  BY <1>1 DEF Requeue, AfterRun
<1>6. QED BY <1>4, <1>5 DEF Requeue

\* The tasks that a kill reaches are of user priorities, so the idle task is
\* not among them, and the recursion ends.
LEMMA KillSparesIdle ==
  ASSUME Inv, IdleLeftAlone, NEW i \in Desc, Idles(i), NEW k
  PROVE  ~KillRecurses(k) /\ i \notin Descendants(k)
<1>1. /\ rq \in [Priority -> Seq(Desc)] /\ WellQueued(rq, prio)
  BY DEF Inv, TypeOK, OneOwner
<1>2. UserPriority \subseteq Priority /\ P_IDLE \notin UserPriority
  BY PriorityAssumption DEF UserPriority, Priority, P_IDLE
<1>3. ASSUME NEW d \in Killable PROVE d \in Queued /\ prio[d] \in UserPriority
  <2>1. PICK p \in UserPriority : d \in Range(rq[p])
    BY <1>3 DEF Killable
  <2>2. p \in Priority /\ rq[p] \in Seq(Desc)
    BY <1>1, <1>2
  <2>3. PICK j \in 1 .. Len(rq[p]) : d = rq[p][j]
    BY <2>1, <2>2 DEF Range
  <2>4. prio[d] = p
    BY <1>1, <2>2, <2>3 DEF WellQueued
  <2>5. d \in Queued
    BY <2>1, <2>2 DEF Queued, InQueues
  <2>6. QED BY <2>4, <2>5
<1>4. i \notin Killable
  BY <1>2, <1>3 DEF Idles
<1>5. \A d \in Killable : tid[d] # NullTid
  <2>1. Queued \subseteq Live
    BY <1>1, QueuedDesc DEF Live
  <2>2. QED BY <1>3, <2>1 DEF Inv, TidsBelow, IdleLeftAlone
<1>6. QED BY <1>4, <1>5 DEF KillRecurses, Descendants

\* A call or interrupt of t that ends in task_queue_add, and that leaves the
\* idle task ready and out of the lists of waiting senders, keeps it idling.
LEMMA KeepsIdle ==
  ASSUME Inv, NEW i \in Desc, Idles(i), NEW t \in Desc, t = cur,
         NEW st \in [Desc -> ReadyState], NEW q \in [Priority -> Seq(Desc)],
         Queued \subseteq InQueues(q),
         st[i] = "READY" \/ (i = t /\ st[i] = "RUNNING"),
         Requeue(t, st, q),
         prio'[i] = prio[i], parent'[i] = parent[i], \A d \in Desc : wsn'[d] # i
  PROVE  kmain' # "fault" /\ Idles(i)'
<1>1. i \in Live /\ i # NullTask
  BY NullAssumption DEF Idles
<1>2. /\ i \in Live' /\ cur' = NullTask /\ kmain' # "fault"
      /\ ready_state'[i] = "READY"
  BY <1>1, RequeueIdle
<1>3. QED BY <1>1, <1>2 DEF Idles

\* task_dealloc of another task keeps it idling.
LEMMA DeallocIdle ==
  ASSUME Inv, NEW i \in Desc, Idles(i), i # cur, NEW t \in Desc, t # i,
         NEW q, i \in InQueues(q), Dealloc(t, q)
  PROVE  kmain' # "fault" /\ Idles(i)'
<1>1. i \in Live' /\ cur' = NullTask /\ i # NullTask /\ kmain' # "fault"
  BY NullAssumption DEF Dealloc, Live, Queued
<1>2. parent'[i] = NullTask
  BY DEF Dealloc, Orphaned, Idles
<1>3. ready_state'[i] = "READY" /\ prio' = prio /\ wsn' = wsn
  <2>1. ready_state[i] = "READY" \/ i = cur
    BY DEF Idles
  <2>2. ready_state'[i] = ready_state[i]
    BY DEF Dealloc, Inv, TypeOK
  <2>3. QED BY <2>1, <2>2 DEF Dealloc
<1>4. QED BY <1>1, <1>2, <1>3 DEF Idles

\* SYS_CREAT takes a free descriptor, so it keeps the idle task idling.
LEMMA CreateIdle ==
  ASSUME Inv, NEW i \in Desc, Idles(i), NEW t \in Desc, t = cur, t # i,
         NEW p \in Priority, NEW n \in NewDesc, CreateTask(t, p, n[1], n[2])
  PROVE  kmain' # "fault" /\ Idles(i)'
<1> DEFINE d == n[1]  c == n[2]
           st == [ready_state EXCEPT ![d] = "READY"]
           q == Push(rq, p, d)
<1>1. /\ TypeOK /\ rq \in [Priority -> Seq(Desc)] /\ ready_state \in [Desc -> ReadyState]
      /\ prio \in [Desc -> Priority] /\ parent \in [Desc -> Desc \cup {NullTask}]
      /\ Live \subseteq used
  BY DEF Inv, TypeOK, OneOwner
<1>2. d \in Desc /\ d \notin used /\ d # i
  BY <1>1, NewDescFree DEF Idles
<1>3. /\ st \in [Desc -> ReadyState] /\ st[i] = "READY"
  BY <1>1, <1>2 DEF Idles, ReadyState
<1>4. q \in [Priority -> Seq(Desc)] /\ Queued \subseteq InQueues(q)
  <2> HIDE DEF d
  <2>1. q \in [Priority -> Seq(Desc)] /\ InQueues(q) = InQueues(rq) \cup {d}
    BY <1>1, <1>2, PushQueues
  <2>2. QED BY <2>1 DEF Queued
<1>5. Requeue(t, st, rq) \/ Requeue(t, st, q)
  BY DEF CreateTask
<1>6. prio'[i] = prio[i] /\ parent'[i] = parent[i]
  BY <1>1, <1>2 DEF CreateTask, TaskInit
<1>7. \A x \in Desc : wsn'[x] # i
  BY NullAssumption DEF CreateTask, TaskClear, Idles
<1>8. Queued \subseteq InQueues(rq)
  BY DEF Queued
<1> HIDE DEF st, q
<1>9. QED BY <1>1, <1>3, <1>4, <1>5, <1>6, <1>7, <1>8, KeepsIdle

\* No system call of another task stops the idle task.
LEMMA SyscallIdle ==
  ASSUME Inv, IdleLeftAlone, NEW i \in Desc, Idles(i), NEW t \in Desc, Syscall(t)
  PROVE  kmain' # "fault" /\ Idles(i)'
<1>1. t = cur /\ t # i
  BY DEF Syscall, SysCreat, SysYield, SysExit, SysKillChild, SysKill, SysSend,
         SysReceive, SysReply, SysAwait, Calls, Idles, IdleLeftAlone
<1>2. /\ TypeOK /\ rq \in [Priority -> Seq(Desc)] /\ ready_state \in [Desc -> ReadyState]
      /\ wsn \in [Desc -> Desc \cup {NullTask}]
      /\ Queued \subseteq InQueues(rq) /\ ready_state[i] = "READY"
      /\ \A d \in Desc : wsn[d] # i
      /\ i # NullTask
  BY <1>1, NullAssumption DEF Inv, TypeOK, Queued, Idles
<1>3. ASSUME NEW st \in [Desc -> ReadyState], st[i] = "READY", Requeue(t, st, rq),
             UNCHANGED <<prio, parent>>, \A d \in Desc : wsn'[d] # i
      PROVE  kmain' # "fault" /\ Idles(i)'
  BY <1>1, <1>2, <1>3, KeepsIdle
<1>4. CASE Requeued(t)
  BY <1>2, <1>3, <1>4 DEF Requeued
<1>5. ASSUME NEW p \in 0 .. N_PRIORITY, SysCreat(t, p) PROVE kmain' # "fault" /\ Idles(i)'
  BY <1>1, <1>4, <1>5, CreateIdle DEF SysCreat
<1>6. CASE SysYield(t)
  BY <1>4, <1>6 DEF SysYield
<1>7. CASE SysExit(t)
  <2>1. i \in InQueues(rq)
    BY <1>1 DEF Idles, Live, Queued
  <2>2. QED BY <1>1, <1>7, <2>1, DeallocIdle DEF SysExit
<1>8. CASE SysKillChild(t)
  <2> DEFINE st == [d \in Desc |-> IF d \in Descendants(tid[t])
                                   THEN "KILLED" ELSE ready_state[d]]
  <2>1. ~KillRecurses(tid[t]) /\ i \notin Descendants(tid[t])
    BY KillSparesIdle
  <2>2. Requeue(t, st, rq) /\ UNCHANGED <<prio, parent, wsn>>
    BY <1>8, <2>1 DEF SysKillChild
  <2>3. st \in [Desc -> ReadyState] /\ st[i] = "READY"
    BY <1>2, <2>1 DEF ReadyState
  <2> HIDE DEF st
  <2>4. QED BY <1>2, <1>3, <2>2, <2>3
<1>9. ASSUME NEW c \in Found, SysKill(t, c) PROVE kmain' # "fault" /\ Idles(i)'
  <2> DEFINE st == [d \in Desc |-> IF d = c \/ d \in Descendants(tid[c])
                                   THEN "KILLED" ELSE ready_state[d]]
  <2>1. ~KillRecurses(tid[c]) /\ i \notin Descendants(tid[c])
    BY KillSparesIdle
  <2>2. CASE ~Requeued(t)
    <3>1. /\ c # NullTask /\ MayKill(t, c) /\ Calls(t, "KILL", prio[c])
          /\ Requeue(t, st, rq) /\ UNCHANGED <<prio, parent, wsn>>
      BY <1>9, <2>1, <2>2 DEF SysKill
    <3>2. c # i
      <4>1. SUFFICES ASSUME c = i PROVE FALSE
        OBVIOUS
      <4>2. prio[t] >= P_SERVER_LO
        BY <3>1, <4>1, NullAssumption DEF MayKill, Idles
      <4>3. <<prio[t], "KILL", P_IDLE>> \in Program /\ prio[t] \in Priority
        BY <1>2, <3>1, <4>1 DEF Calls, Idles, TypeOK
      <4>4. QED BY <4>2, <4>3 DEF IdleLeftAlone
    <3>3. st \in [Desc -> ReadyState] /\ st[i] = "READY"
      BY <1>2, <2>1, <3>2 DEF ReadyState
    <3> HIDE DEF st
    <3>4. QED BY <1>2, <1>3, <3>1, <3>3
  <2>3. QED BY <1>4, <2>2
<1>10. ASSUME NEW r \in Found, SysSend(t, r) PROVE kmain' # "fault" /\ Idles(i)'
  <2>1. CASE r # NullTask /\ ~Requeued(t)
    <3> DEFINE st1 == [ready_state EXCEPT ![t] = "RPLY_WAIT", ![r] = "READY"]
               st2 == [ready_state EXCEPT ![t] = "SEND_WAIT"]
    <3>1. r \in Desc
      BY <1>2, <2>1, FoundType
    <3>2. /\ \/ ready_state[r] = "RCV_WAIT" /\ Requeue(t, st1, rq)
             \/ Requeue(t, st2, rq)
             \/ kmain' = "spin" /\ ready_state' = st2 /\ UNCHANGED <<cur, rq>>
          /\ wsn' = wsn \/ wsn' = [wsn EXCEPT ![r] = t]
          /\ UNCHANGED <<prio, parent>>
      BY <1>10, <2>1 DEF SysSend, SendFirst
    <3>3. \A d \in Desc : wsn'[d] # i
      BY <1>1, <1>2, <3>1, <3>2
    <3>4. st2 \in [Desc -> ReadyState] /\ st2[i] = "READY"
      BY <1>1, <1>2 DEF ReadyState
    <3>5. st1 \in [Desc -> ReadyState] /\ st1[i] = "READY"
      BY <1>1, <1>2, <3>1 DEF ReadyState
    <3> HIDE DEF st1, st2
    <3>6. CASE kmain' = "spin" /\ ready_state' = st2 /\ UNCHANGED <<cur, rq>>
      BY <1>1, <3>2, <3>3, <3>4, <3>6 DEF Idles, Live, Queued
    <3>7. QED BY <1>3, <3>2, <3>3, <3>4, <3>5, <3>6
  <2>2. QED BY <1>4, <1>10, <2>1 DEF SysSend
<1>11. CASE SysReceive(t)
  <2> DEFINE s == wsn[t]
             st == IF s # NullTask THEN [ready_state EXCEPT ![s] = "RPLY_WAIT"]
                   ELSE [ready_state EXCEPT ![t] = "RCV_WAIT"]
  <2>1. st \in [Desc -> ReadyState] /\ st[i] = "READY"
    BY <1>1, <1>2 DEF ReadyState
  <2>2. Requeue(t, st, rq) /\ UNCHANGED <<prio, parent>>
    BY <1>11 DEF SysReceive
  <2>3. \A d \in Desc : wsn'[d] # i
    BY <1>2, <1>11 DEF SysReceive
  <2> HIDE DEF st
  <2>4. QED BY <1>3, <2>1, <2>2, <2>3
<1>12. ASSUME NEW s \in Found, SysReply(t, s) PROVE kmain' # "fault" /\ Idles(i)'
  <2> DEFINE st == [ready_state EXCEPT ![s] = IF @ = "RPLY_WAIT" THEN "READY" ELSE @]
  <2>1. CASE ~Requeued(t)
    <3>1. Requeue(t, st, rq) /\ UNCHANGED <<prio, parent, wsn>>
      BY <1>12, <2>1 DEF SysReply
    <3>2. st \in [Desc -> ReadyState] /\ st[i] = "READY"
      BY <1>2 DEF ReadyState
    <3> HIDE DEF st
    <3>3. QED BY <1>2, <1>3, <3>1, <3>2
  <2>2. QED BY <1>4, <2>1
<1>13. ASSUME NEW e \in 0 .. N_EVENTS, SysAwait(t, e) PROVE kmain' # "fault" /\ Idles(i)'
  <2> DEFINE st == [ready_state EXCEPT ![t] = "EVENT_WAIT"]
  <2>1. CASE ~Requeued(t)
    <3>1. Requeue(t, st, rq) /\ UNCHANGED <<prio, parent, wsn>>
      BY <1>13, <2>1 DEF SysAwait
    <3>2. st \in [Desc -> ReadyState] /\ st[i] = "READY"
      BY <1>1, <1>2 DEF ReadyState
    <3> HIDE DEF st
    <3>3. QED BY <1>2, <1>3, <3>1, <3>2
  <2>2. QED BY <1>4, <2>1
<1>14. QED
  BY <1>5, <1>6, <1>7, <1>8, <1>9, <1>10, <1>11, <1>12, <1>13 DEF Syscall

\* A UART or timer interrupt leaves a ready task ready.
LEMMA InterruptIdle ==
  ASSUME Inv, NEW i \in Desc, Idles(i), NEW t \in Desc, Interrupt(t)
  PROVE  kmain' # "fault" /\ Idles(i)'
<1>1. /\ rq \in [Priority -> Seq(Desc)] /\ ready_state \in [Desc -> ReadyState]
      /\ Queued \subseteq InQueues(rq) /\ TypeOK
      /\ t = cur
  BY DEF Inv, TypeOK, Queued, Interrupt, TimerInterrupt, UartInterrupt
<1>2. ready_state[i] = "READY" \/ (i = t /\ ready_state[i] = "RUNNING")
  BY <1>1 DEF Idles
<1>3. ASSUME NEW st \in [Desc -> ReadyState], st[i] = "READY" \/ st[i] = ready_state[i],
             Requeue(t, st, rq), UNCHANGED <<prio, parent, wsn>>
      PROVE  kmain' # "fault" /\ Idles(i)'
  <2>1. \A d \in Desc : wsn'[d] # i
    BY <1>3 DEF Idles
  <2>2. st[i] = "READY" \/ (i = t /\ st[i] = "RUNNING")
    BY <1>2, <1>3
  <2>3. prio'[i] = prio[i] /\ parent'[i] = parent[i]
    BY <1>3
  <2>4. QED BY <1>1, <1>3, <2>1, <2>2, <2>3, KeepsIdle
<1>4. CASE TimerInterrupt(t)
  <2> DEFINE w == IF front[TIMER_TICK] = NullTask THEN {} ELSE Waiters(TIMER_TICK)
             st == [d \in Desc |-> IF d \in w THEN "READY" ELSE ready_state[d]]
  <2>1. Requeue(t, st, rq) /\ UNCHANGED <<prio, parent, wsn>>
    BY <1>4 DEF TimerInterrupt
  <2> HIDE DEF w
  <2>2. st \in [Desc -> ReadyState] /\ (st[i] = "READY" \/ st[i] = ready_state[i])
    BY <1>1 DEF ReadyState
  <2> HIDE DEF st
  <2>3. QED BY <1>3, <2>1, <2>2
<1>5. ASSUME NEW S \in SUBSET (Event \ {TIMER_TICK}), UartInterrupt(t, S)
      PROVE  kmain' # "fault" /\ Idles(i)'
  <2> DEFINE v0 == [st |-> ready_state, ewn |-> ewn, front |-> front, back |-> back]
             v1 == UnblockOne(v0, MARKLIN_CTS, S)
             v2 == UnblockOne(v1, MARKLIN_RX, S)
             v3 == UnblockOne(v2, CONSOLE_RX, S)
             Ready(v) == v.st[i] = "READY" \/ v.st[i] = ready_state[i]
  <2>1. v0 \in EventQueues /\ Ready(v0) /\ S \in SUBSET Event
    BY <1>1 DEF TypeOK, EventQueues
  <2>2. ASSUME NEW v \in EventQueues, NEW e, Ready(v) PROVE Ready(UnblockOne(v, e, S))
    <3>1. CASE e \notin S \/ v.front[e] = NullTask
      BY <2>2, <3>1 DEF UnblockOne
    <3>2. CASE ~(e \notin S \/ v.front[e] = NullTask)
      <4>1. UnblockOne(v, e, S).st = [v.st EXCEPT ![v.front[e]] = "READY"]
        BY <3>2 DEF UnblockOne
      <4>2. v.st \in [Desc -> ReadyState]
        BY <2>2 DEF EventQueues
      <4>3. QED BY <2>2, <4>1, <4>2
    <3>3. QED BY <3>1, <3>2
  <2>3. Requeue(t, v3.st, rq) /\ UNCHANGED <<prio, parent, wsn>>
    BY <1>5 DEF UartInterrupt
  <2> HIDE DEF v0, Ready
  <2>4. v1 \in EventQueues /\ Ready(v1)
    BY <2>1, <2>2, UnblockOneType
  <2> HIDE DEF v1
  <2>5. v2 \in EventQueues /\ Ready(v2)
    BY <2>1, <2>2, <2>4, UnblockOneType
  <2> HIDE DEF v2
  <2>6. v3 \in EventQueues /\ Ready(v3)
    BY <2>1, <2>2, <2>5, UnblockOneType
  <2> HIDE DEF v3
  <2>7. v3.st \in [Desc -> ReadyState] /\ (v3.st[i] = "READY" \/ v3.st[i] = ready_state[i])
    BY <2>6 DEF EventQueues, Ready
  <2>8. QED BY <1>3, <2>3, <2>7
<1>6. QED BY <1>4, <1>5 DEF Interrupt

\* While the idle task waits in its queue the scheduler finds a task, and
\* does not free the idle task.
LEMMA ScheduleIdle ==
  ASSUME Inv, NEW i \in Desc, Idles(i), Schedule
  PROVE  kmain' # "fault" /\ Idles(i)'
<1>1. /\ TypeOK /\ rq \in [Priority -> Seq(Desc)] /\ ready_state \in [Desc -> ReadyState]
      /\ WellQueued(rq, prio) /\ i # NullTask
  BY NullAssumption DEF Inv, TypeOK, OneOwner
<1>2. cur = NullTask
  BY DEF Schedule, ScheduleReady, ScheduleKilled, ScheduleNone
<1>3. i \in Queued /\ ready_state[i] = "READY"
  BY <1>1, <1>2 DEF Idles, Live
<1>4. ASSUME NEW p \in Priority, NEW j \in DOMAIN rq[p], ScheduleReady(p, j)
      PROVE  kmain' # "fault" /\ Idles(i)'
  <2> DEFINE t == rq[p][j]
             q == [rq EXCEPT ![p] = RemoveAt(@, j)]
  <2>1. t \in Desc /\ InQueues(q) = Queued \ {t}
    BY <1>1, RemoveType, RemoveWellQueued
  <2>2. /\ kmain' = "run" /\ cur' = t /\ rq' = q
        /\ ready_state' = [ready_state EXCEPT ![t] = "RUNNING"]
        /\ UNCHANGED <<prio, parent, wsn>>
    BY <1>4 DEF ScheduleReady
  <2> HIDE DEF t, q
  <2>3. i \in Live'
    BY <1>3, <2>1, <2>2 DEF Live, Queued
  <2>4. ready_state'[i] = IF i = t THEN "RUNNING" ELSE "READY"
    BY <1>1, <1>3, <2>1, <2>2
  <2>5. QED BY <2>2, <2>3, <2>4 DEF Idles
<1>5. ASSUME NEW p \in Priority, NEW j \in DOMAIN rq[p], ScheduleKilled(p, j)
      PROVE  kmain' # "fault" /\ Idles(i)'
  <2> DEFINE t == rq[p][j]
             q == [rq EXCEPT ![p] = RemoveAt(@, j)]
  <2>1. t \in Desc /\ InQueues(q) = Queued \ {t}
    BY <1>1, RemoveType, RemoveWellQueued
  <2>2. Dealloc(t, q) /\ ready_state[t] = "KILLED"
    BY <1>5 DEF ScheduleKilled
  <2> HIDE DEF t, q
  <2>3. QED BY <1>1, <1>2, <1>3, <2>1, <2>2, DeallocIdle
<1>6. ~ScheduleNone
  <2>1. PICK p \in Priority : \E j \in 1 .. Len(rq[p]) : rq[p][j] = i
    BY <1>1, <1>3, InQueuesElement DEF Queued
  <2>2. PICK j \in 1 .. Len(rq[p]) : rq[p][j] = i
    BY <2>1
  <2>3. j \in DOMAIN rq[p]
    BY <1>1
  <2>4. j \in Runnable(p)
    BY <1>3, <2>2, <2>3 DEF Runnable
  <2>5. QED BY <2>4 DEF ScheduleNone
<1>7. QED BY <1>4, <1>5, <1>6 DEF Schedule

\* kernel_init starts the idle task.
LEMMA InitIdle == Init => IdleInv
<1> SUFFICES ASSUME Init PROVE IdleInv
  OBVIOUS
<1>1. PICK s \in Slabs : \E u, n, i \in s : KernelInit(u, n, i)
  BY DEF Init
<1>2. PICK u \in s, n \in s, i \in s : KernelInit(u, n, i)
  BY <1>1
<1>3. u \in Desc /\ n \in Desc /\ i \in Desc /\ i # NullTask
  BY <1>2, DescAssumption, NullAssumption
<1>4. P_IDLE \in Priority /\ rq[P_IDLE] = <<i>> /\ cur = NullTask /\ i \in used
  <2>1. P_IDLE \in Priority /\ P_IDLE # P_LOW /\ P_IDLE # P_SERVER_LO
    BY PriorityAssumption DEF P_IDLE, P_LOW, P_SERVER_LO, Priority, UserPriority
  <2>2. QED BY <1>2, <2>1 DEF KernelInit
<1>5. i \in Live
  <2>1. Range(rq[P_IDLE]) = {i}
    BY <1>4, OneElement
  <2>2. QED BY <1>3, <1>4, <2>1 DEF Live, Queued, InQueues
<1>6. prio[i] = P_IDLE /\ parent[i] = NullTask /\ ready_state[i] = "READY"
      /\ kmain = "run" /\ \A d \in Desc : wsn[d] = NullTask
  BY <1>2, <1>3, <1>4 DEF KernelInit
<1>7. Idles(i)
  BY <1>3, <1>4, <1>5, <1>6 DEF Idles
<1>8. QED BY <1>3, <1>6, <1>7, InitInv DEF IdleInv

\* The kernel never dereferences the NULL of a scheduler that finds no task,
\* and never recurses without end in a kill: provided the idle task is left
\* alone, whatever the other tasks do.
THEOREM SchedulerFindsTask ==
  ASSUME IdleLeftAlone
  PROVE  Spec => []NoFault
<1>1. IdleInv /\ [Next]_vars => IdleInv'
  <2> SUFFICES ASSUME IdleInv, [Next]_vars PROVE IdleInv'
    OBVIOUS
  <2>1. Inv /\ Inv'
    BY NextInv DEF IdleInv
  <2>2. PICK i \in Desc : Idles(i)
    BY DEF IdleInv
  <2>3. CASE UNCHANGED vars
    BY <2>1, <2>2, <2>3 DEF IdleInv, vars, Idles, Live, Queued
  <2>4. CASE Next
    <3>1. kmain' # "fault" /\ Idles(i)'
      BY <2>1, <2>2, <2>4, ScheduleIdle, SyscallIdle, InterruptIdle DEF Next
    <3>2. QED BY <2>1, <3>1 DEF IdleInv
  <2>5. QED BY <2>3, <2>4
<1>2. IdleInv => NoFault
  BY DEF IdleInv, NoFault
<1>3. QED BY <1>1, <1>2, InitIdle, PTL DEF Spec

-----------------------------------------------------------------------------
(* Blocked tasks are queued                                                *)

\* Nobody kills: a task killed while it waits stays linked (task-state.c:125).
NoKills == \A p, a : <<p, "KILL", a>> \notin Program /\ <<p, "KILL_CHILD", a>> \notin Program

\* The tasks that the links nx lead to from a
Closed(S, nx) == \A x \in S : nx[x] # NullTask => nx[x] \in S
Reach(a, nx) == {d \in Desc : \A S \in SUBSET Desc : a \in S /\ Closed(S, nx) => d \in S}
Link == [Desc -> Desc \cup {NullTask}]

LEMMA ReachLeast ==
  ASSUME NEW a, NEW nx, NEW S \in SUBSET Desc, a \in S, Closed(S, nx)
  PROVE  Reach(a, nx) \subseteq S
BY DEF Reach

LEMMA ReachClosed ==
  ASSUME NEW a \in Desc, NEW nx \in Link
  PROVE  a \in Reach(a, nx) /\ Closed(Reach(a, nx), nx) /\ Reach(a, nx) \in SUBSET Desc
<1>1. SUFFICES ASSUME NEW x \in Reach(a, nx), nx[x] # NullTask PROVE nx[x] \in Reach(a, nx)
  BY DEF Reach, Closed
<1>2. x \in Desc /\ nx[x] \in Desc
  BY <1>1 DEF Reach, Link
<1>3. ASSUME NEW S \in SUBSET Desc, a \in S, Closed(S, nx) PROVE nx[x] \in S
  BY <1>1, <1>3 DEF Reach, Closed
<1>4. QED BY <1>2, <1>3 DEF Reach

\* A task that no link leads to is not reached.
LEMMA ReachNeedsLink ==
  ASSUME NEW a \in Desc, NEW nx \in Link, NEW y, y # a, \A x \in Reach(a, nx) : nx[x] # y
  PROVE  y \notin Reach(a, nx)
<1> DEFINE S == Reach(a, nx) \ {y}
<1>1. S \in SUBSET Desc /\ a \in S /\ Closed(S, nx)
  BY ReachClosed DEF Closed
<1>2. Reach(a, nx) \subseteq S
  BY <1>1, ReachLeast
<1>3. QED BY <1>2

\* Lists with different heads have no task in common.
LEMMA ReachApart ==
  ASSUME NEW a \in Desc, NEW b \in Desc, NEW nx \in Link, a # b,
         \A x \in Desc : nx[x] # a /\ nx[x] # b,
         \A x, y \in Desc : nx[x] = nx[y] /\ nx[x] # NullTask => x = y
  PROVE  Reach(a, nx) \cap Reach(b, nx) = {}
<1> DEFINE S == Reach(a, nx) \ Reach(b, nx)
<1>1. Reach(a, nx) \subseteq Desc /\ Reach(b, nx) \subseteq Desc
  BY DEF Reach
<1>2. a \notin Reach(b, nx)
  BY <1>1, ReachNeedsLink
<1>3. ASSUME NEW x \in S, nx[x] # NullTask PROVE nx[x] \in S
  <2>1. nx[x] \in Reach(a, nx) /\ x \in Desc
    BY <1>1, <1>3, ReachClosed DEF Closed
  <2>2. nx[x] # b /\ \A z \in Reach(b, nx) : nx[z] # nx[x]
    BY <1>1, <1>3, <2>1
  <2>3. nx[x] \notin Reach(b, nx)
    BY <2>2, ReachNeedsLink
  <2>4. QED BY <2>1, <2>3
<1>4. S \in SUBSET Desc /\ a \in S /\ Closed(S, nx)
  BY <1>1, <1>2, <1>3, ReachClosed DEF Closed
<1>5. Reach(a, nx) \subseteq S
  BY <1>4, ReachLeast
<1>6. QED BY <1>5

\* Links that keep the ones followed from a reach no less from it.
LEMMA ReachKept ==
  ASSUME NEW a \in Desc, NEW nx \in Link, NEW mx \in Link,
         \A x \in Reach(a, nx) : nx[x] # NullTask => mx[x] = nx[x]
  PROVE  Reach(a, nx) \subseteq Reach(a, mx)
<1> DEFINE S == Reach(a, nx) \cap Reach(a, mx)
<1>1. S \in SUBSET Desc /\ a \in S /\ Closed(S, nx)
  BY ReachClosed DEF Closed
<1>2. Reach(a, nx) \subseteq S
  BY <1>1, ReachLeast
<1>3. QED BY <1>2

\* From its second task a list reaches all but the first.
LEMMA ReachTail ==
  ASSUME NEW h \in Desc, NEW nx \in Link, nx[h] # NullTask
  PROVE  Reach(h, nx) \ {h} \subseteq Reach(nx[h], [nx EXCEPT ![h] = NullTask])
<1> DEFINE mx == [nx EXCEPT ![h] = NullTask]
           S == Reach(nx[h], mx) \cup {h}
<1>1. mx \in Link /\ nx[h] \in Desc /\ \A x \in Desc : x # h => mx[x] = nx[x]
  BY DEF Link
<1>2. nx[h] \in Reach(nx[h], mx) /\ Closed(Reach(nx[h], mx), mx) /\ Reach(nx[h], mx) \in SUBSET Desc
  BY <1>1, ReachClosed
<1>3. S \in SUBSET Desc /\ h \in S /\ Closed(S, nx)
  BY <1>1, <1>2 DEF Closed
<1>4. Reach(h, nx) \subseteq S
  BY <1>3, ReachLeast
<1>5. QED BY <1>4

LEMMA ReachAlone ==
  ASSUME NEW h \in Desc, NEW nx \in Link, nx[h] = NullTask
  PROVE  Reach(h, nx) = {h}
<1>1. {h} \in SUBSET Desc /\ h \in {h} /\ Closed({h}, nx)
  BY DEF Closed
<1>2. Reach(h, nx) \subseteq {h}
  BY <1>1, ReachLeast
<1>3. QED BY <1>2, ReachClosed

-----------------------------------------------------------------------------
(* The event queues                                                        *)

EventLink == [Event -> Desc \cup {NullTask}]

\* The back of a queue is its last task.
Ends(nx, fr, bk) ==
  \A e \in Event : IF fr[e] = NullTask THEN bk[e] = NullTask
                   ELSE bk[e] \in Reach(fr[e], nx) /\ nx[bk[e]] = NullTask

\* Only tasks that wait for an event are linked.
LinkWaiting(st, nx, fr) ==
  /\ \A e \in Event : fr[e] # NullTask => st[fr[e]] = "EVENT_WAIT"
  /\ \A x \in Desc : nx[x] # NullTask => st[x] = "EVENT_WAIT" /\ st[nx[x]] = "EVENT_WAIT"

\* There is one link to a task.
LinkOnce(nx, fr) ==
  /\ \A e, f \in Event : fr[e] = fr[f] /\ fr[e] # NullTask => e = f
  /\ \A x, y \in Desc : nx[x] = nx[y] /\ nx[x] # NullTask => x = y
  /\ \A x \in Desc, e \in Event : nx[x] = fr[e] => nx[x] = NullTask

Covered(st, nx, fr) ==
  \A d \in Desc : st[d] = "EVENT_WAIT" =>
    \E e \in Event : fr[e] # NullTask /\ d \in Reach(fr[e], nx)

\* The links form one list of tasks per event, of exactly the tasks that wait.
Listed(st, nx, fr, bk) ==
  /\ st \in [Desc -> ReadyState] /\ nx \in Link /\ fr \in EventLink /\ bk \in EventLink
  /\ Ends(nx, fr, bk)
  /\ LinkWaiting(st, nx, fr)
  /\ LinkOnce(nx, fr)
  /\ Covered(st, nx, fr)

LEMMA ReachWaiting ==
  ASSUME NEW st, NEW nx, NEW fr, NEW bk, Listed(st, nx, fr, bk),
         NEW e \in Event, fr[e] # NullTask
  PROVE  \A d \in Reach(fr[e], nx) : d \in Desc /\ st[d] = "EVENT_WAIT"
<1> DEFINE S == {d \in Desc : st[d] = "EVENT_WAIT"}
<1>1. fr[e] \in Desc /\ nx \in Link
  BY DEF Listed, EventLink
<1>2. S \in SUBSET Desc /\ fr[e] \in S /\ Closed(S, nx)
  BY <1>1 DEF Listed, LinkWaiting, Closed, Link
<1>3. QED BY <1>2, ReachLeast

\* States that change for other reasons do not matter.
LEMMA ListedFrame ==
  ASSUME NEW st, NEW nx, NEW fr, NEW bk, Listed(st, nx, fr, bk),
         NEW st2 \in [Desc -> ReadyState],
         \A d \in Desc : st2[d] = "EVENT_WAIT" <=> st[d] = "EVENT_WAIT"
  PROVE  Listed(st2, nx, fr, bk)
<1>1. nx \in Link /\ fr \in EventLink
  BY DEF Listed
<1>2. LinkWaiting(st2, nx, fr)
  BY <1>1 DEF Listed, LinkWaiting, Link, EventLink
<1>3. Covered(st2, nx, fr)
  BY DEF Listed, Covered
<1>4. QED BY <1>2, <1>3 DEF Listed

\* event_queue_block: the task becomes the last one.
Appends(e, t, nx, fr, bk, nx2, fr2, bk2) ==
  /\ \/ bk[e] = NullTask /\ fr2 = [fr EXCEPT ![e] = t] /\ nx2 = nx
     \/ bk[e] # NullTask /\ nx2 = [nx EXCEPT ![bk[e]] = t] /\ fr2 = fr
  /\ bk2 = [bk EXCEPT ![e] = t]

LEMMA AwaitListed ==
  ASSUME NEW st, NEW nx, NEW fr, NEW bk, Listed(st, nx, fr, bk),
         NEW e \in Event, NEW t \in Desc, st[t] # "EVENT_WAIT",
         NEW nx2, NEW fr2, NEW bk2, Appends(e, t, nx, fr, bk, nx2, fr2, bk2),
         NEW st2 \in [Desc -> ReadyState], st2[t] = "EVENT_WAIT",
         \A d \in Desc \ {t} : st2[d] = st[d]
  PROVE  Listed(st2, nx2, fr2, bk2)
<1>0. /\ \/ bk[e] = NullTask /\ fr2 = [fr EXCEPT ![e] = t] /\ nx2 = nx
         \/ bk[e] # NullTask /\ nx2 = [nx EXCEPT ![bk[e]] = t] /\ fr2 = fr
      /\ bk2 = [bk EXCEPT ![e] = t]
  BY DEF Appends
<1>1. /\ nx \in Link /\ fr \in EventLink /\ bk \in EventLink
      /\ nx2 \in Link /\ fr2 \in EventLink /\ bk2 \in EventLink
  BY <1>0 DEF Listed, Link, EventLink
<1>2. t # NullTask /\ NullTask \notin Desc
  BY NullAssumption
<1>3. nx[t] = NullTask /\ (\A x \in Desc : nx[x] # t) /\ \A f \in Event : fr[f] # t
  BY <1>2 DEF Listed, LinkWaiting
<1>4. \A f \in Event : fr[f] # NullTask =>
        fr[f] \in Desc /\ \A d \in Reach(fr[f], nx) : d \in Desc /\ d # t
  BY <1>1, ReachWaiting DEF EventLink
<1>5. CASE bk[e] = NullTask /\ fr2 = [fr EXCEPT ![e] = t] /\ nx2 = nx
  <2>1. fr2[e] = t /\ bk2[e] = t /\ fr[e] = NullTask
        /\ \A f \in Event \ {e} : fr2[f] = fr[f] /\ bk2[f] = bk[f]
    <3>1. fr[e] = NullTask
      <4>1. SUFFICES ASSUME fr[e] # NullTask PROVE FALSE
        OBVIOUS
      <4>2. bk[e] \in Desc
        BY <1>4, <4>1 DEF Listed, Ends
      <4>3. QED BY <1>2, <1>5, <4>2
    <3>2. QED BY <1>0, <1>1, <1>5, <3>1 DEF EventLink
  <2>2. Reach(t, nx) = {t}
    BY <1>1, <1>3, ReachAlone
  <2>3. Ends(nx2, fr2, bk2)
    BY <1>2, <1>3, <1>5, <2>1, <2>2 DEF Listed, Ends
  <2>4. LinkWaiting(st2, nx2, fr2)
    BY <1>1, <1>3, <1>5, <2>1 DEF Listed, LinkWaiting, Link, EventLink
  <2>5. LinkOnce(nx2, fr2)
    BY <1>3, <1>5, <2>1 DEF Listed, LinkOnce
  <2>6. Covered(st2, nx2, fr2)
    <3>1. SUFFICES ASSUME NEW d \in Desc, st2[d] = "EVENT_WAIT"
                   PROVE  \E f \in Event : fr2[f] # NullTask /\ d \in Reach(fr2[f], nx)
      BY <1>5 DEF Covered
    <3>2. CASE d = t
      BY <1>2, <2>1, <2>2, <3>2
    <3>3. CASE d # t
      BY <2>1, <3>1, <3>3 DEF Listed, Covered
    <3>4. QED BY <3>2, <3>3
  <2>7. QED BY <1>1, <2>3, <2>4, <2>5, <2>6 DEF Listed
<1>6. CASE bk[e] # NullTask /\ nx2 = [nx EXCEPT ![bk[e]] = t] /\ fr2 = fr
  <2>1. /\ bk[e] \in Desc /\ fr[e] # NullTask /\ bk[e] \in Reach(fr[e], nx) /\ nx[bk[e]] = NullTask
        /\ st[bk[e]] = "EVENT_WAIT" /\ bk[e] # t
    <3>1. bk[e] \in Desc /\ fr[e] # NullTask /\ bk[e] \in Reach(fr[e], nx) /\ nx[bk[e]] = NullTask
      BY <1>1, <1>6 DEF Listed, Ends, EventLink
    <3>2. QED BY <3>1, ReachWaiting
  <2>2. nx2[bk[e]] = t /\ \A x \in Desc : x # bk[e] => nx2[x] = nx[x]
    BY <1>1, <1>6, <2>1 DEF Link
  <2>3. \A f \in Event : fr[f] # NullTask => Reach(fr[f], nx) \subseteq Reach(fr[f], nx2)
    <3>1. \A x \in Desc : nx[x] # NullTask => nx2[x] = nx[x]
      BY <2>1, <2>2
    <3>2. QED BY <1>1, <1>4, <3>1, ReachKept
  <2>4. t \in Reach(fr[e], nx2)
    <3>1. fr[e] \in Desc /\ bk[e] \in Reach(fr[e], nx2)
      BY <1>4, <2>1, <2>3
    <3>2. QED BY <1>1, <1>2, <2>2, <3>1, ReachClosed DEF Closed
  <2>5. Ends(nx2, fr2, bk2)
    <3>1. SUFFICES ASSUME NEW f \in Event
                   PROVE  IF fr[f] = NullTask THEN bk2[f] = NullTask
                          ELSE bk2[f] \in Reach(fr[f], nx2) /\ nx2[bk2[f]] = NullTask
      BY <1>6 DEF Ends
    <3>2. CASE f = e
      <4>1. bk2[f] = t /\ nx2[t] = NullTask
        BY <1>0, <1>1, <1>3, <2>1, <2>2, <3>2 DEF EventLink
      <4>2. QED BY <2>1, <2>4, <3>2, <4>1
    <3>3. CASE f # e
      <4>1. bk2[f] = bk[f]
        BY <1>0, <1>1, <3>3 DEF EventLink
      <4>2. CASE fr[f] = NullTask
        BY <4>1, <4>2 DEF Listed, Ends
      <4>3. CASE fr[f] # NullTask
        <5>1. bk[f] \in Reach(fr[f], nx) /\ nx[bk[f]] = NullTask
          BY <4>3 DEF Listed, Ends
        <5>2. fr[f] # fr[e] /\ fr[f] \in Desc /\ fr[e] \in Desc
          BY <1>4, <2>1, <3>3, <4>3 DEF Listed, LinkOnce
        <5>3. Reach(fr[f], nx) \cap Reach(fr[e], nx) = {}
          BY <1>1, <1>2, <5>2, ReachApart DEF Listed, LinkOnce
        <5>4. bk[f] # bk[e] /\ bk[f] \in Desc
          BY <1>4, <2>1, <4>3, <5>1, <5>3
        <5>5. QED BY <2>2, <2>3, <4>1, <4>3, <5>1, <5>4
      <4>4. QED BY <4>2, <4>3
    <3>4. QED BY <3>2, <3>3
  <2>6. LinkWaiting(st2, nx2, fr2)
    <3>1. \A x \in Desc : st[x] = "EVENT_WAIT" => st2[x] = "EVENT_WAIT"
      OBVIOUS
    <3>2. QED BY <1>1, <1>4, <1>6, <2>1, <2>2, <3>1 DEF Listed, LinkWaiting, Link
  <2>7. LinkOnce(nx2, fr2)
    BY <1>2, <1>3, <1>6, <2>1, <2>2 DEF Listed, LinkOnce
  <2>8. Covered(st2, nx2, fr2)
    <3>1. SUFFICES ASSUME NEW d \in Desc, st2[d] = "EVENT_WAIT"
                   PROVE  \E f \in Event : fr[f] # NullTask /\ d \in Reach(fr[f], nx2)
      BY <1>6 DEF Covered
    <3>2. CASE d = t
      BY <2>1, <2>4, <3>2
    <3>3. CASE d # t
      <4>1. PICK f \in Event : fr[f] # NullTask /\ d \in Reach(fr[f], nx)
        BY <3>1, <3>3 DEF Listed, Covered
      <4>2. QED BY <2>3, <4>1
    <3>4. QED BY <3>2, <3>3
  <2>9. QED BY <1>1, <2>5, <2>6, <2>7, <2>8 DEF Listed
<1>7. QED BY <1>0, <1>5, <1>6

\* event_queue_unblock_one of event e takes its first task out of the list.
LEMMA PopListed ==
  ASSUME NEW st, NEW nx, NEW fr, NEW bk, Listed(st, nx, fr, bk),
         NEW e \in Event, NEW h, h = fr[e], h # NullTask,
         NEW nx2, NEW fr2, NEW bk2, NEW st2,
         st2 = [st EXCEPT ![h] = "READY"], nx2 = [nx EXCEPT ![h] = NullTask],
         fr2 = [fr EXCEPT ![e] = nx[h]],
         bk2 = [bk EXCEPT ![e] = IF nx[h] = NullTask THEN NullTask ELSE bk[e]]
  PROVE  Listed(st2, nx2, fr2, bk2)
<1>1. /\ st \in [Desc -> ReadyState] /\ nx \in Link /\ fr \in EventLink /\ bk \in EventLink
      /\ h \in Desc /\ st[h] = "EVENT_WAIT" /\ NullTask \notin Desc
  BY NullAssumption DEF Listed, LinkWaiting, EventLink
<1>2. st2 \in [Desc -> ReadyState] /\ nx2 \in Link /\ fr2 \in EventLink /\ bk2 \in EventLink
  BY <1>1 DEF Link, EventLink, ReadyState
<1>3. /\ st2[h] = "READY" /\ nx2[h] = NullTask /\ fr2[e] = nx[h]
      /\ bk2[e] = (IF nx[h] = NullTask THEN NullTask ELSE bk[e])
      /\ \A d \in Desc \ {h} : st2[d] = st[d] /\ nx2[d] = nx[d]
      /\ \A f \in Event \ {e} : fr2[f] = fr[f] /\ bk2[f] = bk[f]
  BY <1>1 DEF Link, EventLink
<1>4. (\A x \in Desc : nx[x] # h) /\ (\A f \in Event \ {e} : fr[f] # h)
  BY <1>1 DEF Listed, LinkOnce
<1>5. ASSUME NEW f \in Event \ {e}, fr[f] # NullTask
      PROVE  Reach(fr[f], nx) \subseteq Reach(fr[f], nx2) /\ h \notin Reach(fr[f], nx)
  <2>1. fr[f] \in Desc /\ Reach(fr[f], nx) \subseteq Desc
    BY <1>1, <1>5 DEF EventLink, Reach
  <2>2. h \notin Reach(fr[f], nx)
    BY <1>1, <1>4, <2>1, ReachNeedsLink
  <2>3. \A x \in Reach(fr[f], nx) : nx[x] # NullTask => nx2[x] = nx[x]
    BY <1>3, <2>1, <2>2
  <2>4. Reach(fr[f], nx) \subseteq Reach(fr[f], nx2)
    BY <1>1, <1>2, <2>1, <2>3, ReachKept
  <2>5. QED BY <2>2, <2>4
<1>6. nx[h] # NullTask => Reach(h, nx) \ {h} \subseteq Reach(nx[h], nx2)
  BY <1>1, ReachTail
<1>7. Ends(nx2, fr2, bk2)
  <2>1. SUFFICES ASSUME NEW f \in Event
                 PROVE  IF fr2[f] = NullTask THEN bk2[f] = NullTask
                        ELSE bk2[f] \in Reach(fr2[f], nx2) /\ nx2[bk2[f]] = NullTask
    BY DEF Ends
  <2>2. CASE f = e /\ nx[h] # NullTask
    <3>1. bk[e] \in Reach(h, nx) /\ nx[bk[e]] = NullTask
      BY <1>1 DEF Listed, Ends
    <3>2. bk[e] \in Desc \ {h}
      BY <2>2, <3>1 DEF Reach
    <3>3. QED BY <1>3, <1>6, <2>2, <3>1, <3>2
  <2>3. CASE f = e /\ nx[h] = NullTask
    BY <1>3, <2>3
  <2>4. CASE f # e /\ fr[f] = NullTask
    BY <1>3, <2>4 DEF Listed, Ends
  <2>5. CASE f # e /\ fr[f] # NullTask
    <3>1. bk[f] \in Reach(fr[f], nx) /\ nx[bk[f]] = NullTask
      BY <2>5 DEF Listed, Ends
    <3>2. bk[f] \in Desc \ {h}
      BY <1>5, <2>5, <3>1 DEF Reach
    <3>3. QED BY <1>3, <1>5, <2>5, <3>1, <3>2
  <2>6. QED BY <2>2, <2>3, <2>4, <2>5
<1>8. LinkWaiting(st2, nx2, fr2)
  <2>1. \A f \in Event : fr2[f] # NullTask => st2[fr2[f]] = "EVENT_WAIT"
    <3>1. \A f \in Event : fr2[f] # NullTask => fr2[f] \in Desc \ {h} /\ st[fr2[f]] = "EVENT_WAIT"
      BY <1>1, <1>2, <1>3, <1>4 DEF Listed, LinkWaiting, EventLink
    <3>2. QED BY <1>3, <3>1
  <2>2. \A x \in Desc : nx2[x] # NullTask => st2[x] = "EVENT_WAIT" /\ st2[nx2[x]] = "EVENT_WAIT"
    <3>1. ASSUME NEW x \in Desc, nx2[x] # NullTask
          PROVE  st2[x] = "EVENT_WAIT" /\ st2[nx2[x]] = "EVENT_WAIT"
      <4>1. x # h /\ nx2[x] = nx[x]
        BY <1>3, <3>1
      <4>2. nx[x] \in Desc \ {h}
        BY <1>1, <1>4, <3>1, <4>1 DEF Link
      <4>3. QED BY <1>3, <3>1, <4>1, <4>2 DEF Listed, LinkWaiting
    <3>2. QED BY <3>1
  <2>3. QED BY <2>1, <2>2 DEF LinkWaiting
<1>9. LinkOnce(nx2, fr2)
  BY <1>1, <1>3, <1>4 DEF Listed, LinkOnce
<1>10. Covered(st2, nx2, fr2)
  <2>1. SUFFICES ASSUME NEW d \in Desc, st2[d] = "EVENT_WAIT"
                 PROVE  \E f \in Event : fr2[f] # NullTask /\ d \in Reach(fr2[f], nx2)
    BY DEF Covered
  <2>2. d # h /\ st[d] = "EVENT_WAIT"
    BY <1>1, <1>3, <2>1
  <2>3. PICK f \in Event : fr[f] # NullTask /\ d \in Reach(fr[f], nx)
    BY <2>2 DEF Listed, Covered
  <2>4. CASE f # e
    BY <1>3, <1>5, <2>3, <2>4
  <2>5. CASE f = e
    <3>1. nx[h] # NullTask
      BY <1>1, <2>2, <2>3, <2>5, ReachAlone
    <3>2. QED BY <1>3, <1>6, <2>2, <2>3, <2>5, <3>1
  <2>6. QED BY <2>4, <2>5
<1>11. QED BY <1>2, <1>7, <1>8, <1>9, <1>10 DEF Listed

LEMMA UnblockListed ==
  ASSUME NEW v, Listed(v.st, v.ewn, v.front, v.back), NEW e, NEW S \in SUBSET Event
  PROVE  LET w == UnblockOne(v, e, S) IN
         /\ Listed(w.st, w.ewn, w.front, w.back)
         /\ \A d \in Desc : w.st[d] # v.st[d] => v.st[d] = "EVENT_WAIT" /\ w.st[d] = "READY"
<1> DEFINE w == UnblockOne(v, e, S)
           h == v.front[e]
<1>1. CASE e \notin S \/ h = NullTask
  BY <1>1 DEF UnblockOne
<1>2. CASE e \in S /\ h # NullTask
  <2>1. /\ w.st = [v.st EXCEPT ![h] = "READY"] /\ w.ewn = [v.ewn EXCEPT ![h] = NullTask]
        /\ w.front = [v.front EXCEPT ![e] = v.ewn[h]]
        /\ w.back = [v.back EXCEPT ![e] = IF v.ewn[h] = NullTask THEN NullTask ELSE v.back[e]]
    BY <1>2 DEF UnblockOne, BackAfterPop
  <2> HIDE DEF w
  <2>2. e \in Event /\ h \in Desc /\ v.st[h] = "EVENT_WAIT" /\ v.st \in [Desc -> ReadyState]
    BY <1>2 DEF Listed, LinkWaiting, EventLink
  <2>3. Listed(w.st, w.ewn, w.front, w.back)
    BY <1>2, <2>1, <2>2, PopListed
  <2>4. QED BY <2>1, <2>2, <2>3 DEF w
<1>3. QED BY <1>1, <1>2

\* event_queue_unblock_all of event e empties its list.
Wakes(w, st, nx, st2, nx2) ==
  /\ st2 = [d \in Desc |-> IF d \in w THEN "READY" ELSE st[d]]
  /\ nx2 = [d \in Desc |-> IF d \in w THEN NullTask ELSE nx[d]]
Clears(e, fr, bk, fr2, bk2) ==
  fr2 = [fr EXCEPT ![e] = NullTask] /\ bk2 = [bk EXCEPT ![e] = NullTask]

LEMMA WakeListed ==
  ASSUME NEW st, NEW nx, NEW fr, NEW bk, Listed(st, nx, fr, bk),
         NEW e \in Event, fr[e] # NullTask, NEW w, w = Reach(fr[e], nx),
         NEW nx2, NEW fr2, NEW bk2, NEW st2,
         Wakes(w, st, nx, st2, nx2), Clears(e, fr, bk, fr2, bk2)
  PROVE  Listed(st2, nx2, fr2, bk2)
<1>1. /\ st \in [Desc -> ReadyState] /\ nx \in Link /\ fr \in EventLink /\ bk \in EventLink
      /\ fr[e] \in Desc /\ NullTask \notin Desc
  BY NullAssumption DEF Listed, EventLink
<1>2. st2 \in [Desc -> ReadyState] /\ nx2 \in Link /\ fr2 \in EventLink /\ bk2 \in EventLink
  BY <1>1 DEF Link, EventLink, ReadyState, Wakes, Clears
<1>3. /\ fr2[e] = NullTask /\ bk2[e] = NullTask
      /\ \A f \in Event \ {e} : fr2[f] = fr[f] /\ bk2[f] = bk[f]
      /\ \A d \in Desc : d \in w => st2[d] = "READY" /\ nx2[d] = NullTask
      /\ \A d \in Desc : d \notin w => st2[d] = st[d] /\ nx2[d] = nx[d]
  BY <1>1 DEF EventLink, Wakes, Clears
<1>4. ASSUME NEW f \in Event \ {e}, fr[f] # NullTask
      PROVE  /\ Reach(fr[f], nx) \subseteq Desc \ w
             /\ Reach(fr[f], nx) \subseteq Reach(fr[f], nx2)
  <2>1. fr[f] \in Desc /\ fr[f] # fr[e]
    BY <1>1, <1>4 DEF EventLink, Listed, LinkOnce
  <2>2. Reach(fr[f], nx) \cap w = {} /\ Reach(fr[f], nx) \subseteq Desc
    <3>1. /\ \A x \in Desc : nx[x] # fr[f] /\ nx[x] # fr[e]
          /\ \A x, y \in Desc : nx[x] = nx[y] /\ nx[x] # NullTask => x = y
      BY <1>1, <2>1 DEF Listed, LinkOnce
    <3>2. Reach(fr[f], nx) \cap Reach(fr[e], nx) = {}
      BY <1>1, <2>1, <3>1, ReachApart
    <3>3. QED BY <3>2 DEF Reach
  <2>3. QED BY <1>1, <1>2, <1>3, <2>1, <2>2, ReachKept
<1>5. ASSUME NEW x \in Desc \ w, nx[x] # NullTask PROVE nx[x] \in Desc \ w
  <2>1. nx[x] \in Desc /\ nx[x] # fr[e]
    BY <1>1, <1>5 DEF Link, Listed, LinkOnce
  <2>2. \A y \in w : nx[y] # nx[x]
    <3>1. w \subseteq Desc
      BY DEF Reach
    <3>2. QED BY <1>5, <3>1 DEF Listed, LinkOnce
  <2>3. QED BY <1>1, <2>1, <2>2, ReachNeedsLink
<1>6. Ends(nx2, fr2, bk2)
  <2>1. SUFFICES ASSUME NEW f \in Event \ {e}
                 PROVE  IF fr2[f] = NullTask THEN bk2[f] = NullTask
                        ELSE bk2[f] \in Reach(fr2[f], nx2) /\ nx2[bk2[f]] = NullTask
    BY <1>3 DEF Ends
  <2>2. CASE fr[f] = NullTask
    BY <1>3, <2>2 DEF Listed, Ends
  <2>3. CASE fr[f] # NullTask
    <3>1. bk[f] \in Reach(fr[f], nx) /\ nx[bk[f]] = NullTask
      BY <2>3 DEF Listed, Ends
    <3>2. QED BY <1>3, <1>4, <2>3, <3>1
  <2>4. QED BY <2>2, <2>3
<1>7. LinkWaiting(st2, nx2, fr2)
  <2>1. ASSUME NEW f \in Event, fr2[f] # NullTask PROVE st2[fr2[f]] = "EVENT_WAIT"
    <3>1. f # e /\ fr2[f] = fr[f] /\ fr[f] \in Desc
      BY <1>1, <1>3, <2>1 DEF EventLink
    <3>2. fr[f] \in Reach(fr[f], nx)
      BY <1>1, <3>1, ReachClosed
    <3>3. fr[f] \notin w
      BY <1>4, <2>1, <3>1, <3>2
    <3>4. QED BY <1>3, <2>1, <3>1, <3>3 DEF Listed, LinkWaiting
  <2>2. ASSUME NEW x \in Desc, nx2[x] # NullTask
        PROVE  st2[x] = "EVENT_WAIT" /\ st2[nx2[x]] = "EVENT_WAIT"
    <3>1. x \notin w /\ nx2[x] = nx[x]
      BY <1>3, <2>2
    <3>2. nx[x] \in Desc \ w
      BY <1>5, <2>2, <3>1
    <3>3. QED BY <1>3, <2>2, <3>1, <3>2 DEF Listed, LinkWaiting
  <2>3. QED BY <2>1, <2>2 DEF LinkWaiting
<1>8. LinkOnce(nx2, fr2)
  BY <1>3 DEF Listed, LinkOnce
<1>9. Covered(st2, nx2, fr2)
  <2>1. SUFFICES ASSUME NEW d \in Desc, st2[d] = "EVENT_WAIT"
                 PROVE  \E f \in Event : fr2[f] # NullTask /\ d \in Reach(fr2[f], nx2)
    BY DEF Covered
  <2>2. d \notin w /\ st[d] = "EVENT_WAIT"
    BY <1>3, <2>1
  <2>3. PICK f \in Event : fr[f] # NullTask /\ d \in Reach(fr[f], nx)
    BY <2>2 DEF Listed, Covered
  <2>4. f # e
    BY <2>2, <2>3
  <2>5. QED BY <1>3, <1>4, <2>3, <2>4
<1>10. QED BY <1>2, <1>6, <1>7, <1>8, <1>9 DEF Listed

-----------------------------------------------------------------------------
(* The blocked tasks of the kernel                                         *)

\* The task that runs is not blocked, and a blocked task is active.
RunningRuns == kmain = "run" /\ cur # NullTask => ready_state[cur] = "RUNNING"
BlockedActive ==
  \A d \in Desc : ready_state[d] \in {"SEND_WAIT", "EVENT_WAIT"} => d \in Live

\* waiting_senders_next is a task that waits to send, and no other task's.
SendersLinked ==
  /\ \A r \in Desc : wsn[r] # NullTask => ready_state[wsn[r]] = "SEND_WAIT"
  /\ \A r, s \in Desc : wsn[r] = wsn[s] /\ wsn[r] # NullTask => r = s

\* The inductive invariant
WaitInv ==
  /\ Inv
  /\ RunningRuns /\ BlockedActive /\ SendersLinked
  /\ Listed(ready_state, ewn, front, back)

\* What the steps do to blocked tasks: nothing; link the sender t to r; find
\* that r has a sender already; take the sender of t; or block and wake tasks
\* on events.
Same(state) == \A d \in Desc : ready_state'[d] = state <=> ready_state[d] = state
Quiet ==
  /\ Same("SEND_WAIT") /\ Same("EVENT_WAIT")
  /\ \A d \in Desc : ready_state[d] \in {"SEND_WAIT", "EVENT_WAIT"} =>
       d \in Live' /\ dest'[d] = dest[d]
  /\ \A r \in Desc : wsn'[r] = wsn[r] \/ (wsn'[r] = NullTask /\ r \notin used)
  /\ \A r \in used : tid'[r] = tid[r]
  /\ UNCHANGED <<ewn, front, back>>
  /\ RunningRuns'
Links(t, r) ==
  /\ t = cur /\ r \in Queued /\ wsn[r] = NullTask
  /\ wsn' = [wsn EXCEPT ![r] = t] /\ dest' = [dest EXCEPT ![t] = tid[r]]
  /\ ready_state' = [ready_state EXCEPT ![t] = "SEND_WAIT"]
  /\ cur' = NullTask /\ Live' = Live
  /\ UNCHANGED <<tid, ewn, front, back>>
Spins(t, r) ==
  /\ t = cur /\ kmain' = "spin" /\ dest' = [dest EXCEPT ![t] = tid[r]]
  /\ ready_state' = [ready_state EXCEPT ![t] = "SEND_WAIT"]
  /\ UNCHANGED <<cur, rq, wsn, tid, ewn, front, back>>
Takes(t, s) ==
  /\ t = cur /\ s = wsn[t] /\ s # NullTask
  /\ wsn' = [wsn EXCEPT ![t] = wsn[s], ![s] = NullTask]
  /\ ready_state' = [ready_state EXCEPT ![s] = "RPLY_WAIT", ![t] = "READY"]
  /\ cur' = NullTask /\ Live' = Live
  /\ UNCHANGED <<dest, tid, ewn, front, back>>
Events ==
  /\ Same("SEND_WAIT")
  /\ Listed(ready_state', ewn', front', back')
  /\ cur' = NullTask /\ Live' = Live /\ BlockedActive'
  /\ UNCHANGED <<wsn, dest, tid>>

LEMMA QuietWait == ASSUME WaitInv, Inv', Quiet PROVE WaitInv'
<1>1. ready_state' \in [Desc -> ReadyState]
  BY DEF Inv, TypeOK
<1>2. Listed(ready_state', ewn', front', back')
  <2>1. Listed(ready_state', ewn, front, back)
    BY <1>1, ListedFrame DEF WaitInv, Quiet, Same
  <2>2. QED BY <2>1 DEF Quiet
<1>3. BlockedActive'
  BY DEF Quiet, Same, BlockedActive
<1>4. SendersLinked'
  <2>1. \A r \in Desc : wsn'[r] # NullTask => wsn'[r] = wsn[r] /\ wsn[r] \in Desc
    BY DEF Quiet, WaitInv, Inv, TypeOK
  <2>2. QED BY <2>1 DEF Quiet, Same, WaitInv, SendersLinked
<1>5. QED BY <1>2, <1>3, <1>4 DEF WaitInv, Quiet

LEMMA RunningNotLinked ==
  ASSUME WaitInv, kmain = "run", cur \in Desc
  PROVE  /\ ready_state[cur] = "RUNNING" /\ cur \notin Queued
         /\ \A r \in Desc : wsn[r] # cur
<1>1. ready_state[cur] = "RUNNING" /\ cur # NullTask
  BY NullAssumption DEF WaitInv, RunningRuns
<1>2. QED BY <1>1 DEF WaitInv, SendersLinked, Inv, OneOwner

LEMMA LinksWait ==
  ASSUME WaitInv, Inv', kmain = "run", NEW t \in Desc, NEW r \in Desc, Links(t, r)
  PROVE  WaitInv'
<1>1. /\ ready_state \in [Desc -> ReadyState] /\ ready_state' \in [Desc -> ReadyState]
      /\ wsn \in Link /\ t # NullTask
  BY NullAssumption DEF WaitInv, Inv, TypeOK, Link
<1>2. ready_state[t] = "RUNNING" /\ t \notin Queued /\ \A x \in Desc : wsn[x] # t
  BY RunningNotLinked DEF Links
<1>3. ready_state'[t] = "SEND_WAIT" /\ \A d \in Desc \ {t} : ready_state'[d] = ready_state[d]
  BY <1>1 DEF Links
<1>4. Listed(ready_state', ewn', front', back')
  <2>1. Listed(ready_state', ewn, front, back)
    BY <1>1, <1>2, <1>3, ListedFrame DEF WaitInv
  <2>2. QED BY <2>1 DEF Links
<1>5. RunningRuns'
  BY DEF RunningRuns, Links
<1>6. BlockedActive'
  BY <1>3 DEF WaitInv, BlockedActive, Links, Live
<1>7. SendersLinked'
  <2>1. wsn'[r] = t /\ \A x \in Desc \ {r} : wsn'[x] = wsn[x]
    BY <1>1 DEF Links, Link
  <2>2. QED BY <1>1, <1>2, <1>3, <2>1 DEF WaitInv, SendersLinked, Link
<1>8. QED BY <1>4, <1>5, <1>6, <1>7 DEF WaitInv

LEMMA SpinsWait ==
  ASSUME WaitInv, Inv', kmain = "run", NEW t \in Desc, NEW r \in Desc, Spins(t, r)
  PROVE  WaitInv'
<1>1. /\ ready_state \in [Desc -> ReadyState] /\ ready_state' \in [Desc -> ReadyState]
      /\ wsn \in Link /\ t # NullTask
  BY NullAssumption DEF WaitInv, Inv, TypeOK, Link
<1>2. ready_state[t] = "RUNNING" /\ \A x \in Desc : wsn[x] # t
  BY RunningNotLinked DEF Spins
<1>3. ready_state'[t] = "SEND_WAIT" /\ \A d \in Desc \ {t} : ready_state'[d] = ready_state[d]
  BY <1>1 DEF Spins
<1>4. Listed(ready_state', ewn', front', back')
  <2>1. Listed(ready_state', ewn, front, back)
    BY <1>1, <1>2, <1>3, ListedFrame DEF WaitInv
  <2>2. QED BY <2>1 DEF Spins
<1>5. RunningRuns'
  BY DEF RunningRuns, Spins
<1>6. BlockedActive'
  BY <1>3 DEF WaitInv, BlockedActive, Spins, Live, Queued
<1>7. SendersLinked'
  BY <1>1, <1>2, <1>3 DEF WaitInv, SendersLinked, Link, Spins
<1>8. QED BY <1>4, <1>5, <1>6, <1>7 DEF WaitInv

LEMMA TakesWait ==
  ASSUME WaitInv, Inv', kmain = "run", NEW t \in Desc, NEW s, Takes(t, s)
  PROVE  WaitInv'
<1>1. /\ ready_state \in [Desc -> ReadyState] /\ ready_state' \in [Desc -> ReadyState]
      /\ wsn \in Link /\ t # NullTask /\ s \in Desc
  BY NullAssumption DEF WaitInv, Inv, TypeOK, Link, Takes
<1>2. ready_state[t] = "RUNNING" /\ \A x \in Desc : wsn[x] # t
  BY RunningNotLinked DEF Takes
<1>3. ready_state[s] = "SEND_WAIT" /\ s # t /\ wsn[t] = s
  BY <1>2 DEF WaitInv, SendersLinked, Takes
<1>4. /\ ready_state'[s] = "RPLY_WAIT" /\ ready_state'[t] = "READY"
      /\ \A d \in Desc \ {s, t} : ready_state'[d] = ready_state[d]
  BY <1>1, <1>3 DEF Takes
<1>5. Listed(ready_state', ewn', front', back')
  <2>1. Listed(ready_state', ewn, front, back)
    BY <1>1, <1>2, <1>3, <1>4, ListedFrame DEF WaitInv
  <2>2. QED BY <2>1 DEF Takes
<1>6. RunningRuns'
  BY DEF RunningRuns, Takes
<1>7. BlockedActive'
  BY <1>4 DEF WaitInv, BlockedActive, Takes
<1>8. SendersLinked'
  <2>1. wsn'[t] = wsn[s] /\ wsn'[s] = NullTask /\ \A x \in Desc \ {s, t} : wsn'[x] = wsn[x]
    BY <1>1, <1>3 DEF Takes, Link
  <2>2. \A x \in Desc \ {t} : wsn[x] # s
    BY <1>1, <1>3, NullAssumption DEF WaitInv, SendersLinked
  <2>3. \A x \in Desc : wsn'[x] # NullTask => wsn'[x] \in Desc \ {s, t}
    BY <1>1, <1>2, <1>3, <2>1, <2>2 DEF Link
  <2>4. \A x \in Desc : wsn'[x] # NullTask => ready_state'[wsn'[x]] = "SEND_WAIT"
    BY <1>1, <1>4, <2>1, <2>3 DEF WaitInv, SendersLinked
  <2>5. \A x, y \in Desc : wsn'[x] = wsn'[y] /\ wsn'[x] # NullTask => x = y
    BY <1>1, <1>3, <2>1 DEF WaitInv, SendersLinked
  <2>6. QED BY <2>4, <2>5 DEF SendersLinked
<1>9. QED BY <1>5, <1>6, <1>7, <1>8 DEF WaitInv

LEMMA EventsWait == ASSUME WaitInv, Inv', Events PROVE WaitInv'
<1>1. RunningRuns' /\ BlockedActive'
  BY DEF RunningRuns, Events
<1>2. SendersLinked'
  BY DEF WaitInv, SendersLinked, Events, Same, Inv, TypeOK
<1>3. QED BY <1>1, <1>2 DEF WaitInv, Events

\* Queueing the task that ran keeps the active tasks.
LEMMA RequeueLive ==
  ASSUME Inv, NEW t \in Desc, t = cur, NEW st, Requeue(t, st, rq)
  PROVE  Live' = Live /\ cur' = NullTask
<1>1. rq \in [Priority -> Seq(Desc)] /\ prio[t] \in Priority
  BY DEF Inv, TypeOK
<1>2. Queued' = Queued \cup {t}
  BY <1>1, PushQueues DEF Requeue, Queued
<1>3. QED BY <1>2, NullAssumption DEF Live, Requeue

\* A call that only changes states of tasks that are not blocked is quiet.
LEMMA RequeueQuiet ==
  ASSUME WaitInv, kmain = "run", NEW t \in Desc, t = cur,
         NEW st \in [Desc -> ReadyState], Requeue(t, st, rq),
         st[t] \notin {"SEND_WAIT", "EVENT_WAIT"},
         \A d \in Desc : d = t \/ st[d] = ready_state[d]
                         \/ {st[d], ready_state[d]} \cap {"SEND_WAIT", "EVENT_WAIT"} = {},
         dest' = dest \/ \E k : dest' = [dest EXCEPT ![t] = k],
         UNCHANGED <<tid, wsn, ewn, front, back>>
  PROVE  Quiet
<1>1. Live' = Live /\ cur' = NullTask
  BY RequeueLive DEF WaitInv
<1>2. ready_state[t] = "RUNNING"
  BY RunningNotLinked
<1>3. ready_state'[t] \notin {"SEND_WAIT", "EVENT_WAIT"} /\ \A d \in Desc \ {t} : ready_state'[d] = st[d]
  BY DEF Requeue, AfterRun
<1>4. Same("SEND_WAIT") /\ Same("EVENT_WAIT")
  BY <1>2, <1>3 DEF Same
<1>5. \A d \in Desc \ {t} : dest'[d] = dest[d]
  BY DEF WaitInv, Inv, TypeOK
<1>6. RunningRuns'
  BY <1>1 DEF RunningRuns
<1>7. QED BY <1>1, <1>2, <1>4, <1>5, <1>6 DEF Quiet, WaitInv, BlockedActive

LEMMA RequeuedQuiet ==
  ASSUME WaitInv, kmain = "run", NEW t \in Desc, t = cur, Requeued(t)
  PROVE  Quiet
<1>1. ready_state[t] = "RUNNING" /\ ready_state \in [Desc -> ReadyState]
  BY RunningNotLinked DEF WaitInv, Inv, TypeOK
<1>2. QED BY <1>1, RequeueQuiet DEF Requeued

\* task_dealloc of the task that ran, or of a killed one
LEMMA DeallocQuiet ==
  ASSUME WaitInv, NEW t \in Desc, ready_state[t] \in {"RUNNING", "KILLED"},
         NEW q, InQueues(q) = Live \ {t}, Dealloc(t, q)
  PROVE  Quiet
<1>1. Live' = Live \ {t} /\ cur' = NullTask
  BY NullAssumption DEF Live, Dealloc, Queued
<1>2. ready_state'[t] = "KILLED" /\ \A d \in Desc \ {t} : ready_state'[d] = ready_state[d]
  BY DEF Dealloc, WaitInv, Inv, TypeOK
<1>3. RunningRuns'
  BY <1>1 DEF RunningRuns
<1>4. QED BY <1>1, <1>2, <1>3 DEF Quiet, Same, Dealloc, WaitInv, BlockedActive

\* The descriptor of a new task, and those cleared with it, are not linked.
LEMMA CreateQuiet ==
  ASSUME WaitInv, kmain = "run", NEW t \in Desc, t = cur, NEW p \in Priority, NEW n \in NewDesc,
         CreateTask(t, p, n[1], n[2])
  PROVE  Quiet
<1> DEFINE d == n[1]  c == n[2]
           st == [ready_state EXCEPT ![d] = "READY"]
<1>1. /\ d \in Desc \ used /\ c \subseteq Desc \ used /\ d \in c
      /\ Live \subseteq used /\ ready_state \in [Desc -> ReadyState]
      /\ rq \in [Priority -> Seq(Desc)] /\ prio[t] \in Priority
  BY NewDescFree DEF WaitInv, Inv, TypeOK, OneOwner
<1>2. /\ used' = used \cup {d} /\ TaskInit(d, t, p) /\ TaskClear(c) /\ UNCHANGED <<front, back>>
      /\ \E q \in {rq, Push(rq, p, d)} : Requeue(t, st, q)
      /\ \A x \in used : tid'[x] = tid[x]
  BY <1>1, ZenonT(60) DEF CreateTask, WaitInv, Inv, TypeOK
<1> HIDE DEF d, c
<1>3. PICK q \in {rq, Push(rq, p, d)} : Requeue(t, st, q)
  BY <1>2
<1>4. \A x \in Live : x \in Live'
  <2>0. /\ Push(rq, p, d) \in [Priority -> Seq(Desc)]
        /\ InQueues(Push(rq, p, d)) = InQueues(rq) \cup {d}
    BY <1>1, PushQueues
  <2>1. q \in [Priority -> Seq(Desc)] /\ Queued \subseteq InQueues(q)
    BY <1>1, <1>3, <2>0 DEF Queued
  <2>2. Queued' = InQueues(q) \cup {t}
    BY <1>1, <1>3, <2>1, PushQueues DEF Requeue, Queued
  <2>3. QED BY <2>1, <2>2 DEF Live
<1>5. t \in Live /\ ready_state[t] = "RUNNING"
  BY RunningNotLinked DEF Live
<1>6. /\ ready_state'[t] = "READY" /\ ready_state'[d] = "READY"
      /\ \A x \in Desc \ {d, t} : ready_state'[x] = ready_state[x]
  BY <1>1, <1>3, <1>5 DEF Requeue, AfterRun
<1>7. ready_state[d] \notin {"SEND_WAIT", "EVENT_WAIT"}
  BY <1>1 DEF WaitInv, BlockedActive
<1>8. Same("SEND_WAIT") /\ Same("EVENT_WAIT")
  BY <1>5, <1>6, <1>7 DEF Same
<1>9. \A x \in c : ewn[x] = NullTask
  BY <1>1 DEF WaitInv, BlockedActive, Listed, LinkWaiting
<1>10. ewn' = ewn
  BY <1>2, <1>9 DEF TaskClear, WaitInv, Inv, TypeOK
<1>11. \A x \in Desc \ {d} : dest'[x] = dest[x]
  BY <1>2 DEF TaskInit, WaitInv, Inv, TypeOK
<1>12. \A x \in Desc : wsn'[x] = wsn[x] \/ (wsn'[x] = NullTask /\ x \notin used)
  BY <1>1, <1>2 DEF TaskClear
<1>13. RunningRuns'
  BY <1>3 DEF Requeue, RunningRuns
<1>14. QED
  BY <1>1, <1>2, <1>4, <1>7, <1>8, <1>10, <1>11, <1>12, <1>13 DEF Quiet, WaitInv, BlockedActive

LEMMA SendKind ==
  ASSUME WaitInv, kmain = "run", NEW t \in Desc, t = cur, NEW r \in Found, SysSend(t, r)
  PROVE  Quiet \/ (r \in Desc /\ (Links(t, r) \/ Spins(t, r)))
<1>1. ready_state[t] = "RUNNING" /\ t \notin Queued /\ ready_state \in [Desc -> ReadyState]
  BY RunningNotLinked DEF WaitInv, Inv, TypeOK
<1>2. CASE r = NullTask
  BY <1>2, RequeuedQuiet DEF SysSend
<1>3. CASE r # NullTask
  <2>1. r \in Desc /\ r \in Queued /\ r # t
    BY <1>1, <1>3, FoundType DEF Found, WaitInv, Inv
  <2>2. CASE ready_state[r] = "RCV_WAIT"
    <3> DEFINE st == [ready_state EXCEPT ![t] = "RPLY_WAIT", ![r] = "READY"]
    <3>1. /\ Requeue(t, st, rq) /\ dest' = [dest EXCEPT ![t] = tid[r]]
          /\ UNCHANGED <<tid, wsn, ewn, front, back>>
      BY <1>3, <2>2 DEF SysSend
    <3>2. /\ st \in [Desc -> ReadyState] /\ st[t] = "RPLY_WAIT" /\ st[r] = "READY"
          /\ \A d \in Desc \ {t, r} : st[d] = ready_state[d]
      BY <1>1, <2>1 DEF ReadyState
    <3> HIDE DEF st
    <3>3. QED BY <2>2, <3>1, <3>2, RequeueQuiet, ZenonT(60)
  <2>3. CASE ready_state[r] # "RCV_WAIT"
    <3>1. /\ SendFirst(t, r) /\ dest' = [dest EXCEPT ![t] = tid[r]]
          /\ UNCHANGED <<tid, ewn, front, back>>
      BY <1>3, <2>3 DEF SysSend
    <3>2. CASE wsn[r] = NullTask
      <4> DEFINE st == [ready_state EXCEPT ![t] = "SEND_WAIT"]
      <4>1. Requeue(t, st, rq) /\ wsn' = [wsn EXCEPT ![r] = t]
        BY <3>1, <3>2 DEF SendFirst
      <4>2. Live' = Live /\ cur' = NullTask
        BY <4>1, RequeueLive DEF WaitInv
      <4>3. ready_state' = [ready_state EXCEPT ![t] = "SEND_WAIT"]
        BY <1>1, <4>1 DEF Requeue, AfterRun
      <4>4. QED BY <2>1, <3>1, <3>2, <4>1, <4>2, <4>3 DEF Links
    <3>3. CASE wsn[r] # NullTask
      BY <2>1, <3>1, <3>3 DEF SendFirst, Spins
    <3>4. QED BY <3>2, <3>3
  <2>4. QED BY <2>2, <2>3
<1>4. QED BY <1>2, <1>3

LEMMA ReceiveKind ==
  ASSUME WaitInv, kmain = "run", NEW t \in Desc, t = cur, SysReceive(t)
  PROVE  Quiet \/ \E s \in Desc : Takes(t, s)
<1>1. ready_state[t] = "RUNNING" /\ ready_state \in [Desc -> ReadyState] /\ \A x \in Desc : wsn[x] # t
  BY RunningNotLinked DEF WaitInv, Inv, TypeOK
<1>2. CASE wsn[t] = NullTask
  <2> DEFINE st == [ready_state EXCEPT ![t] = "RCV_WAIT"]
  <2>1. Requeue(t, st, rq) /\ UNCHANGED <<tid, wsn, dest, ewn, front, back>>
    BY <1>2 DEF SysReceive
  <2>2. /\ st \in [Desc -> ReadyState] /\ st[t] = "RCV_WAIT"
        /\ \A d \in Desc \ {t} : st[d] = ready_state[d]
    BY <1>1 DEF ReadyState
  <2> HIDE DEF st
  <2>3. QED BY <2>1, <2>2, RequeueQuiet
<1>3. CASE wsn[t] # NullTask
  <2> DEFINE s == wsn[t]
             st == [ready_state EXCEPT ![s] = "RPLY_WAIT"]
  <2>1. /\ Requeue(t, st, rq) /\ wsn' = [wsn EXCEPT ![t] = wsn[s], ![s] = NullTask]
        /\ UNCHANGED <<tid, dest, ewn, front, back>>
    BY <1>3 DEF SysReceive
  <2>2. s \in Desc /\ s # t
    BY <1>1, <1>3 DEF WaitInv, Inv, TypeOK
  <2>3. Live' = Live /\ cur' = NullTask
    BY <2>1, RequeueLive DEF WaitInv
  <2>4. ready_state' = [ready_state EXCEPT ![s] = "RPLY_WAIT", ![t] = "READY"]
    BY <1>1, <2>1, <2>2 DEF Requeue, AfterRun
  <2>5. QED BY <1>3, <2>1, <2>2, <2>3, <2>4 DEF Takes
<1>4. QED BY <1>2, <1>3

LEMMA ReplyQuiet ==
  ASSUME WaitInv, kmain = "run", NEW t \in Desc, t = cur, NEW s \in Found, SysReply(t, s)
  PROVE  Quiet
<1>1. ready_state[t] = "RUNNING" /\ ready_state \in [Desc -> ReadyState]
  BY RunningNotLinked DEF WaitInv, Inv, TypeOK
<1>2. CASE s = NullTask
  BY <1>2, RequeuedQuiet DEF SysReply
<1>3. CASE s # NullTask
  <2> DEFINE st == [ready_state EXCEPT ![s] = IF @ = "RPLY_WAIT" THEN "READY" ELSE @]
  <2>1. Requeue(t, st, rq) /\ UNCHANGED <<tid, wsn, dest, ewn, front, back>>
    BY <1>3 DEF SysReply
  <2>2. s \in Desc
    BY <1>3, FoundType DEF WaitInv, Inv
  <2>3. /\ st \in [Desc -> ReadyState] /\ st[t] = "RUNNING"
        /\ \A d \in Desc : st[d] = ready_state[d] \/ (ready_state[d] = "RPLY_WAIT" /\ st[d] = "READY")
    BY <1>1, <2>2 DEF ReadyState
  <2> HIDE DEF st
  <2>4. QED BY <2>1, <2>3, RequeueQuiet
<1>4. QED BY <1>2, <1>3

\* A call or interrupt that leaves the event queues as lists, and wakes only
\* tasks that wait for events
LEMMA RequeueEvents ==
  ASSUME WaitInv, kmain = "run", NEW t \in Desc, t = cur,
         NEW st \in [Desc -> ReadyState], Requeue(t, st, rq),
         st[t] \in {"RUNNING", "EVENT_WAIT"},
         \A d \in Desc \ {t} : st[d] # ready_state[d] =>
           ready_state[d] = "EVENT_WAIT" /\ st[d] = "READY",
         Listed(st, ewn', front', back'),
         UNCHANGED <<tid, wsn, dest>>
  PROVE  Events
<1>1. Live' = Live /\ cur' = NullTask /\ t \in Live
  BY RequeueLive DEF WaitInv, Live
<1>2. ready_state[t] = "RUNNING"
  BY RunningNotLinked
<1>3. /\ ready_state'[t] \in {"READY", "EVENT_WAIT"}
      /\ \A d \in Desc \ {t} : ready_state'[d] = st[d]
      /\ \A d \in Desc : ready_state'[d] = "EVENT_WAIT" <=> st[d] = "EVENT_WAIT"
      /\ ready_state' \in [Desc -> ReadyState]
  BY DEF Requeue, AfterRun, ReadyState
<1>4. Listed(ready_state', ewn', front', back')
  BY <1>3, ListedFrame
<1>5. Same("SEND_WAIT")
  BY <1>2, <1>3 DEF Same
<1>6. BlockedActive'
  BY <1>1, <1>2, <1>3 DEF BlockedActive, WaitInv
<1>7. QED BY <1>1, <1>4, <1>5, <1>6 DEF Events

LEMMA AwaitKind ==
  ASSUME WaitInv, kmain = "run", NEW t \in Desc, t = cur, NEW e, SysAwait(t, e)
  PROVE  Quiet \/ Events
<1>1. ready_state[t] = "RUNNING" /\ ready_state \in [Desc -> ReadyState]
  BY RunningNotLinked DEF WaitInv, Inv, TypeOK
<1>2. CASE e \notin Event
  BY <1>2, RequeuedQuiet DEF SysAwait
<1>3. CASE e \in Event
  <2> DEFINE st == [ready_state EXCEPT ![t] = "EVENT_WAIT"]
  <2>1. /\ \/ back[e] = NullTask /\ front' = [front EXCEPT ![e] = t] /\ ewn' = ewn
           \/ back[e] # NullTask /\ ewn' = [ewn EXCEPT ![back[e]] = t] /\ front' = front
        /\ back' = [back EXCEPT ![e] = t]
        /\ Requeue(t, st, rq) /\ UNCHANGED <<tid, wsn, dest>>
    BY <1>3 DEF SysAwait
  <2>2. /\ st \in [Desc -> ReadyState] /\ st[t] = "EVENT_WAIT"
        /\ \A d \in Desc \ {t} : st[d] = ready_state[d]
    BY <1>1 DEF ReadyState
  <2> HIDE DEF st
  <2>3. Listed(st, ewn', front', back')
    <3>1. Listed(ready_state, ewn, front, back) /\ ready_state[t] # "EVENT_WAIT"
      BY <1>1 DEF WaitInv
    <3>2. Appends(e, t, ewn, front, back, ewn', front', back')
      BY <2>1 DEF Appends
    <3>3. QED BY <1>3, <2>2, <3>1, <3>2, AwaitListed
  <2>4. QED BY <2>1, <2>2, <2>3, RequeueEvents
<1>4. QED BY <1>2, <1>3

LEMMA TimerKind ==
  ASSUME WaitInv, NEW t \in Desc, TimerInterrupt(t)
  PROVE  Quiet \/ Events
<1> DEFINE e == TIMER_TICK
           w == IF front[e] = NullTask THEN {} ELSE Waiters(e)
           st == [d \in Desc |-> IF d \in w THEN "READY" ELSE ready_state[d]]
<1>1. kmain = "run" /\ t = cur /\ e \in Event
  BY EventAssumption DEF TimerInterrupt, TIMER_TICK, Event
<1>2. ready_state[t] = "RUNNING" /\ ready_state \in [Desc -> ReadyState]
      /\ ewn \in Link /\ front \in EventLink /\ back \in EventLink
  BY <1>1, RunningNotLinked DEF WaitInv, Inv, TypeOK, Link, EventLink
<1>3. /\ Requeue(t, st, rq) /\ UNCHANGED <<tid, wsn, dest>>
      /\ ewn' = [d \in Desc |-> IF d \in w THEN NullTask ELSE ewn[d]]
      /\ front' = [front EXCEPT ![e] = NullTask]
      /\ back' = [back EXCEPT ![e] = IF front[e] = NullTask THEN @ ELSE NullTask]
  BY DEF TimerInterrupt
<1>4. CASE front[e] = NullTask
  <2>1. st = ready_state
    BY <1>2, <1>4
  <2>2. ewn' = ewn /\ front' = front /\ back' = back
    BY <1>2, <1>3, <1>4 DEF Link, EventLink
  <2>3. QED BY <1>1, <1>2, <1>3, <2>1, <2>2, RequeueQuiet
<1>5. CASE front[e] # NullTask
  <2>1. w = Reach(front[e], ewn)
    BY <1>5 DEF Waiters, Reach, Closed
  <2>2. back' = [back EXCEPT ![e] = NullTask]
    BY <1>3, <1>5
  <2> HIDE DEF w
  <2>3. Listed(st, ewn', front', back')
    <3>1. Listed(ready_state, ewn, front, back)
      BY DEF WaitInv
    <3>2. Wakes(w, ready_state, ewn, st, ewn') /\ Clears(e, front, back, front', back')
      BY <1>3, <2>2 DEF Wakes, Clears
    <3> HIDE DEF st, e
    <3>3. QED BY <1>1, <1>5, <2>1, <3>1, <3>2, WakeListed
  <2>4. \A d \in w : d \in Desc /\ ready_state[d] = "EVENT_WAIT"
    BY <1>1, <1>5, <2>1, ReachWaiting DEF WaitInv
  <2>5. /\ st \in [Desc -> ReadyState] /\ st[t] = "RUNNING"
        /\ \A d \in Desc : st[d] # ready_state[d] => ready_state[d] = "EVENT_WAIT" /\ st[d] = "READY"
    BY <1>2, <2>4 DEF ReadyState
  <2>6. QED BY <1>1, <1>3, <2>3, <2>5, RequeueEvents
<1>6. QED BY <1>4, <1>5

LEMMA UartKind ==
  ASSUME WaitInv, NEW t \in Desc, NEW S \in SUBSET (Event \ {TIMER_TICK}), UartInterrupt(t, S)
  PROVE  Events
<1> DEFINE v0 == [st |-> ready_state, ewn |-> ewn, front |-> front, back |-> back]
           v1 == UnblockOne(v0, MARKLIN_CTS, S)
           v2 == UnblockOne(v1, MARKLIN_RX, S)
           v3 == UnblockOne(v2, CONSOLE_RX, S)
<1>1. kmain = "run" /\ t = cur /\ S \in SUBSET Event
  BY DEF UartInterrupt
<1>2. ready_state[t] = "RUNNING"
  BY <1>1, RunningNotLinked
<1>3. /\ Requeue(t, v3.st, rq) /\ UNCHANGED <<tid, wsn, dest>>
      /\ ewn' = v3.ewn /\ front' = v3.front /\ back' = v3.back
  BY DEF UartInterrupt
<1>4. Listed(v0.st, v0.ewn, v0.front, v0.back) /\ v0.st = ready_state
  BY DEF WaitInv
<1> HIDE DEF v0
<1>5. /\ Listed(v1.st, v1.ewn, v1.front, v1.back)
      /\ \A d \in Desc : v1.st[d] # v0.st[d] => v0.st[d] = "EVENT_WAIT" /\ v1.st[d] = "READY"
  BY <1>1, <1>4, UnblockListed
<1> HIDE DEF v1
<1>6. /\ Listed(v2.st, v2.ewn, v2.front, v2.back)
      /\ \A d \in Desc : v2.st[d] # v1.st[d] => v1.st[d] = "EVENT_WAIT" /\ v2.st[d] = "READY"
  BY <1>1, <1>5, UnblockListed
<1> HIDE DEF v2
<1>7. /\ Listed(v3.st, v3.ewn, v3.front, v3.back)
      /\ \A d \in Desc : v3.st[d] # v2.st[d] => v2.st[d] = "EVENT_WAIT" /\ v3.st[d] = "READY"
  BY <1>1, <1>6, UnblockListed
<1> HIDE DEF v3
<1>8. \A d \in Desc : v3.st[d] # ready_state[d] => ready_state[d] = "EVENT_WAIT" /\ v3.st[d] = "READY"
  BY <1>4, <1>5, <1>6, <1>7
<1>9. v3.st \in [Desc -> ReadyState]
  BY <1>7 DEF Listed
<1>10. v3.st[t] = "RUNNING" /\ Listed(v3.st, ewn', front', back')
  BY <1>2, <1>3, <1>7, <1>8
<1>11. QED BY <1>1, <1>3, <1>8, <1>9, <1>10, RequeueEvents

\* Every step of the kernel is of one of these kinds.
Kinds ==
  \/ Quiet
  \/ \E t, r \in Desc : Links(t, r) \/ Spins(t, r) \/ Takes(t, r)
  \/ Events
LEMMA StepKind ==
  ASSUME NoKills, WaitInv, Next
  PROVE  kmain = "run" /\ Kinds
<1>1. ASSUME NEW p \in Priority, NEW i \in DOMAIN rq[p], ScheduleReady(p, i)
      PROVE  kmain = "run" /\ Quiet
  <2> DEFINE t == rq[p][i]
  <2>1. TypeOK /\ WellQueued(rq, prio) /\ cur = NullTask /\ kmain = "run" /\ ready_state[t] = "READY"
    BY <1>1 DEF WaitInv, Inv, OneOwner, ScheduleReady
  <2>2. Queued' = Queued \ {t} /\ t \in Queued
    BY <1>1, <2>1, RemoveWellQueued DEF ScheduleReady, Queued
  <2>3. t \in Desc /\ cur' = t
    BY <1>1, <2>1, <2>2, QueuedDesc DEF TypeOK, ScheduleReady
  <2>4. Live' = Live
    BY <2>1, <2>2, <2>3, NullAssumption DEF Live
  <2>5. ready_state'[t] = "RUNNING" /\ \A d \in Desc \ {t} : ready_state'[d] = ready_state[d]
    BY <1>1, <2>1, <2>3 DEF ScheduleReady, TypeOK
  <2>6. RunningRuns'
    BY <2>3, <2>5 DEF RunningRuns
  <2>7. Same("SEND_WAIT") /\ Same("EVENT_WAIT")
    BY <2>1, <2>5 DEF Same
  <2>8. QED BY <1>1, <2>1, <2>4, <2>6, <2>7 DEF Quiet, WaitInv, BlockedActive, ScheduleReady
<1>2. ASSUME NEW p \in Priority, NEW i \in DOMAIN rq[p], ScheduleKilled(p, i)
      PROVE  kmain = "run" /\ Quiet
  <2> DEFINE t == rq[p][i]
             q == [rq EXCEPT ![p] = RemoveAt(@, i)]
  <2>1. TypeOK /\ WellQueued(rq, prio) /\ cur = NullTask /\ kmain = "run" /\ ready_state[t] = "KILLED"
    BY <1>2 DEF WaitInv, Inv, OneOwner, ScheduleKilled
  <2>2. InQueues(q) = Queued \ {t} /\ t \in Queued
    BY <2>1, RemoveWellQueued
  <2>3. Live = Queued /\ t \in Desc
    BY <2>1, <2>2, QueuedDesc, NullAssumption DEF Live, TypeOK
  <2>4. Dealloc(t, q)
    BY <1>2 DEF ScheduleKilled
  <2> HIDE DEF q, t
  <2>5. QED BY <2>1, <2>2, <2>3, <2>4, DeallocQuiet
<1>3. CASE ScheduleNone
  <2>1. kmain = "run" /\ RunningRuns'
    BY <1>3 DEF ScheduleNone, Stuck, RunningRuns
  <2>2. Live' = Live
    BY <1>3 DEF ScheduleNone, Stuck, Live, Queued
  <2>3. QED BY <1>3, <2>1, <2>2 DEF ScheduleNone, Stuck, Kinds, Quiet, Same, WaitInv, BlockedActive
<1>4. ASSUME NEW t \in Desc, Syscall(t) PROVE kmain = "run" /\ Kinds
  <2>1. kmain = "run" /\ t = cur
    BY <1>4 DEF Syscall, SysCreat, SysYield, SysExit, SysKillChild, SysKill, SysSend,
         SysReceive, SysReply, SysAwait, Calls
  <2>2. ASSUME NEW p \in 0 .. N_PRIORITY, SysCreat(t, p) PROVE Quiet
    BY <2>1, <2>2, RequeuedQuiet, CreateQuiet DEF SysCreat
  <2>3. CASE SysYield(t)
    BY <2>1, <2>3, RequeuedQuiet DEF SysYield, Kinds
  <2>4. CASE SysExit(t)
    <3>1. InQueues(rq) = Live \ {t} /\ ready_state[t] = "RUNNING"
      BY <2>1, QueuedDesc, RunningNotLinked DEF Live, Queued, WaitInv, Inv, OneOwner, TypeOK
    <3>2. QED BY <2>1, <2>4, <3>1, DeallocQuiet DEF SysExit, Kinds
  <2>5. ~SysKillChild(t) /\ \A c \in Found : ~SysKill(t, c)
    BY DEF NoKills, SysKillChild, SysKill, Calls
  <2>6. ASSUME NEW r \in Found, SysSend(t, r) PROVE Kinds
    BY <2>1, <2>6, SendKind DEF Kinds
  <2>7. CASE SysReceive(t)
    BY <2>1, <2>7, ReceiveKind DEF Kinds
  <2>8. ASSUME NEW s \in Found, SysReply(t, s) PROVE Quiet
    BY <2>1, <2>8, ReplyQuiet
  <2>9. ASSUME NEW e \in 0 .. N_EVENTS, SysAwait(t, e) PROVE Quiet \/ Events
    BY <2>1, <2>9, AwaitKind
  <2>10. QED BY <1>4, <2>1, <2>2, <2>3, <2>4, <2>5, <2>6, <2>7, <2>8, <2>9 DEF Syscall, Kinds
<1>5. ASSUME NEW t \in Desc, Interrupt(t) PROVE kmain = "run" /\ Kinds
  <2>1. CASE TimerInterrupt(t)
    BY <2>1, TimerKind DEF TimerInterrupt, Kinds
  <2>2. ASSUME NEW S \in SUBSET (Event \ {TIMER_TICK}), UartInterrupt(t, S) PROVE kmain = "run" /\ Kinds
    BY <2>2, UartKind DEF UartInterrupt, Kinds
  <2>3. QED BY <1>5, <2>1, <2>2 DEF Interrupt
<1>6. QED BY <1>1, <1>2, <1>3, <1>4, <1>5 DEF Next, Schedule, Kinds

LEMMA KindWait ==
  ASSUME WaitInv, Inv', kmain = "run", Kinds
  PROVE  WaitInv'
<1>1. CASE Quiet
  BY <1>1, QuietWait
<1>2. CASE Events
  BY <1>2, EventsWait
<1>3. ASSUME NEW t \in Desc, NEW r \in Desc, Links(t, r) \/ Spins(t, r) \/ Takes(t, r)
      PROVE  WaitInv'
  BY <1>3, LinksWait, SpinsWait, TakesWait
<1>4. QED BY <1>1, <1>2, <1>3 DEF Kinds

LEMMA InitWait == Init => WaitInv
<1> SUFFICES ASSUME Init PROVE WaitInv
  OBVIOUS
<1>1. Inv
  BY InitInv
<1>2. /\ cur = NullTask
      /\ \A d \in Desc : ready_state[d] \in {"READY", "KILLED"} /\ wsn[d] = NullTask /\ ewn[d] = NullTask
      /\ \A e \in Event : front[e] = NullTask /\ back[e] = NullTask
  BY DEF Init, KernelInit
<1>3. Listed(ready_state, ewn, front, back)
  <2>1. /\ ready_state \in [Desc -> ReadyState] /\ ewn \in Link
        /\ front \in EventLink /\ back \in EventLink
    BY <1>1 DEF Inv, TypeOK, Link, EventLink
  <2>2. QED BY <1>2, <2>1 DEF Listed, Ends, LinkWaiting, LinkOnce, Covered
<1>4. RunningRuns /\ BlockedActive /\ SendersLinked
  BY <1>2 DEF RunningRuns, BlockedActive, SendersLinked
<1>5. QED BY <1>1, <1>3, <1>4 DEF WaitInv

LEMMA SameWait == WaitInv /\ UNCHANGED vars => WaitInv'
<1> SUFFICES ASSUME WaitInv, UNCHANGED vars PROVE WaitInv'
  OBVIOUS
<1>1. Inv'
  BY NextInv DEF WaitInv
<1>2. QED BY <1>1 DEF vars, WaitInv, RunningRuns, BlockedActive, SendersLinked, Live, Queued

LEMMA NextWait == ASSUME NoKills PROVE WaitInv /\ [Next]_vars => WaitInv'
<1> SUFFICES ASSUME WaitInv, [Next]_vars PROVE WaitInv'
  OBVIOUS
<1>1. CASE UNCHANGED vars
  BY <1>1, SameWait
<1>2. CASE Next
  <2>1. Inv'
    BY <1>2, NextInv DEF WaitInv
  <2>2. QED BY <1>2, <2>1, StepKind, KindWait
<1>3. QED BY <1>1, <1>2

\* A task that waits for an event is in the list of the event, however waits,
\* interrupts, sends and exits interleave: an interrupt can still wake it.
THEOREM EventWaitersFound == ASSUME NoKills PROVE Spec => []EventWaitersQueued
<1>1. WaitInv => EventWaitersQueued
  <2> SUFFICES ASSUME WaitInv, NEW d \in Live, ready_state[d] = "EVENT_WAIT"
               PROVE  \E e \in Event : front[e] # NullTask /\ d \in Waiters(e)
    BY DEF EventWaitersQueued
  <2>1. PICK e \in Event : front[e] # NullTask /\ d \in Reach(front[e], ewn)
    BY DEF WaitInv, Listed, Covered, Live
  <2>2. Waiters(e) = Reach(front[e], ewn)
    BY DEF Waiters, Reach, Closed
  <2>3. QED BY <2>1, <2>2
<1>2. QED BY <1>1, InitWait, NextWait, PTL DEF Spec

-----------------------------------------------------------------------------
(* Senders                                                                 *)

\* Nobody sends to a task that sends itself before it has received, and no
\* task ends with a sender waiting: waiting_senders_next has one purpose at a
\* time.
NoChain ==
  \A d \in Desc : ready_state[d] = "SEND_WAIT" \/ d \notin Live => wsn[d] = NullTask

\* A linked sender has sent to the task that it is linked to, and every task
\* that waits to send is linked.
SendInv ==
  /\ \A r \in Desc : wsn[r] # NullTask => dest[wsn[r]] = tid[r]
  /\ \A s \in Queued : ready_state[s] = "SEND_WAIT" => \E r \in Desc : wsn[r] = s

\* The tasks that have a sender keep their tids.
LEMMA SendKept ==
  ASSUME WaitInv, NoChain, SendInv, kmain = "run", WaitInv', Kinds
  PROVE  SendInv'
<1>1. /\ ready_state \in [Desc -> ReadyState] /\ wsn \in Link /\ tid \in [Desc -> 0 .. MaxUTid]
      /\ dest \in [Desc -> 0 .. MaxUTid] /\ Live \subseteq used /\ Queued \subseteq Desc
      /\ Queued' \subseteq Desc /\ Queued' \subseteq Live'
  <2>1. rq \in [Priority -> Seq(Desc)] /\ rq' \in [Priority -> Seq(Desc)]
    BY DEF WaitInv, Inv, TypeOK
  <2>2. Queued \subseteq Desc /\ Queued' \subseteq Desc
    <3>1. ASSUME NEW q \in [Priority -> Seq(Desc)] PROVE InQueues(q) \subseteq Desc
      BY DEF InQueues, Range
    <3>2. QED BY <2>1, <3>1 DEF Queued
  <2>3. QED BY <2>2 DEF WaitInv, Inv, TypeOK, OneOwner, Link, Live
<1>2. ASSUME NEW d \in Desc, ready_state[d] = "SEND_WAIT" PROVE d \in Queued
  <2>1. d \in Live
    BY <1>2 DEF WaitInv, BlockedActive
  <2>2. d # cur
    BY <1>2, RunningNotLinked
  <2>3. QED BY <2>1, <2>2 DEF Live
<1>3. \A r \in Desc : wsn[r] # NullTask =>
        wsn[r] \in Desc /\ ready_state[wsn[r]] = "SEND_WAIT" /\ r \in used
  BY <1>1 DEF WaitInv, SendersLinked, NoChain, Link
<1>4. CASE Quiet
  <2>1. \A r \in Desc : wsn'[r] # NullTask => wsn'[r] = wsn[r]
    BY <1>4 DEF Quiet
  <2>2. \A r \in Desc : wsn'[r] # NullTask => dest'[wsn'[r]] = tid'[r]
    BY <1>3, <1>4, <2>1 DEF Quiet, SendInv
  <2>3. \A s \in Queued' : ready_state'[s] = "SEND_WAIT" => \E r \in Desc : wsn'[r] = s
    <3>1. SUFFICES ASSUME NEW s \in Queued', ready_state'[s] = "SEND_WAIT"
                   PROVE  \E r \in Desc : wsn'[r] = s
      OBVIOUS
    <3>2. s \in Desc /\ s \in Queued /\ ready_state[s] = "SEND_WAIT"
      BY <1>1, <1>2, <1>4, <3>1 DEF Quiet, Same
    <3>3. PICK r \in Desc : wsn[r] = s
      BY <3>2 DEF SendInv
    <3>4. r \in used
      BY <1>3, <3>2, <3>3, NullAssumption
    <3>5. QED BY <1>4, <3>3, <3>4 DEF Quiet
  <2>4. QED BY <2>2, <2>3 DEF SendInv
<1>5. ASSUME NEW t \in Desc, NEW r \in Desc, Links(t, r) PROVE SendInv'
  <2>1. ready_state[t] = "RUNNING" /\ \A x \in Desc : wsn[x] # t
    BY <1>5, RunningNotLinked DEF Links
  <2>2. /\ wsn'[r] = t /\ wsn[r] = NullTask /\ \A x \in Desc \ {r} : wsn'[x] = wsn[x]
        /\ dest'[t] = tid[r] /\ \A d \in Desc \ {t} : dest'[d] = dest[d]
        /\ ready_state'[t] = "SEND_WAIT" /\ \A d \in Desc \ {t} : ready_state'[d] = ready_state[d]
        /\ tid' = tid
    BY <1>1, <1>5 DEF Links, Link
  <2>3. \A x \in Desc : wsn'[x] # NullTask => dest'[wsn'[x]] = tid'[x]
    BY <1>3, <2>1, <2>2 DEF SendInv
  <2>4. \A s \in Queued' : ready_state'[s] = "SEND_WAIT" => \E x \in Desc : wsn'[x] = s
    BY <1>1, <1>2, <2>2, NullAssumption DEF SendInv
  <2>5. QED BY <2>3, <2>4 DEF SendInv
<1>6. ASSUME NEW t \in Desc, NEW r \in Desc, Spins(t, r) PROVE SendInv'
  <2>1. ready_state[t] = "RUNNING" /\ t \notin Queued /\ \A x \in Desc : wsn[x] # t
    BY <1>6, RunningNotLinked DEF Spins
  <2>2. /\ \A d \in Desc \ {t} : dest'[d] = dest[d]
        /\ \A d \in Desc \ {t} : ready_state'[d] = ready_state[d]
        /\ tid' = tid /\ wsn' = wsn /\ Queued' = Queued
    BY <1>1, <1>6 DEF Spins, Queued
  <2>3. QED BY <1>1, <1>3, <2>1, <2>2 DEF SendInv
<1>7. ASSUME NEW t \in Desc, NEW s \in Desc, Takes(t, s) PROVE SendInv'
  <2>1. ready_state[t] = "RUNNING" /\ \A x \in Desc : wsn[x] # t
    BY <1>7, RunningNotLinked DEF Takes
  <2>2. wsn[t] = s /\ ready_state[s] = "SEND_WAIT" /\ s # t /\ wsn[s] = NullTask
    BY <1>3, <1>7, <2>1 DEF Takes, NoChain
  <2>3. /\ wsn'[t] = NullTask /\ wsn'[s] = NullTask /\ \A x \in Desc \ {s, t} : wsn'[x] = wsn[x]
        /\ ready_state'[s] = "RPLY_WAIT" /\ ready_state'[t] = "READY"
        /\ \A d \in Desc \ {s, t} : ready_state'[d] = ready_state[d]
        /\ tid' = tid /\ dest' = dest
    BY <1>1, <1>7, <2>2 DEF Takes, Link
  <2>4. \A x \in Desc : wsn'[x] # NullTask => dest'[wsn'[x]] = tid'[x]
    BY <2>3 DEF SendInv
  <2>5. ASSUME NEW d \in Queued', ready_state'[d] = "SEND_WAIT" PROVE \E x \in Desc : wsn'[x] = d
    <3>1. d \in Desc \ {s, t} /\ ready_state[d] = "SEND_WAIT"
      BY <1>1, <2>3, <2>5
    <3>2. PICK x \in Desc : wsn[x] = d
      BY <1>2, <3>1 DEF SendInv
    <3>3. x # t /\ x # s
      BY <2>2, <3>1, <3>2, NullAssumption
    <3>4. QED BY <2>3, <3>2, <3>3
  <2>6. QED BY <2>4, <2>5 DEF SendInv
<1>8. CASE Events
  <2>1. /\ wsn' = wsn /\ dest' = dest /\ tid' = tid
        /\ \A d \in Desc : ready_state'[d] = "SEND_WAIT" <=> ready_state[d] = "SEND_WAIT"
    BY <1>8 DEF Events, Same
  <2>2. QED BY <1>1, <1>2, <2>1 DEF SendInv
<1>9. QED BY <1>4, <1>5, <1>6, <1>7, <1>8 DEF Kinds

\* A task blocked in Send is in the queue of the task that it sent to, which is
\* still active: no sender is lost.
THEOREM SendersFound == ASSUME NoKills PROVE Spec /\ []NoChain => []SendersQueued
<1>1. Init => SendInv
  <2> SUFFICES ASSUME Init PROVE SendInv
    OBVIOUS
  <2>1. \A d \in Desc : ready_state[d] \in {"READY", "KILLED"} /\ wsn[d] = NullTask
    BY DEF Init, KernelInit
  <2>2. Queued \subseteq Desc
    BY InitWait, QueuedDesc DEF WaitInv, Inv, TypeOK
  <2>3. QED BY <2>1, <2>2 DEF SendInv
<1>2. WaitInv /\ SendInv /\ NoChain /\ [Next]_vars => SendInv'
  <2> SUFFICES ASSUME WaitInv, SendInv, NoChain, [Next]_vars PROVE SendInv'
    OBVIOUS
  <2>1. CASE UNCHANGED vars
    BY <2>1 DEF vars, SendInv, Queued
  <2>2. CASE Next
    BY <2>2, StepKind, NextWait, SendKept
  <2>3. QED BY <2>1, <2>2
<1>3. WaitInv /\ SendInv /\ NoChain => SendersQueued
  <2> SUFFICES ASSUME WaitInv, SendInv, NoChain, NEW s \in Queued, ready_state[s] = "SEND_WAIT"
               PROVE  \E r \in Live : tid[r] = dest[s] /\ s \in SendersOf(r)
    BY DEF SendersQueued
  <2>1. PICK r \in Desc : wsn[r] = s
    BY DEF SendInv
  <2>2. s \in Desc /\ s # NullTask
    BY QueuedDesc, NullAssumption DEF WaitInv, Inv, TypeOK
  <2>3. r \in Live /\ tid[r] = dest[s]
    BY <2>1, <2>2 DEF NoChain, SendInv
  <2>4. s \in SendersOf(r)
    BY <2>1, <2>2 DEF SendersOf
  <2>5. QED BY <2>3, <2>4
<1>4. QED BY <1>1, <1>2, <1>3, InitWait, NextWait, PTL DEF Spec

\* Together: whoever is blocked in Send or AwaitEvent is in the queue that will
\* wake it, so that the kernel forgets no task.
THEOREM BlockedFound == ASSUME NoKills PROVE Spec /\ []NoChain => []BlockedQueued
<1>1. SendersQueued /\ EventWaitersQueued => BlockedQueued
  BY DEF BlockedQueued
<1>2. QED BY <1>1, SendersFound, EventWaitersFound, PTL
=============================================================================
