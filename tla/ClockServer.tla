---------------------------- MODULE ClockServer ----------------------------
(***************************************************************************)
(* The clock server, its notifier and its queue of delayed tasks, with the *)
(* client calls Time, Delay and DelayUntil and the system timer they read. *)
(*                                                                         *)
(* Time is the 64-bit counter of the timer, in system ticks; it runs on    *)
(* between any two steps, and between the two 32-bit reads of one          *)
(* get_curr_ticks.  MaxTime bounds it and stands for every later time.     *)
(***************************************************************************)
EXTENDS Integers, Sequences, FiniteSets, SequencesExt

CONSTANTS
  Clients,            \* the tasks that call the clock server
  Ticks,              \* the arguments they give, in clock ticks
  SYSTICKS_CLOCKTICK_UNIT, \* system ticks in a clock tick (10000)
  Word,               \* values of a 32-bit register (2^32)
  MAX_WAITING_TASKS,  \* entries of the delay queue (256)
  MaxTime             \* bound on the time

ASSUME ClockAssumption ==
  /\ Ticks \subseteq Int
  /\ SYSTICKS_CLOCKTICK_UNIT \in Nat \ {0} /\ Word \in Nat \ {0}
  /\ MAX_WAITING_TASKS \in Nat /\ MaxTime \in 0 .. Word * Word - 1

VARIABLES
  now,    \* the timer's counter
  cmp,    \* when the timer interrupt is due, once armed by AwaitEvent
  notif,  \* clocknotifier_main: in "await", or in "send" to the server
  pc,     \* a client runs, has "sent" its request, or "wait"s for the reply
  msg,    \* the request it sent
  goal,   \* the time before which its delay must not end, 0 for none
  queue   \* clock_queue: the list from head

vars == <<now, cmp, notif, pc, msg, goal, queue>>

NoMsg == [type |-> "NONE", clockTick |-> 0]

-----------------------------------------------------------------------------
(* The delay queue: clock-queue.c                                          *)

\* clock_queue_add: before the head if the head is later, else behind the head
\* and every later entry that is earlier; a full queue drops the entry
AddLast(q, tid, tick) == \* faulty: at the end
  IF Len(q) = MAX_WAITING_TASKS THEN q
  ELSE Append(q, [tid |-> tid, clock_tick |-> tick])
ClockQueueAdd(q, tid, tick) ==
  LET passed(i) == IF i = 1 THEN q[1].clock_tick <= tick ELSE q[i].clock_tick < tick
      k == CHOOSE i \in 0 .. Len(q) :
             /\ \A j \in 1 .. i : passed(j)
             /\ i < Len(q) => ~passed(i + 1)
  IN IF Len(q) = MAX_WAITING_TASKS THEN q
     ELSE InsertAt(q, k + 1, [tid |-> tid, clock_tick |-> tick])

\* How many entries dequeueAllReady takes off the head at time v
ReadyEarly(q, v) == \* faulty: an entry is ready a tick too soon
  CHOOSE n \in 0 .. Len(q) :
    /\ \A i \in 1 .. n : q[i].clock_tick < v + 2
    /\ n < Len(q) => q[n + 1].clock_tick >= v + 2
ReadyCount(q, v) ==
  CHOOSE n \in 0 .. Len(q) :
    /\ \A i \in 1 .. n : q[i].clock_tick < v
    /\ n < Len(q) => q[n + 1].clock_tick >= v

-----------------------------------------------------------------------------
(* The timer: sys-clock.c                                                  *)

\* get_curr_ticks reads the high word, then the low word, e ticks later
GetCurrTicks(e) == (now \div Word) * Word + ((now + e) % Word)
Passes(e) ==
  /\ now + e <= MaxTime
  /\ now' = now + e

Tick ==
  /\ now < MaxTime
  /\ now' = now + 1
  /\ UNCHANGED <<cmp, notif, pc, msg, goal, queue>>

\* The interrupt readies the notifier, which sends MSG_CLOCKSERVER_NOTIFY
TimerInterrupt ==
  /\ notif = "await"
  /\ now >= cmp \/ now = MaxTime
  /\ notif' = "send"
  /\ cmp' = 0  \* reset_timer
  /\ UNCHANGED <<now, pc, msg, goal, queue>>

-----------------------------------------------------------------------------
(* The clients' calls: clock.c                                             *)

Time(c) ==
  /\ pc[c] = "run"
  /\ pc' = [pc EXCEPT ![c] = "sent"]
  /\ msg' = [msg EXCEPT ![c] = [type |-> "TIME", clockTick |-> 0]]
  /\ UNCHANGED <<now, cmp, notif, goal, queue>>

\* Delay, for a ticks that is not negative (else it returns -2 at once)
Delay(c, ticks) ==
  /\ pc[c] = "run"
  /\ ticks >= 0
  /\ pc' = [pc EXCEPT ![c] = "sent"]
  /\ msg' = [msg EXCEPT ![c] =
       [type |-> "DELAY", clockTick |-> (SYSTICKS_CLOCKTICK_UNIT * ticks) % Word]]
  /\ goal' = [goal EXCEPT ![c] = now + SYSTICKS_CLOCKTICK_UNIT * ticks]
  /\ UNCHANGED <<now, cmp, notif, queue>>

\* DelayUntil, for a time that has not passed (else it returns -2 at once)
DelayUntil(c, ticks, e) ==
  LET realTicks == (SYSTICKS_CLOCKTICK_UNIT * ticks) % (Word * Word) IN
  /\ pc[c] = "run"
  /\ realTicks >= GetCurrTicks(e)
  /\ Passes(e)
  /\ pc' = [pc EXCEPT ![c] = "sent"]
  /\ msg' = [msg EXCEPT ![c] = [type |-> "DELAY_UNTIL", clockTick |-> realTicks]]
  /\ goal' = [goal EXCEPT ![c] = SYSTICKS_CLOCKTICK_UNIT * ticks]
  /\ UNCHANGED <<cmp, notif, queue>>

-----------------------------------------------------------------------------
(* The server: clockserver_main, one step per message received             *)

ServeTime(c) ==
  /\ pc[c] = "sent" /\ msg[c].type = "TIME"
  /\ pc' = [pc EXCEPT ![c] = "run"]
  /\ msg' = [msg EXCEPT ![c] = NoMsg]
  /\ UNCHANGED <<now, cmp, notif, goal, queue>>

\* The tick until which a DELAY request waits; v is the time read
DelayTick(m, v) == v + m.clockTick
ServeDelay(c, e) ==
  /\ pc[c] = "sent" /\ msg[c].type = "DELAY"
  /\ Passes(e)
  /\ queue' = ClockQueueAdd(queue, c, DelayTick(msg[c], GetCurrTicks(e)))
  /\ pc' = [pc EXCEPT ![c] = "wait"]
  /\ msg' = [msg EXCEPT ![c] = NoMsg]
  /\ UNCHANGED <<cmp, notif, goal>>

ServeDelayUntil(c) ==
  /\ pc[c] = "sent" /\ msg[c].type = "DELAY_UNTIL"
  /\ queue' = ClockQueueAdd(queue, c, msg[c].clockTick)
  /\ pc' = [pc EXCEPT ![c] = "wait"]
  /\ msg' = [msg EXCEPT ![c] = NoMsg]
  /\ UNCHANGED <<now, cmp, notif, goal>>

\* dequeueAllReady and replyNotifier; the notifier's AwaitEvent arms the timer
ServeNotify(e) ==
  /\ notif = "send"
  /\ Passes(e)
  /\ LET n == ReadyCount(queue, GetCurrTicks(e))
         woken == {queue[i].tid : i \in 1 .. n}
     IN /\ queue' = SubSeq(queue, n + 1, Len(queue))
        /\ pc' = [c \in Clients |-> IF c \in woken THEN "run" ELSE pc[c]]
        /\ goal' = [c \in Clients |-> IF c \in woken THEN 0 ELSE goal[c]]
  /\ notif' = "await"
  /\ cmp' = now' + SYSTICKS_CLOCKTICK_UNIT
  /\ UNCHANGED msg

Init ==
  /\ now = 0
  /\ cmp = SYSTICKS_CLOCKTICK_UNIT
  /\ notif = "await"
  /\ pc = [c \in Clients |-> "run"]
  /\ msg = [c \in Clients |-> NoMsg]
  /\ goal = [c \in Clients |-> 0]
  /\ queue = <<>>

Call(c) ==
  \/ Time(c)
  \/ \E k \in Ticks : Delay(c, k) \/ \E e \in 0 .. 1 : DelayUntil(c, k, e)
Serve(c) ==
  ServeTime(c) \/ ServeDelayUntil(c) \/ \E e \in 0 .. 1 : ServeDelay(c, e)
Notify == \E e \in 0 .. 1 : ServeNotify(e)
Next ==
  \/ Tick \/ TimerInterrupt \/ Notify
  \/ \E c \in Clients : Call(c) \/ Serve(c)
Spec == Init /\ [][Next]_vars

\* Time passes, the timer fires, and the server, above every client and below
\* only its notifier, receives each message sent to it.
FairSpec ==
  /\ Spec
  /\ WF_vars(Tick) /\ WF_vars(TimerInterrupt) /\ WF_vars(Notify)
  /\ \A c \in Clients : WF_vars(Serve(c))

-----------------------------------------------------------------------------
(* Properties                                                              *)

\* clock.h: Delay "Blocks the caller until at least until the specified number
\* of ticks has elapsed (since the Delay call)", DelayUntil likewise.
NeverEarly ==
  [][\A c \in Clients : pc[c] = "wait" /\ pc'[c] = "run" => now' >= goal[c]]_vars

\* The server takes every request, and ends every delay whose tick comes
\* (before MaxTime) with a reply.
DelaysEnd ==
  \A c \in Clients :
    /\ (pc[c] = "sent") ~> (pc[c] # "sent")
    /\ (\E i \in DOMAIN queue : queue[i].tid = c /\ queue[i].clock_tick < MaxTime)
         ~> (pc[c] = "run")
=============================================================================
