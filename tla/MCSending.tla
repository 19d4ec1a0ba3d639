----------------------------- MODULE MCSending -----------------------------
(* Bytes sent to the track controller and messages sent between tasks, the *)
(* Märklin server and the kernel each by itself on a small instance: a     *)
(* behaviour runs one of them, under the fairness of its own module.       *)
EXTENDS MarklinServer

VARIABLES
  using,                                   \* what runs
  kmain, cur, used, k_rq, global_tid, tid, parent, prio, ready_state, wsn, ewn, dest,
  front, back                              \* Kernel

\* A command of one byte, one with a zero byte, a request for one sensor module
Mixed == {<<96>>, <<129>>, <<ZERO_BYTE, 24>>}

\* Clients of priority 1, a server of priority 3 (the first is the name
\* server) that only receives and replies, and its notifier of priority 4.  (With
\* two, endless interrupts would keep the server from running.)
ClientServer ==
  {<<1, "SEND", 3>>, <<1, "CREAT", 1>>, <<1, "EXIT", 0>>,
   <<3, "RCV", 0>>, <<3, "RPLY", 1>>, <<3, "RPLY", 4>>, <<3, "CREAT", 4>>,
   <<4, "AWAIT", 0>>, <<4, "AWAIT", 2>>, <<4, "SEND", 3>>}
Four == {"d1", "d2", "d3", "d4"}
K == INSTANCE Kernel
       WITH Desc <- Four, Slabs <- {Four}, NullTask <- "NULL", N_PRIORITY <- 5,
            N_SERVER_PRIORITY <- 2, FirstTid <- 1, MaxSTid <- 4, MaxUTid <- 9,
            WRAP_AROUND_TID <- 2, NullTid <- 0, N_EVENTS <- 4, Program <- ClientServer,
            rq <- k_rq

taskVars == <<kmain, cur, used, k_rq, global_tid, tid, parent, prio, ready_state, wsn, ewn,
              dest, front, back>>

\* Descriptors are alike, so it does not matter which ones the kernel starts with
MCInit ==
  /\ using \in {"marklin", "kernel"}
  /\ MarklinInit
  /\ K!KernelInit("d1", "d2", "d3")
MCNext ==
  \/ using = "marklin" /\ MarklinNext /\ UNCHANGED <<using, taskVars>>
  \/ using = "kernel" /\ K!Next /\ UNCHANGED <<using, marklinVars>>

\* The fairness of each module, for the behaviours that run it.  Of the tasks
\* only the name server, d2, receives.
MarklinFairness ==
  /\ WF_marklinVars(using = "marklin" /\ Server)
  /\ WF_marklinVars(using = "marklin" /\ UartInterrupt)
  /\ WF_marklinVars(using = "marklin" /\ DropCts)
  /\ WF_marklinVars(using = "marklin" /\ RaiseCts)
KernelFairness ==
  /\ WF_taskVars(using = "kernel" /\ K!Schedule)
  /\ WF_taskVars(using = "kernel" /\ \E t \in Four : K!Syscall(t) \/ K!Interrupt(t))
StrongFairness ==
  /\ SF_taskVars(using = "kernel" /\ K!SysReceive("d2"))
  /\ \A n \in Notifiers : SF_marklinVars(using = "marklin" /\ RunNotifier(n))

MCSpec ==
  /\ MCInit /\ [][MCNext]_<<using, marklinVars, taskVars>>
  /\ MarklinFairness /\ KernelFairness /\ StrongFairness

-----------------------------------------------------------------------------
(* Properties                                                              *)

\* A Send is received in the end.
SendsReceived == K!SendsReceived
=============================================================================
