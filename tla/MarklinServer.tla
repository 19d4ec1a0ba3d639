--------------------------- MODULE MarklinServer ---------------------------
(***************************************************************************)
(* The Märklin server: the queue of bytes for the track controller, the    *)
(* state machine that follows its CTS line, and the notifiers that carry   *)
(* the UART's interrupts to the server.                                    *)
(*                                                                         *)
(* Notifiers run above the server, the server not below its clients, so a  *)
(* step of the server or of a client is taken only while no notifier can   *)
(* run.  A notifier that runs until it blocks is one step; an interrupt    *)
(* may come before it and put it behind the others in the ready queue.     *)
(* Messages are received in the order they are sent (msg.h); what the      *)
(* kernel does beyond that is the subject of module Kernel.                *)
(***************************************************************************)
EXTENDS Integers, Sequences, FiniteSets, SequencesExt

CONSTANTS
  Clients,     \* the tasks that use the server
  Strings,     \* the strings of bytes that they put
  MaxPut,      \* bound: how many bytes they put in all
  WriteCap,    \* capacity of fifo_write
  ReadCap,     \* capacity of fifo_read
  WaitCap,     \* capacity of waiting_readers and of waiting_for_empty
  Spacing      \* how far apart the changes of the CTS line are:
               \* "any", "handled" (the interrupt of one is handled before the
               \* next) or "sent" (and the notifier it woke has sent)

Byte == 0 .. 255
ASSUME StringsAssumption == Strings \subseteq Seq(Byte)

ZERO_BYTE == 255
S88_BASE == 128
S88_RESET == 192
N_S88 == 5

CtsNotifiers == {1, 2}
Reader == 3
Notifiers == CtsNotifiers \cup {Reader}

VARIABLES
  state, fifo_write, fifo_read, waiting_readers, waiting_for_empty, outstanding,
  inbox,     \* the messages sent to the server and not received
  busy,      \* a notification that is answered but not yet handled
  notifier,     \* what each notifier does, with the value it has from its event
  rq,        \* the notifiers in the order of the ready queue
  evq,       \* the event queue of MARKLIN_CTS
  box,       \* the controller: "ready", "got" a byte, "low" (CTS dropped)
  pending,   \* the UART's CTS interrupt is raised
  answers,   \* how many bytes of sensor data the box has still to send
  rx,        \* the byte in the receive register, numbered as it came, or 0
  client,    \* each client runs or waits for its "PUTS", "GETC" or "EMPTY"
  put, wire, \* history: the bytes put, and those given to the UART
  came, delivered \* history: the last byte that came, and that a client got

serverVars == <<state, fifo_write, fifo_read, waiting_readers, waiting_for_empty, outstanding>>
kernelVars == <<notifier, rq, evq>>
boxVars == <<box, answers, wire>>
marklinVars == <<serverVars, inbox, busy, kernelVars, boxVars, pending, rx, client, put, came,
                 delivered>>

-----------------------------------------------------------------------------
(* Deques (deque.c), bytes and messages                                    *)

PushFront(q, x, cap) == IF Len(q) = cap THEN q ELSE <<x>> \o q  \* faulty
PushBack(q, x, cap) == IF Len(q) = cap THEN q ELSE Append(q, x)
PushAllReversed(q, s, cap) == q \o Reverse(s)  \* faulty: the loop runs backwards
PushAll(q, s, cap) == IF Len(q) + Len(s) <= cap THEN q \o s ELSE SubSeq(q \o s, 1, cap)

OnWire(c) == IF c = ZERO_BYTE THEN 0 ELSE c
\* The bytes that the server expects after c, and those that the box sends:
\* two for each module that it is asked for.
Outstanding(c, n) ==
  CASE c \in S88_BASE .. (S88_BASE + N_S88) -> c - S88_BASE
    [] c \in S88_RESET .. (S88_RESET + N_S88) -> 2
    [] OTHER -> n
Answers(c) ==
  CASE c \in (S88_BASE + 1) .. (S88_BASE + N_S88) -> 2 * (c - S88_BASE)
    [] c \in (S88_RESET + 1) .. (S88_RESET + N_S88) -> 2
    [] OTHER -> 0

Msg(type, from, data) == [type |-> type, from |-> from, data |-> data]
NoMsg == Msg("NONE", 0, 0)
Await == [at |-> "await", val |-> 0]
CanRun(n) == notifier[n].at \in {"woken", "replied"}
NotifiersBlocked == \A n \in Notifiers : ~CanRun(n)

-----------------------------------------------------------------------------
(* The server                                                              *)

\* handleSending with the write queue fw, server state st and clients cl
MaySend(st, fw) == st = "READY" /\ fw # <<>>
Told(fw) == IF fw = <<>> THEN Range(waiting_for_empty) ELSE {}  \* replyWaitingForEmtpy
HandleSending(fw, st, out, cl) ==
  IF MaySend(st, fw)
  THEN /\ fifo_write' = Tail(fw)
       /\ state' = "CMD_SENT"
       /\ outstanding' = Outstanding(Head(fw), out)
       /\ wire' = Append(wire, OnWire(Head(fw)))
       /\ box' = IF box = "ready" THEN "got" ELSE box
       /\ answers' = IF box = "ready" THEN answers + Answers(Head(fw)) ELSE answers
       /\ client' = [c \in Clients |-> IF c \in Told(Tail(fw)) THEN "run" ELSE cl[c]]
       /\ waiting_for_empty' = IF Told(Tail(fw)) = {} THEN waiting_for_empty ELSE <<>>
  ELSE /\ fifo_write' = fw /\ state' = st /\ client' = cl /\ outstanding' = out
       /\ UNCHANGED <<boxVars, waiting_for_empty>>

AdvanceBlindly(st, cts) == "READY"  \* faulty: any change of the line will do
AdvanceState(st, cts) ==
  CASE st = "CMD_SENT" /\ cts = 0 -> "SERVER_BUSY"
    [] st = "SERVER_BUSY" /\ cts = 1 -> "READY"
    [] OTHER -> st

Received(type) ==
  /\ NotifiersBlocked
  /\ busy = NoMsg
  /\ inbox # <<>>
  /\ Head(inbox).type = type
  /\ inbox' = Tail(inbox)

ServeGetc ==
  LET c == Head(inbox).from IN
  /\ Received("GETC")
  /\ \/ /\ fifo_read = <<>>
        /\ waiting_readers' = PushBack(waiting_readers, c, WaitCap)
        /\ UNCHANGED <<fifo_read, client, delivered>>
     \/ /\ fifo_read # <<>>
        /\ fifo_read' = Tail(fifo_read)
        /\ client' = [client EXCEPT ![c] = "run"]
        /\ delivered' = Head(fifo_read)
        /\ UNCHANGED waiting_readers
  /\ UNCHANGED <<state, fifo_write, waiting_for_empty, outstanding, busy, kernelVars, boxVars,
                 pending, rx, put, came>>

ServePuts ==
  LET m == Head(inbox) IN
  /\ Received("PUTS")
  /\ HandleSending(PushAll(fifo_write, m.data, WriteCap), state, outstanding,
                   [client EXCEPT ![m.from] = "run"])
  /\ put' = put \o [i \in DOMAIN m.data |-> OnWire(m.data[i])]
  /\ UNCHANGED <<fifo_read, waiting_readers, busy, kernelVars, pending, rx, came, delivered>>

ServeEmpty ==
  LET c == Head(inbox).from IN
  /\ Received("EMPTY")
  /\ \/ /\ fifo_write = <<>>
        /\ client' = [client EXCEPT ![c] = "run"]
        /\ UNCHANGED waiting_for_empty
     \/ /\ fifo_write # <<>>
        /\ waiting_for_empty' = PushBack(waiting_for_empty, c, WaitCap)
        /\ UNCHANGED client
  /\ UNCHANGED <<state, fifo_write, fifo_read, waiting_readers, outstanding, busy, kernelVars,
                 boxVars, pending, rx, put, came, delivered>>

\* sendSuccessMsg to a notifier, which runs and waits for its event again
\* before the server goes on with the notification.
AnswerNotifier ==
  LET m == Head(inbox) IN
  /\ \E type \in {"CTS", "READ"} : Received(type)
  /\ busy' = m
  /\ notifier' = [notifier EXCEPT ![m.from].at = "replied"]
  /\ UNCHANGED <<serverVars, rq, evq, boxVars, pending, rx, client, put, came, delivered>>

HandleCts ==
  LET st == AdvanceState(state, busy.data) IN
  /\ NotifiersBlocked
  /\ busy.type = "CTS"
  /\ busy' = NoMsg
  /\ HandleSending(fifo_write, st, outstanding, client)
  /\ UNCHANGED <<fifo_read, waiting_readers, inbox, kernelVars, pending, rx, put, came, delivered>>

\* A byte for the first reader that waits, if any.  The call of handleSending
\* when all bytes are there comes last.
HandleRead ==
  LET n == outstanding - 1
      cl == IF waiting_readers = <<>> THEN client
            ELSE [client EXCEPT ![Head(waiting_readers)] = "run"]
  IN
  /\ NotifiersBlocked
  /\ busy.type = "READ"
  /\ busy' = NoMsg
  /\ \/ /\ waiting_readers = <<>>
        /\ fifo_read' = PushBack(fifo_read, busy.data, ReadCap)
        /\ UNCHANGED <<waiting_readers, delivered>>
     \/ /\ waiting_readers # <<>>
        /\ waiting_readers' = Tail(waiting_readers)
        /\ delivered' = busy.data
        /\ UNCHANGED fifo_read
  /\ IF n = 0 THEN HandleSending(fifo_write, state, n, cl)
     ELSE /\ outstanding' = n /\ client' = cl
          /\ UNCHANGED <<state, fifo_write, waiting_for_empty, boxVars>>
  /\ UNCHANGED <<inbox, kernelVars, pending, rx, put, came>>

-----------------------------------------------------------------------------
(* Clients: uart-server.c                                                  *)

Call(c, type, data) ==
  /\ NotifiersBlocked
  /\ client[c] = "run"
  /\ client' = [client EXCEPT ![c] = type]
  /\ inbox' = Append(inbox, Msg(type, c, data))
  /\ UNCHANGED <<serverVars, busy, kernelVars, boxVars, pending, rx, put, came, delivered>>

BytesPut ==
  Len(put) + FoldLeft(LAMBDA n, m : n + IF m.type = "PUTS" THEN Len(m.data) ELSE 0, 0, inbox)
Puts(c, s) == BytesPut + Len(s) <= MaxPut /\ Call(c, "PUTS", s)
Getc(c) == Call(c, "GETC", 0)
WaitOutputEmpty(c) == Call(c, "EMPTY", 0)

-----------------------------------------------------------------------------
(* Notifiers and the kernel under them                                     *)

Behind(n) == Append(SelectSeq(rq, LAMBDA m : m # n), n)
\* The notifier that the scheduler picks
First(n) ==
  /\ CanRun(n)
  /\ \A i, j \in DOMAIN rq : rq[j] = n /\ i < j => ~CanRun(rq[i])

\* A notifier runs until it blocks: in Send with what its event returned, or,
\* answered, in AwaitEvent.
RunNotifier(n) ==
  /\ First(n)
  /\ rq' = Behind(n)
  /\ \/ /\ notifier[n].at = "woken"
        /\ notifier' = [notifier EXCEPT ![n].at = "sent"]
        /\ inbox' = Append(inbox, Msg(IF n = Reader THEN "READ" ELSE "CTS", n, notifier[n].val))
        /\ UNCHANGED evq
     \/ /\ notifier[n].at = "replied"
        /\ notifier' = [notifier EXCEPT ![n] = Await]
        /\ evq' = IF n = Reader THEN evq ELSE Append(evq, n)
        /\ UNCHANGED inbox
  /\ UNCHANGED <<serverVars, busy, boxVars, pending, rx, client, put, came, delivered>>

\* Any interrupt that comes while the notifier runs puts it at the back
Preempt(n) ==
  /\ First(n)
  /\ rq' = Behind(n)
  /\ UNCHANGED <<serverVars, inbox, busy, notifier, evq, boxVars, pending, rx, client, put, came,
                 delivered>>

\* handle_interrupt: the level of the line, and the byte received, to the first
\* notifier that waits; lost if none does.
OneNotifier(q) == IF Len(q) < 2 THEN {} ELSE {Head(q)}  \* faulty: as if it were alone
FirstWaiter(q) == IF q = <<>> THEN {} ELSE {Head(q)}
UartInterrupt ==
  LET cts == IF pending THEN FirstWaiter(evq) ELSE {}
      read == IF rx # 0 /\ notifier[Reader] = Await THEN {Reader} ELSE {}
      level == IF box = "low" THEN 0 ELSE 1
  IN
  /\ pending \/ rx # 0
  /\ notifier' = [n \in Notifiers |->
       IF n \in cts \cup read
       THEN [at |-> "woken", val |-> IF n = Reader THEN rx ELSE level]
       ELSE notifier[n]]
  /\ evq' = IF cts = {} THEN evq ELSE Tail(evq)
  /\ pending' = FALSE
  /\ rx' = 0
  /\ UNCHANGED <<serverVars, inbox, busy, rq, boxVars, client, put, came, delivered>>

-----------------------------------------------------------------------------
(* The controller, as the server takes it to behave: it drops CTS once it  *)
(* has a byte and raises it when it can take the next.                     *)

Spaced ==
  /\ Spacing # "any" => ~pending
  /\ Spacing = "sent" => \A n \in CtsNotifiers : notifier[n].at # "woken"
ChangeCts(from, to) ==
  /\ box = from
  /\ Spaced
  /\ box' = to
  /\ pending' = TRUE
  /\ UNCHANGED <<serverVars, inbox, busy, kernelVars, answers, wire, rx, client, put, came,
                 delivered>>
DropCts == ChangeCts("got", "low")
RaiseCts == ChangeCts("low", "ready")

\* A byte of sensor data.  At 2400 baud the reader is back before the next one.
Answer ==
  /\ answers > 0
  /\ rx = 0 /\ notifier[Reader] = Await
  /\ answers' = answers - 1
  /\ came' = came + 1
  /\ rx' = came + 1
  /\ UNCHANGED <<serverVars, inbox, busy, kernelVars, box, wire, pending, client, put, delivered>>

MarklinInit ==
  /\ state = "READY"
  /\ fifo_write = <<>> /\ fifo_read = <<>>
  /\ waiting_readers = <<>> /\ waiting_for_empty = <<>>
  /\ outstanding = 0
  /\ inbox = <<>> /\ busy = NoMsg
  /\ notifier = [n \in Notifiers |-> Await]
  /\ rq = <<1, 2, Reader>> /\ evq = <<1, 2>>
  /\ box = "ready" /\ pending = FALSE /\ answers = 0 /\ rx = 0
  /\ client = [c \in Clients |-> "run"]
  /\ put = <<>> /\ wire = <<>> /\ came = 0 /\ delivered = 0

Server == ServeGetc \/ ServePuts \/ ServeEmpty \/ AnswerNotifier \/ HandleCts \/ HandleRead
MarklinNext ==
  \/ Server
  \/ \E c \in Clients : (\E s \in Strings : Puts(c, s)) \/ Getc(c) \/ WaitOutputEmpty(c)
  \/ \E n \in Notifiers : RunNotifier(n) \/ Preempt(n)
  \/ UartInterrupt
  \/ DropCts \/ RaiseCts \/ Answer
MarklinSpec == MarklinInit /\ [][MarklinNext]_marklinVars

\* Notifiers and the server outrank the rest and block soon, so they run when
\* they can (a notifier though interrupts keep coming); a raised interrupt is
\* taken; the controller answers a byte with both changes of its line.
MarklinFairSpec ==
  /\ MarklinSpec
  /\ WF_marklinVars(Server) /\ WF_marklinVars(UartInterrupt)
  /\ WF_marklinVars(DropCts) /\ WF_marklinVars(RaiseCts)
  /\ \A n \in Notifiers : SF_marklinVars(RunNotifier(n))

-----------------------------------------------------------------------------
(* Properties                                                              *)

\* The server gives the UART a byte only when the controller can take it,
\* however late the changes of CTS are seen, lost or swapped.
NoOverrun == [][wire' # wire => box = "ready"]_marklinVars

\* Bytes go out in the order in which the server took them, none twice and,
\* while the queue has room, none dropped.
InOrder == put = wire \o [i \in DOMAIN fifo_write |-> OnWire(fifo_write[i])]

\* Bytes that come from the controller reach the readers in order, none lost
\* or given twice, whether a reader was waiting or the byte was queued.  (The
\* one notifier that carries them has at most one message underway.)
ReadInOrder ==
  LET held(m) == IF m.type = "READ" THEN <<m.data>> ELSE <<>>
      reads == {i \in DOMAIN inbox : inbox[i].type = "READ"}
      sent == IF reads = {} THEN <<>> ELSE <<inbox[CHOOSE i \in reads : TRUE].data>>
      woken == IF notifier[Reader].at = "woken" THEN <<notifier[Reader].val>> ELSE <<>>
      register == IF rx = 0 THEN <<>> ELSE <<rx>>
  IN fifo_read \o held(busy) \o sent \o woken \o register
       = [i \in 1 .. (came - delivered) |-> delivered + i]

\* Every byte that was put is sent.
EveryByteSent == \A k \in 1 .. MaxPut : (Len(put) >= k) ~> (Len(wire) >= k)
=============================================================================
