--------------------------- MODULE ConsoleServer ---------------------------
(***************************************************************************)
(* The console server: keys from the UART's receive FIFO, through the read *)
(* notifier, which turns the three bytes of an arrow key into one, to the  *)
(* tasks that call Getc.                                                   *)
(*                                                                         *)
(* The notifier runs above the server: the server and its clients take a   *)
(* step only while the notifier is blocked.  Keys and interrupts come at   *)
(* any time.                                                               *)
(***************************************************************************)
EXTENDS Naturals, FiniteSets, Sequences, SequencesExt

CONSTANTS
  Clients,     \* the tasks that call Getc and Puts
  Keys,        \* the bytes that are typed
  MaxTyped,    \* bound: how many
  FifoDepth,   \* depth of the UART's receive FIFO
  ReadCap,     \* capacity of fifo_read
  WaitCap      \* capacity of waiting_readers

\* The codes of the arrow keys are no bytes that a terminal sends.  Every client
\* finds room to wait.
ASSUME ConsoleAssumption ==
  /\ Keys \cap {"UP", "DOWN", "RIGHT", "LEFT"} = {}
  /\ {MaxTyped, FifoDepth, ReadCap, WaitCap} \subseteq Nat
  /\ IsFiniteSet(Clients) /\ Cardinality(Clients) <= WaitCap

ESC == "ESC"
ArrowKey == [A |-> "UP", B |-> "DOWN", C |-> "RIGHT", D |-> "LEFT"]

VARIABLES
  rxfifo,     \* the UART's receive FIFO
  fresh,      \* a byte has come since the receive timeout last fired
  rtim,       \* the receive timeout interrupt is raised
  buffer,     \* msg.buffer of the notifier, up to msg.length
  notif,      \* the notifier "drain"s, has "sent", is about to wait ("done") or "await"s
  inbox,      \* the messages sent to the server and not received
  busy,       \* the keys of a notification that is answered but not yet handled
  fifo_read, waiting_readers,
  client,     \* each client runs or waits for its "GETC" or "PUTS"
  typed, read, \* history: the bytes that came, and those that clients got
  dropped     \* history: a byte came to a full queue

consoleVars == <<rxfifo, fresh, rtim, buffer, notif, inbox, busy, fifo_read, waiting_readers,
                client, typed, read, dropped>>

NotifierBlocked == notif \in {"sent", "await"}
Pushed(q, x, cap) == IF Len(q) = cap THEN q ELSE Append(q, x)
PushAll(q, s, cap) == IF Len(q) + Len(s) <= cap THEN q \o s ELSE SubSeq(q \o s, 1, cap)

-----------------------------------------------------------------------------
(* The UART (external): 16 bytes of FIFO, and an interrupt when no byte    *)
(* has come for a while and some are there                                 *)

Type(k) ==
  /\ Len(typed) < MaxTyped
  /\ typed' = Append(typed, k)
  /\ rxfifo' = Pushed(rxfifo, k, FifoDepth)
  /\ dropped' = (dropped \/ Len(rxfifo) = FifoDepth)
  /\ fresh' = TRUE
  /\ UNCHANGED <<rtim, buffer, notif, inbox, busy, fifo_read, waiting_readers, client, read>>

ReceiveTimeout ==
  /\ fresh /\ rxfifo # <<>>
  /\ fresh' = FALSE
  /\ rtim' = TRUE
  /\ UNCHANGED <<rxfifo, buffer, notif, inbox, busy, fifo_read, waiting_readers, client, typed, read, dropped>>

\* handle_interrupt: wakes the notifier if it waits, and clears the interrupt
Interrupt ==
  /\ rtim
  /\ rtim' = FALSE
  /\ notif' = IF notif = "await" THEN "drain" ELSE notif
  /\ UNCHANGED <<rxfifo, fresh, buffer, inbox, busy, fifo_read, waiting_readers, client, typed, read, dropped>>

-----------------------------------------------------------------------------
(* console_read_notifer_main                                               *)

EndsWith(b, s) == Len(b) >= Len(s) /\ SubSeq(b, Len(b) - Len(s) + 1, Len(b)) = s
BufferAnyEsc(b, c) ==  \* faulty: takes any key after ESC for an arrow
  IF b # <<>> /\ Last(b) = ESC /\ c # ESC THEN Append(Front(b), "UP") ELSE Append(b, c)
Buffered(b, c) ==
  IF c \in DOMAIN ArrowKey /\ EndsWith(b, <<ESC, "[">>)
  THEN Append(SubSeq(b, 1, Len(b) - 2), ArrowKey[c])
  ELSE Append(b, c)

Drain ==
  /\ notif = "drain"
  /\ rxfifo # <<>>
  /\ buffer' = Buffered(buffer, Head(rxfifo))
  /\ rxfifo' = Tail(rxfifo)
  /\ rtim' = (rtim /\ Len(rxfifo) > 1)
  /\ UNCHANGED <<fresh, notif, inbox, busy, fifo_read, waiting_readers, client, typed, read, dropped>>

\* NCH: the FIFO is empty
SendBuffer ==
  /\ notif = "drain"
  /\ rxfifo = <<>>
  /\ IF buffer = <<>> THEN notif' = "done" /\ UNCHANGED inbox
     ELSE notif' = "sent" /\ inbox' = Append(inbox, [type |-> "READ", data |-> buffer])
  /\ UNCHANGED <<rxfifo, fresh, rtim, buffer, busy, fifo_read, waiting_readers, client, typed, read, dropped>>

AwaitRx ==
  /\ notif = "done"
  /\ notif' = "await"
  /\ UNCHANGED <<rxfifo, fresh, rtim, buffer, inbox, busy, fifo_read, waiting_readers, client, typed, read, dropped>>

-----------------------------------------------------------------------------
(* console_server_main and its clients                                     *)

Call(c, type) ==
  /\ NotifierBlocked
  /\ client[c] = "run"
  /\ client' = [client EXCEPT ![c] = type]
  /\ inbox' = Append(inbox, [type |-> type, data |-> c])
  /\ UNCHANGED <<rxfifo, fresh, rtim, buffer, notif, busy, fifo_read, waiting_readers, typed, read, dropped>>

Received(type) ==
  /\ NotifierBlocked
  /\ busy = <<>>
  /\ inbox # <<>>
  /\ Head(inbox).type = type
  /\ inbox' = Tail(inbox)
  /\ UNCHANGED <<rxfifo, fresh, rtim, typed>>

ServeGetc ==
  LET c == Head(inbox).data IN
  /\ Received("GETC")
  /\ IF fifo_read = <<>>
     THEN /\ waiting_readers' = Pushed(waiting_readers, c, WaitCap)
          /\ UNCHANGED <<fifo_read, client, read>>
     ELSE /\ fifo_read' = Tail(fifo_read)
          /\ client' = [client EXCEPT ![c] = "run"]
          /\ read' = Append(read, Head(fifo_read))
          /\ UNCHANGED waiting_readers
  /\ UNCHANGED <<buffer, notif, busy, dropped>>

\* The client is answered first; the server then prints, which changes nothing here
ServePuts ==
  /\ Received("PUTS")
  /\ client' = [client EXCEPT ![Head(inbox).data] = "run"]
  /\ UNCHANGED <<buffer, notif, busy, fifo_read, waiting_readers, read, dropped>>

\* sendSuccessMsg to the notifier, which clears its buffer and waits again
\* before the server goes on.
AnswerNotifier ==
  /\ Received("READ")
  /\ busy' = Head(inbox).data
  /\ notif' = "done"
  /\ buffer' = <<>>
  /\ UNCHANGED <<fifo_read, waiting_readers, client, read, dropped>>

\* Of n waiting readers and m keys queued, how many readers are answered
AnswerOne(n, m) == IF n = 0 \/ m = 0 THEN 0 ELSE 1  \* faulty: IF for WHILE
Answered(n, m) == IF n < m THEN n ELSE m
StillWaiting(n) == SubSeq(waiting_readers, n + 1, Len(waiting_readers))
HandleRead ==
  LET keys == PushAll(fifo_read, busy, ReadCap)
      n == Answered(Len(waiting_readers), Len(keys))
      told == Range(SubSeq(waiting_readers, 1, n))
  IN
  /\ NotifierBlocked
  /\ busy # <<>>
  /\ busy' = <<>>
  /\ fifo_read' = SubSeq(keys, n + 1, Len(keys))
  /\ waiting_readers' = StillWaiting(n)
  /\ client' = [c \in Clients |-> IF c \in told THEN "run" ELSE client[c]]
  /\ read' = read \o SubSeq(keys, 1, n)
  /\ dropped' = (dropped \/ Len(fifo_read) + Len(busy) > ReadCap)
  /\ UNCHANGED <<rxfifo, fresh, rtim, buffer, notif, inbox, typed>>

ConsoleInit ==
  /\ rxfifo = <<>> /\ fresh = FALSE /\ rtim = FALSE
  /\ buffer = <<>> /\ notif = "drain"
  /\ inbox = <<>> /\ busy = <<>>
  /\ fifo_read = <<>> /\ waiting_readers = <<>>
  /\ client = [c \in Clients |-> "run"]
  /\ typed = <<>> /\ read = <<>> /\ dropped = FALSE

Notifier == Drain \/ SendBuffer \/ AwaitRx
Server == ServeGetc \/ ServePuts \/ AnswerNotifier \/ HandleRead
ConsoleNext ==
  \/ \E k \in Keys : Type(k)
  \/ ReceiveTimeout \/ Interrupt
  \/ Notifier \/ Server
  \/ \E c \in Clients : Call(c, "GETC") \/ Call(c, "PUTS")
ConsoleSpec == ConsoleInit /\ [][ConsoleNext]_consoleVars

-----------------------------------------------------------------------------
(* Properties                                                              *)

\* The bytes of an arrow key
Spelt(c) ==
  IF \E k \in DOMAIN ArrowKey : ArrowKey[k] = c
  THEN <<ESC, "[", CHOOSE k \in DOMAIN ArrowKey : ArrowKey[k] = c>>
  ELSE <<c>>

Spelled(s) ==
  LET spell[n \in 0 .. Len(s)] == IF n = 0 THEN <<>> ELSE spell[n - 1] \o Spelt(s[n])
  IN spell[Len(s)]

\* As long as no byte came to a full queue, every byte typed, spelling arrow keys
\* out, is read or still on its way, in order: in the server's queue, its messages,
\* the notifier's buffer or the FIFO.
NoKeyLost ==
  LET notified == {m \in Range(inbox) : m.type = "READ"}
      sent == IF notified = {} THEN <<>> ELSE (CHOOSE m \in notified : TRUE).data
      own == IF notif = "sent" THEN <<>> ELSE buffer
  IN dropped \/ typed = Spelled(read \o fifo_read \o busy \o sent \o own) \o rxfifo

\* No reader waits while a key is queued for it.
NoneStarves == waiting_readers # <<>> => fifo_read = <<>>

\* A reader that waits is in the server's queue: it will be answered.
ReadersKnown ==
  \A c \in Clients : client[c] = "GETC" =>
    \/ c \in Range(waiting_readers)
    \/ \E m \in Range(inbox) : m = [type |-> "GETC", data |-> c]

\* No reader waits while a key is queued for it, and a reader that waits is in
\* the server's queue, or its request is on its way.
ReadersServed == NoneStarves /\ ReadersKnown
=============================================================================
