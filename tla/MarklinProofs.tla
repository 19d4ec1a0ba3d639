--------------------------- MODULE MarklinProofs ---------------------------
(***************************************************************************)
(* The Märklin server never gives the UART a byte while the controller is  *)
(* busy, for any clients, any strings, any sizes of its queues and any     *)
(* spacing of the changes of CTS: changes may merge in one interrupt, find *)
(* no notifier waiting and be lost, and overtake each other on their way   *)
(* to the server.                                                          *)
(*                                                                         *)
(* The argument counts.  Each change of the line since the last byte is    *)
(* seen at most once: it is pending, or with one of the two notifiers, or  *)
(* being handled, or was used to advance the server's state to             *)
(* SERVER_BUSY.  So the server, which needs two changes to be READY again, *)
(* is READY only after the line dropped and rose, and then no notification *)
(* of an old change is left that could be taken for one of the next byte.  *)
(*                                                                         *)
(* Bytes keep their order both ways while no queue is full: what is on the *)
(* wire and what is queued are together what the server took, and what is  *)
(* delivered, queued, being handled and on its way is what came.           *)
(***************************************************************************)
EXTENDS MarklinServer, ListLemmas

Data == Strings \cup Nat
Message == [type : {"NONE", "CTS", "READ", "PUTS", "GETC", "EMPTY"},
            from : Clients \cup {0} \cup Notifiers, data : Data]

Typed ==
  /\ state \in {"READY", "CMD_SENT", "SERVER_BUSY"}
  /\ box \in {"ready", "got", "low"}
  /\ pending \in BOOLEAN
  /\ rx \in Nat /\ came \in Nat
  /\ notifier \in [Notifiers -> [at : {"await", "woken", "sent", "replied"}, val : Nat]]
  /\ inbox \in Seq(Message)
  /\ busy \in Message
  /\ evq \in Seq(CtsNotifiers)

\* A notification on its way is of a notifier that waits for its answer, which
\* has sent only that one.
OneMessage ==
  /\ \A i \in 1 .. Len(inbox) :
       /\ inbox[i].type = "READ" => inbox[i].from = Reader
       /\ inbox[i].type = "CTS" =>
            inbox[i].from \in CtsNotifiers /\ notifier[inbox[i].from].at = "sent"
  /\ \A i, j \in 1 .. Len(inbox) :
       inbox[i].type = "CTS" /\ inbox[j].type = "CTS" /\ inbox[i].from = inbox[j].from => i = j

\* The event queue of MARKLIN_CTS holds notifiers that wait, each once.
WaitOnce ==
  /\ \A i \in 1 .. Len(evq) : notifier[evq[i]].at = "await"
  /\ \A i, j \in 1 .. Len(evq) : evq[i] = evq[j] => i = j

\* Where a change of CTS may be, and how many there were since the last byte.
Carried(n) == IF notifier[n].at \in {"woken", "sent"} THEN 1 ELSE 0
Handled == IF busy.type = "CTS" THEN 1 ELSE 0
Raised == IF pending THEN 1 ELSE 0
Underway == Carried(1) + Carried(2) + Handled + Raised
Used == IF state = "SERVER_BUSY" THEN 1 ELSE 0
Changes == CASE box = "got" -> 0 [] box = "low" -> 1 [] box = "ready" -> 2

Counted ==
  /\ Underway + Used <= Changes
  /\ state = "READY" => box = "ready" /\ Underway = 0

Inv == Typed /\ OneMessage /\ WaitOnce /\ Counted

-----------------------------------------------------------------------------
(* What the steps do to the counted state                                  *)

\* A message that is no notification joins the inbox.
LEMMA MessageJoins ==
  ASSUME Inv, NEW m \in Message, m.type \notin {"CTS", "READ"}, inbox' = Append(inbox, m),
         UNCHANGED <<state, busy, notifier, evq, box, pending, rx, came>>
  PROVE  Inv'
<1>1. /\ inbox' \in Seq(Message) /\ Len(inbox) \in Nat /\ Len(inbox') = Len(inbox) + 1
      /\ \A i \in 1 .. Len(inbox) : inbox'[i] = inbox[i]
      /\ inbox'[Len(inbox) + 1] = m
  BY AppendElements DEF Inv, Typed
<1>2. \A i \in 1 .. Len(inbox') : inbox'[i].type \in {"CTS", "READ"} => i \in 1 .. Len(inbox)
  BY <1>1
<1>3. Typed' /\ WaitOnce' /\ Counted'
  BY <1>1 DEF Inv, Typed, WaitOnce, Counted, Underway, Carried, Handled, Raised, Used, Changes
<1>4. OneMessage'
  BY <1>1, <1>2 DEF Inv, OneMessage
<1>5. QED BY <1>3, <1>4 DEF Inv

\* A message leaves the inbox and is no notification.
LEMMA MessageLeaves ==
  ASSUME Inv, inbox # <<>>, Head(inbox).type \notin {"CTS", "READ"}, inbox' = Tail(inbox)
  PROVE  inbox' \in Seq(Message) /\ (notifier' = notifier => OneMessage')
<1>1. /\ inbox' \in Seq(Message) /\ Len(inbox) \in Nat \ {0} /\ Len(inbox') = Len(inbox) - 1
      /\ \A i \in 1 .. Len(inbox) - 1 : inbox'[i] = inbox[i + 1]
  BY TailElements DEF Inv, Typed
<1>2. ASSUME notifier' = notifier
      PROVE  OneMessage'
  <2>1. \A i \in 1 .. Len(inbox') : i + 1 \in 1 .. Len(inbox) /\ inbox'[i] = inbox[i + 1]
    BY <1>1
  <2>2. ASSUME NEW i \in 1 .. Len(inbox'), NEW j \in 1 .. Len(inbox'),
               inbox'[i].type = "CTS", inbox'[j].type = "CTS", inbox'[i].from = inbox'[j].from
        PROVE  i = j
    <3>1. i + 1 = j + 1
      BY <2>1, <2>2 DEF Inv, OneMessage
    <3>2. QED BY <1>1, <3>1
  <2>3. QED BY <1>2, <2>1, <2>2 DEF Inv, OneMessage
<1>3. QED BY <1>1, <1>2

\* handleSending sends only to a controller that is ready, if the server's state
\* says so rightly, and then starts counting afresh.
LEMMA SendingCounted ==
  ASSUME Typed, NEW fw, NEW st \in {"READY", "CMD_SENT", "SERVER_BUSY"}, NEW out, NEW cl,
         HandleSending(fw, st, out, cl),
         st = "READY" => box = "ready" /\ Underway' = 0,
         Underway' \in Nat,
         Underway' + (IF st = "SERVER_BUSY" THEN 1 ELSE 0) <= Changes
  PROVE  /\ state' \in {"READY", "CMD_SENT", "SERVER_BUSY"}
         /\ box' \in {"ready", "got", "low"}
         /\ Counted'
         /\ wire' # wire => box = "ready"
<1>1. CASE MaySend(st, fw)
  <2>1. st = "READY" /\ box = "ready" /\ box' = "got" /\ state' = "CMD_SENT" /\ Underway' = 0
    BY <1>1 DEF HandleSending, MaySend
  <2>2. Changes' = 0 /\ Used' = 0
    BY <2>1 DEF Changes, Used
  <2>3. Counted'
    BY <2>1, <2>2 DEF Counted
  <2>4. QED BY <2>1, <2>3
<1>2. CASE ~ MaySend(st, fw)
  <2>1. state' = st /\ box' = box /\ wire' = wire
    BY <1>2 DEF HandleSending, boxVars
  <2>2. Changes' = Changes /\ Used' = IF st = "SERVER_BUSY" THEN 1 ELSE 0
    BY <2>1 DEF Changes, Used
  <2>3. Counted'
    BY <2>1, <2>2 DEF Counted
  <2>4. QED BY <2>1, <2>3 DEF Typed
<1>3. QED BY <1>1, <1>2

-----------------------------------------------------------------------------
(* The actions                                                             *)

LEMMA InitInv == MarklinInit => Inv
<1> SUFFICES ASSUME MarklinInit PROVE Inv
  OBVIOUS
<1>1. evq = <<1, 2>> /\ inbox = <<>> /\ Len(evq) = 2 /\ Len(inbox) = 0 /\ evq[1] = 1 /\ evq[2] = 2
  BY DEF MarklinInit
<1>2. Typed
  <2>1. busy \in Message /\ inbox \in Seq(Message)
    BY DEF MarklinInit, NoMsg, Msg, Message, Data
  <2>2. evq \in Seq(CtsNotifiers)
    BY <1>1 DEF CtsNotifiers
  <2>3. QED BY <2>1, <2>2 DEF MarklinInit, Typed, Await
<1>3. OneMessage
  BY <1>1 DEF OneMessage
<1>4. WaitOnce
  BY <1>1 DEF MarklinInit, WaitOnce, Await, Notifiers, CtsNotifiers
<1>5. Counted
  BY DEF MarklinInit, Counted, Underway, Carried, Handled, Raised, Used, Changes, Await, Notifiers,
         CtsNotifiers, NoMsg, Msg
<1>6. QED BY <1>2, <1>3, <1>4, <1>5 DEF Inv

\* The places that a change of CTS can be in, as numbers.
LEMMA UnderwayNat ==
  /\ Underway \in Nat
  /\ Underway = 0 => Handled = 0
BY DEF Underway, Carried, Handled, Raised

\* One change handled makes room for one that is used; one more change of the
\* line makes room for one that is underway.
LEMMA UsedUp ==
  ASSUME NEW u \in Nat, NEW w \in Nat, NEW k \in Nat, NEW l \in 0 .. 1, NEW c \in Nat,
         w + 1 = u, u + k <= c
  PROVE  w + l <= c
OBVIOUS

LEMMA OneMore ==
  ASSUME NEW u \in Nat, NEW w \in Nat, NEW k \in Nat, NEW c \in Nat, NEW l, NEW d,
         l = k, d = c + 1, w <= u + 1, u + k <= c
  PROVE  w + l <= d
OBVIOUS

LEMMA ClientKeeps ==
  ASSUME Inv, NEW c \in Clients, NEW type \in {"PUTS", "GETC", "EMPTY"}, NEW data \in Data,
         Call(c, type, data)
  PROVE  Inv' /\ wire' = wire
<1>1. Msg(type, c, data) \in Message /\ Msg(type, c, data).type \notin {"CTS", "READ"}
  BY DEF Msg, Message
<1>2. /\ inbox' = Append(inbox, Msg(type, c, data))
      /\ UNCHANGED <<state, busy, notifier, evq, box, pending, rx, came>> /\ wire' = wire
  BY DEF Call, serverVars, kernelVars, boxVars
<1>3. QED BY <1>1, <1>2, MessageJoins

LEMMA ServeKeeps ==
  ASSUME Inv, ServeGetc \/ ServePuts \/ ServeEmpty
  PROVE  Inv' /\ (wire' # wire => box = "ready")
<1>1. /\ inbox # <<>> /\ Head(inbox).type \notin {"CTS", "READ"} /\ inbox' = Tail(inbox)
      /\ UNCHANGED <<busy, notifier, evq, pending, rx, came>>
  BY DEF ServeGetc, ServePuts, ServeEmpty, Received, kernelVars
<1>2. inbox' \in Seq(Message) /\ OneMessage' /\ WaitOnce' /\ Underway' = Underway
  BY <1>1, MessageLeaves
     DEF Inv, WaitOnce, Underway, Carried, Handled, Raised
<1>3. CASE ServeGetc \/ ServeEmpty
  <2>1. state' = state /\ box' = box /\ wire' = wire
    BY <1>3 DEF ServeGetc, ServeEmpty, boxVars
  <2>2. Used' = Used /\ Changes' = Changes
    BY <2>1 DEF Used, Changes
  <2>3. QED BY <1>1, <1>2, <2>1, <2>2 DEF Inv, Typed, Counted
<1>4. CASE ServePuts
  <2>1. PICK fw, out, cl : HandleSending(fw, state, out, cl)
    BY <1>4 DEF ServePuts
  <2>2. /\ state' \in {"READY", "CMD_SENT", "SERVER_BUSY"} /\ box' \in {"ready", "got", "low"}
        /\ Counted' /\ (wire' # wire => box = "ready")
    BY <1>2, <2>1, SendingCounted, UnderwayNat DEF Inv, Typed, Counted, Used
  <2>3. QED BY <1>1, <1>2, <2>2 DEF Inv, Typed
<1>5. QED BY <1>3, <1>4

\* The answer moves a change of CTS from its notifier to the server.
LEMMA AnswerKeeps ==
  ASSUME Inv, AnswerNotifier
  PROVE  Inv' /\ wire' = wire
<1> DEFINE m == Head(inbox)
<1>1. /\ busy = NoMsg /\ inbox # <<>> /\ m.type \in {"CTS", "READ"} /\ inbox' = Tail(inbox)
      /\ busy' = m /\ notifier' = [notifier EXCEPT ![m.from].at = "replied"]
      /\ UNCHANGED <<state, evq, box, pending, rx, came, wire>>
  BY DEF AnswerNotifier, Received, serverVars, boxVars
<1>2. /\ m = inbox[1] /\ m \in Message /\ inbox' \in Seq(Message) /\ Len(inbox) \in Nat \ {0}
      /\ Len(inbox') = Len(inbox) - 1 /\ \A i \in 1 .. Len(inbox) - 1 : inbox'[i] = inbox[i + 1]
  BY <1>1, TailElements DEF Inv, Typed
<1>3. \A i \in 1 .. Len(inbox') :
        i + 1 \in 1 .. Len(inbox) /\ inbox'[i] = inbox[i + 1] /\ i + 1 # 1
  BY <1>2
<1>4. /\ m.type = "READ" => m.from = Reader
      /\ m.type = "CTS" => m.from \in CtsNotifiers /\ notifier[m.from].at = "sent"
  BY <1>2 DEF Inv, OneMessage
<1>5. m.from \in Notifiers
  BY <1>1, <1>4 DEF Notifiers
<1> HIDE DEF m
<1>6. /\ Typed' /\ \A n \in Notifiers \ {m.from} : notifier'[n] = notifier[n]
      /\ notifier'[m.from].at = "replied"
  BY <1>1, <1>2, <1>5 DEF Inv, Typed
<1>7. OneMessage'
  <2>1. ASSUME NEW i \in 1 .. Len(inbox'), inbox'[i].type = "CTS"
        PROVE  inbox'[i].from \in CtsNotifiers /\ notifier'[inbox'[i].from].at = "sent"
    <3>1. inbox[i + 1].from \in CtsNotifiers /\ notifier[inbox[i + 1].from].at = "sent"
      BY <1>3, <2>1 DEF Inv, OneMessage
    <3>2. CASE m.type = "CTS"
      <4>1. inbox[i + 1].from # m.from
        BY <1>2, <1>3, <2>1, <3>2 DEF Inv, OneMessage
      <4>2. QED BY <1>3, <1>6, <3>1, <4>1 DEF Notifiers
    <3>3. CASE m.type = "READ"
      <4>1. inbox[i + 1].from # m.from
        BY <1>4, <3>1, <3>3 DEF CtsNotifiers, Reader
      <4>2. QED BY <1>3, <1>6, <3>1, <4>1 DEF Notifiers
    <3>4. QED BY <1>1, <3>2, <3>3
  <2>2. ASSUME NEW i \in 1 .. Len(inbox'), NEW j \in 1 .. Len(inbox'),
               inbox'[i].type = "CTS", inbox'[j].type = "CTS", inbox'[i].from = inbox'[j].from
        PROVE  i = j
    <3>1. i + 1 = j + 1
      BY <1>3, <2>2 DEF Inv, OneMessage
    <3>2. QED BY <1>2, <3>1
  <2>3. ASSUME NEW i \in 1 .. Len(inbox'), inbox'[i].type = "READ"
        PROVE  inbox'[i].from = Reader
    BY <1>3, <2>3 DEF Inv, OneMessage
  <2>4. QED BY <2>1, <2>2, <2>3 DEF OneMessage
<1>8. WaitOnce'
  <2>1. \A i \in 1 .. Len(evq) : evq[i] # m.from /\ evq[i] \in Notifiers
    <3>1. \A i \in 1 .. Len(evq) : evq[i] \in CtsNotifiers /\ notifier[evq[i]].at = "await"
      BY DEF Inv, Typed, WaitOnce
    <3>2. QED BY <1>1, <1>4, <3>1 DEF Notifiers, CtsNotifiers, Reader
  <2>2. QED BY <1>1, <1>6, <2>1 DEF Inv, WaitOnce
<1>9. Counted'
  <2>1. Used' = Used /\ Changes' = Changes /\ Raised' = Raised
    BY <1>1 DEF Used, Changes, Raised
  <2>2. Handled = 0
    BY <1>1 DEF Handled, NoMsg, Msg
  <2>3. CASE m.type = "READ"
    <3>1. Handled' = 0 /\ Carried(1)' = Carried(1) /\ Carried(2)' = Carried(2)
      BY <1>1, <1>4, <1>6, <2>3 DEF Handled, Carried, Notifiers, CtsNotifiers, Reader
    <3>2. QED BY <1>1, <2>1, <2>2, <3>1 DEF Inv, Counted, Underway
  <2>4. CASE m.type = "CTS"
    <3>1. PICK k \in CtsNotifiers : k = m.from /\ notifier[k].at = "sent"
      BY <1>4, <2>4
    <3>2. Handled' = 1 /\ Carried(k) = 1 /\ Carried(k)' = 0
          /\ \A n \in CtsNotifiers \ {k} : Carried(n)' = Carried(n)
      BY <1>1, <1>6, <2>4, <3>1 DEF Handled, Carried, Notifiers
    <3>3. k = 1 \/ k = 2
      BY DEF CtsNotifiers
    <3>4. Underway' = Underway
      BY <2>1, <2>2, <3>2, <3>3 DEF Underway, Carried, Raised, CtsNotifiers
    <3>5. QED BY <1>1, <2>1, <3>4 DEF Inv, Counted
  <2>5. QED BY <1>1, <2>3, <2>4
<1>10. QED BY <1>1, <1>6, <1>7, <1>8, <1>9 DEF Inv

\* A change that is handled is used up; if it makes the server READY, it is the
\* second of two and no other is left.
LEMMA HandleCtsKeeps ==
  ASSUME Inv, HandleCts
  PROVE  Inv' /\ (wire' # wire => box = "ready")
<1> DEFINE st == AdvanceState(state, busy.data)
<1>1. /\ busy.type = "CTS" /\ busy' = NoMsg /\ HandleSending(fifo_write, st, outstanding, client)
      /\ UNCHANGED <<inbox, notifier, evq, pending, rx, came>>
  BY DEF HandleCts, kernelVars
<1>2. Handled = 1 /\ Handled' = 0 /\ Raised' = Raised
      /\ Carried(1)' = Carried(1) /\ Carried(2)' = Carried(2)
  BY <1>1 DEF Handled, NoMsg, Msg, Raised, Carried
<1>3. Underway' + 1 = Underway /\ Underway' \in Nat
  BY <1>2 DEF Underway, Raised, Carried
<1>4. state # "READY"
  BY <1>2, UnderwayNat DEF Inv, Counted
<1>5. /\ st \in {"READY", "CMD_SENT", "SERVER_BUSY"}
      /\ st = "READY" => state = "SERVER_BUSY"
  BY <1>4 DEF AdvanceState, Inv, Typed
<1> HIDE DEF st
<1>6. Changes \in 0 .. 2 /\ (Changes = 2 => box = "ready")
  BY DEF Inv, Typed, Changes
<1>7. st = "READY" => box = "ready" /\ Underway' = 0
  BY <1>3, <1>5, <1>6 DEF Inv, Counted, Used
<1>8. Underway' + (IF st = "SERVER_BUSY" THEN 1 ELSE 0) <= Changes
  <2>1. Underway + Used <= Changes
    BY DEF Inv, Counted
  <2>2. Used \in Nat /\ Underway \in Nat /\ Changes \in Nat
    BY <1>6, UnderwayNat DEF Used
  <2>3. (IF st = "SERVER_BUSY" THEN 1 ELSE 0) \in 0 .. 1
    OBVIOUS
  <2>4. QED BY <1>3, <2>1, <2>2, <2>3, UsedUp, Zenon
<1>9. /\ state' \in {"READY", "CMD_SENT", "SERVER_BUSY"} /\ box' \in {"ready", "got", "low"}
      /\ Counted' /\ (wire' # wire => box = "ready")
  BY <1>1, <1>3, <1>5, <1>7, <1>8, SendingCounted DEF Inv
<1>10. Typed' /\ OneMessage' /\ WaitOnce'
  <2>1. NoMsg \in Message
    BY DEF NoMsg, Msg, Message, Data
  <2>2. QED BY <1>1, <1>9, <2>1 DEF Inv, Typed, OneMessage, WaitOnce
<1>11. QED BY <1>9, <1>10 DEF Inv

LEMMA HandleReadKeeps ==
  ASSUME Inv, HandleRead
  PROVE  Inv' /\ (wire' # wire => box = "ready")
<1>1. /\ busy.type = "READ" /\ busy' = NoMsg /\ UNCHANGED <<inbox, notifier, evq, pending, rx, came>>
  BY DEF HandleRead, kernelVars
<1>2. Underway' = Underway
  BY <1>1 DEF Underway, Handled, NoMsg, Msg, Raised, Carried
<1>3. /\ state' \in {"READY", "CMD_SENT", "SERVER_BUSY"} /\ box' \in {"ready", "got", "low"}
      /\ Counted' /\ (wire' # wire => box = "ready")
  <2>1. CASE outstanding - 1 = 0
    <3>1. PICK fw, out, cl : HandleSending(fw, state, out, cl)
      BY <2>1 DEF HandleRead
    <3>2. QED BY <1>2, <3>1, SendingCounted, UnderwayNat DEF Inv, Typed, Counted, Used
  <2>2. CASE outstanding - 1 # 0
    <3>1. state' = state /\ box' = box /\ wire' = wire
      BY <2>2 DEF HandleRead, boxVars
    <3>2. Used' = Used /\ Changes' = Changes
      BY <3>1 DEF Used, Changes
    <3>3. QED BY <1>2, <3>1, <3>2 DEF Inv, Typed, Counted
  <2>3. QED BY <2>1, <2>2
<1>4. Typed' /\ OneMessage' /\ WaitOnce'
  <2>1. NoMsg \in Message
    BY DEF NoMsg, Msg, Message, Data
  <2>2. QED BY <1>1, <1>3, <2>1 DEF Inv, Typed, OneMessage, WaitOnce
<1>5. QED BY <1>3, <1>4 DEF Inv

\* A notifier carries its change of CTS into the inbox, or waits anew.
LEMMA NotifierKeeps ==
  ASSUME Inv, NEW n \in Notifiers, RunNotifier(n)
  PROVE  Inv' /\ wire' = wire
<1>1. UNCHANGED <<state, busy, box, pending, rx, came, wire>>
  BY DEF RunNotifier, serverVars, boxVars
<1>2. CASE notifier[n].at = "woken"
  <2> DEFINE m == Msg(IF n = Reader THEN "READ" ELSE "CTS", n, notifier[n].val)
  <2>1. notifier' = [notifier EXCEPT ![n].at = "sent"] /\ inbox' = Append(inbox, m) /\ evq' = evq
    BY <1>2 DEF RunNotifier
  <2>2. m \in Message /\ m.from = n /\ m.type = IF n = Reader THEN "READ" ELSE "CTS"
    BY DEF Msg, Message, Data, Inv, Typed
  <2> HIDE DEF m
  <2>3. /\ inbox' \in Seq(Message) /\ Len(inbox) \in Nat /\ Len(inbox') = Len(inbox) + 1
        /\ \A i \in 1 .. Len(inbox) : inbox'[i] = inbox[i]
        /\ inbox'[Len(inbox) + 1] = m
    BY <2>1, <2>2, AppendElements DEF Inv, Typed
  <2>4. /\ notifier' \in [Notifiers -> [at : {"await", "woken", "sent", "replied"}, val : Nat]]
        /\ notifier'[n].at = "sent" /\ \A k \in Notifiers \ {n} : notifier'[k] = notifier[k]
    BY <2>1 DEF Inv, Typed
  <2>5. \A k \in CtsNotifiers : Carried(k)' = Carried(k)
    BY <1>2, <2>4 DEF Carried, Notifiers
  <2>6. Counted'
    BY <1>1, <2>5 DEF Inv, Counted, Underway, Handled, Raised, Used, Changes, CtsNotifiers
  <2>7. \A i \in 1 .. Len(inbox) : inbox[i].type = "CTS" =>
          inbox[i].from \in CtsNotifiers /\ inbox[i].from # n /\ notifier'[inbox[i].from].at = "sent"
    BY <1>2, <2>4 DEF Inv, OneMessage, Notifiers
  <2>8. \A i \in 1 .. Len(inbox') : i # Len(inbox) + 1 => i \in 1 .. Len(inbox)
    BY <2>3
  <2>9. OneMessage'
    <3>1. ASSUME NEW i \in 1 .. Len(inbox')
          PROVE  /\ inbox'[i].type = "READ" => inbox'[i].from = Reader
                 /\ inbox'[i].type = "CTS" =>
                      inbox'[i].from \in CtsNotifiers /\ notifier'[inbox'[i].from].at = "sent"
      <4>1. CASE i = Len(inbox) + 1
        BY <2>2, <2>3, <2>4, <4>1 DEF Notifiers
      <4>2. CASE i # Len(inbox) + 1
        BY <2>3, <2>7, <2>8, <4>2 DEF Inv, OneMessage
      <4>3. QED BY <4>1, <4>2
    <3>2. ASSUME NEW i \in 1 .. Len(inbox'), NEW j \in 1 .. Len(inbox'),
                 inbox'[i].type = "CTS", inbox'[j].type = "CTS", inbox'[i].from = inbox'[j].from
          PROVE  i = j
      <4>1. CASE i # Len(inbox) + 1 /\ j # Len(inbox) + 1
        BY <2>3, <2>8, <3>2, <4>1 DEF Inv, OneMessage
      <4>2. CASE i # Len(inbox) + 1 /\ j = Len(inbox) + 1
        BY <2>2, <2>3, <2>7, <2>8, <3>2, <4>2
      <4>3. CASE i = Len(inbox) + 1 /\ j # Len(inbox) + 1
        BY <2>2, <2>3, <2>7, <2>8, <3>2, <4>3
      <4>4. QED BY <4>1, <4>2, <4>3
    <3>3. QED BY <3>1, <3>2 DEF OneMessage
  <2>10. WaitOnce'
    <3>1. \A i \in 1 .. Len(evq) : evq[i] # n /\ evq[i] \in Notifiers
      <4>1. \A i \in 1 .. Len(evq) : evq[i] \in CtsNotifiers
        BY DEF Inv, Typed
      <4>2. QED BY <1>2, <4>1 DEF Inv, WaitOnce, Notifiers
    <3>2. QED BY <2>1, <2>4, <3>1 DEF Inv, WaitOnce
  <2>11. QED BY <1>1, <2>1, <2>3, <2>4, <2>6, <2>9, <2>10 DEF Inv, Typed
<1>3. CASE notifier[n].at = "replied"
  <2>1. notifier' = [notifier EXCEPT ![n] = Await] /\ inbox' = inbox
        /\ evq' = IF n = Reader THEN evq ELSE Append(evq, n)
    BY <1>3 DEF RunNotifier
  <2>2. /\ notifier' \in [Notifiers -> [at : {"await", "woken", "sent", "replied"}, val : Nat]]
        /\ notifier'[n].at = "await" /\ \A k \in Notifiers \ {n} : notifier'[k] = notifier[k]
    BY <2>1 DEF Inv, Typed, Await
  <2>3. \A k \in CtsNotifiers : Carried(k)' = Carried(k)
    BY <1>3, <2>2 DEF Carried, Notifiers
  <2>4. Counted'
    BY <1>1, <2>3 DEF Inv, Counted, Underway, Handled, Raised, Used, Changes, CtsNotifiers
  <2>5. OneMessage'
    BY <1>3, <2>1, <2>2 DEF Inv, OneMessage, Notifiers
  <2>6. /\ Len(evq) \in Nat /\ \A i \in 1 .. Len(evq) :
             evq[i] \in Notifiers /\ evq[i] # n /\ notifier'[evq[i]].at = "await"
    <3>1. Len(evq) \in Nat /\ \A i \in 1 .. Len(evq) : evq[i] \in CtsNotifiers
      BY DEF Inv, Typed
    <3>2. QED BY <1>3, <2>2, <3>1 DEF Inv, WaitOnce, Notifiers
  <2>7. CASE n = Reader
    BY <1>1, <2>1, <2>2, <2>4, <2>5, <2>6, <2>7 DEF Inv, Typed, WaitOnce
  <2>8. CASE n # Reader
    <3>1. n \in CtsNotifiers
      BY <2>8 DEF Notifiers
    <3>2. /\ evq' \in Seq(CtsNotifiers) /\ Len(evq') = Len(evq) + 1
          /\ \A i \in 1 .. Len(evq) : evq'[i] = evq[i]
          /\ evq'[Len(evq) + 1] = n
      BY <2>1, <2>8, <3>1, AppendElements DEF Inv, Typed
    <3>3. \A i \in 1 .. Len(evq') : i = Len(evq) + 1 \/ i \in 1 .. Len(evq)
      BY <2>6, <3>2
    <3>4. WaitOnce'
      BY <2>2, <2>6, <3>2, <3>3 DEF Inv, WaitOnce
    <3>5. QED BY <1>1, <2>1, <2>2, <2>4, <2>5, <3>2, <3>4 DEF Inv, Typed
  <2>9. QED BY <2>7, <2>8
<1>4. QED BY <1>1, <1>2, <1>3 DEF RunNotifier

\* The interrupt gives the pending change to a notifier, or loses it.
LEMMA InterruptKeeps ==
  ASSUME Inv, UartInterrupt
  PROVE  Inv' /\ wire' = wire
<1> DEFINE cts == IF pending THEN FirstWaiter(evq) ELSE {}
           read == IF rx # 0 /\ notifier[Reader] = Await THEN {Reader} ELSE {}
           level == IF box = "low" THEN 0 ELSE 1
<1>1. /\ notifier' = [n \in Notifiers |->
             IF n \in cts \cup read
             THEN [at |-> "woken", val |-> IF n = Reader THEN rx ELSE level]
             ELSE notifier[n]]
      /\ evq' = IF cts = {} THEN evq ELSE Tail(evq)
      /\ pending' = FALSE /\ rx' = 0
      /\ UNCHANGED <<state, inbox, busy, box, came, wire>>
  BY DEF UartInterrupt, serverVars, boxVars
<1>2. level \in Nat /\ rx \in Nat /\ read \subseteq {Reader} /\ Reader \notin CtsNotifiers
      /\ (read # {} => notifier[Reader].at = "await")
  BY DEF Inv, Typed, CtsNotifiers, Reader, Await
<1>3. /\ Len(evq) \in Nat /\ \A i \in 1 .. Len(evq) : evq[i] \in CtsNotifiers
      /\ \A i \in 1 .. Len(evq) : notifier[evq[i]].at = "await"
      /\ \A i, j \in 1 .. Len(evq) : evq[i] = evq[j] => i = j
  BY DEF Inv, Typed, WaitOnce
<1>4. CASE cts = {}
  <2>1. \A n \in CtsNotifiers : notifier'[n] = notifier[n]
    BY <1>1, <1>2, <1>4 DEF Notifiers
  <2>2. notifier' \in [Notifiers -> [at : {"await", "woken", "sent", "replied"}, val : Nat]]
    <3> HIDE DEF cts, read, level
    <3>1. QED BY <1>1, <1>2 DEF Inv, Typed
  <2>3. evq' = evq
    BY <1>1, <1>4
  <2> HIDE DEF cts, read, level
  <2>4. Typed'
    BY <1>1, <2>2, <2>3 DEF Inv, Typed
  <2>5. OneMessage'
    <3>1. \A i \in 1 .. Len(inbox) : inbox[i].type = "CTS" =>
            inbox[i].from \in CtsNotifiers /\ notifier'[inbox[i].from].at = "sent"
      BY <2>1 DEF Inv, OneMessage
    <3>2. inbox' = inbox
      BY <1>1
    <3>3. QED BY <3>1, <3>2 DEF Inv, OneMessage
  <2>6. WaitOnce'
    BY <1>3, <2>1, <2>3 DEF WaitOnce
  <2>7. Underway' <= Underway /\ Underway' \in Nat
    BY <1>1, <2>1 DEF Underway, Carried, Handled, Raised, CtsNotifiers
  <2>8. Counted'
    BY <1>1, <2>7, UnderwayNat DEF Inv, Typed, Counted, Used, Changes
  <2>9. QED BY <1>1, <2>4, <2>5, <2>6, <2>8 DEF Inv
<1>5. CASE cts # {}
  <2>1. pending /\ evq # <<>> /\ cts = {Head(evq)}
    BY <1>5 DEF FirstWaiter
  <2>2. /\ Head(evq) = evq[1] /\ evq' \in Seq(CtsNotifiers) /\ Len(evq) \in Nat \ {0}
        /\ Len(evq') = Len(evq) - 1 /\ \A i \in 1 .. Len(evq) - 1 : evq'[i] = evq[i + 1]
    BY <1>1, <1>5, <2>1, TailElements DEF Inv, Typed
  <2>3. PICK h \in CtsNotifiers : h = evq[1] /\ cts = {h} /\ notifier[h].at = "await"
    BY <1>3, <2>1, <2>2
  <2>4. /\ notifier'[h].at = "woken" /\ \A n \in CtsNotifiers \ {h} : notifier'[n] = notifier[n]
    BY <1>1, <1>2, <2>3 DEF Notifiers
  <2>5. notifier' \in [Notifiers -> [at : {"await", "woken", "sent", "replied"}, val : Nat]]
    <3> HIDE DEF cts, read, level
    <3>1. QED BY <1>1, <1>2 DEF Inv, Typed
  <2> HIDE DEF cts, read, level
  <2>6. Typed'
    BY <1>1, <2>2, <2>5 DEF Inv, Typed
  <2>7. OneMessage'
    <3>1. \A i \in 1 .. Len(inbox) : inbox[i].type = "CTS" =>
            inbox[i].from \in CtsNotifiers /\ notifier'[inbox[i].from].at = "sent"
      BY <2>3, <2>4 DEF Inv, OneMessage
    <3>2. inbox' = inbox
      BY <1>1
    <3>3. QED BY <3>1, <3>2 DEF Inv, OneMessage
  <2>8. WaitOnce'
    <3>1. \A i \in 1 .. Len(evq') : i + 1 \in 1 .. Len(evq) /\ i + 1 # 1 /\ evq'[i] = evq[i + 1]
      BY <2>2
    <3>2. \A i \in 1 .. Len(evq') : evq'[i] # h /\ notifier'[evq'[i]].at = "await"
      BY <1>3, <2>2, <2>3, <2>4, <3>1
    <3>3. ASSUME NEW i \in 1 .. Len(evq'), NEW j \in 1 .. Len(evq'), evq'[i] = evq'[j]
          PROVE  i = j
      <4>1. i + 1 = j + 1
        BY <1>3, <3>1, <3>3
      <4>2. QED BY <2>2, <4>1
    <3>4. QED BY <3>2, <3>3 DEF WaitOnce
  <2>9. Underway' = Underway
    <3>1. Carried(h) = 0 /\ Carried(h)' = 1 /\ \A n \in CtsNotifiers \ {h} : Carried(n)' = Carried(n)
      BY <2>3, <2>4 DEF Carried
    <3>2. Raised = 1 /\ Raised' = 0 /\ Handled' = Handled
      BY <1>1, <2>1 DEF Raised, Handled
    <3>3. h = 1 \/ h = 2
      BY DEF CtsNotifiers
    <3>4. QED BY <3>1, <3>2, <3>3 DEF Underway, Carried, Handled, CtsNotifiers
  <2>10. Counted'
    BY <1>1, <2>9 DEF Inv, Counted, Used, Changes
  <2>11. QED BY <1>1, <2>6, <2>7, <2>8, <2>10 DEF Inv
<1>6. QED BY <1>4, <1>5

\* The line changes: one more change that can be seen.
LEMMA LineKeeps ==
  ASSUME Inv, DropCts \/ RaiseCts
  PROVE  Inv' /\ wire' = wire
<1>1. /\ (box = "got" /\ box' = "low") \/ (box = "low" /\ box' = "ready")
      /\ pending' = TRUE
      /\ UNCHANGED <<state, inbox, busy, notifier, evq, rx, came, wire>>
  BY DEF DropCts, RaiseCts, ChangeCts, serverVars, kernelVars
<1>2. Typed' /\ OneMessage' /\ WaitOnce'
  BY <1>1 DEF Inv, Typed, OneMessage, WaitOnce
<1>3. Changes' = Changes + 1 /\ Changes \in Nat /\ Used' = Used /\ Used \in 0 .. 1
  BY <1>1 DEF Changes, Used
<1>4. Underway' <= Underway + 1 /\ Underway' \in Nat
  BY <1>1 DEF Underway, Carried, Handled, Raised
<1>5. state' # "READY"
  BY <1>1 DEF Inv, Counted
<1>6. Counted'
  <2>1. Underway + Used <= Changes
    BY DEF Inv, Counted
  <2>2. Underway' + Used' <= Changes'
    <3>1. Underway \in Nat /\ Used \in Nat
      BY <1>3, UnderwayNat
    <3>2. QED BY <1>3, <1>4, <2>1, <3>1, OneMore, Zenon
  <2>3. QED BY <1>5, <2>2 DEF Counted
<1>7. QED BY <1>1, <1>2, <1>6 DEF Inv

\* The steps that no change of CTS is part of.
LEMMA OtherKeeps ==
  ASSUME Inv, (\E n \in Notifiers : Preempt(n)) \/ Answer \/ UNCHANGED marklinVars
  PROVE  Inv' /\ wire' = wire
<1>1. /\ UNCHANGED <<state, inbox, busy, notifier, evq, box, pending, wire>>
      /\ rx' \in Nat /\ came' \in Nat
  BY DEF Preempt, Answer, marklinVars, serverVars, kernelVars, boxVars, Inv, Typed
<1>2. Typed' /\ OneMessage' /\ WaitOnce'
  BY <1>1 DEF Inv, Typed, OneMessage, WaitOnce
<1>3. Counted'
  BY <1>1 DEF Inv, Counted, Underway, Carried, Handled, Raised, Used, Changes
<1>4. QED BY <1>1, <1>2, <1>3 DEF Inv

-----------------------------------------------------------------------------
(* The result                                                              *)

LEMMA StepCounted ==
  ASSUME Inv, [MarklinNext]_marklinVars
  PROVE  Inv' /\ (wire' # wire => box = "ready")
<1>1. CASE Server
  BY <1>1, ServeKeeps, AnswerKeeps, HandleCtsKeeps, HandleReadKeeps DEF Server
<1>2. ASSUME NEW c \in Clients,
             (\E s \in Strings : Puts(c, s)) \/ Getc(c) \/ WaitOutputEmpty(c)
      PROVE  Inv' /\ wire' = wire
  BY <1>2, ClientKeeps DEF Puts, Getc, WaitOutputEmpty, Data
<1>3. CASE \E n \in Notifiers : RunNotifier(n)
  BY <1>3, NotifierKeeps
<1>4. CASE UartInterrupt \/ DropCts \/ RaiseCts
  BY <1>4, InterruptKeeps, LineKeeps
<1>5. CASE (\E n \in Notifiers : Preempt(n)) \/ Answer \/ UNCHANGED marklinVars
  BY <1>5, OtherKeeps
<1>6. QED BY <1>1, <1>2, <1>3, <1>4, <1>5 DEF MarklinNext

\* The server gives the UART a byte only when the controller can take it.
THEOREM NeverOverruns == MarklinSpec => NoOverrun
<1>1. Inv /\ [MarklinNext]_marklinVars => Inv'
  BY StepCounted
<1>2. Inv /\ [MarklinNext]_marklinVars => [wire' # wire => box = "ready"]_marklinVars
  BY StepCounted
<1>3. QED BY InitInv, <1>1, <1>2, PTL DEF MarklinSpec, NoOverrun

-----------------------------------------------------------------------------
(* The bytes that go out                                                   *)

\* p is what was sent, w, and then what is queued, q.
Matches(p, w, q) ==
  /\ p \in Seq(Byte) /\ w \in Seq(Byte) /\ q \in Seq(Byte)
  /\ Len(p) = Len(w) + Len(q)
  /\ \A i \in 1 .. Len(w) : p[i] = w[i]
  /\ \A i \in 1 .. Len(q) : p[Len(w) + i] = OnWire(q[i])

PutsBytes == \A i \in 1 .. Len(inbox) : inbox[i].type = "PUTS" => inbox[i].data \in Strings

OutInv == Matches(put, wire, fifo_write) /\ PutsBytes

\* No PUTS meets a queue without room for its string (the queue of the code
\* drops what does not fit and tells the client of success).
RoomToWrite ==
  inbox # <<>> /\ Head(inbox).type = "PUTS" =>
    Len(fifo_write) + Len(Head(inbox).data) <= WriteCap

LEMMA OnWireByte == ASSUME NEW c \in Byte PROVE OnWire(c) \in Byte
BY DEF OnWire, Byte

LEMMA MatchesInOrder ==
  ASSUME Matches(put, wire, fifo_write)
  PROVE  InOrder
<1> DEFINE out == [i \in DOMAIN fifo_write |-> OnWire(fifo_write[i])]
<1>1. /\ fifo_write \in Seq(Byte) /\ wire \in Seq(Byte) /\ put \in Seq(Byte)
      /\ DOMAIN fifo_write = 1 .. Len(fifo_write) /\ Len(fifo_write) \in Nat /\ Len(wire) \in Nat
  BY DEF Matches
<1>2. out \in Seq(Byte) /\ Len(out) = Len(fifo_write)
      /\ \A i \in 1 .. Len(fifo_write) : out[i] = OnWire(fifo_write[i])
  BY <1>1, OnWireByte
<1> HIDE DEF out
<1>3. /\ wire \o out \in Seq(Byte) /\ Len(wire \o out) = Len(wire) + Len(fifo_write)
      /\ \A j \in 1 .. Len(wire) + Len(fifo_write) :
           (wire \o out)[j] = IF j <= Len(wire) THEN wire[j] ELSE out[j - Len(wire)]
  <2>1. /\ wire \o out \in Seq(Byte) /\ Len(wire \o out) = Len(wire) + Len(out)
        /\ \A j \in 1 .. Len(wire) + Len(out) :
             (wire \o out)[j] = IF j <= Len(wire) THEN wire[j] ELSE out[j - Len(wire)]
    BY <1>1, <1>2, ConcatElements, Zenon
  <2>2. Len(out) = Len(fifo_write)
    BY <1>2
  <2>3. QED BY <2>1, <2>2, Zenon
<1>4. ASSUME NEW j \in 1 .. Len(put)
      PROVE  put[j] = (wire \o out)[j]
  <2>1. CASE j <= Len(wire)
    BY <1>1, <1>3, <2>1 DEF Matches
  <2>2. CASE j > Len(wire)
    <3>1. j - Len(wire) \in 1 .. Len(fifo_write) /\ Len(wire) + (j - Len(wire)) = j
      BY <1>1, <2>2 DEF Matches
    <3>2. put[j] = OnWire(fifo_write[j - Len(wire)])
      BY <3>1 DEF Matches
    <3>3. j \in 1 .. Len(wire) + Len(fifo_write) /\ ~(j <= Len(wire))
      BY <1>1, <2>2 DEF Matches
    <3>4. (wire \o out)[j] = out[j - Len(wire)]
      BY <1>3, <3>3
    <3>5. QED BY <1>2, <3>1, <3>2, <3>4
  <2>3. j <= Len(wire) \/ j > Len(wire)
    BY <1>1
  <2>4. QED BY <2>1, <2>2, <2>3
<1>5. put = wire \o out
  <2>1. Len(put) = Len(wire \o out)
    BY <1>3 DEF Matches
  <2>2. QED BY <1>1, <1>3, <1>4, <2>1, SeqEqual
<1>6. QED BY <1>5 DEF out, InOrder

\* handleSending moves the first byte of the queue to the wire.
LEMMA SendingMatches ==
  ASSUME NEW p, NEW fw, NEW st, NEW out, NEW cl, Matches(p, wire, fw),
         HandleSending(fw, st, out, cl)
  PROVE  Matches(p, wire', fifo_write')
<1>1. CASE ~ MaySend(st, fw)
  BY <1>1 DEF HandleSending, boxVars
<1>2. CASE MaySend(st, fw)
  <2>1. fw # <<>> /\ fifo_write' = Tail(fw) /\ wire' = Append(wire, OnWire(Head(fw)))
    BY <1>2 DEF HandleSending, MaySend
  <2>2. p \in Seq(Byte) /\ wire \in Seq(Byte) /\ fw \in Seq(Byte)
    BY DEF Matches
  <2>3. /\ Head(fw) = fw[1] /\ Head(fw) \in Byte /\ fifo_write' \in Seq(Byte)
        /\ Len(fw) \in Nat \ {0} /\ Len(fifo_write') = Len(fw) - 1
        /\ \A i \in 1 .. Len(fw) - 1 : fifo_write'[i] = fw[i + 1]
    BY <2>1, <2>2, TailElements
  <2>4. /\ wire' \in Seq(Byte) /\ Len(wire) \in Nat /\ Len(wire') = Len(wire) + 1
        /\ \A i \in 1 .. Len(wire) : wire'[i] = wire[i]
        /\ wire'[Len(wire) + 1] = OnWire(fw[1])
    BY <2>1, <2>2, <2>3, OnWireByte, AppendElements
  <2>5. Len(p) = Len(wire') + Len(fifo_write')
    BY <2>3, <2>4 DEF Matches
  <2>6. ASSUME NEW i \in 1 .. Len(wire')
        PROVE  p[i] = wire'[i]
    <3>1. CASE i \in 1 .. Len(wire)
      BY <2>4, <3>1 DEF Matches
    <3>2. CASE i = Len(wire) + 1
      <4>1. p[Len(wire) + 1] = OnWire(fw[1])
        BY <2>3 DEF Matches
      <4>2. QED BY <2>4, <3>2, <4>1
    <3>3. QED BY <2>4, <3>1, <3>2
  <2>7. ASSUME NEW i \in 1 .. Len(fifo_write')
        PROVE  p[Len(wire') + i] = OnWire(fifo_write'[i])
    <3>1. i + 1 \in 1 .. Len(fw) /\ i \in 1 .. Len(fw) - 1 /\ Len(wire') + i = Len(wire) + (i + 1)
      BY <2>3, <2>4
    <3>2. p[Len(wire) + (i + 1)] = OnWire(fw[i + 1])
      BY <3>1 DEF Matches
    <3>3. QED BY <2>3, <3>1, <3>2
  <2>8. QED BY <2>2, <2>3, <2>4, <2>5, <2>6, <2>7 DEF Matches
<1>3. QED BY <1>1, <1>2

\* A string that fits joins the queue and what was put.
LEMMA PutMatches ==
  ASSUME NEW p, NEW w, NEW q, NEW s \in Seq(Byte), Matches(p, w, q)
  PROVE  Matches(p \o [i \in DOMAIN s |-> OnWire(s[i])], w, q \o s)
<1> DEFINE o == [i \in DOMAIN s |-> OnWire(s[i])]
<1>1. /\ p \in Seq(Byte) /\ w \in Seq(Byte) /\ q \in Seq(Byte) /\ Len(p) = Len(w) + Len(q)
      /\ Len(p) \in Nat /\ Len(w) \in Nat /\ Len(q) \in Nat /\ Len(s) \in Nat
      /\ \A i \in 1 .. Len(w) : p[i] = w[i]
      /\ \A i \in 1 .. Len(q) : p[Len(w) + i] = OnWire(q[i])
  BY DEF Matches
<1>2. o \in Seq(Byte) /\ Len(o) = Len(s) /\ \A i \in 1 .. Len(s) : o[i] = OnWire(s[i])
  BY OnWireByte
<1> HIDE DEF o
<1>3. /\ p \o o \in Seq(Byte) /\ Len(p \o o) = Len(p) + Len(s)
      /\ \A j \in 1 .. Len(p) + Len(s) :
           (p \o o)[j] = IF j <= Len(p) THEN p[j] ELSE o[j - Len(p)]
  <2>1. /\ p \o o \in Seq(Byte) /\ Len(p \o o) = Len(p) + Len(o)
        /\ \A j \in 1 .. Len(p) + Len(o) :
             (p \o o)[j] = IF j <= Len(p) THEN p[j] ELSE o[j - Len(p)]
    <3>1. p \in Seq(Byte) /\ o \in Seq(Byte)
      BY <1>1, <1>2
    <3>2. QED BY <3>1, ConcatElements
  <2>2. Len(o) = Len(s)
    BY <1>2
  <2>3. QED BY <2>1, <2>2, Zenon
<1>4. /\ q \o s \in Seq(Byte) /\ Len(q \o s) = Len(q) + Len(s)
      /\ \A j \in 1 .. Len(q) + Len(s) :
           (q \o s)[j] = IF j <= Len(q) THEN q[j] ELSE s[j - Len(q)]
  BY <1>1, ConcatElements
<1>5. \A i \in 1 .. Len(w) : (p \o o)[i] = w[i]
  BY <1>1, <1>3
<1>6. ASSUME NEW i \in 1 .. Len(q \o s)
      PROVE  (p \o o)[Len(w) + i] = OnWire((q \o s)[i])
  <2>1. CASE i <= Len(q)
    <3>1. i \in 1 .. Len(q) /\ Len(w) + i \in 1 .. Len(p) + Len(s) /\ Len(w) + i <= Len(p)
      BY <1>1, <1>4, <2>1
    <3>2. (p \o o)[Len(w) + i] = p[Len(w) + i]
      BY <1>3, <3>1
    <3>3. (q \o s)[i] = q[i]
      BY <1>1, <1>4, <2>1
    <3>4. QED BY <1>1, <3>1, <3>2, <3>3
  <2>2. CASE i > Len(q)
    <3>1. /\ i - Len(q) \in 1 .. Len(s) /\ Len(w) + i \in 1 .. Len(p) + Len(s)
          /\ ~(Len(w) + i <= Len(p)) /\ (Len(w) + i) - Len(p) = i - Len(q)
      BY <1>1, <1>4, <2>2
    <3>2. (p \o o)[Len(w) + i] = o[i - Len(q)]
      BY <1>3, <3>1
    <3>3. (q \o s)[i] = s[i - Len(q)]
      BY <1>1, <1>4, <2>2
    <3>4. QED BY <1>2, <3>1, <3>2, <3>3
  <2>3. i \in Nat
    BY <1>1, <1>4
  <2>4. i <= Len(q) \/ i > Len(q)
    BY <1>1, <2>3
  <2>5. QED BY <2>1, <2>2, <2>4
<1>7. Matches(p \o o, w, q \o s)
  <2>1. Len(p \o o) = Len(w) + Len(q \o s)
    BY <1>1, <1>3, <1>4
  <2>2. QED BY <1>1, <1>3, <1>4, <1>5, <1>6, <2>1 DEF Matches
<1>8. QED BY <1>7 DEF o

LEMMA OutServed ==
  ASSUME Inv, OutInv, RoomToWrite, ServePuts
  PROVE  Matches(put', wire', fifo_write')
<1> DEFINE s == Head(inbox).data
           fw == PushAll(fifo_write, s, WriteCap)
<1>1. /\ inbox # <<>> /\ Head(inbox).type = "PUTS"
      /\ put' = put \o [i \in DOMAIN s |-> OnWire(s[i])]
      /\ HandleSending(fw, state, outstanding, [client EXCEPT ![Head(inbox).from] = "run"])
  BY DEF ServePuts, Received
<1>2. Head(inbox) = inbox[1] /\ Len(inbox) \in Nat \ {0}
  BY <1>1, TailElements DEF Inv, Typed
<1>3. s \in Seq(Byte)
  BY <1>1, <1>2, StringsAssumption DEF OutInv, PutsBytes
<1>4. fw = fifo_write \o s
  BY <1>1 DEF RoomToWrite, PushAll
<1> HIDE DEF s, fw
<1>5. Matches(put', wire, fw)
  BY <1>1, <1>3, <1>4, PutMatches DEF OutInv
<1>6. QED BY <1>1, <1>5, SendingMatches

\* What the server does to the messages that it has not received.
LEMMA PutsBytesKept ==
  ASSUME Inv, PutsBytes, [MarklinNext]_marklinVars
  PROVE  PutsBytes'
<1>1. CASE UNCHANGED inbox
  BY <1>1 DEF PutsBytes
<1>2. CASE inbox # <<>> /\ inbox' = Tail(inbox)
  <2>1. /\ Len(inbox) \in Nat \ {0} /\ Len(inbox') = Len(inbox) - 1
        /\ \A i \in 1 .. Len(inbox) - 1 : inbox'[i] = inbox[i + 1]
    BY <1>2, TailElements DEF Inv, Typed
  <2>2. \A i \in 1 .. Len(inbox') : i + 1 \in 1 .. Len(inbox) /\ inbox'[i] = inbox[i + 1]
    BY <2>1
  <2>3. QED BY <2>2 DEF PutsBytes
<1>3. ASSUME NEW m \in Message, inbox' = Append(inbox, m), m.type = "PUTS" => m.data \in Strings
      PROVE  PutsBytes'
  <2>1. /\ Len(inbox) \in Nat /\ Len(inbox') = Len(inbox) + 1
        /\ \A i \in 1 .. Len(inbox) : inbox'[i] = inbox[i]
        /\ inbox'[Len(inbox) + 1] = m
    BY <1>3, AppendElements DEF Inv, Typed
  <2>2. \A i \in 1 .. Len(inbox') : i \in 1 .. Len(inbox) \/ i = Len(inbox) + 1
    BY <2>1
  <2>3. QED BY <1>3, <2>1, <2>2 DEF PutsBytes
<1>4. CASE Server
  BY <1>1, <1>2, <1>4
     DEF Server, ServeGetc, ServePuts, ServeEmpty, AnswerNotifier, HandleCts, HandleRead, Received
<1>5. ASSUME NEW c \in Clients,
             (\E s \in Strings : Puts(c, s)) \/ Getc(c) \/ WaitOutputEmpty(c)
      PROVE  PutsBytes'
  <2>1. ASSUME NEW type \in {"PUTS", "GETC", "EMPTY"}, NEW data \in Data,
               type = "PUTS" => data \in Strings, Call(c, type, data)
        PROVE  PutsBytes'
    <3>1. Msg(type, c, data) \in Message /\ inbox' = Append(inbox, Msg(type, c, data))
          /\ Msg(type, c, data).type = type /\ Msg(type, c, data).data = data
      BY <2>1 DEF Call, Msg, Message
    <3>2. QED BY <1>3, <2>1, <3>1
  <2>2. QED BY <1>5, <2>1 DEF Puts, Getc, WaitOutputEmpty, Data
<1>6. ASSUME NEW n \in Notifiers, RunNotifier(n)
      PROVE  PutsBytes'
  <2> DEFINE m == Msg(IF n = Reader THEN "READ" ELSE "CTS", n, notifier[n].val)
  <2>1. m \in Message /\ m.type # "PUTS"
    BY DEF Msg, Message, Data, Inv, Typed
  <2>2. inbox' = inbox \/ inbox' = Append(inbox, m)
    BY <1>6 DEF RunNotifier
  <2> HIDE DEF m
  <2>3. QED BY <1>1, <1>3, <2>1, <2>2
<1>7. QED BY <1>1, <1>4, <1>5, <1>6
           DEF MarklinNext, Preempt, UartInterrupt, DropCts, RaiseCts, ChangeCts, Answer, marklinVars

LEMMA StepOut ==
  ASSUME Inv, OutInv, RoomToWrite, [MarklinNext]_marklinVars
  PROVE  OutInv'
<1>1. CASE UNCHANGED <<put, wire, fifo_write>>
  BY <1>1, PutsBytesKept DEF OutInv
<1>2. CASE ServePuts
  BY <1>2, OutServed, PutsBytesKept DEF OutInv
<1>3. CASE HandleCts
  <2>1. put' = put /\ HandleSending(fifo_write, AdvanceState(state, busy.data), outstanding, client)
    BY <1>3 DEF HandleCts
  <2>2. QED BY <2>1, SendingMatches, PutsBytesKept DEF OutInv
<1>4. CASE HandleRead
  <2>1. put' = put
    BY <1>4 DEF HandleRead
  <2>2. CASE outstanding - 1 = 0
    <3>1. PICK cl : HandleSending(fifo_write, state, outstanding - 1, cl)
      BY <1>4, <2>2 DEF HandleRead
    <3>2. QED BY <2>1, <3>1, SendingMatches, PutsBytesKept DEF OutInv
  <2>3. CASE outstanding - 1 # 0
    BY <1>1, <1>4, <2>1, <2>3 DEF HandleRead, boxVars
  <2>4. QED BY <2>2, <2>3
<1>5. CASE ServeGetc \/ ServeEmpty \/ AnswerNotifier
  BY <1>1, <1>5 DEF ServeGetc, ServeEmpty, AnswerNotifier, serverVars, boxVars
<1>6. CASE \E c \in Clients : (\E s \in Strings : Puts(c, s)) \/ Getc(c) \/ WaitOutputEmpty(c)
  BY <1>1, <1>6 DEF Puts, Getc, WaitOutputEmpty, Call, serverVars, boxVars
<1>7. CASE \E n \in Notifiers : RunNotifier(n) \/ Preempt(n)
  BY <1>1, <1>7 DEF RunNotifier, Preempt, serverVars, boxVars
<1>8. CASE UartInterrupt \/ DropCts \/ RaiseCts \/ Answer \/ UNCHANGED marklinVars
  BY <1>1, <1>8
     DEF UartInterrupt, DropCts, RaiseCts, ChangeCts, Answer, marklinVars, serverVars, boxVars
<1>9. QED BY <1>2, <1>3, <1>4, <1>5, <1>6, <1>7, <1>8 DEF MarklinNext, Server

\* Bytes go out in the order in which the server took them, none twice and, while
\* no string meets a queue without room for it, none dropped.
THEOREM BytesGoOutInOrder == MarklinSpec /\ []RoomToWrite => []InOrder
<1>1. MarklinInit => OutInv
  <2> SUFFICES ASSUME MarklinInit PROVE OutInv
    OBVIOUS
  <2>1. put = <<>> /\ wire = <<>> /\ fifo_write = <<>> /\ inbox = <<>>
    BY DEF MarklinInit
  <2>2. QED BY <2>1 DEF OutInv, Matches, PutsBytes
<1>2. Inv /\ [MarklinNext]_marklinVars => Inv'
  BY StepCounted
<1>3. Inv /\ OutInv /\ RoomToWrite /\ [MarklinNext]_marklinVars => OutInv'
  BY StepOut
<1>4. OutInv => InOrder
  BY MatchesInOrder DEF OutInv
<1>5. QED BY InitInv, <1>1, <1>2, <1>3, <1>4, PTL DEF MarklinSpec

-----------------------------------------------------------------------------
(* The bytes that come in                                                  *)

Held == IF busy.type = "READ" THEN 1 ELSE 0
Coming == IF notifier[Reader].at \in {"woken", "sent"} \/ rx # 0 THEN 1 ELSE 0

\* The byte that came last is in one place at a time until the server has it.
OneByte ==
  /\ \A i \in 1 .. Len(inbox) :
       inbox[i].type = "READ" => notifier[Reader].at = "sent" /\ inbox[i].data = came
  /\ \A i, j \in 1 .. Len(inbox) : inbox[i].type = "READ" /\ inbox[j].type = "READ" => i = j
  /\ notifier[Reader].at = "sent" => \E i \in 1 .. Len(inbox) : inbox[i].type = "READ"
  /\ notifier[Reader].at = "woken" => notifier[Reader].val = came
  /\ rx # 0 => notifier[Reader] = Await /\ rx = came

\* The bytes from the last one delivered to the last one that came.
InSequence ==
  /\ fifo_read \in Seq(Nat) /\ delivered \in Nat
  /\ delivered + Len(fifo_read) + Held + Coming = came
  /\ \A i \in 1 .. Len(fifo_read) : fifo_read[i] = delivered + i
  /\ busy.type = "READ" => busy.data = delivered + Len(fifo_read) + 1
  /\ waiting_readers # <<>> => fifo_read = <<>>

\* No byte comes to a full queue.
RoomToRead ==
  busy.type = "READ" /\ waiting_readers = <<>> => Len(fifo_read) < ReadCap

ReadInv == OneByte /\ InSequence

\* The sequence q has the n bytes after byte d.
BytesAfter(q, d, n) == q \in Seq(Nat) /\ Len(q) = n /\ \A i \in 1 .. n : q[i] = d + i

LEMMA OneByteMore ==
  ASSUME NEW d \in Nat, NEW n \in Nat, NEW q, BytesAfter(q, d, n)
  PROVE  BytesAfter(q \o <<d + n + 1>>, d, n + 1)
<1> DEFINE x == d + n + 1
           o == <<x>>
<1>1. q \in Seq(Nat) /\ Len(q) = n /\ (\A i \in 1 .. n : q[i] = d + i) /\ x \in Nat
  BY DEF BytesAfter
<1>2. o \in Seq(Nat) /\ Len(o) = 1 /\ o[1] = x
  BY <1>1
<1> HIDE DEF o
<1>3. /\ q \o o \in Seq(Nat) /\ Len(q \o o) = Len(q) + Len(o)
      /\ \A j \in 1 .. Len(q) + Len(o) : (q \o o)[j] = IF j <= Len(q) THEN q[j] ELSE o[j - Len(q)]
  BY <1>1, <1>2, ConcatElements
<1>4. ASSUME NEW j \in 1 .. n + 1
      PROVE  (q \o o)[j] = d + j
  <2>1. CASE j <= n
    BY <1>1, <1>2, <1>3, <2>1
  <2>2. CASE j = n + 1
    <3>1. (q \o o)[j] = o[1]
      BY <1>1, <1>2, <1>3, <2>2
    <3>2. QED BY <1>2, <2>2, <3>1
  <2>3. j <= n \/ j = n + 1
    OBVIOUS
  <2>4. QED BY <2>1, <2>2, <2>3
<1>5. BytesAfter(q \o o, d, n + 1)
  BY <1>1, <1>2, <1>3, <1>4 DEF BytesAfter
<1>6. QED BY <1>5 DEF o

\* What the parts say adds up to the order of all bytes on their way.
LEMMA InSequenceInOrder ==
  ASSUME Typed, ReadInv
  PROVE  ReadInOrder
<1> DEFINE held == IF busy.type = "READ" THEN <<busy.data>> ELSE <<>>
           reads == {i \in DOMAIN inbox : inbox[i].type = "READ"}
           sent == IF reads = {} THEN <<>> ELSE <<inbox[CHOOSE i \in reads : TRUE].data>>
           woken == IF notifier[Reader].at = "woken" THEN <<notifier[Reader].val>> ELSE <<>>
           register == IF rx = 0 THEN <<>> ELSE <<rx>>
           L == Len(fifo_read)
           B == fifo_read \o held
<1>1. /\ L \in Nat /\ delivered \in Nat /\ came \in Nat /\ rx \in Nat
      /\ DOMAIN inbox = 1 .. Len(inbox)
      /\ notifier[Reader].at \in {"await", "woken", "sent", "replied"}
  BY DEF Typed, ReadInv, InSequence, Notifiers
<1>2. BytesAfter(fifo_read, delivered, L)
  BY <1>1 DEF ReadInv, InSequence, BytesAfter
<1>0. /\ Held \in Nat /\ Coming \in 0 .. 1
      /\ delivered + L + Held + Coming = came
      /\ busy.type = "READ" => busy.data = delivered + L + 1
  BY DEF ReadInv, InSequence, Held, Coming
<1> HIDE DEF L
<1>3. BytesAfter(B, delivered, L + Held) /\ L + Held \in Nat
  <2>1. CASE busy.type = "READ"
    <3>1. held = <<delivered + L + 1>> /\ Held = 1
      BY <1>0, <2>1 DEF Held
    <3>2. QED BY <1>1, <1>2, <3>1, OneByteMore
  <2>2. CASE busy.type # "READ"
    <3>1. held = <<>> /\ Held = 0
      BY <2>2 DEF Held
    <3>2. B = fifo_read
      BY <1>2, <3>1, ConcatEmptySeq DEF BytesAfter
    <3>3. L + 0 = L
      BY <1>1
    <3>4. QED BY <1>1, <1>2, <3>1, <3>2, <3>3
  <2>3. QED BY <2>1, <2>2
<1>4. B \in Seq(Nat)
  BY <1>3 DEF BytesAfter
<1>5. came - delivered = L + Held + Coming /\ came = delivered + (L + Held) + Coming
  BY <1>0, <1>1
<1>6. /\ notifier[Reader].at # "sent" => sent = <<>>
      /\ notifier[Reader].at = "sent" => sent = <<came>>
  <2>1. CASE notifier[Reader].at # "sent"
    <3>1. reads = {}
      BY <1>1, <2>1 DEF ReadInv, OneByte
    <3>2. QED BY <2>1, <3>1
  <2>2. CASE notifier[Reader].at = "sent"
    <3>1. reads # {} /\ \A i \in reads : inbox[i].data = came
      BY <1>1, <2>2 DEF ReadInv, OneByte
    <3>2. (CHOOSE i \in reads : TRUE) \in reads
      BY <3>1
    <3>3. inbox[CHOOSE i \in reads : TRUE].data = came
      BY <3>1, <3>2
    <3>4. QED BY <2>2, <3>1, <3>3
  <2>3. QED BY <2>1, <2>2
<1>7. /\ notifier[Reader].at = "woken" => woken = <<came>>
      /\ notifier[Reader].at # "woken" => woken = <<>>
      /\ rx # 0 => register = <<came>> /\ notifier[Reader].at = "await"
      /\ rx = 0 => register = <<>>
  BY DEF ReadInv, OneByte, Await
<1> HIDE DEF held, sent, woken, register, reads
<1>8. B \o <<>> = B /\ (B \o <<came>>) \o <<>> = B \o <<came>>
  <2>1. B \o <<came>> \in Seq(Nat)
    BY <1>1, <1>4
  <2>2. QED BY <1>4, <2>1, ConcatEmptySeq
<1> HIDE DEF B
<1>9. BytesAfter(B \o sent \o woken \o register, delivered, came - delivered)
  <2>1. CASE Coming = 0
    <3>1. sent = <<>> /\ woken = <<>> /\ register = <<>>
      BY <1>6, <1>7, <2>1 DEF Coming
    <3>2. L + Held = came - delivered
      BY <1>0, <1>1, <1>5, <2>1
    <3>3. QED BY <1>3, <1>8, <3>1, <3>2
  <2>2. CASE Coming = 1
    <3>1. L + Held + 1 = came - delivered /\ came = delivered + (L + Held) + 1
      BY <1>0, <1>1, <1>5, <2>2
    <3>2. BytesAfter(B \o <<came>>, delivered, came - delivered)
      BY <1>1, <1>3, <3>1, OneByteMore
    <3>3. CASE rx # 0
      <4>1. sent = <<>> /\ woken = <<>> /\ register = <<came>>
        BY <1>6, <1>7, <3>3
      <4>2. QED BY <1>8, <3>2, <4>1
    <3>4. CASE rx = 0 /\ notifier[Reader].at = "woken"
      <4>1. sent = <<>> /\ woken = <<came>> /\ register = <<>>
        BY <1>6, <1>7, <3>4
      <4>2. QED BY <1>8, <3>2, <4>1
    <3>5. CASE rx = 0 /\ notifier[Reader].at = "sent"
      <4>1. sent = <<came>> /\ woken = <<>> /\ register = <<>>
        BY <1>6, <1>7, <3>5
      <4>2. QED BY <1>8, <3>2, <4>1
    <3>6. QED BY <2>2, <3>3, <3>4, <3>5 DEF Coming
  <2>3. QED BY <2>1, <2>2 DEF Coming
<1>10. came - delivered \in Nat
  BY <1>0, <1>1, <1>5
<1>11. B \o sent \o woken \o register = [i \in 1 .. (came - delivered) |-> delivered + i]
  <2> DEFINE all == B \o sent \o woken \o register
             k == came - delivered
             want == [i \in 1 .. k |-> delivered + i]
  <2>1. all \in Seq(Nat) /\ Len(all) = k /\ \A i \in 1 .. k : all[i] = delivered + i
    BY <1>9 DEF BytesAfter
  <2>2. k \in Nat
    BY <1>10
  <2> HIDE DEF all, k
  <2>3. want \in Seq(Nat) /\ Len(want) = k /\ \A i \in 1 .. k : want[i] = delivered + i
    BY <1>1, <2>2
  <2>4. \A i \in 1 .. k : all[i] = want[i]
    BY <2>1
  <2>5. all = want
    <3> HIDE DEF want
    <3>1. QED BY <2>1, <2>3, <2>4, SeqEqual
  <2>6. QED BY <2>5 DEF all, k
<1>12. QED BY <1>11 DEF B, held, sent, woken, register, reads, ReadInOrder

\* A message that carries no byte leaves or joins the inbox.
LEMMA OtherLeaves ==
  ASSUME Inv, OneByte, inbox # <<>>, Head(inbox).type # "READ", inbox' = Tail(inbox),
         notifier'[Reader] = notifier[Reader], UNCHANGED <<rx, came>>
  PROVE  OneByte'
<1>1. /\ Head(inbox) = inbox[1] /\ Len(inbox) \in Nat \ {0} /\ Len(inbox') = Len(inbox) - 1
      /\ \A i \in 1 .. Len(inbox) - 1 : inbox'[i] = inbox[i + 1]
  BY TailElements DEF Inv, Typed
<1>2. \A i \in 1 .. Len(inbox') : i + 1 \in 1 .. Len(inbox) /\ inbox'[i] = inbox[i + 1]
  BY <1>1
<1>3. ASSUME NEW i \in 1 .. Len(inbox'), NEW j \in 1 .. Len(inbox'),
             inbox'[i].type = "READ", inbox'[j].type = "READ"
      PROVE  i = j
  <2>1. i + 1 = j + 1
    BY <1>2, <1>3 DEF OneByte
  <2>2. QED BY <1>1, <2>1
<1>4. ASSUME notifier[Reader].at = "sent"
      PROVE  \E i \in 1 .. Len(inbox') : inbox'[i].type = "READ"
  <2>1. PICK j \in 1 .. Len(inbox) : inbox[j].type = "READ"
    BY <1>4 DEF OneByte
  <2>2. j # 1
    BY <1>1, <2>1
  <2>3. j - 1 \in 1 .. Len(inbox') /\ j - 1 \in 1 .. Len(inbox) - 1 /\ (j - 1) + 1 = j
    BY <1>1, <2>2
  <2>4. inbox'[j - 1] = inbox[j]
    BY <1>1, <2>3
  <2>5. QED BY <2>1, <2>3, <2>4
<1>5. \A i \in 1 .. Len(inbox') : inbox'[i].type = "READ" =>
        notifier'[Reader].at = "sent" /\ inbox'[i].data = came'
  BY <1>2 DEF OneByte
<1>6. /\ notifier'[Reader].at = "woken" => notifier'[Reader].val = came'
      /\ rx' # 0 => notifier'[Reader] = Await /\ rx' = came'
  BY DEF OneByte
<1>7. QED BY <1>3, <1>4, <1>5, <1>6, SMTT(60) DEF OneByte

LEMMA OtherJoins ==
  ASSUME Inv, OneByte, NEW m \in Message, m.type # "READ", inbox' = Append(inbox, m),
         notifier'[Reader] = notifier[Reader], UNCHANGED <<rx, came>>
  PROVE  OneByte'
<1>1. /\ Len(inbox) \in Nat /\ Len(inbox') = Len(inbox) + 1
      /\ \A i \in 1 .. Len(inbox) : inbox'[i] = inbox[i]
      /\ inbox'[Len(inbox) + 1] = m
  BY AppendElements DEF Inv, Typed
<1>2. \A i \in 1 .. Len(inbox') : inbox'[i].type = "READ" =>
        i \in 1 .. Len(inbox) /\ inbox'[i] = inbox[i]
  BY <1>1
<1>3. 1 .. Len(inbox) \subseteq 1 .. Len(inbox')
  BY <1>1
<1>4. QED BY <1>1, <1>2, <1>3 DEF OneByte

\* A step that leaves the reader, its messages and the server's queues alone.
LEMMA SequenceKept ==
  ASSUME InSequence, Held' = Held, Coming' = Coming, busy'.type = "READ" => busy' = busy,
         UNCHANGED <<fifo_read, delivered, came, waiting_readers>>
  PROVE  InSequence'
BY DEF InSequence, Held

\* The server answers the reader and has the byte.
LEMMA ReadAnswered ==
  ASSUME Inv, ReadInv, AnswerNotifier
  PROVE  ReadInv'
<1> DEFINE m == Head(inbox)
<1>1. /\ busy = NoMsg /\ inbox # <<>> /\ m.type \in {"CTS", "READ"} /\ inbox' = Tail(inbox)
      /\ busy' = m /\ notifier' = [notifier EXCEPT ![m.from].at = "replied"]
      /\ UNCHANGED <<rx, came, fifo_read, delivered, waiting_readers>>
  BY DEF AnswerNotifier, Received, serverVars
<1>2. /\ m = inbox[1] /\ m \in Message /\ Len(inbox) \in Nat \ {0}
      /\ Len(inbox') = Len(inbox) - 1 /\ \A i \in 1 .. Len(inbox) - 1 : inbox'[i] = inbox[i + 1]
  BY <1>1, TailElements DEF Inv, Typed
<1>3. /\ m.type = "READ" => m.from = Reader
      /\ m.type = "CTS" => m.from \in CtsNotifiers
  BY <1>2 DEF Inv, OneMessage
<1>4. Held = 0
  BY <1>1 DEF Held, NoMsg, Msg
<1>5. notifier \in [Notifiers -> [at : {"await", "woken", "sent", "replied"}, val : Nat]]
      /\ Reader \in Notifiers /\ Reader \notin CtsNotifiers
  BY DEF Inv, Typed, Notifiers, CtsNotifiers, Reader
<1> HIDE DEF m
<1>6. CASE m.type = "CTS"
  <2>1. notifier'[Reader] = notifier[Reader]
    BY <1>1, <1>3, <1>5, <1>6
  <2>2. OneByte'
    BY <1>1, <1>6, <2>1, OtherLeaves DEF m, ReadInv
  <2>3. Held' = 0 /\ Coming' = Coming /\ busy'.type # "READ"
    BY <1>1, <1>6, <2>1 DEF Held, Coming
  <2>4. QED BY <1>1, <1>4, <2>2, <2>3, SequenceKept DEF ReadInv
<1>7. CASE m.type = "READ"
  <2>1. notifier[Reader].at = "sent" /\ m.data = came /\ rx = 0
    BY <1>2, <1>7 DEF ReadInv, OneByte, Await
  <2>2. notifier'[Reader].at = "replied"
    BY <1>1, <1>3, <1>5, <1>7
  <2>3. \A i \in 1 .. Len(inbox') : i + 1 \in 1 .. Len(inbox) /\ i + 1 # 1 /\ inbox'[i] = inbox[i + 1]
    BY <1>2
  <2>4. \A i \in 1 .. Len(inbox') : inbox'[i].type # "READ"
    BY <1>2, <1>7, <2>3 DEF ReadInv, OneByte
  <2>5. OneByte'
    BY <1>1, <2>1, <2>2, <2>4 DEF OneByte
  <2>6. Held' = 1 /\ Coming = 1 /\ Coming' = 0
    BY <1>1, <1>7, <2>1, <2>2 DEF Held, Coming
  <2>7. delivered + Len(fifo_read) + 1 = came /\ Len(fifo_read) \in Nat /\ delivered \in Nat
    BY <1>4, <2>6 DEF ReadInv, InSequence
  <2>8. InSequence'
    BY <1>1, <2>1, <2>6, <2>7 DEF ReadInv, InSequence
  <2>9. QED BY <2>5, <2>8 DEF ReadInv
<1>8. QED BY <1>1, <1>6, <1>7

\* The first queued byte goes to the client that asks.
LEMMA ReadServed ==
  ASSUME Inv, ReadInv, ServeGetc \/ ServePuts \/ ServeEmpty
  PROVE  ReadInv'
<1>1. /\ inbox # <<>> /\ Head(inbox).type # "READ" /\ inbox' = Tail(inbox)
      /\ UNCHANGED <<busy, notifier, rx, came>>
  BY DEF ServeGetc, ServePuts, ServeEmpty, Received, kernelVars
<1>2. OneByte' /\ Held' = Held /\ Coming' = Coming
  BY <1>1, OtherLeaves DEF ReadInv, Held, Coming
<1>3. CASE UNCHANGED <<fifo_read, delivered, waiting_readers>>
  BY <1>1, <1>2, <1>3, SequenceKept DEF ReadInv
<1>4. CASE fifo_read = <<>> /\ UNCHANGED <<fifo_read, delivered>>
  BY <1>1, <1>2, <1>4 DEF ReadInv, InSequence
<1>5. CASE /\ fifo_read # <<>> /\ fifo_read' = Tail(fifo_read) /\ delivered' = Head(fifo_read)
           /\ UNCHANGED waiting_readers
  <2>1. /\ fifo_read \in Seq(Nat) /\ delivered \in Nat
        /\ \A i \in 1 .. Len(fifo_read) : fifo_read[i] = delivered + i
        /\ waiting_readers = <<>>
        /\ delivered + Len(fifo_read) + Held + Coming = came
        /\ busy.type = "READ" => busy.data = delivered + Len(fifo_read) + 1
    BY <1>5 DEF ReadInv, InSequence
  <2>2. /\ Head(fifo_read) = fifo_read[1] /\ fifo_read' \in Seq(Nat)
        /\ Len(fifo_read) \in Nat \ {0} /\ Len(fifo_read') = Len(fifo_read) - 1
        /\ \A i \in 1 .. Len(fifo_read) - 1 : fifo_read'[i] = fifo_read[i + 1]
    BY <1>5, <2>1, TailElements
  <2>3. delivered' = delivered + 1
    BY <1>5, <2>1, <2>2
  <2>4. ASSUME NEW i \in 1 .. Len(fifo_read')
        PROVE  fifo_read'[i] = delivered' + i
    <3>1. i \in 1 .. Len(fifo_read) - 1 /\ i + 1 \in 1 .. Len(fifo_read)
      BY <2>2
    <3>2. fifo_read'[i] = delivered + (i + 1)
      BY <2>1, <2>2, <3>1
    <3>3. QED BY <2>1, <2>3, <3>2
  <2>5. delivered' + Len(fifo_read') = delivered + Len(fifo_read) /\ delivered' \in Nat
    BY <2>1, <2>2, <2>3
  <2>6. delivered' + Len(fifo_read') + Held' + Coming' = came'
    BY <1>1, <1>2, <2>1, <2>5
  <2>7. busy'.type = "READ" => busy'.data = delivered' + Len(fifo_read') + 1
    BY <1>1, <2>1, <2>5
  <2>8. InSequence'
    BY <1>5, <2>1, <2>2, <2>4, <2>5, <2>6, <2>7 DEF InSequence
  <2>9. QED BY <1>2, <2>8 DEF ReadInv
<1>6. QED BY <1>3, <1>4, <1>5 DEF ServeGetc, ServePuts, ServeEmpty

\* The byte that the server has goes to the first client that waits, or behind
\* those that are queued.
LEMMA ReadHandled ==
  ASSUME Inv, ReadInv, RoomToRead, HandleRead
  PROVE  ReadInv'
<1>1. /\ busy.type = "READ" /\ busy' = NoMsg /\ UNCHANGED <<inbox, notifier, rx, came>>
      /\ \/ /\ waiting_readers = <<>>
            /\ fifo_read' = PushBack(fifo_read, busy.data, ReadCap)
            /\ UNCHANGED <<waiting_readers, delivered>>
         \/ /\ waiting_readers # <<>>
            /\ waiting_readers' = Tail(waiting_readers)
            /\ delivered' = busy.data
            /\ UNCHANGED fifo_read
  BY DEF HandleRead, kernelVars
<1>2. /\ fifo_read \in Seq(Nat) /\ delivered \in Nat /\ Len(fifo_read) \in Nat
      /\ \A i \in 1 .. Len(fifo_read) : fifo_read[i] = delivered + i
      /\ delivered + Len(fifo_read) + Held + Coming = came
      /\ busy.data = delivered + Len(fifo_read) + 1 /\ busy.data \in Nat
      /\ waiting_readers # <<>> => fifo_read = <<>>
  BY <1>1 DEF ReadInv, InSequence
<1>3. Held = 1 /\ Held' = 0 /\ Coming' = Coming /\ Coming \in Nat /\ busy'.type # "READ"
  BY <1>1 DEF Held, Coming, NoMsg, Msg
<1>4. OneByte'
  BY <1>1 DEF ReadInv, OneByte
<1>5. CASE waiting_readers = <<>>
  <2>1. fifo_read' = Append(fifo_read, busy.data) /\ delivered' = delivered
        /\ waiting_readers' = waiting_readers
    BY <1>1, <1>2, <1>5 DEF RoomToRead, PushBack
  <2>2. /\ fifo_read' \in Seq(Nat) /\ Len(fifo_read') = Len(fifo_read) + 1
        /\ \A i \in 1 .. Len(fifo_read) : fifo_read'[i] = fifo_read[i]
        /\ fifo_read'[Len(fifo_read) + 1] = busy.data
    BY <1>2, <2>1, AppendElements
  <2>3. ASSUME NEW i \in 1 .. Len(fifo_read')
        PROVE  fifo_read'[i] = delivered + i
    <3>1. i \in 1 .. Len(fifo_read) \/ i = Len(fifo_read) + 1
      BY <1>2, <2>2
    <3>2. CASE i \in 1 .. Len(fifo_read)
      BY <1>2, <2>2, <3>2
    <3>3. CASE i = Len(fifo_read) + 1
      BY <1>2, <2>2, <3>3
    <3>4. QED BY <3>1, <3>2, <3>3
  <2>4. delivered' + Len(fifo_read') + Held' + Coming' = came'
    BY <1>1, <1>2, <1>3, <2>1, <2>2
  <2>5. InSequence'
    BY <1>2, <1>3, <1>5, <2>1, <2>2, <2>3, <2>4 DEF InSequence
  <2>6. QED BY <1>4, <2>5 DEF ReadInv
<1>6. CASE waiting_readers # <<>>
  <2>1. fifo_read = <<>> /\ fifo_read' = <<>> /\ Len(fifo_read) = 0 /\ delivered' = delivered + 1
    BY <1>1, <1>2, <1>6
  <2>2. InSequence'
    BY <1>1, <1>2, <1>3, <2>1 DEF InSequence
  <2>3. QED BY <1>4, <2>2 DEF ReadInv
<1>7. QED BY <1>5, <1>6

\* The reader carries the byte into the inbox, or waits anew.
LEMMA ReadCarried ==
  ASSUME Inv, ReadInv, NEW n \in Notifiers, RunNotifier(n)
  PROVE  ReadInv'
<1> DEFINE m == Msg(IF n = Reader THEN "READ" ELSE "CTS", n, notifier[n].val)
<1>1. /\ UNCHANGED <<busy, rx, came, fifo_read, delivered, waiting_readers>>
      /\ \/ /\ notifier[n].at = "woken" /\ notifier' = [notifier EXCEPT ![n].at = "sent"]
            /\ inbox' = Append(inbox, m)
         \/ /\ notifier[n].at = "replied" /\ notifier' = [notifier EXCEPT ![n] = Await]
            /\ inbox' = inbox
  BY DEF RunNotifier, serverVars
<1>2. /\ notifier \in [Notifiers -> [at : {"await", "woken", "sent", "replied"}, val : Nat]]
      /\ Reader \in Notifiers
  BY DEF Inv, Typed, Notifiers
<1>3. m \in Message /\ m.type = (IF n = Reader THEN "READ" ELSE "CTS") /\ m.data = notifier[n].val
  BY <1>2 DEF Msg, Message, Data
<1>4. Held' = Held
  BY <1>1 DEF Held
<1> HIDE DEF m
<1>5. CASE n # Reader
  <2>1. notifier'[Reader] = notifier[Reader]
    BY <1>1, <1>2, <1>5
  <2>2. OneByte'
    <3>1. CASE inbox' = Append(inbox, m)
      <4>1. m.type # "READ"
        BY <1>3, <1>5
      <4>2. QED BY <1>1, <1>3, <2>1, <3>1, <4>1, OtherJoins DEF ReadInv
    <3>2. CASE inbox' = inbox
      BY <1>1, <2>1, <3>2 DEF ReadInv, OneByte
    <3>3. QED BY <1>1, <3>1, <3>2
  <2>3. Coming' = Coming
    BY <1>1, <2>1 DEF Coming
  <2>4. QED BY <1>1, <1>4, <2>2, <2>3, SequenceKept DEF ReadInv
<1>6. CASE n = Reader /\ notifier[n].at = "woken"
  <2>1. /\ notifier'[Reader].at = "sent" /\ inbox' = Append(inbox, m) /\ rx = 0
        /\ m.type = "READ" /\ m.data = came
    BY <1>1, <1>2, <1>3, <1>6 DEF ReadInv, OneByte, Await
  <2>2. /\ Len(inbox) \in Nat /\ Len(inbox') = Len(inbox) + 1
        /\ \A i \in 1 .. Len(inbox) : inbox'[i] = inbox[i]
        /\ inbox'[Len(inbox) + 1] = m
    BY <1>3, <2>1, AppendElements DEF Inv, Typed
  <2>3. \A i \in 1 .. Len(inbox) : inbox[i].type # "READ"
    BY <1>6 DEF ReadInv, OneByte
  <2>4. \A i \in 1 .. Len(inbox') : inbox'[i].type = "READ" => i = Len(inbox) + 1
    <3>1. \A i \in 1 .. Len(inbox') : i \in 1 .. Len(inbox) \/ i = Len(inbox) + 1
      BY <2>2
    <3>2. QED BY <2>2, <2>3, <3>1
  <2>5. Len(inbox) + 1 \in 1 .. Len(inbox')
    BY <2>2
  <2>6. OneByte'
    BY <1>1, <2>1, <2>2, <2>4, <2>5 DEF OneByte
  <2>7. Coming' = Coming
    BY <1>6, <2>1 DEF Coming
  <2>8. QED BY <1>1, <1>4, <2>6, <2>7, SequenceKept DEF ReadInv
<1>7. CASE n = Reader /\ notifier[n].at = "replied"
  <2>1. notifier'[Reader] = Await /\ inbox' = inbox /\ rx = 0
    BY <1>1, <1>2, <1>7 DEF ReadInv, OneByte, Await
  <2>2. \A i \in 1 .. Len(inbox) : inbox[i].type # "READ"
    BY <1>7 DEF ReadInv, OneByte
  <2>3. OneByte'
    BY <1>1, <2>1, <2>2 DEF OneByte, Await
  <2>4. Coming' = Coming
    BY <1>1, <1>7, <2>1 DEF Coming, Await
  <2>5. QED BY <1>1, <1>4, <2>3, <2>4, SequenceKept DEF ReadInv
<1>8. QED BY <1>1, <1>5, <1>6, <1>7

\* The interrupt gives the byte to the reader, which waits for it.
LEMMA ReadInterrupt ==
  ASSUME Inv, ReadInv, UartInterrupt
  PROVE  ReadInv'
<1> DEFINE cts == IF pending THEN FirstWaiter(evq) ELSE {}
           read == IF rx # 0 /\ notifier[Reader] = Await THEN {Reader} ELSE {}
           level == IF box = "low" THEN 0 ELSE 1
<1>1. /\ notifier' = [n \in Notifiers |->
             IF n \in cts \cup read
             THEN [at |-> "woken", val |-> IF n = Reader THEN rx ELSE level]
             ELSE notifier[n]]
      /\ rx' = 0
      /\ UNCHANGED <<inbox, busy, came, fifo_read, delivered, waiting_readers>>
  BY DEF UartInterrupt, serverVars
<1>2. cts \subseteq CtsNotifiers
  <2>1. CASE pending /\ evq # <<>>
    <3>1. Head(evq) \in CtsNotifiers
      BY <2>1, TailElements DEF Inv, Typed
    <3>2. QED BY <2>1, <3>1 DEF FirstWaiter
  <2>2. CASE ~(pending /\ evq # <<>>)
    BY <2>2 DEF FirstWaiter
  <2>3. QED BY <2>1, <2>2
<1> HIDE DEF cts
<1>3. Reader \notin cts /\ Reader \in Notifiers
  BY <1>2 DEF CtsNotifiers, Reader, Notifiers
<1>4. Held' = Held
  BY <1>1 DEF Held
<1>5. CASE rx # 0
  <2>1. notifier[Reader] = Await /\ rx = came
    BY <1>5 DEF ReadInv, OneByte
  <2>2. notifier'[Reader] = [at |-> "woken", val |-> rx]
    BY <1>1, <1>3, <1>5, <2>1
  <2>3. \A i \in 1 .. Len(inbox) : inbox[i].type # "READ"
    BY <2>1 DEF ReadInv, OneByte, Await
  <2>4. OneByte'
    BY <1>1, <2>1, <2>2, <2>3 DEF OneByte
  <2>5. Coming' = Coming
    BY <1>1, <1>5, <2>2 DEF Coming
  <2>6. QED BY <1>1, <1>4, <2>4, <2>5, SequenceKept DEF ReadInv
<1>6. CASE rx = 0
  <2>1. notifier'[Reader] = notifier[Reader]
    BY <1>1, <1>3, <1>6
  <2>2. OneByte' /\ Coming' = Coming
    BY <1>1, <1>6, <2>1 DEF ReadInv, OneByte, Coming
  <2>3. QED BY <1>1, <1>4, <2>2, SequenceKept DEF ReadInv
<1>7. QED BY <1>5, <1>6

\* A byte comes, and is the only one that the server has not heard of.
LEMMA ReadComes ==
  ASSUME Inv, ReadInv, Answer
  PROVE  ReadInv'
<1>1. /\ rx = 0 /\ notifier[Reader] = Await /\ came' = came + 1 /\ rx' = came + 1
      /\ UNCHANGED <<inbox, busy, notifier, fifo_read, delivered, waiting_readers>>
  BY DEF Answer, serverVars, kernelVars
<1>2. came \in Nat /\ came + 1 # 0
  BY DEF Inv, Typed
<1>3. \A i \in 1 .. Len(inbox) : inbox[i].type # "READ"
  BY <1>1 DEF ReadInv, OneByte, Await
<1>4. OneByte'
  BY <1>1, <1>2, <1>3 DEF OneByte, Await
<1>5. Held' = Held /\ Held \in Nat /\ Coming = 0 /\ Coming' = 1
  BY <1>1, <1>2 DEF Held, Coming, Await
<1>6. InSequence'
  <2>1. fifo_read \in Seq(Nat) /\ Len(fifo_read) \in Nat /\ delivered \in Nat
        /\ delivered + Len(fifo_read) + Held + Coming = came
    BY DEF ReadInv, InSequence
  <2>2. delivered' + Len(fifo_read') + Held' + Coming' = came'
    BY <1>1, <1>5, <2>1
  <2>3. QED BY <1>1, <2>2 DEF ReadInv, InSequence
<1>7. QED BY <1>4, <1>6 DEF ReadInv

LEMMA StepRead ==
  ASSUME Inv, ReadInv, RoomToRead, [MarklinNext]_marklinVars
  PROVE  ReadInv'
<1>1. ASSUME UNCHANGED <<notifier, rx, came, fifo_read, delivered, waiting_readers>>,
             OneByte', busy' = busy
      PROVE  ReadInv'
  BY <1>1, SequenceKept DEF ReadInv, Held, Coming
<1>2. CASE Server /\ ~HandleCts
  BY <1>2, ReadServed, ReadAnswered, ReadHandled DEF Server
<1>3. CASE HandleCts
  <2>1. /\ busy.type = "CTS" /\ busy' = NoMsg
        /\ UNCHANGED <<inbox, notifier, rx, came, fifo_read, delivered, waiting_readers>>
    BY <1>3 DEF HandleCts, kernelVars
  <2>2. OneByte' /\ Held' = Held /\ Coming' = Coming /\ busy'.type # "READ"
    BY <2>1 DEF ReadInv, OneByte, Held, Coming, NoMsg, Msg
  <2>3. QED BY <2>1, <2>2, SequenceKept DEF ReadInv
<1>4. ASSUME NEW c \in Clients,
             (\E s \in Strings : Puts(c, s)) \/ Getc(c) \/ WaitOutputEmpty(c)
      PROVE  ReadInv'
  <2>1. ASSUME NEW type \in {"PUTS", "GETC", "EMPTY"}, NEW data \in Data, Call(c, type, data)
        PROVE  ReadInv'
    <3>1. Msg(type, c, data) \in Message /\ Msg(type, c, data).type # "READ"
      BY DEF Msg, Message
    <3>2. /\ inbox' = Append(inbox, Msg(type, c, data)) /\ busy' = busy
          /\ UNCHANGED <<notifier, rx, came, fifo_read, delivered, waiting_readers>>
      BY <2>1 DEF Call, serverVars, kernelVars
    <3>3. OneByte'
      BY <3>1, <3>2, OtherJoins DEF ReadInv
    <3>4. QED BY <1>1, <3>2, <3>3
  <2>2. QED BY <1>4, <2>1 DEF Puts, Getc, WaitOutputEmpty, Data
<1>5. CASE \E n \in Notifiers : RunNotifier(n)
  BY <1>5, ReadCarried
<1>6. CASE UartInterrupt \/ Answer
  BY <1>6, ReadInterrupt, ReadComes
<1>7. CASE (\E n \in Notifiers : Preempt(n)) \/ DropCts \/ RaiseCts \/ UNCHANGED marklinVars
  <2>1. UNCHANGED <<inbox, busy, notifier, rx, came, fifo_read, delivered, waiting_readers>>
    BY <1>7 DEF Preempt, DropCts, RaiseCts, ChangeCts, marklinVars, serverVars, kernelVars
  <2>2. OneByte'
    BY <2>1 DEF ReadInv, OneByte
  <2>3. QED BY <1>1, <2>1, <2>2
<1>8. QED BY <1>2, <1>3, <1>4, <1>5, <1>6, <1>7 DEF MarklinNext

\* Bytes from the controller reach the readers in order, none given twice and,
\* while no byte comes to a full queue, none lost.
THEOREM BytesComeInOrder == MarklinSpec /\ []RoomToRead => []ReadInOrder
<1>1. MarklinInit => ReadInv
  <2> SUFFICES ASSUME MarklinInit PROVE ReadInv
    OBVIOUS
  <2>1. /\ inbox = <<>> /\ fifo_read = <<>> /\ notifier[Reader] = Await /\ busy = NoMsg /\ rx = 0
        /\ came = 0 /\ delivered = 0 /\ waiting_readers = <<>>
    BY DEF MarklinInit, Notifiers
  <2>2. OneByte
    BY <2>1 DEF OneByte, Await
  <2>3. Held = 0 /\ Coming = 0
    BY <2>1 DEF Held, Coming, Await, NoMsg, Msg
  <2>4. InSequence
    BY <2>1, <2>3 DEF InSequence, NoMsg, Msg
  <2>5. QED BY <2>2, <2>4 DEF ReadInv
<1>2. Inv /\ [MarklinNext]_marklinVars => Inv'
  BY StepCounted
<1>3. Inv /\ ReadInv /\ RoomToRead /\ [MarklinNext]_marklinVars => ReadInv'
  BY StepRead
<1>4. Inv /\ ReadInv => ReadInOrder
  BY InSequenceInOrder DEF Inv
<1>5. QED BY InitInv, <1>1, <1>2, <1>3, <1>4, PTL DEF MarklinSpec
=============================================================================
