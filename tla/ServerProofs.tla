---------------------------- MODULE ServerProofs ----------------------------
(***************************************************************************)
(* Theorems about two servers. The console server, for any clients, keys   *)
(* and capacities: no key is lost or put out of order on its way from the  *)
(* UART to the tasks that read, unless a full queue dropped one, and no    *)
(* reader is forgotten. The name server, for any names, hash and room, is a *)
(* registry of the last tid of each name.                                  *)
(***************************************************************************)
EXTENDS ConsoleServer, NameServer, ListLemmas, FiniteSetTheorems

-----------------------------------------------------------------------------
(* Spelling                                                                *)

Arrows == {"UP", "DOWN", "RIGHT", "LEFT"}
Bytes == Keys \cup Arrows
Codes == Bytes \cup {"ESC", "[", "A", "B", "C", "D"}

LEMMA SpeltIs ==
  /\ \A c \in Bytes : Spelt(c) \in Seq(Codes) /\ Len(Spelt(c)) >= 1
  /\ \A c \in Bytes \ Arrows : Spelt(c) = <<c>>
  /\ \A k \in DOMAIN ArrowKey : ArrowKey[k] \in Arrows /\ Spelt(ArrowKey[k]) = <<ESC, "[", k>>
<1>1. /\ DOMAIN ArrowKey = {"A", "B", "C", "D"}
      /\ ArrowKey["A"] = "UP" /\ ArrowKey["B"] = "DOWN" /\ ArrowKey["C"] = "RIGHT" /\ ArrowKey["D"] = "LEFT"
  BY DEF ArrowKey
<1>2. ASSUME NEW k \in {"A", "B", "C", "D"} PROVE ArrowKey[k] \in Arrows /\ Spelt(ArrowKey[k]) = <<ESC, "[", k>>
  <2>1. (CHOOSE j \in DOMAIN ArrowKey : ArrowKey[j] = ArrowKey[k]) = k
    BY <1>1
  <2>2. ArrowKey[k] \in Arrows
    BY <1>1 DEF Arrows
  <2>3. QED BY <1>1, <2>1, <2>2 DEF Spelt
<1>3. ASSUME NEW c \in Bytes \ Arrows PROVE Spelt(c) = <<c>>
  <2>1. ~ \E k \in DOMAIN ArrowKey : ArrowKey[k] = c
    BY <1>1 DEF Arrows
  <2>2. QED BY <2>1, Zenon DEF Spelt
<1>4. ASSUME NEW c \in Bytes PROVE Spelt(c) \in Seq(Codes) /\ Len(Spelt(c)) >= 1
  <2>1. CASE c \in Arrows
    <3>1. PICK k \in {"A", "B", "C", "D"} : c = ArrowKey[k]
      BY <1>1, <2>1 DEF Arrows
    <3>2. Spelt(c) = <<ESC, "[", k>> /\ ESC \in Codes /\ "[" \in Codes /\ k \in Codes
      BY <1>2, <3>1 DEF Codes, ESC
    <3>3. QED BY <3>2
  <2>2. CASE c \notin Arrows
    <3>1. Spelt(c) = <<c>> /\ c \in Codes
      BY <1>3, <2>2 DEF Codes
    <3>2. QED BY <3>1
  <2>3. QED BY <2>1, <2>2
<1>5. QED BY <1>1, <1>2, <1>3, <1>4

IsSpell(f, s) == f = [n \in 0 .. Len(s) |-> IF n = 0 THEN <<>> ELSE f[n - 1] \o Spelt(s[n])]

LEMMA SpellStep ==
  ASSUME NEW f, NEW s, IsSpell(f, s), NEW n \in 0 .. Len(s)
  PROVE  f[n] = IF n = 0 THEN <<>> ELSE f[n - 1] \o Spelt(s[n])
  BY Zenon DEF IsSpell

LEMMA SpellExists ==
  ASSUME NEW s \in Seq(Bytes)
  PROVE  \E f \in [0 .. Len(s) -> Seq(Codes)] : IsSpell(f, s)
<1> DEFINE g == [k \in 1 .. Len(s) |-> [x \in Seq(Codes) |-> x \o Spelt(s[k])]]
<1>1. Len(s) \in Nat /\ <<>> \in Seq(Codes) /\ \A k \in 1 .. Len(s) : s[k] \in Bytes
  OBVIOUS
<1>2. \A k \in 1 .. Len(s) : \A x \in Seq(Codes) : x \o Spelt(s[k]) \in Seq(Codes)
  <2> SUFFICES ASSUME NEW k \in 1 .. Len(s), NEW x \in Seq(Codes) PROVE x \o Spelt(s[k]) \in Seq(Codes)
    OBVIOUS
  <2>1. Spelt(s[k]) \in Seq(Codes)
    BY <1>1, SpeltIs
  <2>2. QED BY <2>1, ConcatProperties
<1>3. g \in [1 .. Len(s) -> [Seq(Codes) -> Seq(Codes)]]
  BY <1>2
<1>4. \A k \in 1 .. Len(s) : \A x \in Seq(Codes) : g[k][x] = x \o Spelt(s[k])
  OBVIOUS
<1> HIDE DEF g
<1>5. PICK f : IsLoop(f, Len(s), Seq(Codes), <<>>, g)
  BY <1>1, <1>3, LoopExists
<1>6. /\ f \in [0 .. Len(s) -> Seq(Codes)] /\ f[0] = <<>>
      /\ \A k \in 1 .. Len(s) : f[k] = g[k][f[k - 1]]
  BY <1>5 DEF IsLoop
<1>7. \A n \in 0 .. Len(s) : f[n] = IF n = 0 THEN <<>> ELSE f[n - 1] \o Spelt(s[n])
  <2> SUFFICES ASSUME NEW n \in 0 .. Len(s)
               PROVE  f[n] = IF n = 0 THEN <<>> ELSE f[n - 1] \o Spelt(s[n])
    OBVIOUS
  <2>1. CASE n = 0
    BY <1>6, <2>1
  <2>2. CASE n # 0
    <3>1. n \in 1 .. Len(s) /\ f[n - 1] \in Seq(Codes)
      BY <1>1, <1>6, <2>2
    <3>2. f[n] = g[n][f[n - 1]] /\ g[n][f[n - 1]] = f[n - 1] \o Spelt(s[n])
      BY <1>4, <1>6, <3>1
    <3>3. QED BY <2>2, <3>2
  <2>3. QED BY <2>1, <2>2
<1>8. IsSpell(f, s)
  BY <1>6, <1>7 DEF IsSpell
<1>9. QED BY <1>6, <1>8

\* Two lists that begin alike are spelled alike that far.
LEMMA SpellSame ==
  ASSUME NEW s, NEW t, NEW f, NEW g, IsSpell(f, s), IsSpell(g, t),
         NEW n \in Nat, n <= Len(s), n <= Len(t), Len(s) \in Nat, Len(t) \in Nat,
         \A i \in 1 .. n : s[i] = t[i]
  PROVE  f[n] = g[n]
<1> DEFINE T == {k \in Nat : k <= n /\ f[k] # g[k]}
<1>1. ASSUME NEW k \in 0 .. n
      PROVE  /\ f[k] = IF k = 0 THEN <<>> ELSE f[k - 1] \o Spelt(s[k])
             /\ g[k] = IF k = 0 THEN <<>> ELSE g[k - 1] \o Spelt(t[k])
  <2>1. k \in 0 .. Len(s) /\ k \in 0 .. Len(t)
    OBVIOUS
  <2>2. QED BY <2>1, Zenon DEF IsSpell
<1>2. T = {}
  <2> SUFFICES ASSUME T # {} PROVE FALSE
    OBVIOUS
  <2>1. T \in SUBSET Nat
    OBVIOUS
  <2>2. PICK k \in T : \A j \in T : k <= j
    <3> HIDE DEF T
    <3>1. QED BY <2>1, NatMin
  <2>3. k \in 0 .. n /\ k # 0
    BY <1>1, <2>2
  <2>4. k - 1 \in Nat /\ k - 1 <= n /\ k - 1 \notin T
    BY <2>2, <2>3
  <2>5. f[k - 1] = g[k - 1] /\ s[k] = t[k]
    BY <2>3, <2>4
  <2>6. f[k] = g[k]
    BY <1>1, <2>3, <2>5
  <2>7. QED BY <2>2, <2>6
<1>3. QED BY <1>2

LEMMA SpelledIs ==
  ASSUME NEW s \in Seq(Bytes)
  PROVE  \E f \in [0 .. Len(s) -> Seq(Codes)] : IsSpell(f, s) /\ Spelled(s) = f[Len(s)]
<1>1. PICK h \in [0 .. Len(s) -> Seq(Codes)] : IsSpell(h, s)
  BY SpellExists
<1>2. PICK f : IsSpell(f, s) /\ Spelled(s) = f[Len(s)]
  BY <1>1 DEF Spelled, IsSpell
<1>3. f[Len(s)] = h[Len(s)]
  BY <1>1, <1>2, SpellSame
<1>4. QED BY <1>1, <1>2, <1>3

LEMMA Grows ==
  ASSUME NEW n \in Nat, NEW l \in [0 .. n -> Nat], \A k \in 1 .. n : l[k] > l[k - 1]
  PROVE  l[n] >= n
<1> DEFINE T == {k \in Nat : k <= n /\ l[k] < k}
<1>1. T = {}
  <2> SUFFICES ASSUME T # {} PROVE FALSE
    OBVIOUS
  <2>1. T \in SUBSET Nat
    OBVIOUS
  <2>2. PICK k \in T : \A j \in T : k <= j
    <3> HIDE DEF T
    <3>1. QED BY <2>1, NatMin
  <2>3. k \in 1 .. n /\ l[k] < k /\ l[k] \in Nat /\ l[k - 1] \in Nat
    BY <2>2
  <2>4. k - 1 \notin T
    BY <2>2, <2>3
  <2>5. QED BY <2>3, <2>4
<1>2. n \notin T
  BY <1>1
<1>3. QED BY <1>2

\* What is spelled is a list of codes that is at least as long.
LEMMA SpelledLong ==
  ASSUME NEW s \in Seq(Bytes)
  PROVE  Spelled(s) \in Seq(Codes) /\ Len(Spelled(s)) >= Len(s)
<1> DEFINE n == Len(s)
<1>1. PICK f \in [0 .. n -> Seq(Codes)] : IsSpell(f, s) /\ Spelled(s) = f[n]
  BY SpelledIs
<1>2. n \in Nat /\ \A k \in 0 .. n : f[k] \in Seq(Codes)
  BY <1>1
<1> DEFINE l == [k \in 0 .. n |-> Len(f[k])]
<1>3. l \in [0 .. n -> Nat] /\ l[n] = Len(f[n])
  BY <1>2
<1>4. ASSUME NEW k \in 1 .. n PROVE l[k] > l[k - 1]
  <2> DEFINE x == f[k - 1]
             y == Spelt(s[k])
  <2>1. k \in 0 .. n /\ k - 1 \in 0 .. n /\ k # 0 /\ s[k] \in Bytes
    BY <1>2
  <2>2. f[k] = IF k = 0 THEN <<>> ELSE f[k - 1] \o Spelt(s[k])
    BY <1>1, <2>1, SpellStep
  <2>3. x \in Seq(Codes) /\ y \in Seq(Codes) /\ Len(y) >= 1
    BY <1>2, <2>1, SpeltIs
  <2>4. l[k] = Len(f[k]) /\ l[k - 1] = Len(x) /\ f[k] = x \o y
    BY <2>1, <2>2
  <2> HIDE DEF l, x, y
  <2>5. Len(x \o y) = Len(x) + Len(y)
    BY <2>3, ConcatProperties
  <2>6. Len(x) \in Nat /\ Len(y) \in Nat
    BY <2>3
  <2>7. QED BY <2>3, <2>4, <2>5, <2>6
<1> HIDE DEF l, n
<1>5. l[n] >= n
  BY <1>2, <1>3, <1>4, Grows
<1>6. QED BY <1>1, <1>2, <1>3, <1>5 DEF n

LEMMA SpelledNone == Spelled(<<>>) = <<>>
<1>1. <<>> \in Seq(Bytes) /\ Len(<<>>) = 0
  OBVIOUS
<1>2. PICK f : IsSpell(f, <<>>) /\ Spelled(<<>>) = f[Len(<<>>)]
  BY <1>1, SpelledIs
<1>3. f[0] = <<>>
  BY <1>1, <1>2 DEF IsSpell
<1>4. QED BY <1>1, <1>2, <1>3

LEMMA SpelledAppend ==
  ASSUME NEW s \in Seq(Bytes), NEW c \in Bytes
  PROVE  Spelled(Append(s, c)) = Spelled(s) \o Spelt(c)
<1> DEFINE t == Append(s, c)
           n == Len(s)
<1>1. t \in Seq(Bytes) /\ Len(t) = n + 1 /\ n \in Nat /\ t[n + 1] = c /\ \A i \in 1 .. n : t[i] = s[i]
  OBVIOUS
<1>2. PICK f : IsSpell(f, s) /\ Spelled(s) = f[n]
  BY SpelledIs
<1>3. PICK g : IsSpell(g, t) /\ Spelled(t) = g[Len(t)]
  BY <1>1, SpelledIs
<1> HIDE DEF t, n
<1>4. g[n] = f[n]
  <2>1. n <= Len(s) /\ n <= Len(t) /\ Len(s) \in Nat /\ Len(t) \in Nat
    BY <1>1 DEF n
  <2>2. QED BY <1>1, <1>2, <1>3, <2>1, SpellSame
<1>5. g[n + 1] = g[n] \o Spelt(t[n + 1])
  <2>1. n + 1 \in 0 .. Len(t) /\ n + 1 # 0 /\ n + 1 - 1 = n
    BY <1>1
  <2> DEFINE m == n + 1
  <2>2. m \in 0 .. Len(t) /\ m # 0 /\ m - 1 = n
    BY <1>1
  <2> HIDE DEF m
  <2>3. g[m] = IF m = 0 THEN <<>> ELSE g[m - 1] \o Spelt(t[m])
    BY <1>3, <2>2, SpellStep
  <2>4. g[m] = g[n] \o Spelt(t[m])
    BY <2>2, <2>3
  <2>5. QED BY <2>4 DEF m
<1>6. Spelled(t) = Spelled(s) \o Spelt(c)
  BY <1>1, <1>2, <1>3, <1>4, <1>5
<1>7. QED BY <1>6 DEF t

-----------------------------------------------------------------------------
(* The invariant                                                           *)

Msg == [type : {"READ"}, data : Seq(Bytes)] \cup [type : {"GETC", "PUTS"}, data : Clients]
Notify(m) == m.type = "READ"

Typed ==
  /\ rxfifo \in Seq(Keys) /\ typed \in Seq(Keys)
  /\ buffer \in Seq(Bytes) /\ busy \in Seq(Bytes) /\ fifo_read \in Seq(Bytes) /\ read \in Seq(Bytes)
  /\ notif \in {"drain", "sent", "done", "await"}
  /\ inbox \in Seq(Msg)
  /\ waiting_readers \in Seq(Clients)
  /\ client \in [Clients -> {"run", "GETC", "PUTS"}]

\* The one notification not yet received is what the notifier still has in its
\* buffer; the notifier waits for the answer.
Notified ==
  /\ \A i \in 1 .. Len(inbox) : Notify(inbox[i]) => notif = "sent" /\ inbox[i].data = buffer
  /\ \A i, j \in 1 .. Len(inbox) : Notify(inbox[i]) /\ Notify(inbox[j]) => i = j
  /\ notif = "sent" => \E i \in 1 .. Len(inbox) : Notify(inbox[i])
  /\ notif \in {"done", "await"} => buffer = <<>>

\* A client has one request, which is in the inbox or, a Getc, in waiting_readers.
Requests ==
  /\ \A i \in 1 .. Len(inbox) : ~ Notify(inbox[i]) => client[inbox[i].data] = inbox[i].type
  /\ \A i, j \in 1 .. Len(inbox) :
       ~ Notify(inbox[i]) /\ ~ Notify(inbox[j]) /\ inbox[i].data = inbox[j].data => i = j
  /\ \A i \in 1 .. Len(waiting_readers) : client[waiting_readers[i]] = "GETC"
  /\ \A i, j \in 1 .. Len(waiting_readers) : waiting_readers[i] = waiting_readers[j] => i = j
  /\ \A i \in 1 .. Len(waiting_readers), j \in 1 .. Len(inbox) :
       ~ Notify(inbox[j]) => inbox[j].data # waiting_readers[i]

Known ==
  \A c \in Clients : client[c] = "GETC" =>
    \/ \E i \in 1 .. Len(waiting_readers) : waiting_readers[i] = c
    \/ \E i \in 1 .. Len(inbox) : inbox[i] = [type |-> "GETC", data |-> c]

\* The bytes that were taken from the FIFO, those of a notification that is sent
\* with the notifier's buffer.
Taken == ((read \o fifo_read) \o busy) \o buffer
Kept == dropped \/ typed = Spelled(Taken) \o rxfifo

Inv == Typed /\ Notified /\ Requests /\ Known /\ NoneStarves /\ Kept

-----------------------------------------------------------------------------
(* Lists                                                                   *)

LEMMA BytesAre ==
  /\ Keys \subseteq Bytes /\ Keys \cap Arrows = {} /\ Bytes \subseteq Codes
BY ConsoleAssumption DEF Bytes, Arrows, Codes

LEMMA TakenIs ==
  ASSUME NEW r \in Seq(Bytes), NEW f \in Seq(Bytes), NEW b \in Seq(Bytes), NEW n \in Seq(Bytes)
  PROVE  /\ ((r \o f) \o b) \o n \in Seq(Bytes)
         /\ Len(((r \o f) \o b) \o n) = Len(r) + Len(f) + Len(b) + Len(n)
<1>1. r \o f \in Seq(Bytes) /\ Len(r \o f) = Len(r) + Len(f)
  BY ConcatProperties
<1>2. (r \o f) \o b \in Seq(Bytes) /\ Len((r \o f) \o b) = Len(r \o f) + Len(b)
  BY <1>1, ConcatProperties
<1>3. ((r \o f) \o b) \o n \in Seq(Bytes) /\ Len(((r \o f) \o b) \o n) = Len((r \o f) \o b) + Len(n)
  BY <1>2, ConcatProperties
<1>4. QED BY <1>1, <1>2, <1>3

\* Pushing on a queue that is not full.
LEMMA PushedIs ==
  ASSUME NEW q, NEW x, NEW cap, Len(q) # cap
  PROVE  Pushed(q, x, cap) = Append(q, x)
BY DEF Pushed

\* A reader that is not queued finds room.
LEMMA RoomToWait ==
  ASSUME NEW w \in Seq(Clients), NEW c \in Clients,
         \A i, j \in 1 .. Len(w) : w[i] = w[j] => i = j,
         \A i \in 1 .. Len(w) : w[i] # c
  PROVE  Len(w) < WaitCap
<1> DEFINE others == Clients \ {c}
           n == Len(w)
<1>1. IsFiniteSet(others) /\ Cardinality(others) = Cardinality(Clients) - 1
  BY ConsoleAssumption, FS_RemoveElement
<1>2. Cardinality(Clients) \in Nat /\ Cardinality(others) \in Nat /\ WaitCap \in Nat
      /\ Cardinality(Clients) <= WaitCap
  BY <1>1, ConsoleAssumption, FS_CardinalityType
<1>3. n \in Nat /\ w \in [1 .. n -> others]
  OBVIOUS
<1>4. IsFiniteSet(1 .. n) /\ Cardinality(1 .. n) = n
  <2>1. 1 \in Int /\ n \in Int
    BY <1>3
  <2>2. IsFiniteSet(1 .. n) /\ Cardinality(1 .. n) = IF 1 > n THEN 0 ELSE n - 1 + 1
    BY <2>1, FS_Interval
  <2>3. QED BY <1>3, <2>2
<1> HIDE DEF others
<1>5. w \in Injection(1 .. n, others)
  <2> HIDE DEF n
  <2>1. \A i, j \in 1 .. n : w[i] = w[j] => i = j
    BY DEF n
  <2>2. QED BY <1>3, <2>1 DEF Injection, IsInjective
<1>6. n <= Cardinality(others)
  <2>1. Cardinality(1 .. n) <= Cardinality(others)
    BY <1>1, <1>4, <1>5, FS_Injection
  <2>2. QED BY <1>4, <2>1
<1>7. QED BY <1>1, <1>2, <1>3, <1>6

-----------------------------------------------------------------------------
(* Messages and readers                                                    *)

Requested == Requests /\ Known

LEMMA MsgIs ==
  ASSUME NEW m \in Msg
  PROVE  /\ Notify(m) => m.data \in Seq(Bytes)
         /\ ~ Notify(m) => /\ m.data \in Clients /\ m.type \in {"GETC", "PUTS"}
                           /\ m = [type |-> m.type, data |-> m.data]
BY DEF Msg, Notify

LEMMA SameRequests ==
  ASSUME Requested, UNCHANGED <<inbox, waiting_readers, client>>
  PROVE  Requested'
BY DEF Requested, Requests, Known, Notify

\* A notification goes out.
LEMMA SendsBuffer ==
  ASSUME Typed, Notified, Requested, SendBuffer
  PROVE  inbox' \in Seq(Msg) /\ Notified' /\ Requested'
<1>1. CASE buffer = <<>>
  <2>1. notif = "drain" /\ notif' = "done" /\ UNCHANGED <<inbox, waiting_readers, client, buffer>>
    BY <1>1 DEF SendBuffer
  <2>2. inbox' \in Seq(Msg)
    BY <2>1 DEF Typed
  <2>3. Notified'
    BY <1>1, <2>1 DEF Notified, Notify
  <2>4. QED BY <2>1, <2>2, <2>3, SameRequests
<1>2. CASE buffer # <<>>
  <2> DEFINE m == [type |-> "READ", data |-> buffer]
  <2>1. /\ notif = "drain" /\ notif' = "sent" /\ inbox' = Append(inbox, m)
        /\ UNCHANGED <<waiting_readers, client, buffer>>
    BY <1>2 DEF SendBuffer
  <2>2. m \in Msg /\ Notify(m) /\ m.data = buffer
    BY DEF Typed, Msg, Notify
  <2> HIDE DEF m
  <2>3. /\ inbox' \in Seq(Msg) /\ Len(inbox) \in Nat /\ Len(inbox') = Len(inbox) + 1
        /\ \A i \in 1 .. Len(inbox) : inbox'[i] = inbox[i]
        /\ inbox'[Len(inbox) + 1] = m
    BY <2>1, <2>2, AppendElements DEF Typed
  <2>4. \A i \in 1 .. Len(inbox) : ~ Notify(inbox[i])
    BY <2>1 DEF Notified
  <2>5. \A i \in 1 .. Len(inbox') : /\ Notify(inbox'[i]) => i = Len(inbox) + 1
                                    /\ i # Len(inbox) + 1 => i \in 1 .. Len(inbox) /\ inbox'[i] = inbox[i]
    BY <2>3, <2>4
  <2>6. Notified'
    <3>1. \A i \in 1 .. Len(inbox') : Notify(inbox'[i]) => notif' = "sent" /\ inbox'[i].data = buffer'
      BY <2>1, <2>2, <2>3, <2>5
    <3>2. \A i, j \in 1 .. Len(inbox') : Notify(inbox'[i]) /\ Notify(inbox'[j]) => i = j
      BY <2>5
    <3>3. Len(inbox) + 1 \in 1 .. Len(inbox') /\ Notify(inbox'[Len(inbox) + 1])
      BY <2>2, <2>3
    <3>4. QED BY <2>1, <3>1, <3>2, <3>3 DEF Notified, Notify
  <2>7. Requests'
    BY <2>1, <2>2, <2>3, <2>5 DEF Requested, Requests, Notify
  <2>8. Known'
    <3> SUFFICES ASSUME NEW d \in Clients, client'[d] = "GETC"
                 PROVE  \/ \E i \in 1 .. Len(waiting_readers') : waiting_readers'[i] = d
                        \/ \E i \in 1 .. Len(inbox') : inbox'[i] = [type |-> "GETC", data |-> d]
      BY DEF Known
    <3>1. \/ \E i \in 1 .. Len(waiting_readers) : waiting_readers[i] = d
          \/ \E i \in 1 .. Len(inbox) : inbox[i] = [type |-> "GETC", data |-> d]
      BY <2>1 DEF Requested, Known
    <3>2. QED BY <2>1, <2>3, <3>1
  <2>9. QED BY <2>3, <2>6, <2>7, <2>8 DEF Requested
<1>3. QED BY <1>1, <1>2

\* A client calls.
LEMMA Calls ==
  ASSUME Typed, Notified, Requested, NEW c \in Clients, NEW type \in {"GETC", "PUTS"}, Call(c, type)
  PROVE  inbox' \in Seq(Msg) /\ client' \in [Clients -> {"run", "GETC", "PUTS"}] /\ Notified' /\ Requested'
<1> DEFINE m == [type |-> type, data |-> c]
<1>1. /\ client[c] = "run" /\ client' = [client EXCEPT ![c] = type] /\ inbox' = Append(inbox, m)
      /\ UNCHANGED <<waiting_readers, buffer, notif>>
  BY DEF Call
<1>2. m \in Msg /\ ~ Notify(m) /\ m.data = c /\ m.type = type /\ m = [type |-> type, data |-> c]
  BY DEF Msg, Notify
<1> HIDE DEF m
<1>3. /\ inbox' \in Seq(Msg) /\ Len(inbox) \in Nat /\ Len(inbox') = Len(inbox) + 1
      /\ \A i \in 1 .. Len(inbox) : inbox'[i] = inbox[i]
      /\ inbox'[Len(inbox) + 1] = m
  BY <1>1, <1>2, AppendElements DEF Typed
<1>4. \A i \in 1 .. Len(inbox') : \/ i = Len(inbox) + 1 /\ inbox'[i] = m
                                  \/ i \in 1 .. Len(inbox) /\ inbox'[i] = inbox[i]
  BY <1>3
<1>5. /\ client' \in [Clients -> {"run", "GETC", "PUTS"}] /\ client'[c] = type
      /\ \A d \in Clients : d # c => client'[d] = client[d]
  BY <1>1 DEF Typed
<1>6. \A i \in 1 .. Len(inbox) : ~ Notify(inbox[i]) => /\ inbox[i].data \in Clients /\ inbox[i].data # c
                                                       /\ client[inbox[i].data] = inbox[i].type
  <2> SUFFICES ASSUME NEW i \in 1 .. Len(inbox), ~ Notify(inbox[i])
               PROVE  inbox[i].data \in Clients /\ inbox[i].data # c /\ client[inbox[i].data] = inbox[i].type
    OBVIOUS
  <2>1. inbox[i] \in Msg
    BY DEF Typed
  <2>2. inbox[i].data \in Clients /\ inbox[i].type \in {"GETC", "PUTS"}
    BY <2>1, MsgIs
  <2>3. client[inbox[i].data] = inbox[i].type
    BY DEF Requested, Requests
  <2>4. QED BY <1>1, <2>2, <2>3
<1>7. \A i \in 1 .. Len(waiting_readers) : /\ waiting_readers[i] \in Clients /\ waiting_readers[i] # c
                                           /\ client[waiting_readers[i]] = "GETC"
  <2> SUFFICES ASSUME NEW i \in 1 .. Len(waiting_readers)
               PROVE  /\ waiting_readers[i] \in Clients /\ waiting_readers[i] # c
                      /\ client[waiting_readers[i]] = "GETC"
    OBVIOUS
  <2>1. waiting_readers[i] \in Clients
    BY DEF Typed
  <2>2. client[waiting_readers[i]] = "GETC"
    BY DEF Requested, Requests
  <2>3. QED BY <1>1, <2>1, <2>2
<1>8. Notified'
  <2>1. \A i \in 1 .. Len(inbox') : Notify(inbox'[i]) => i \in 1 .. Len(inbox) /\ inbox'[i] = inbox[i]
    BY <1>2, <1>4
  <2>2. \A i \in 1 .. Len(inbox) : i \in 1 .. Len(inbox') /\ inbox'[i] = inbox[i]
    BY <1>3
  <2>3. \A i \in 1 .. Len(inbox') : Notify(inbox'[i]) => notif' = "sent" /\ inbox'[i].data = buffer'
    BY <1>1, <2>1 DEF Notified
  <2>4. \A i, j \in 1 .. Len(inbox') : Notify(inbox'[i]) /\ Notify(inbox'[j]) => i = j
    BY <2>1 DEF Notified
  <2>5. notif' = "sent" => \E i \in 1 .. Len(inbox') : Notify(inbox'[i])
    BY <1>1, <2>2 DEF Notified
  <2>6. QED BY <1>1, <2>3, <2>4, <2>5 DEF Notified, Notify
<1>9. Requests'
  <2>1. \A i \in 1 .. Len(inbox') : ~ Notify(inbox'[i]) => client'[inbox'[i].data] = inbox'[i].type
    BY <1>2, <1>4, <1>5, <1>6
  <2>2. \A i, j \in 1 .. Len(inbox') :
          ~ Notify(inbox'[i]) /\ ~ Notify(inbox'[j]) /\ inbox'[i].data = inbox'[j].data => i = j
    <3>1. \A i, j \in 1 .. Len(inbox) :
            ~ Notify(inbox[i]) /\ ~ Notify(inbox[j]) /\ inbox[i].data = inbox[j].data => i = j
      BY DEF Requested, Requests
    <3>2. QED BY <1>2, <1>4, <1>6, <3>1
  <2>3. \A i \in 1 .. Len(waiting_readers') : client'[waiting_readers'[i]] = "GETC"
    BY <1>1, <1>5, <1>7
  <2>4. \A i \in 1 .. Len(waiting_readers'), j \in 1 .. Len(inbox') :
          ~ Notify(inbox'[j]) => inbox'[j].data # waiting_readers'[i]
    BY <1>1, <1>2, <1>4, <1>7 DEF Requested, Requests
  <2>5. \A i, j \in 1 .. Len(waiting_readers') : waiting_readers'[i] = waiting_readers'[j] => i = j
    BY <1>1 DEF Requested, Requests
  <2>6. QED BY <2>1, <2>2, <2>3, <2>4, <2>5 DEF Requests, Notify
<1>10. Known'
  <2> SUFFICES ASSUME NEW d \in Clients, client'[d] = "GETC"
               PROVE  \/ \E i \in 1 .. Len(waiting_readers') : waiting_readers'[i] = d
                      \/ \E i \in 1 .. Len(inbox') : inbox'[i] = [type |-> "GETC", data |-> d]
    BY DEF Known
  <2>1. CASE d = c
    BY <1>2, <1>3, <1>5, <2>1
  <2>2. CASE d # c
    <3>1. client[d] = "GETC"
      BY <1>5, <2>2
    <3>2. \/ \E i \in 1 .. Len(waiting_readers) : waiting_readers[i] = d
          \/ \E i \in 1 .. Len(inbox) : inbox[i] = [type |-> "GETC", data |-> d]
      BY <3>1 DEF Requested, Known
    <3>3. QED BY <1>1, <1>3, <3>2
  <2>3. QED BY <2>1, <2>2
<1>11. QED BY <1>3, <1>5, <1>8, <1>9, <1>10 DEF Requested

\* What is received is the first message; the others stay.
LEMMA Receives ==
  ASSUME Typed, NEW type, Received(type)
  PROVE  /\ busy = <<>> /\ inbox' \in Seq(Msg)
         /\ Head(inbox) = inbox[1] /\ inbox[1] \in Msg /\ inbox[1].type = type
         /\ Len(inbox) \in Nat \ {0} /\ Len(inbox') = Len(inbox) - 1
         /\ \A i \in 1 .. Len(inbox') : i + 1 \in 1 .. Len(inbox) /\ inbox'[i] = inbox[i + 1]
         /\ 1 \in 1 .. Len(inbox)
         /\ \A i \in 1 .. Len(inbox) : i # 1 => /\ i - 1 \in 1 .. Len(inbox')
                                                /\ inbox'[i - 1] = inbox[i]
         /\ UNCHANGED <<rxfifo, typed>>
<1>1. inbox # <<>> /\ inbox' = Tail(inbox) /\ busy = <<>> /\ Head(inbox).type = type /\ UNCHANGED <<rxfifo, typed>>
  BY DEF Received
<1>2. /\ Head(inbox) = inbox[1] /\ Head(inbox) \in Msg /\ inbox' \in Seq(Msg)
      /\ Len(inbox) \in Nat \ {0} /\ Len(inbox') = Len(inbox) - 1
      /\ \A i \in 1 .. Len(inbox) - 1 : inbox'[i] = inbox[i + 1]
  BY <1>1, TailElements DEF Typed
<1>3. ASSUME NEW i \in 1 .. Len(inbox') PROVE i + 1 \in 1 .. Len(inbox) /\ inbox'[i] = inbox[i + 1]
  BY <1>2
<1>4. ASSUME NEW i \in 1 .. Len(inbox), i # 1 PROVE i - 1 \in 1 .. Len(inbox') /\ inbox'[i - 1] = inbox[i]
  <2>1. i - 1 \in 1 .. Len(inbox) - 1 /\ (i - 1) + 1 = i
    BY <1>2, <1>4
  <2>2. QED BY <1>2, <2>1
<1>5. QED BY <1>1, <1>2, <1>3, <1>4

\* The notification stays where a request is received.
LEMMA StillNotified ==
  ASSUME Typed, Notified, NEW type, type # "READ", Received(type), UNCHANGED <<buffer, notif>>
  PROVE  Notified'
<1>1. ~ Notify(inbox[1])
  BY Receives DEF Notify
<1>2. \A i \in 1 .. Len(inbox') : Notify(inbox'[i]) => notif' = "sent" /\ inbox'[i].data = buffer'
  BY Receives DEF Notified
<1>3. \A i, j \in 1 .. Len(inbox') : Notify(inbox'[i]) /\ Notify(inbox'[j]) => i = j
  <2> SUFFICES ASSUME NEW i \in 1 .. Len(inbox'), NEW j \in 1 .. Len(inbox'), Notify(inbox'[i]), Notify(inbox'[j])
               PROVE  i = j
    OBVIOUS
  <2>1. i + 1 \in 1 .. Len(inbox) /\ j + 1 \in 1 .. Len(inbox) /\ Notify(inbox[i + 1]) /\ Notify(inbox[j + 1])
    BY Receives
  <2>2. i + 1 = j + 1
    BY <2>1 DEF Notified
  <2>3. QED BY <2>2
<1>4. notif' = "sent" => \E i \in 1 .. Len(inbox') : Notify(inbox'[i])
  BY <1>1, Receives DEF Notified
<1>5. notif' \in {"done", "await"} => buffer' = <<>>
  BY DEF Notified
<1>6. QED BY <1>2, <1>3, <1>4, <1>5 DEF Notified, Notify

\* The client of a received request that is answered has no other.
LEMMA Answers ==
  ASSUME Typed, Requested, NEW type \in {"GETC", "PUTS"}, Received(type),
         client' = [client EXCEPT ![Head(inbox).data] = "run"], UNCHANGED waiting_readers
  PROVE  client' \in [Clients -> {"run", "GETC", "PUTS"}] /\ Requested'
<1> DEFINE c == inbox[1].data
<1>1. ~ Notify(inbox[1]) /\ c \in Clients /\ Head(inbox).data = c /\ client[c] = type
  <2>1. ~ Notify(inbox[1]) /\ inbox[1] \in Msg /\ inbox[1].type = type /\ Head(inbox) = inbox[1]
    BY Receives DEF Notify
  <2>2. c \in Clients
    BY <2>1, MsgIs
  <2>3. client[c] = inbox[1].type
    BY <2>1, Receives DEF Requested, Requests
  <2>4. QED BY <2>1, <2>2, <2>3
<1>2. \A i \in 1 .. Len(inbox) : ~ Notify(inbox[i]) => inbox[i].data \in Clients
  <2> SUFFICES ASSUME NEW i \in 1 .. Len(inbox), ~ Notify(inbox[i]) PROVE inbox[i].data \in Clients
    OBVIOUS
  <2>1. inbox[i] \in Msg
    BY DEF Typed
  <2>2. QED BY <2>1, MsgIs
<1>3. \A i \in 1 .. Len(inbox) : ~ Notify(inbox[i]) /\ i # 1 => inbox[i].data # c
  BY <1>1, Receives DEF Requested, Requests
<1>4. \A i \in 1 .. Len(waiting_readers) : waiting_readers[i] \in Clients /\ waiting_readers[i] # c
  <2> SUFFICES ASSUME NEW i \in 1 .. Len(waiting_readers)
               PROVE  waiting_readers[i] \in Clients /\ waiting_readers[i] # c
    OBVIOUS
  <2>1. waiting_readers[i] \in Clients
    BY DEF Typed
  <2>2. inbox[1].data # waiting_readers[i]
    BY <1>1, Receives DEF Requested, Requests
  <2>3. QED BY <2>1, <2>2
<1> HIDE DEF c
<1>5. /\ client' \in [Clients -> {"run", "GETC", "PUTS"}] /\ client'[c] = "run"
      /\ \A d \in Clients : d # c => client'[d] = client[d]
  BY <1>1 DEF Typed
<1>6. Requests'
  <2>1. ASSUME NEW i \in 1 .. Len(inbox'), ~ Notify(inbox'[i])
        PROVE  client'[inbox'[i].data] = inbox'[i].type
    <3>1. i + 1 \in 1 .. Len(inbox) /\ i + 1 # 1 /\ inbox'[i] = inbox[i + 1]
      BY Receives
    <3>2. inbox'[i].data \in Clients /\ inbox'[i].data # c
      BY <1>2, <1>3, <2>1, <3>1
    <3>3. client[inbox'[i].data] = inbox'[i].type
      BY <2>1, <3>1 DEF Requested, Requests
    <3>4. QED BY <1>5, <3>2, <3>3
  <2>2. ASSUME NEW i \in 1 .. Len(inbox'), NEW j \in 1 .. Len(inbox'),
               ~ Notify(inbox'[i]), ~ Notify(inbox'[j]), inbox'[i].data = inbox'[j].data
        PROVE  i = j
    <3>1. i + 1 \in 1 .. Len(inbox) /\ j + 1 \in 1 .. Len(inbox)
          /\ inbox'[i] = inbox[i + 1] /\ inbox'[j] = inbox[j + 1]
      BY Receives
    <3>2. i + 1 = j + 1
      BY <2>2, <3>1 DEF Requested, Requests
    <3>3. QED BY <3>2
  <2>3. ASSUME NEW i \in 1 .. Len(waiting_readers') PROVE client'[waiting_readers'[i]] = "GETC"
    <3>1. client[waiting_readers[i]] = "GETC"
      BY DEF Requested, Requests
    <3>2. QED BY <1>4, <1>5, <3>1
  <2>4. ASSUME NEW i \in 1 .. Len(waiting_readers'), NEW j \in 1 .. Len(inbox'), ~ Notify(inbox'[j])
        PROVE  inbox'[j].data # waiting_readers'[i]
    <3>1. j + 1 \in 1 .. Len(inbox) /\ inbox'[j] = inbox[j + 1]
      BY Receives
    <3>2. QED BY <2>4, <3>1 DEF Requested, Requests
  <2>5. \A i, j \in 1 .. Len(waiting_readers') : waiting_readers'[i] = waiting_readers'[j] => i = j
    BY DEF Requested, Requests
  <2>6. QED BY <2>1, <2>2, <2>3, <2>4, <2>5 DEF Requests, Notify
<1>7. Known'
  <2> SUFFICES ASSUME NEW d \in Clients, client'[d] = "GETC"
               PROVE  \/ \E i \in 1 .. Len(waiting_readers') : waiting_readers'[i] = d
                      \/ \E i \in 1 .. Len(inbox') : inbox'[i] = [type |-> "GETC", data |-> d]
    BY DEF Known
  <2>1. d # c /\ client[d] = "GETC"
    BY <1>5
  <2>2. CASE \E i \in 1 .. Len(waiting_readers) : waiting_readers[i] = d
    BY <2>2
  <2>3. CASE \E i \in 1 .. Len(inbox) : inbox[i] = [type |-> "GETC", data |-> d]
    <3>1. PICK i \in 1 .. Len(inbox) : inbox[i] = [type |-> "GETC", data |-> d]
      BY <2>3
    <3>2. i # 1
      BY <2>1, <3>1 DEF c
    <3>3. i - 1 \in 1 .. Len(inbox') /\ inbox'[i - 1] = [type |-> "GETC", data |-> d]
      BY <3>1, <3>2, Receives
    <3>4. QED BY <3>3
  <2>4. QED BY <2>1, <2>2, <2>3 DEF Requested, Known
<1>8. QED BY <1>5, <1>6, <1>7 DEF Requested

\* The first message is a Getc that has to wait.
LEMMA Waits ==
  ASSUME Typed, Requested, Received("GETC"),
         waiting_readers' = Pushed(waiting_readers, Head(inbox).data, WaitCap), UNCHANGED client
  PROVE  waiting_readers' \in Seq(Clients) /\ Requested'
<1> DEFINE c == inbox[1].data
           n == Len(waiting_readers)
<1>1. ~ Notify(inbox[1]) /\ c \in Clients /\ Head(inbox).data = c /\ client[c] = "GETC"
      /\ inbox[1] = [type |-> "GETC", data |-> c]
  <2>1. ~ Notify(inbox[1]) /\ inbox[1] \in Msg /\ inbox[1].type = "GETC" /\ Head(inbox) = inbox[1]
    BY Receives DEF Notify
  <2>2. c \in Clients /\ inbox[1] = [type |-> "GETC", data |-> c]
    BY <2>1, MsgIs
  <2>3. client[c] = inbox[1].type
    BY <2>1, Receives DEF Requested, Requests
  <2>4. QED BY <2>1, <2>2, <2>3
<1>2. \A i \in 1 .. n : waiting_readers[i] # c
  BY <1>1, Receives DEF Requested, Requests
<1>3. n < WaitCap
  BY <1>1, <1>2, RoomToWait DEF Typed, Requested, Requests
<1> HIDE DEF c
<1>4. waiting_readers' = Append(waiting_readers, c)
  <2>1. Len(waiting_readers) # WaitCap
    BY <1>3, ConsoleAssumption DEF Typed
  <2>2. QED BY <1>1, <2>1, PushedIs
<1>5. /\ waiting_readers' \in Seq(Clients) /\ n \in Nat /\ Len(waiting_readers') = n + 1
      /\ \A i \in 1 .. n : waiting_readers'[i] = waiting_readers[i]
      /\ waiting_readers'[n + 1] = c
  <2>1. waiting_readers \in Seq(Clients) /\ c \in Clients
    BY <1>1 DEF Typed
  <2> DEFINE q == Append(waiting_readers, c)
  <2>2. /\ q \in Seq(Clients) /\ Len(waiting_readers) \in Nat /\ Len(q) = Len(waiting_readers) + 1
        /\ \A i \in 1 .. Len(waiting_readers) : q[i] = waiting_readers[i]
        /\ q[Len(waiting_readers) + 1] = c
    BY <2>1, AppendElements
  <2>3. waiting_readers' = q
    BY <1>4
  <2> HIDE DEF q
  <2>4. QED BY <2>2, <2>3
<1> HIDE DEF n
<1>6. \A i \in 1 .. Len(waiting_readers') : \/ i = n + 1 /\ waiting_readers'[i] = c
                                            \/ i \in 1 .. n /\ waiting_readers'[i] = waiting_readers[i]
  BY <1>5
<1>7. \A i \in 1 .. Len(inbox') : ~ Notify(inbox'[i]) => inbox'[i].data # c
  <2> SUFFICES ASSUME NEW i \in 1 .. Len(inbox'), ~ Notify(inbox'[i]), inbox'[i].data = c PROVE FALSE
    OBVIOUS
  <2>1. i + 1 \in 1 .. Len(inbox) /\ i + 1 # 1 /\ inbox'[i] = inbox[i + 1] /\ 1 \in 1 .. Len(inbox)
    BY Receives
  <2>2. i + 1 = 1
    BY <1>1, <2>1 DEF Requested, Requests, c
  <2>3. QED BY <2>1, <2>2
<1>8. Requests'
  <2>1. ASSUME NEW i \in 1 .. Len(inbox'), ~ Notify(inbox'[i])
        PROVE  client'[inbox'[i].data] = inbox'[i].type
    BY <2>1, Receives DEF Requested, Requests
  <2>2. ASSUME NEW i \in 1 .. Len(inbox'), NEW j \in 1 .. Len(inbox'),
               ~ Notify(inbox'[i]), ~ Notify(inbox'[j]), inbox'[i].data = inbox'[j].data
        PROVE  i = j
    <3>1. i + 1 \in 1 .. Len(inbox) /\ j + 1 \in 1 .. Len(inbox)
          /\ inbox'[i] = inbox[i + 1] /\ inbox'[j] = inbox[j + 1]
      BY Receives
    <3>2. i + 1 = j + 1
      BY <2>2, <3>1 DEF Requested, Requests
    <3>3. QED BY <3>2
  <2>3. ASSUME NEW i \in 1 .. Len(waiting_readers') PROVE client'[waiting_readers'[i]] = "GETC"
    BY <1>1, <1>6 DEF Requested, Requests, n
  <2>4. ASSUME NEW i \in 1 .. Len(waiting_readers'), NEW j \in 1 .. Len(inbox'), ~ Notify(inbox'[j])
        PROVE  inbox'[j].data # waiting_readers'[i]
    <3>1. j + 1 \in 1 .. Len(inbox) /\ inbox'[j] = inbox[j + 1]
      BY Receives
    <3>2. ~ Notify(inbox[j + 1]) /\ inbox'[j].data # c
      BY <1>7, <2>4, <3>1
    <3>3. CASE i \in 1 .. n /\ waiting_readers'[i] = waiting_readers[i]
      <4>1. inbox[j + 1].data # waiting_readers[i]
        BY <3>1, <3>2, <3>3 DEF Requested, Requests, n
      <4>2. QED BY <3>1, <3>3, <4>1
    <3>4. CASE waiting_readers'[i] = c
      BY <3>2, <3>4
    <3>5. QED BY <1>6, <3>3, <3>4
  <2>5. ASSUME NEW i \in 1 .. Len(waiting_readers'), NEW j \in 1 .. Len(waiting_readers'),
               waiting_readers'[i] = waiting_readers'[j]
        PROVE  i = j
    <3>1. n \in Nat /\ \A k \in 1 .. n : waiting_readers[k] # c /\ k # n + 1
      BY <1>2, <1>5
    <3>2. CASE i \in 1 .. n /\ j \in 1 .. n
      <4>1. i # n + 1 /\ j # n + 1
        BY <3>1, <3>2
      <4>2. waiting_readers'[i] = waiting_readers[i] /\ waiting_readers'[j] = waiting_readers[j]
        BY <1>6, <4>1
      <4>3. waiting_readers[i] = waiting_readers[j]
        BY <2>5, <4>2
      <4>4. QED BY <3>2, <4>3 DEF Requested, Requests, n
    <3>3. ASSUME i \in 1 .. n, j = n + 1 PROVE FALSE
      <4>1. i # n + 1 /\ waiting_readers[i] # c
        BY <3>1, <3>3
      <4>2. waiting_readers'[i] = waiting_readers[i] /\ waiting_readers'[j] = c
        BY <1>5, <1>6, <3>3, <4>1
      <4>3. QED BY <2>5, <4>1, <4>2
    <3>4. ASSUME i = n + 1, j \in 1 .. n PROVE FALSE
      <4>1. j # n + 1 /\ waiting_readers[j] # c
        BY <3>1, <3>4
      <4>2. waiting_readers'[j] = waiting_readers[j] /\ waiting_readers'[i] = c
        BY <1>5, <1>6, <3>4, <4>1
      <4>3. QED BY <2>5, <4>1, <4>2
    <3>5. QED BY <1>6, <3>2, <3>3, <3>4
  <2>6. QED BY <2>1, <2>2, <2>3, <2>4, <2>5 DEF Requests, Notify
<1>9. Known'
  <2> SUFFICES ASSUME NEW d \in Clients, client'[d] = "GETC"
               PROVE  \/ \E i \in 1 .. Len(waiting_readers') : waiting_readers'[i] = d
                      \/ \E i \in 1 .. Len(inbox') : inbox'[i] = [type |-> "GETC", data |-> d]
    BY DEF Known
  <2>1. CASE d = c
    <3>1. n + 1 \in 1 .. Len(waiting_readers')
      BY <1>5
    <3>2. QED BY <1>5, <2>1, <3>1
  <2>2. CASE \E i \in 1 .. Len(waiting_readers) : waiting_readers[i] = d
    BY <1>5, <2>2 DEF n
  <2>3. CASE d # c /\ \E i \in 1 .. Len(inbox) : inbox[i] = [type |-> "GETC", data |-> d]
    <3>1. PICK i \in 1 .. Len(inbox) : inbox[i] = [type |-> "GETC", data |-> d]
      BY <2>3
    <3>2. i # 1
      BY <2>3, <3>1 DEF c
    <3>3. i - 1 \in 1 .. Len(inbox') /\ inbox'[i - 1] = [type |-> "GETC", data |-> d]
      BY <3>1, <3>2, Receives
    <3>4. QED BY <3>3
  <2>4. QED BY <2>1, <2>2, <2>3 DEF Requested, Known
<1>10. QED BY <1>5, <1>8, <1>9 DEF Requested

\* The notification is received: its sender is answered, no client is.
LEMMA AnswersNotifier ==
  ASSUME Typed, Notified, Requested, AnswerNotifier
  PROVE  /\ inbox' \in Seq(Msg) /\ Notified' /\ Requested'
         /\ busy = <<>> /\ busy' = buffer /\ buffer' = <<>> /\ notif' = "done"
         /\ UNCHANGED <<rxfifo, typed, fifo_read, waiting_readers, client, read, dropped>>
<1>1. /\ Received("READ") /\ busy' = Head(inbox).data /\ notif' = "done" /\ buffer' = <<>>
      /\ UNCHANGED <<fifo_read, waiting_readers, client, read, dropped>>
  BY DEF AnswerNotifier
<1>2. Notify(inbox[1]) /\ Head(inbox) = inbox[1]
  BY <1>1, Receives DEF Notify
<1>3. busy' = buffer
  BY <1>1, <1>2, Receives DEF Notified
<1>4. \A i \in 1 .. Len(inbox') : /\ i + 1 \in 1 .. Len(inbox) /\ i + 1 # 1
                                  /\ inbox'[i] = inbox[i + 1] /\ ~ Notify(inbox'[i])
  <2> SUFFICES ASSUME NEW i \in 1 .. Len(inbox')
               PROVE  /\ i + 1 \in 1 .. Len(inbox) /\ i + 1 # 1
                      /\ inbox'[i] = inbox[i + 1] /\ ~ Notify(inbox'[i])
    OBVIOUS
  <2>1. i + 1 \in 1 .. Len(inbox) /\ i + 1 # 1 /\ inbox'[i] = inbox[i + 1] /\ 1 \in 1 .. Len(inbox)
    BY <1>1, Receives
  <2>2. ~ Notify(inbox[i + 1])
    BY <1>2, <2>1 DEF Notified
  <2>3. QED BY <2>1, <2>2
<1>5. Notified'
  BY <1>1, <1>4 DEF Notified, Notify
<1>6. Requests'
  <2>1. ASSUME NEW i \in 1 .. Len(inbox'), ~ Notify(inbox'[i])
        PROVE  client'[inbox'[i].data] = inbox'[i].type
    BY <1>1, <1>4, <2>1 DEF Requested, Requests
  <2>2. ASSUME NEW i \in 1 .. Len(inbox'), NEW j \in 1 .. Len(inbox'),
               ~ Notify(inbox'[i]), ~ Notify(inbox'[j]), inbox'[i].data = inbox'[j].data
        PROVE  i = j
    <3>1. i + 1 \in 1 .. Len(inbox) /\ j + 1 \in 1 .. Len(inbox)
          /\ inbox'[i] = inbox[i + 1] /\ inbox'[j] = inbox[j + 1]
      BY <1>4
    <3>2. i + 1 = j + 1
      BY <2>2, <3>1 DEF Requested, Requests
    <3>3. QED BY <3>2
  <2>3. ASSUME NEW i \in 1 .. Len(waiting_readers'), NEW j \in 1 .. Len(inbox'), ~ Notify(inbox'[j])
        PROVE  inbox'[j].data # waiting_readers'[i]
    BY <1>1, <1>4, <2>3 DEF Requested, Requests
  <2>4. /\ \A i \in 1 .. Len(waiting_readers') : client'[waiting_readers'[i]] = "GETC"
        /\ \A i, j \in 1 .. Len(waiting_readers') : waiting_readers'[i] = waiting_readers'[j] => i = j
    BY <1>1 DEF Requested, Requests
  <2>5. QED BY <2>1, <2>2, <2>3, <2>4 DEF Requests, Notify
<1>7. Known'
  <2> SUFFICES ASSUME NEW d \in Clients, client'[d] = "GETC"
               PROVE  \/ \E i \in 1 .. Len(waiting_readers') : waiting_readers'[i] = d
                      \/ \E i \in 1 .. Len(inbox') : inbox'[i] = [type |-> "GETC", data |-> d]
    BY DEF Known
  <2>1. CASE \E i \in 1 .. Len(waiting_readers) : waiting_readers[i] = d
    BY <1>1, <2>1
  <2>2. CASE \E i \in 1 .. Len(inbox) : inbox[i] = [type |-> "GETC", data |-> d]
    <3>1. PICK i \in 1 .. Len(inbox) : inbox[i] = [type |-> "GETC", data |-> d]
      BY <2>2
    <3>2. i # 1
      BY <1>2, <3>1 DEF Notify
    <3>3. i - 1 \in 1 .. Len(inbox') /\ inbox'[i - 1] = [type |-> "GETC", data |-> d]
      BY <1>1, <3>1, <3>2, Receives
    <3>4. QED BY <3>3
  <2>3. QED BY <1>1, <2>1, <2>2 DEF Requested, Known
<1>8. busy = <<>> /\ inbox' \in Seq(Msg) /\ UNCHANGED <<rxfifo, typed>>
  BY <1>1, Receives
<1>9. QED BY <1>1, <1>3, <1>5, <1>6, <1>7, <1>8 DEF Requested

-----------------------------------------------------------------------------
(* Keys                                                                    *)

LEMMA SubList ==
  ASSUME NEW S, NEW q \in Seq(S), NEW n \in 0 .. Len(q)
  PROVE  /\ SubSeq(q, 1, n) \in Seq(S) /\ SubSeq(q, n + 1, Len(q)) \in Seq(S)
         /\ Len(SubSeq(q, 1, n)) = n /\ Len(SubSeq(q, n + 1, Len(q))) = Len(q) - n
         /\ \A i \in 1 .. n : SubSeq(q, 1, n)[i] = q[i]
         /\ \A i \in 1 .. Len(q) - n : SubSeq(q, n + 1, Len(q))[i] = q[n + i]
         /\ SubSeq(q, 1, n) \o SubSeq(q, n + 1, Len(q)) = q
<1> DEFINE a == SubSeq(q, 1, n)
           b == SubSeq(q, n + 1, Len(q))
<1>1. Len(q) \in Nat /\ n \in Nat /\ n <= Len(q)
  OBVIOUS
<1>2. a \in Seq(S) /\ Len(a) = n /\ \A i \in 1 .. n : a[i] = q[i]
  <2>1. 1 \in 1 .. Len(q) + 1 /\ 1 <= n + 1
    BY <1>1
  <2>2. a \in Seq(S) /\ Len(a) = n - 1 + 1 /\ \A i \in 1 .. n - 1 + 1 : a[i] = q[1 + i - 1]
    BY <2>1, SubSeqElements, Zenon
  <2> HIDE DEF a
  <2>3. QED BY <1>1, <2>2
<1>3. b \in Seq(S) /\ Len(b) = Len(q) - n /\ \A i \in 1 .. Len(q) - n : b[i] = q[n + i]
  <2>1. n + 1 \in 1 .. Len(q) + 1 /\ Len(q) \in 0 .. Len(q) /\ n + 1 <= Len(q) + 1
    BY <1>1
  <2>2. /\ b \in Seq(S) /\ Len(b) = Len(q) - (n + 1) + 1
        /\ \A i \in 1 .. Len(q) - (n + 1) + 1 : b[i] = q[(n + 1) + i - 1]
    BY <2>1, SubSeqElements, Zenon
  <2> HIDE DEF b
  <2>3. Len(q) - (n + 1) + 1 = Len(q) - n
    BY <1>1
  <2>4. ASSUME NEW i \in 1 .. Len(q) - n PROVE b[i] = q[n + i]
    <3>1. (n + 1) + i - 1 = n + i
      BY <1>1
    <3>2. QED BY <2>2, <2>3, <3>1
  <2>5. QED BY <2>2, <2>3, <2>4
<1>4. a \o b = q
  <2> HIDE DEF a, b
  <2>1. /\ a \o b \in Seq(S) /\ Len(a \o b) = Len(a) + Len(b)
        /\ \A i \in 1 .. Len(a) + Len(b) : (a \o b)[i] = IF i <= Len(a) THEN a[i] ELSE b[i - Len(a)]
    BY <1>2, <1>3, ConcatElements, Zenon
  <2> DEFINE c == a \o b
  <2>2. c \in Seq(S) /\ Len(c) = Len(q)
    BY <1>1, <1>2, <1>3, <2>1
  <2>3. ASSUME NEW i \in 1 .. Len(q) PROVE c[i] = q[i]
    <3>1. CASE i <= n
      <4>1. i \in 1 .. Len(a) + Len(b) /\ i <= Len(a) /\ i \in 1 .. n
        BY <1>1, <1>2, <1>3, <3>1
      <4>2. c[i] = a[i]
        BY <2>1, <4>1
      <4>3. QED BY <1>2, <4>1, <4>2
    <3>2. CASE i > n
      <4> DEFINE j == i - n
      <4>1. j \in 1 .. Len(q) - n /\ n + j = i /\ i \in 1 .. Len(a) + Len(b) /\ ~ (i <= Len(a)) /\ i - Len(a) = j
        BY <1>1, <1>2, <1>3, <3>2
      <4> HIDE DEF j
      <4>2. c[i] = b[j]
        BY <2>1, <4>1
      <4>3. QED BY <1>3, <4>1, <4>2
    <3>3. i <= n \/ i > n
      BY <1>1
    <3>4. QED BY <3>1, <3>2, <3>3, Zenon
  <2> HIDE DEF c
  <2>4. c = q
    BY <2>2, <2>3, SeqEqual
  <2>5. QED BY <2>4 DEF c
<1>5. QED BY <1>2, <1>3, <1>4

\* A list is its first element and the others.
LEMMA HeadTailIs ==
  ASSUME NEW S, NEW q \in Seq(S), q # <<>>
  PROVE  <<Head(q)>> \o Tail(q) = q
<1> DEFINE h == Head(q)
           t == Tail(q)
<1>1. /\ h = q[1] /\ h \in S /\ t \in Seq(S) /\ Len(q) \in Nat \ {0} /\ Len(t) = Len(q) - 1
      /\ \A i \in 1 .. Len(q) - 1 : t[i] = q[i + 1]
  BY TailElements
<1> HIDE DEF h, t
<1>2. <<h>> \in Seq(S) /\ Len(<<h>>) = 1 /\ <<h>>[1] = h
  BY <1>1
<1> DEFINE o == <<h>>
           c == o \o t
<1>3. o \in Seq(S) /\ Len(o) = 1 /\ o[1] = h
  BY <1>2
<1> HIDE DEF o
<1>4. /\ c \in Seq(S) /\ Len(c) = Len(o) + Len(t)
      /\ \A i \in 1 .. Len(o) + Len(t) : c[i] = IF i <= Len(o) THEN o[i] ELSE t[i - Len(o)]
  BY <1>1, <1>3, ConcatElements, Zenon
<1> HIDE DEF c
<1>5. ASSUME NEW i \in 1 .. Len(c) PROVE c[i] = q[i]
  <2>1. CASE i = 1
    BY <1>1, <1>3, <1>4, <2>1
  <2>2. CASE i # 1
    <3>1. i - 1 \in 1 .. Len(q) - 1 /\ (i - 1) + 1 = i /\ ~ (i <= Len(o)) /\ i - Len(o) = i - 1
          /\ i \in 1 .. Len(o) + Len(t)
      BY <1>1, <1>3, <1>4, <2>2
    <3>2. c[i] = t[i - 1]
      BY <1>4, <3>1
    <3>3. t[i - 1] = q[i]
      BY <1>1, <3>1
    <3>4. QED BY <3>2, <3>3
  <2>3. QED BY <2>1, <2>2
<1>6. c = q
  <2>1. Len(c) = Len(q)
    BY <1>1, <1>3, <1>4
  <2>2. QED BY <1>4, <1>5, <2>1, SeqEqual
<1>7. QED BY <1>6 DEF c, h, t, o

LEMMA Associates == \A q, r, s \in Seq(Bytes) : (q \o r) \o s = q \o (r \o s)
BY ConcatAssociative

LEMMA ConcatAppend ==
  ASSUME NEW S, NEW q \in Seq(S), NEW r \in Seq(S), NEW e \in S
  PROVE  q \o Append(r, e) = Append(q \o r, e)
<1> DEFINE o == <<e>>
<1>1. o \in Seq(S) /\ q \o r \in Seq(S)
  BY ConcatProperties
<1>2. Append(r, e) = r \o o
  BY AppendIsConcat
<1>3. Append(q \o r, e) = (q \o r) \o o
  BY <1>1, AppendIsConcat
<1> HIDE DEF o
<1>4. (q \o r) \o o = q \o (r \o o)
  BY <1>1, ConcatAssociative
<1>5. QED BY <1>2, <1>3, <1>4

LEMMA ConcatTwo ==
  ASSUME NEW S, NEW q \in Seq(S), NEW x \in S, NEW y \in S
  PROVE  q \o <<x, y>> = Append(Append(q, x), y)
<1> DEFINE o == <<x>>
<1>1. o \in Seq(S) /\ <<x, y>> = Append(o, y)
  OBVIOUS
<1>2. q \o Append(o, y) = Append(q \o o, y)
  <2> HIDE DEF o
  <2>1. QED BY <1>1, ConcatAppend
<1>3. q \o o = Append(q, x)
  BY AppendIsConcat
<1>4. QED BY <1>1, <1>2, <1>3

LEMMA ConcatThree ==
  ASSUME NEW S, NEW q \in Seq(S), NEW x \in S, NEW y \in S, NEW z \in S
  PROVE  ((q \o <<x>>) \o <<y>>) \o <<z>> = q \o <<x, y, z>>
<1> DEFINE o == <<x, y>>
<1>1. o \in Seq(S) /\ <<x, y, z>> = Append(o, z)
  OBVIOUS
<1>2. q \o Append(o, z) = Append(q \o o, z)
  <2> HIDE DEF o
  <2>1. QED BY <1>1, ConcatAppend
<1>3. q \o o = Append(Append(q, x), y)
  BY ConcatTwo
<1> DEFINE p == q \o <<x>>
           r == p \o <<y>>
<1>4. p = Append(q, x) /\ p \in Seq(S)
  BY AppendIsConcat
<1>5. r = Append(p, y) /\ r \in Seq(S)
  <2> HIDE DEF p
  <2>1. QED BY <1>4, AppendIsConcat
<1>6. r \o <<z>> = Append(r, z)
  <2> HIDE DEF r
  <2>1. QED BY <1>5, AppendIsConcat
<1> HIDE DEF p, r, o
<1>7. r \o <<z>> = q \o <<x, y, z>>
  BY <1>1, <1>2, <1>3, <1>4, <1>5, <1>6
<1>8. QED BY <1>7 DEF p, r

\* Keys that are pushed one by one; those for which there is room.
LEMMA PushAllIs ==
  ASSUME NEW q \in Seq(Bytes), NEW s \in Seq(Bytes), NEW cap \in Nat
  PROVE  /\ PushAll(q, s, cap) \in Seq(Bytes)
         /\ Len(q) + Len(s) <= cap => PushAll(q, s, cap) = q \o s
<1>1. q \o s \in Seq(Bytes) /\ Len(q \o s) = Len(q) + Len(s) /\ Len(q) \in Nat /\ Len(s) \in Nat
  BY ConcatProperties
<1>2. CASE Len(q) + Len(s) <= cap
  BY <1>1, <1>2 DEF PushAll
<1>3. CASE ~ (Len(q) + Len(s) <= cap)
  <2>1. cap \in 0 .. Len(q \o s)
    BY <1>1, <1>3
  <2>2. SubSeq(q \o s, 1, cap) \in Seq(Bytes)
    BY <1>1, <2>1, SubList, Zenon
  <2>3. PushAll(q, s, cap) = SubSeq(q \o s, 1, cap)
    BY <1>3 DEF PushAll
  <2>4. QED BY <1>3, <2>2, <2>3
<1>4. QED BY <1>2, <1>3

\* The server hands the keys that it has to the readers that wait.
LEMMA HandlesRead ==
  ASSUME Typed, Requested, HandleRead
  PROVE  /\ busy' = <<>>
         /\ fifo_read' \in Seq(Bytes) /\ read' \in Seq(Bytes) /\ waiting_readers' \in Seq(Clients)
         /\ client' \in [Clients -> {"run", "GETC", "PUTS"}]
         /\ Requested' /\ NoneStarves'
         /\ dropped' \/ (~ dropped /\ read' \o fifo_read' = (read \o fifo_read) \o busy)
         /\ UNCHANGED <<rxfifo, buffer, notif, inbox, typed>>
<1> DEFINE keys == PushAll(fifo_read, busy, ReadCap)
           w == waiting_readers
           n == Answered(Len(w), Len(keys))
           told == Range(SubSeq(w, 1, n))
<1>1. /\ busy' = <<>> /\ fifo_read' = SubSeq(keys, n + 1, Len(keys))
      /\ waiting_readers' = SubSeq(w, n + 1, Len(w))
      /\ client' = [c \in Clients |-> IF c \in told THEN "run" ELSE client[c]]
      /\ read' = read \o SubSeq(keys, 1, n)
      /\ dropped' = (dropped \/ Len(fifo_read) + Len(busy) > ReadCap)
      /\ UNCHANGED <<rxfifo, buffer, notif, inbox, typed>>
  BY DEF HandleRead, StillWaiting
<1>2. /\ keys \in Seq(Bytes)
      /\ Len(fifo_read) + Len(busy) <= ReadCap => keys = fifo_read \o busy
  BY PushAllIs, ConsoleAssumption DEF Typed
<1>3. w \in Seq(Clients) /\ Len(w) \in Nat /\ Len(keys) \in Nat
  BY <1>2 DEF Typed
<1> HIDE DEF keys
<1>4. n \in 0 .. Len(w) /\ n \in 0 .. Len(keys) /\ (n < Len(w) => n = Len(keys))
  BY <1>3 DEF Answered
<1>5. \A c : c \in told <=> \E i \in 1 .. n : w[i] = c
  <2> DEFINE a == SubSeq(w, 1, n)
  <2>1. a \in Seq(Clients) /\ Len(a) = n /\ \A i \in 1 .. n : a[i] = w[i]
    <3> HIDE DEF n
    <3>1. QED BY <1>3, <1>4, SubList, Zenon
  <2> HIDE DEF a, n, w
  <2>2. DOMAIN a = 1 .. n
    BY <2>1
  <2>3. told = {a[i] : i \in 1 .. n}
    BY <2>2 DEF Range, a
  <2> HIDE DEF told
  <2>4. QED BY <2>1, <2>3
<1> HIDE DEF n, told
<1>6. /\ waiting_readers' \in Seq(Clients) /\ Len(waiting_readers') = Len(w) - n
      /\ \A i \in 1 .. Len(w) - n : waiting_readers'[i] = w[n + i]
  <2>1. /\ SubSeq(w, n + 1, Len(w)) \in Seq(Clients) /\ Len(SubSeq(w, n + 1, Len(w))) = Len(w) - n
        /\ \A i \in 1 .. Len(w) - n : SubSeq(w, n + 1, Len(w))[i] = w[n + i]
    BY <1>3, <1>4, SubList, Zenon
  <2>2. QED BY <1>1, <2>1, Zenon
<1> DEFINE a == SubSeq(keys, 1, n)
           b == SubSeq(keys, n + 1, Len(keys))
<1>7. /\ a \in Seq(Bytes) /\ b \in Seq(Bytes) /\ a \o b = keys /\ Len(b) = Len(keys) - n
      /\ fifo_read' = b /\ read' = read \o a
  BY <1>1, <1>2, <1>4, SubList, Zenon
<1> HIDE DEF a, b
<1>8. fifo_read' \in Seq(Bytes) /\ read' \in Seq(Bytes)
  BY <1>7, ConcatProperties DEF Typed
<1>9. dropped' \/ (~ dropped /\ read' \o fifo_read' = (read \o fifo_read) \o busy)
  <2> SUFFICES ASSUME ~ dropped' PROVE ~ dropped /\ read' \o fifo_read' = (read \o fifo_read) \o busy
    OBVIOUS
  <2>1. ~ dropped /\ ~ (Len(fifo_read) + Len(busy) > ReadCap)
    BY <1>1
  <2>2. Len(fifo_read) \in Nat /\ Len(busy) \in Nat /\ ReadCap \in Nat
    BY ConsoleAssumption DEF Typed
  <2>3. keys = fifo_read \o busy
    BY <1>2, <2>1, <2>2
  <2>4. a \o b = fifo_read \o busy
    BY <1>7, <2>3
  <2>5. (read \o a) \o b = (read \o fifo_read) \o busy
    <3>1. a \in Seq(Bytes) /\ b \in Seq(Bytes)
      BY <1>7
    <3>2. read \in Seq(Bytes) /\ fifo_read \in Seq(Bytes) /\ busy \in Seq(Bytes)
      BY DEF Typed
    <3>3. (read \o a) \o b = read \o (a \o b)
      BY <3>1, <3>2, Associates, ZenonT(60)
    <3>4. (read \o fifo_read) \o busy = read \o (fifo_read \o busy)
      BY <3>2, Associates, Zenon
    <3>5. QED BY <2>4, <3>3, <3>4, Zenon
  <2>6. QED BY <1>7, <2>1, <2>5
<1>10. NoneStarves'
  <2> SUFFICES ASSUME waiting_readers' # <<>> PROVE fifo_read' = <<>>
    BY DEF NoneStarves
  <2>1. Len(waiting_readers') > 0
    BY <1>6
  <2>2. Len(b) = 0
    BY <1>3, <1>4, <1>6, <1>7, <2>1
  <2>3. QED BY <1>7, <2>2
<1>11. /\ client' \in [Clients -> {"run", "GETC", "PUTS"}]
       /\ \A c \in Clients : client'[c] = IF c \in told THEN "run" ELSE client[c]
  BY <1>1 DEF Typed
<1>12. \A c \in told : \E i \in 1 .. Len(w) : w[i] = c
  BY <1>3, <1>4, <1>5
<1>13. \A i \in 1 .. Len(inbox) : ~ Notify(inbox[i]) => inbox[i].data \in Clients /\ inbox[i].data \notin told
  <2> SUFFICES ASSUME NEW i \in 1 .. Len(inbox), ~ Notify(inbox[i])
               PROVE  inbox[i].data \in Clients /\ inbox[i].data \notin told
    OBVIOUS
  <2>1. inbox[i] \in Msg
    BY DEF Typed
  <2>2. inbox[i].data \in Clients
    BY <2>1, MsgIs
  <2>3. \A j \in 1 .. Len(w) : inbox[i].data # w[j]
    BY DEF Requested, Requests
  <2>4. QED BY <1>12, <2>2, <2>3
<1>14. ASSUME NEW i \in 1 .. Len(waiting_readers')
       PROVE  /\ n + i \in 1 .. Len(w) /\ waiting_readers'[i] = w[n + i]
              /\ w[n + i] \in Clients /\ w[n + i] \notin told /\ client[w[n + i]] = "GETC"
  <2>1. n + i \in 1 .. Len(w) /\ waiting_readers'[i] = w[n + i] /\ n + i > n
    BY <1>3, <1>4, <1>6
  <2>2. w[n + i] \in Clients
    BY <2>1, <1>3
  <2>3. client[w[n + i]] = "GETC"
    BY <2>1 DEF Requested, Requests
  <2>4. w[n + i] \notin told
    <3> SUFFICES ASSUME NEW j \in 1 .. n, w[j] = w[n + i] PROVE FALSE
      BY <1>5
    <3>1. j \in 1 .. Len(w) /\ j # n + i
      BY <1>3, <1>4, <2>1
    <3>2. QED BY <2>1, <3>1 DEF Requested, Requests
  <2>5. QED BY <2>1, <2>2, <2>3, <2>4
<1>15. Requests'
  <2>1. \A i \in 1 .. Len(inbox') : ~ Notify(inbox'[i]) => client'[inbox'[i].data] = inbox'[i].type
    BY <1>1, <1>11, <1>13 DEF Requested, Requests
  <2>2. \A i, j \in 1 .. Len(inbox') :
          ~ Notify(inbox'[i]) /\ ~ Notify(inbox'[j]) /\ inbox'[i].data = inbox'[j].data => i = j
    BY <1>1 DEF Requested, Requests
  <2>3. ASSUME NEW i \in 1 .. Len(waiting_readers') PROVE client'[waiting_readers'[i]] = "GETC"
    BY <1>11, <1>14
  <2>4. ASSUME NEW i \in 1 .. Len(waiting_readers'), NEW j \in 1 .. Len(waiting_readers'),
               waiting_readers'[i] = waiting_readers'[j]
        PROVE  i = j
    <3>1. w[n + i] = w[n + j] /\ n + i \in 1 .. Len(w) /\ n + j \in 1 .. Len(w)
      BY <1>14, <2>4
    <3>2. n + i = n + j
      BY <3>1 DEF Requested, Requests
    <3>3. QED BY <1>4, <3>2
  <2>5. ASSUME NEW i \in 1 .. Len(waiting_readers'), NEW j \in 1 .. Len(inbox'), ~ Notify(inbox'[j])
        PROVE  inbox'[j].data # waiting_readers'[i]
    <3>1. n + i \in 1 .. Len(w) /\ waiting_readers'[i] = w[n + i]
      BY <1>14
    <3>2. QED BY <1>1, <2>5, <3>1 DEF Requested, Requests
  <2>6. QED BY <2>1, <2>2, <2>3, <2>4, <2>5 DEF Requests, Notify
<1>16. Known'
  <2> SUFFICES ASSUME NEW d \in Clients, client'[d] = "GETC"
               PROVE  \/ \E i \in 1 .. Len(waiting_readers') : waiting_readers'[i] = d
                      \/ \E i \in 1 .. Len(inbox') : inbox'[i] = [type |-> "GETC", data |-> d]
    BY DEF Known
  <2>1. d \notin told /\ client[d] = "GETC"
    BY <1>11
  <2>2. CASE \E i \in 1 .. Len(w) : w[i] = d
    <3>1. PICK i \in 1 .. Len(w) : w[i] = d
      BY <2>2
    <3>2. i \notin 1 .. n
      BY <1>5, <2>1, <3>1
    <3> DEFINE j == i - n
    <3>3. j \in 1 .. Len(w) - n /\ n + j = i
      BY <1>3, <1>4, <3>2
    <3> HIDE DEF j
    <3>4. j \in 1 .. Len(waiting_readers') /\ waiting_readers'[j] = d
      BY <1>6, <3>1, <3>3
    <3>5. QED BY <3>4
  <2>3. CASE \E i \in 1 .. Len(inbox) : inbox[i] = [type |-> "GETC", data |-> d]
    BY <1>1, <2>3
  <2>4. QED BY <2>1, <2>2, <2>3 DEF Requested, Known
<1>17. QED BY <1>1, <1>6, <1>8, <1>9, <1>10, <1>11, <1>15, <1>16 DEF Requested

\* A request for a key is answered, or its client waits.
LEMMA ServesGetc ==
  ASSUME Typed, Notified, Requested, NoneStarves, ServeGetc
  PROVE  /\ busy = <<>> /\ fifo_read' \in Seq(Bytes) /\ read' \in Seq(Bytes)
         /\ waiting_readers' \in Seq(Clients) /\ client' \in [Clients -> {"run", "GETC", "PUTS"}]
         /\ inbox' \in Seq(Msg) /\ Notified' /\ Requested' /\ NoneStarves'
         /\ read' \o fifo_read' = read \o fifo_read
         /\ UNCHANGED <<rxfifo, typed, buffer, notif, busy, dropped>>
<1>1. Received("GETC") /\ UNCHANGED <<buffer, notif, busy, dropped>>
  BY DEF ServeGetc
<1>2. busy = <<>> /\ inbox' \in Seq(Msg) /\ Notified' /\ UNCHANGED <<rxfifo, typed>>
  BY <1>1, Receives, StillNotified
<1>3. CASE fifo_read = <<>>
  <2>1. /\ waiting_readers' = Pushed(waiting_readers, Head(inbox).data, WaitCap)
        /\ UNCHANGED <<fifo_read, client, read>>
    BY <1>3 DEF ServeGetc
  <2>2. waiting_readers' \in Seq(Clients) /\ Requested'
    BY <1>1, <2>1, Waits
  <2>3. NoneStarves'
    BY <1>3, <2>1 DEF NoneStarves
  <2>4. QED BY <1>1, <1>2, <2>1, <2>2, <2>3 DEF Typed
<1>4. CASE fifo_read # <<>>
  <2>1. /\ fifo_read' = Tail(fifo_read) /\ client' = [client EXCEPT ![Head(inbox).data] = "run"]
        /\ read' = Append(read, Head(fifo_read)) /\ UNCHANGED waiting_readers
    BY <1>4 DEF ServeGetc
  <2>2. client' \in [Clients -> {"run", "GETC", "PUTS"}] /\ Requested'
    BY <1>1, <2>1, Answers
  <2>3. NoneStarves'
    BY <1>4, <2>1 DEF NoneStarves
  <2> DEFINE h == Head(fifo_read)
             t == Tail(fifo_read)
  <2>4. fifo_read \in Seq(Bytes) /\ read \in Seq(Bytes)
    BY DEF Typed
  <2>5. h \in Bytes /\ t \in Seq(Bytes)
    BY <1>4, <2>4, TailElements, Zenon
  <2>6. Append(read, h) \in Seq(Bytes) /\ Append(read, h) = read \o <<h>> /\ <<h>> \o t = fifo_read
    <3>1. <<h>> \o t = fifo_read
      BY <1>4, <2>4, HeadTailIs, Zenon
    <3> HIDE DEF h, t
    <3>2. Append(read, h) = read \o <<h>>
      BY <2>4, <2>5, AppendIsConcat, Zenon
    <3>3. Append(read, h) \in Seq(Bytes)
      BY <2>4, <2>5
    <3>4. QED BY <3>1, <3>2, <3>3
  <2> HIDE DEF h, t
  <2>7. (read \o <<h>>) \o t = read \o (<<h>> \o t)
    <3>1. <<h>> \in Seq(Bytes)
      BY <2>5
    <3>2. QED BY <2>4, <2>5, <3>1, ConcatAssociative
  <2>8. read' = Append(read, h) /\ fifo_read' = t
    BY <2>1 DEF h, t
  <2>9. read' \o fifo_read' = read \o fifo_read
    BY <2>6, <2>7, <2>8
  <2>10. QED BY <1>1, <1>2, <2>1, <2>2, <2>3, <2>5, <2>6, <2>8, <2>9 DEF Typed
<1>5. QED BY <1>3, <1>4

\* Taking a byte from the FIFO into the buffer keeps what the bytes spell: the
\* third byte of an arrow key makes one of all three.
LEMMA BufferedSpells ==
  ASSUME NEW t \in Seq(Bytes), NEW b \in Seq(Bytes), NEW k \in Keys
  PROVE  /\ Buffered(b, k) \in Seq(Bytes)
         /\ Spelled(t \o Buffered(b, k)) = Spelled(t \o b) \o <<k>>
<1>1. k \in Bytes /\ k \notin Arrows /\ Spelt(k) = <<k>>
  BY BytesAre, SpeltIs
<1>2. t \o b \in Seq(Bytes)
  BY ConcatProperties
<1>3. CASE ~ (k \in DOMAIN ArrowKey /\ EndsWith(b, <<ESC, "[">>))
  <2>1. Buffered(b, k) = Append(b, k) /\ Append(b, k) \in Seq(Bytes)
    BY <1>1, <1>3 DEF Buffered
  <2>2. t \o Append(b, k) = Append(t \o b, k)
    BY <1>1, ConcatAppend
  <2>3. QED BY <1>1, <1>2, <2>1, <2>2, SpelledAppend
<1>4. CASE k \in DOMAIN ArrowKey /\ EndsWith(b, <<ESC, "[">>)
  <2> DEFINE n == Len(b)
             f == SubSeq(b, 1, n - 2)
             g == SubSeq(b, n - 1, n)
             a == ArrowKey[k]
  <2>1. n \in Nat /\ n >= 2 /\ g = <<ESC, "[">>
    <3>1. Len(<<ESC, "[">>) = 2
      OBVIOUS
    <3>2. n - 2 + 1 = n - 1
      OBVIOUS
    <3>3. QED BY <1>4, <3>1, <3>2 DEF EndsWith
  <2>2. Buffered(b, k) = Append(f, a)
    BY <1>4 DEF Buffered
  <2>3. a \in Bytes /\ Spelt(a) = <<ESC, "[", k>>
    BY <1>4, SpeltIs DEF Bytes
  <2>4. f \in Seq(Bytes) /\ g \in Seq(Bytes) /\ b = f \o g /\ Len(g) = 2
    <3>1. n - 2 \in 0 .. Len(b) /\ (n - 2) + 1 = n - 1 /\ Len(b) - (n - 2) = 2
      BY <2>1
    <3>2. /\ SubSeq(b, 1, n - 2) \in Seq(Bytes) /\ SubSeq(b, n - 2 + 1, Len(b)) \in Seq(Bytes)
          /\ Len(SubSeq(b, n - 2 + 1, Len(b))) = Len(b) - (n - 2)
          /\ SubSeq(b, 1, n - 2) \o SubSeq(b, n - 2 + 1, Len(b)) = b
      BY <3>1, SubList, Zenon
    <3>3. QED BY <3>1, <3>2
  <2> HIDE DEF f, g, a, n
  <2>5. ESC \in Bytes /\ "[" \in Bytes /\ ESC \notin Arrows /\ "[" \notin Arrows
    <3>1. g[1] \in Bytes /\ g[2] \in Bytes
      <4>1. 1 \in 1 .. Len(g) /\ 2 \in 1 .. Len(g) /\ g \in Seq(Bytes)
        BY <2>4
      <4>2. QED BY <4>1, ElementOfSeq
    <3>2. g[1] = ESC /\ g[2] = "["
      BY <2>1
    <3>3. QED BY <3>1, <3>2 DEF ESC, Arrows
  <2>6. b = Append(Append(f, ESC), "[")
    BY <2>1, <2>4, <2>5, ConcatTwo
  <2> DEFINE u == t \o f
             v == Spelled(u)
  <2>7. u \in Seq(Bytes) /\ v \in Seq(Codes) /\ Append(u, ESC) \in Seq(Bytes)
    <3>1. u \in Seq(Bytes)
      BY <2>4, ConcatProperties
    <3> HIDE DEF u
    <3>2. Spelled(u) \in Seq(Codes)
      BY <3>1, SpelledLong
    <3>3. Append(u, ESC) \in Seq(Bytes)
      BY <2>5, <3>1
    <3>4. QED BY <3>1, <3>2, <3>3
  <2>8. t \o b = Append(Append(u, ESC), "[")
    <3>1. Append(f, ESC) \in Seq(Bytes)
      BY <2>4, <2>5
    <3>2. t \o Append(Append(f, ESC), "[") = Append(t \o Append(f, ESC), "[")
      BY <2>5, <3>1, ConcatAppend
    <3>3. t \o Append(f, ESC) = Append(u, ESC)
      BY <2>4, <2>5, ConcatAppend
    <3>4. QED BY <2>6, <3>2, <3>3
  <2>9. Spelled(t \o Append(f, a)) = v \o <<ESC, "[", k>>
    <3>1. t \o Append(f, a) = Append(u, a)
      BY <2>3, <2>4, ConcatAppend
    <3>2. QED BY <2>3, <2>7, <3>1, SpelledAppend
  <2>10. Spelled(t \o b) = (v \o <<ESC>>) \o <<"[">>
    <3>1. Spelled(Append(Append(u, ESC), "[")) = Spelled(Append(u, ESC)) \o Spelt("[")
      BY <2>5, <2>7, SpelledAppend
    <3>2. Spelled(Append(u, ESC)) = v \o Spelt(ESC)
      BY <2>5, <2>7, SpelledAppend
    <3>3. Spelt(ESC) = <<ESC>> /\ Spelt("[") = <<"[">>
      BY <2>5, SpeltIs
    <3>4. QED BY <2>8, <3>1, <3>2, <3>3
  <2> HIDE DEF u, v
  <2>11. ((v \o <<ESC>>) \o <<"[">>) \o <<k>> = v \o <<ESC, "[", k>>
    <3>1. ESC \in Codes /\ "[" \in Codes /\ k \in Codes
      BY <1>1, <2>5, BytesAre
    <3>2. QED BY <2>7, <3>1, ConcatThree
  <2>12. Buffered(b, k) \in Seq(Bytes)
    BY <2>2, <2>3, <2>4
  <2>13. QED BY <2>2, <2>9, <2>10, <2>11, <2>12
<1>5. QED BY <1>3, <1>4

-----------------------------------------------------------------------------
(* Steps                                                                   *)

\* What is taken stays the same list if its parts only move on.
LEMMA KeptStays ==
  ASSUME Typed, Kept, UNCHANGED <<typed, rxfifo>>,
         dropped' \/ (~ dropped /\ Taken' = Taken)
  PROVE  Kept'
<1> SUFFICES ASSUME ~ dropped' PROVE typed' = Spelled(Taken') \o rxfifo'
  BY DEF Kept
<1>1. ~ dropped /\ Taken' = Taken
  OBVIOUS
<1>2. typed = Spelled(Taken) \o rxfifo
  BY <1>1 DEF Kept
<1> DEFINE t == Taken
<1>3. Taken' = t /\ typed' = typed /\ rxfifo' = rxfifo /\ typed = Spelled(t) \o rxfifo
  BY <1>1, <1>2
<1> HIDE DEF t
<1>4. QED BY <1>3

\* A byte comes.
LEMMA TypesKey ==
  ASSUME Typed, Kept, NEW k \in Keys, Type(k)
  PROVE  rxfifo' \in Seq(Keys) /\ typed' \in Seq(Keys) /\ Kept'
<1>1. /\ typed' = Append(typed, k) /\ rxfifo' = Pushed(rxfifo, k, FifoDepth)
      /\ dropped' = (dropped \/ Len(rxfifo) = FifoDepth)
      /\ UNCHANGED <<read, fifo_read, busy, buffer>>
  BY DEF Type
<1>2. rxfifo' \in Seq(Keys) /\ typed' \in Seq(Keys)
  BY <1>1 DEF Typed, Pushed
<1>3. Kept'
  <2> SUFFICES ASSUME ~ dropped' PROVE typed' = Spelled(Taken') \o rxfifo'
    BY DEF Kept
  <2> DEFINE t == Spelled(Taken)
  <2>1. typed = t \o rxfifo /\ Len(rxfifo) # FifoDepth
    BY <1>1 DEF Kept
  <2>2. rxfifo' = Append(rxfifo, k)
    BY <1>1, <2>1, PushedIs
  <2>3. t \in Seq(Codes)
    <3>1. Taken \in Seq(Bytes)
      BY TakenIs DEF Typed, Taken
    <3>2. QED BY <3>1, SpelledLong
  <2>4. Spelled(Taken') = t
    BY <1>1 DEF Taken
  <2> HIDE DEF t
  <2>5. t \o Append(rxfifo, k) = Append(t \o rxfifo, k)
    <3>1. rxfifo \in Seq(Codes) /\ k \in Codes
      BY BytesAre, SeqMonotonic DEF Typed
    <3>2. QED BY <2>3, <3>1, ConcatAppend
  <2>6. QED BY <1>1, <2>1, <2>2, <2>4, <2>5
<1>4. QED BY <1>2, <1>3

\* The notifier takes a byte.
LEMMA Drains ==
  ASSUME Typed, Kept, Drain
  PROVE  rxfifo' \in Seq(Keys) /\ buffer' \in Seq(Bytes) /\ Kept'
<1> DEFINE k == Head(rxfifo)
           r == Tail(rxfifo)
           u == (read \o fifo_read) \o busy
<1>1. /\ rxfifo # <<>> /\ buffer' = Buffered(buffer, k) /\ rxfifo' = r
      /\ UNCHANGED <<typed, read, fifo_read, busy, dropped>>
  BY DEF Drain
<1>2. rxfifo \in Seq(Keys) /\ buffer \in Seq(Bytes)
  BY DEF Typed
<1>3. k \in Keys /\ r \in Seq(Keys)
  BY <1>1, <1>2, TailElements, Zenon
<1>4. <<k>> \o r = rxfifo
  BY <1>1, <1>2, HeadTailIs, Zenon
<1>5. u \in Seq(Bytes)
  <2>1. read \in Seq(Bytes) /\ fifo_read \in Seq(Bytes) /\ busy \in Seq(Bytes)
    BY DEF Typed
  <2>2. read \o fifo_read \in Seq(Bytes)
    BY <2>1, ConcatProperties
  <2>3. QED BY <2>1, <2>2, ConcatProperties
<1>6. u' = u /\ Taken = u \o buffer /\ Taken' = u' \o buffer'
  BY <1>1 DEF Taken
<1> HIDE DEF k, r, u
<1>7. /\ Buffered(buffer, k) \in Seq(Bytes)
      /\ Spelled(u \o Buffered(buffer, k)) = Spelled(u \o buffer) \o <<k>>
  BY <1>2, <1>3, <1>5, BufferedSpells
<1>8. Kept'
  <2> SUFFICES ASSUME ~ dropped' PROVE typed' = Spelled(Taken') \o rxfifo'
    BY DEF Kept
  <2> DEFINE t == Spelled(u \o buffer)
  <2>1. t \in Seq(Codes)
    <3>1. u \o buffer \in Seq(Bytes)
      BY <1>2, <1>5, ConcatProperties
    <3>2. QED BY <3>1, SpelledLong
  <2>2. typed = t \o rxfifo
    BY <1>1, <1>6 DEF Kept
  <2>3. Spelled(Taken') = t \o <<k>>
    BY <1>1, <1>6, <1>7
  <2> HIDE DEF t
  <2>4. (t \o <<k>>) \o r = t \o (<<k>> \o r)
    <3>1. k \in Codes /\ r \in Seq(Codes)
      BY <1>3, BytesAre, SeqMonotonic
    <3> DEFINE o == <<k>>
    <3>2. o \in Seq(Codes)
      BY <3>1
    <3> HIDE DEF o
    <3>3. (t \o o) \o r = t \o (o \o r)
      BY <2>1, <3>1, <3>2, ConcatAssociative
    <3>4. QED BY <3>3 DEF o
  <2>5. QED BY <1>1, <1>4, <2>2, <2>3, <2>4
<1>9. QED BY <1>1, <1>3, <1>7, <1>8

LEMMA InvInit == ConsoleInit => Inv
<1> SUFFICES ASSUME ConsoleInit PROVE Inv
  OBVIOUS
<1> USE DEF ConsoleInit
<1>1. Typed
  BY DEF Typed
<1>2. Notified /\ Requests /\ Known /\ NoneStarves
  BY DEF Notified, Requests, Known, NoneStarves
<1>3. Kept
  <2>1. Taken = <<>>
    BY DEF Taken
  <2>2. Spelled(Taken) \o <<>> = <<>>
    BY <2>1, SpelledNone
  <2>3. QED BY <2>2 DEF Kept
<1>4. QED BY <1>1, <1>2, <1>3 DEF Inv

LEMMA InvStep == Inv /\ [ConsoleNext]_consoleVars => Inv'
<1> SUFFICES ASSUME Inv, [ConsoleNext]_consoleVars PROVE Inv'
  OBVIOUS
<1>1. Typed /\ Notified /\ Requested /\ NoneStarves /\ Kept
  BY DEF Inv, Requested
<1> SUFFICES Typed' /\ Notified' /\ Requested' /\ NoneStarves' /\ Kept'
  BY DEF Inv, Requested
<1>2. ASSUME NEW k \in Keys, Type(k) PROVE Typed' /\ Notified' /\ Requested' /\ NoneStarves' /\ Kept'
  <2>1. UNCHANGED <<buffer, notif, inbox, busy, fifo_read, waiting_readers, client, read>>
    BY <1>2 DEF Type
  <2>2. Typed' /\ Kept'
    BY <1>1, <1>2, <2>1, TypesKey DEF Typed
  <2>3. Notified' /\ NoneStarves'
    BY <1>1, <2>1 DEF Notified, Notify, NoneStarves
  <2>4. QED BY <1>1, <2>1, <2>2, <2>3, SameRequests
<1>3. CASE ReceiveTimeout
  <2>1. UNCHANGED <<rxfifo, buffer, notif, inbox, busy, fifo_read, waiting_readers, client, typed, read, dropped>>
    BY <1>3 DEF ReceiveTimeout
  <2>2. Typed' /\ Notified' /\ NoneStarves'
    BY <1>1, <2>1 DEF Typed, Notified, Notify, NoneStarves
  <2>3. Taken' = Taken
    BY <2>1 DEF Taken
  <2>4. Kept'
    BY <1>1, <2>1, <2>3 DEF Kept
  <2>5. QED BY <1>1, <2>1, <2>2, <2>4, SameRequests
<1>4. CASE Interrupt
  <2>1. /\ notif' = IF notif = "await" THEN "drain" ELSE notif
        /\ UNCHANGED <<rxfifo, buffer, inbox, busy, fifo_read, waiting_readers, client, typed, read, dropped>>
    BY <1>4 DEF Interrupt
  <2>2. Typed' /\ Notified' /\ NoneStarves'
    BY <1>1, <2>1 DEF Typed, Notified, Notify, NoneStarves
  <2>3. Taken' = Taken
    BY <2>1 DEF Taken
  <2>4. Kept'
    BY <1>1, <2>1, <2>3 DEF Kept
  <2>5. QED BY <1>1, <2>1, <2>2, <2>4, SameRequests
<1>5. CASE Drain
  <2>1. notif = "drain" /\ UNCHANGED <<notif, inbox, busy, fifo_read, waiting_readers, client, typed, read>>
    BY <1>5 DEF Drain
  <2>2. Typed' /\ Kept'
    BY <1>1, <1>5, <2>1, Drains DEF Typed
  <2>3. Notified' /\ NoneStarves'
    BY <1>1, <2>1 DEF Notified, Notify, NoneStarves
  <2>4. QED BY <1>1, <2>1, <2>2, <2>3, SameRequests
<1>6. CASE SendBuffer
  <2>1. /\ notif' \in {"done", "sent"}
        /\ UNCHANGED <<rxfifo, buffer, busy, fifo_read, waiting_readers, client, typed, read, dropped>>
    BY <1>6 DEF SendBuffer
  <2>2. inbox' \in Seq(Msg) /\ Notified' /\ Requested'
    BY <1>1, <1>6, SendsBuffer
  <2>3. Typed' /\ NoneStarves'
    BY <1>1, <2>1, <2>2 DEF Typed, NoneStarves
  <2>4. Taken' = Taken
    BY <2>1 DEF Taken
  <2>5. Kept'
    BY <1>1, <2>1, <2>4 DEF Kept
  <2>6. QED BY <2>2, <2>3, <2>5
<1>7. CASE AwaitRx
  <2>1. /\ notif = "done" /\ notif' = "await"
        /\ UNCHANGED <<rxfifo, buffer, inbox, busy, fifo_read, waiting_readers, client, typed, read, dropped>>
    BY <1>7 DEF AwaitRx
  <2>2. Typed' /\ Notified' /\ NoneStarves'
    BY <1>1, <2>1 DEF Typed, Notified, Notify, NoneStarves
  <2>3. Taken' = Taken
    BY <2>1 DEF Taken
  <2>4. Kept'
    BY <1>1, <2>1, <2>3 DEF Kept
  <2>5. QED BY <1>1, <2>1, <2>2, <2>4, SameRequests
<1>8. ASSUME NEW c \in Clients, NEW type \in {"GETC", "PUTS"}, Call(c, type)
      PROVE  Typed' /\ Notified' /\ Requested' /\ NoneStarves' /\ Kept'
  <2>1. UNCHANGED <<rxfifo, buffer, notif, busy, fifo_read, waiting_readers, typed, read, dropped>>
    BY <1>8 DEF Call
  <2>2. inbox' \in Seq(Msg) /\ client' \in [Clients -> {"run", "GETC", "PUTS"}] /\ Notified' /\ Requested'
    BY <1>1, <1>8, Calls
  <2>3. Typed' /\ NoneStarves'
    BY <1>1, <2>1, <2>2 DEF Typed, NoneStarves
  <2>4. Taken' = Taken
    BY <2>1 DEF Taken
  <2>5. Kept'
    BY <1>1, <2>1, <2>4 DEF Kept
  <2>6. QED BY <2>2, <2>3, <2>5
<1>9. CASE ServeGetc
  <2>1. /\ fifo_read' \in Seq(Bytes) /\ read' \in Seq(Bytes)
        /\ waiting_readers' \in Seq(Clients) /\ client' \in [Clients -> {"run", "GETC", "PUTS"}]
        /\ inbox' \in Seq(Msg) /\ Notified' /\ Requested' /\ NoneStarves'
        /\ read' \o fifo_read' = read \o fifo_read
        /\ UNCHANGED <<rxfifo, typed, buffer, notif, busy, dropped>>
    BY <1>1, <1>9, ServesGetc
  <2>2. Typed'
    BY <1>1, <2>1 DEF Typed
  <2>3. Taken' = Taken
    BY <2>1 DEF Taken
  <2>4. Kept'
    BY <1>1, <2>1, <2>3 DEF Kept
  <2>5. QED BY <2>1, <2>2, <2>4
<1>10. CASE ServePuts
  <2>1. /\ Received("PUTS") /\ client' = [client EXCEPT ![Head(inbox).data] = "run"]
        /\ UNCHANGED <<buffer, notif, busy, fifo_read, waiting_readers, read, dropped>>
    BY <1>10 DEF ServePuts
  <2>2. client' \in [Clients -> {"run", "GETC", "PUTS"}] /\ Requested'
    BY <1>1, <2>1, Answers
  <2>3. inbox' \in Seq(Msg) /\ Notified' /\ UNCHANGED <<rxfifo, typed>>
    BY <1>1, <2>1, Receives, StillNotified
  <2>4. Typed' /\ NoneStarves'
    BY <1>1, <2>1, <2>2, <2>3 DEF Typed, NoneStarves
  <2>5. Taken' = Taken
    BY <2>1 DEF Taken
  <2>6. Kept'
    BY <1>1, <2>1, <2>3, <2>5 DEF Kept
  <2>7. QED BY <2>2, <2>3, <2>4, <2>6
<1>11. CASE AnswerNotifier
  <2>1. /\ inbox' \in Seq(Msg) /\ Notified' /\ Requested'
        /\ busy = <<>> /\ busy' = buffer /\ buffer' = <<>> /\ notif' = "done"
        /\ UNCHANGED <<rxfifo, typed, fifo_read, waiting_readers, client, read, dropped>>
    BY <1>1, <1>11, AnswersNotifier
  <2>2. Typed' /\ NoneStarves'
    BY <1>1, <2>1 DEF Typed, NoneStarves
  <2>3. Taken' = Taken
    <3> DEFINE u == read \o fifo_read
    <3>1. u \in Seq(Bytes) /\ buffer \in Seq(Bytes) /\ u' = u
      <4>1. read \in Seq(Bytes) /\ fifo_read \in Seq(Bytes) /\ buffer \in Seq(Bytes)
        BY <1>1 DEF Typed
      <4>2. QED BY <2>1, <4>1, ConcatProperties
    <3>2. Taken = (u \o <<>>) \o buffer /\ Taken' = (u' \o buffer) \o <<>>
      BY <2>1 DEF Taken
    <3> HIDE DEF u
    <3>3. u \o <<>> = u /\ u \o buffer \in Seq(Bytes)
      BY <3>1, ConcatEmptySeq, ConcatProperties
    <3>4. (u \o buffer) \o <<>> = u \o buffer
      BY <3>3, ConcatEmptySeq
    <3>5. QED BY <3>1, <3>2, <3>3, <3>4
  <2>4. Kept'
    BY <1>1, <2>1, <2>3 DEF Kept
  <2>5. QED BY <2>1, <2>2, <2>4
<1>12. CASE HandleRead
  <2>1. /\ busy' = <<>>
        /\ fifo_read' \in Seq(Bytes) /\ read' \in Seq(Bytes) /\ waiting_readers' \in Seq(Clients)
        /\ client' \in [Clients -> {"run", "GETC", "PUTS"}]
        /\ Requested' /\ NoneStarves'
        /\ dropped' \/ (~ dropped /\ read' \o fifo_read' = (read \o fifo_read) \o busy)
        /\ UNCHANGED <<rxfifo, buffer, notif, inbox, typed>>
    BY <1>1, <1>12, HandlesRead
  <2>2. Typed' /\ Notified'
    BY <1>1, <2>1 DEF Typed, Notified, Notify
  <2>3. ASSUME ~ dropped' PROVE Taken' = Taken
    <3> DEFINE u == (read \o fifo_read) \o busy
    <3>1. u \in Seq(Bytes)
      <4>1. read \in Seq(Bytes) /\ fifo_read \in Seq(Bytes) /\ busy \in Seq(Bytes)
        BY <1>1 DEF Typed
      <4>2. read \o fifo_read \in Seq(Bytes)
        BY <4>1, ConcatProperties
      <4>3. QED BY <4>1, <4>2, ConcatProperties
    <3>2. Taken = u \o buffer /\ Taken' = (u \o <<>>) \o buffer
      BY <2>1, <2>3 DEF Taken
    <3> HIDE DEF u
    <3>3. u \o <<>> = u
      BY <3>1, ConcatEmptySeq
    <3>4. QED BY <3>2, <3>3
  <2>4. Kept'
    BY <1>1, <2>1, <2>3, KeptStays
  <2>5. QED BY <2>1, <2>2, <2>4
<1>13. CASE UNCHANGED consoleVars
  <2>1. UNCHANGED <<rxfifo, buffer, notif, inbox, busy, fifo_read, waiting_readers, client, typed, read, dropped>>
    BY <1>13 DEF consoleVars
  <2>2. Typed' /\ Notified' /\ NoneStarves'
    BY <1>1, <2>1 DEF Typed, Notified, Notify, NoneStarves
  <2>3. Taken' = Taken
    BY <2>1 DEF Taken
  <2>4. Kept'
    BY <1>1, <2>1, <2>3 DEF Kept
  <2>5. QED BY <1>1, <2>1, <2>2, <2>4, SameRequests
<1>14. QED BY <1>2, <1>3, <1>4, <1>5, <1>6, <1>7, <1>8, <1>9, <1>10, <1>11, <1>12, <1>13
           DEF ConsoleNext, Notifier, Server

LEMMA ConsoleInvariant == ConsoleSpec => []Inv
<1>1. Inv /\ [ConsoleNext]_consoleVars => Inv'
  BY InvStep
<1>2. QED BY <1>1, InvInit, PTL DEF ConsoleSpec

-----------------------------------------------------------------------------
(* Theorems                                                                *)

LEMMA ServedNow == Inv => ReadersServed
<1> SUFFICES ASSUME Inv PROVE ReadersServed
  OBVIOUS
<1>1. /\ waiting_readers \in Seq(Clients) /\ inbox \in Seq(Msg) /\ Known /\ NoneStarves
  BY DEF Inv, Typed
<1>2. ASSUME NEW c \in Clients, client[c] = "GETC"
      PROVE  \/ c \in Range(waiting_readers)
             \/ \E m \in Range(inbox) : m = [type |-> "GETC", data |-> c]
  <2>1. CASE \E i \in 1 .. Len(waiting_readers) : waiting_readers[i] = c
    <3>1. PICK i \in DOMAIN waiting_readers : waiting_readers[i] = c
      BY <1>1, <2>1
    <3>2. QED BY <3>1, Zenon DEF Range
  <2>2. CASE \E i \in 1 .. Len(inbox) : inbox[i] = [type |-> "GETC", data |-> c]
    <3>1. PICK i \in DOMAIN inbox : inbox[i] = [type |-> "GETC", data |-> c]
      BY <1>1, <2>2
    <3>2. inbox[i] \in Range(inbox)
      BY Zenon DEF Range
    <3>3. QED BY <3>1, <3>2, Zenon
  <2>3. QED BY <1>1, <1>2, <2>1, <2>2 DEF Known
<1>3. QED BY <1>1, <1>2 DEF ReadersServed, ReadersKnown

LEMMA KeptNow == Inv => NoKeyLost
<1> SUFFICES ASSUME Inv PROVE NoKeyLost
  OBVIOUS
<1> DEFINE notified == {m \in Range(inbox) : m.type = "READ"}
           sent == IF notified = {} THEN <<>> ELSE (CHOOSE m \in notified : TRUE).data
           own == IF notif = "sent" THEN <<>> ELSE buffer
           t == (read \o fifo_read) \o busy
<1>1. inbox \in Seq(Msg) /\ Notified /\ buffer \in Seq(Bytes)
  BY DEF Inv, Typed
<1>2. \A m : m \in notified <=> \E i \in 1 .. Len(inbox) : inbox[i] = m /\ Notify(m)
  <2>1. DOMAIN inbox = 1 .. Len(inbox)
    BY <1>1
  <2>2. \A m : m \in Range(inbox) <=> \E i \in 1 .. Len(inbox) : inbox[i] = m
    BY <2>1, Zenon DEF Range
  <2>3. QED BY <2>2 DEF Notify
<1>3. t \in Seq(Bytes)
  <2>1. read \in Seq(Bytes) /\ fifo_read \in Seq(Bytes) /\ busy \in Seq(Bytes)
    BY DEF Inv, Typed
  <2>2. read \o fifo_read \in Seq(Bytes)
    BY <2>1, ConcatProperties
  <2>3. QED BY <2>1, <2>2, ConcatProperties
<1>4. Taken = t \o buffer
  BY DEF Taken
<1> HIDE DEF notified, t
<1>5. (t \o sent) \o own = t \o buffer
  <2>1. CASE notif = "sent"
    <3>1. PICK i \in 1 .. Len(inbox) : Notify(inbox[i])
      BY <1>1, <2>1 DEF Notified
    <3>2. inbox[i] \in notified
      BY <1>2, <3>1
    <3>3. \A m \in notified : m.data = buffer
      BY <1>1, <1>2 DEF Notified
    <3>4. sent = buffer /\ own = <<>>
      BY <2>1, <3>2, <3>3
    <3>5. t \o buffer \in Seq(Bytes)
      BY <1>1, <1>3, ConcatProperties
    <3>6. (t \o buffer) \o <<>> = t \o buffer
      BY <3>5, ConcatEmptySeq
    <3>7. QED BY <3>4, <3>6
  <2>2. CASE notif # "sent"
    <3>1. notified = {}
      BY <1>1, <1>2, <2>2 DEF Notified
    <3>2. sent = <<>> /\ own = buffer
      BY <2>2, <3>1
    <3>3. t \o <<>> = t
      BY <1>3, ConcatEmptySeq
    <3>4. QED BY <3>2, <3>3
  <2>3. QED BY <2>1, <2>2
<1>6. dropped \/ typed = Spelled((t \o sent) \o own) \o rxfifo
  BY <1>4, <1>5 DEF Inv, Kept
<1>7. QED BY <1>6 DEF NoKeyLost, notified, t

\* The console server (src/src/console-server.c) leaves no reader waiting while
\* it has a key, and forgets none: whoever waits for a Getc is queued, or its
\* request has not been received.
THEOREM ReadersAlwaysServed == ConsoleSpec => []ReadersServed
BY ConsoleInvariant, ServedNow, PTL

\* Unless a byte came to a full queue, the bytes that were typed are those the
\* clients got, the server and its notifier have, and the FIFO holds, in order,
\* each arrow key standing for its three bytes.
THEOREM KeysNeverLost == ConsoleSpec => []NoKeyLost
BY ConsoleInvariant, KeptNow, PTL

-----------------------------------------------------------------------------
(* The buckets of the name server                                         *)

Bucket(i) == Hash[storage[i].name]
Heads == {Hash[n] : n \in Names}

\* The entries of a bucket are linked in the order in which they were taken, from
\* its head to the last, and no two are for the same name.
Chained(N) ==
  /\ N \in Nat /\ Used = 1 .. N
  /\ storage = [i \in 1 .. N |-> storage[i]]
  /\ \A i \in 1 .. N : /\ storage[i] = [name |-> storage[i].name, tid |-> storage[i].tid, next |-> storage[i].next]
                       /\ storage[i].name \in Names
  /\ \A i \in 1 .. N : storage[i].next # 0 => /\ storage[i].next \in 1 .. N /\ storage[i].next > i
                                              /\ Bucket(storage[i].next) = Bucket(i)
  /\ \A i, j \in 1 .. N : Bucket(i) = Bucket(j) /\ i < j => storage[i].next # 0 /\ storage[i].next <= j
  /\ \A i, j \in 1 .. N : storage[i].name = storage[j].name => i = j
  /\ hash_table = [b \in Heads |-> hash_table[b]]
  /\ \A b \in Heads : hash_table[b] # 0 => hash_table[b] \in 1 .. N /\ Bucket(hash_table[b]) = b
  /\ \A i \in 1 .. N : hash_table[Bucket(i)] # 0 /\ hash_table[Bucket(i)] <= i

NamesInv == \E N \in Nat : Chained(N)

\* The entries at which a walk from i for n can end.
Ends(i, n) == {e \in Used : e >= i /\ Bucket(e) = Bucket(i) /\ (Matches(e, n) \/ storage[e].next = 0)}
IsFirst(e, S) == e \in S /\ \A k \in S : e <= k

LEMMA EndExists ==
  ASSUME NEW N \in Nat, Chained(N), NEW n, NEW i \in 1 .. N
  PROVE  \E e : IsFirst(e, Ends(i, n))
<1> DEFINE T == {k \in Nat : \E e \in 1 .. N : k = N - e /\ e >= i /\ Bucket(e) = Bucket(i)}
<1>1. T # {}
  <2>1. N - i \in Nat /\ i >= i
    OBVIOUS
  <2>2. N - i \in T
    BY <2>1
  <2>3. QED BY <2>2
<1>2. PICK k \in T : \A j \in T : k <= j
  <2>1. T \in SUBSET Nat
    OBVIOUS
  <2> HIDE DEF T
  <2>2. QED BY <1>1, <2>1, NatMin
<1>3. PICK e \in 1 .. N : k = N - e /\ e >= i /\ Bucket(e) = Bucket(i)
  BY <1>2
<1>4. storage[e].next = 0
  <2> SUFFICES ASSUME storage[e].next # 0 PROVE FALSE
    OBVIOUS
  <2> DEFINE f == storage[e].next
  <2>1. f \in 1 .. N /\ f > e /\ Bucket(f) = Bucket(e)
    BY <1>3 DEF Chained
  <2> HIDE DEF f
  <2>2. N - f \in Nat /\ f >= i /\ Bucket(f) = Bucket(i)
    BY <1>3, <2>1
  <2>3. N - f \in T
    BY <2>1, <2>2
  <2>4. k <= N - f
    BY <1>2, <2>3
  <2>5. QED BY <1>3, <2>1, <2>4
<1>5. e \in Ends(i, n)
  BY <1>3, <1>4 DEF Ends, Chained
<1>6. Ends(i, n) \in SUBSET Nat
  BY DEF Ends, Chained
<1>7. QED BY <1>5, <1>6, NatMin DEF IsFirst

IsWalk(f, n) == f = [i \in Used |-> IF Matches(i, n) \/ storage[i].next = 0 THEN i ELSE f[storage[i].next]]

LEMMA WalkStep ==
  ASSUME NEW f, NEW n, IsWalk(f, n), NEW i \in Used
  PROVE  f[i] = IF Matches(i, n) \/ storage[i].next = 0 THEN i ELSE f[storage[i].next]
BY Zenon DEF IsWalk

\* The entries at which a walk can end are the same one step on.
LEMMA EndsNext ==
  ASSUME NEW N \in Nat, Chained(N), NEW n, NEW i \in 1 .. N
  PROVE  /\ Matches(i, n) \/ storage[i].next = 0 => IsFirst(i, Ends(i, n))
         /\ ~ (Matches(i, n) \/ storage[i].next = 0) => Ends(i, n) = Ends(storage[i].next, n)
<1>1. Used = 1 .. N
  BY DEF Chained
<1>2. ASSUME Matches(i, n) \/ storage[i].next = 0 PROVE IsFirst(i, Ends(i, n))
  BY <1>1, <1>2 DEF Ends, IsFirst
<1>3. ASSUME ~ (Matches(i, n) \/ storage[i].next = 0) PROVE Ends(i, n) = Ends(storage[i].next, n)
  <2> DEFINE f == storage[i].next
  <2>1. f \in 1 .. N /\ f > i /\ Bucket(f) = Bucket(i)
    BY <1>3 DEF Chained
  <2>2. ASSUME NEW e \in 1 .. N, Bucket(e) = Bucket(i), e >= i, e # i PROVE e >= f
    <3>1. i < e
      BY <2>2
    <3>2. QED BY <2>2, <3>1 DEF Chained
  <2>3. i \notin Ends(i, n)
    BY <1>3 DEF Ends
  <2> HIDE DEF f
  <2>4. ASSUME NEW e \in Ends(i, n) PROVE e \in Ends(f, n)
    BY <1>1, <2>1, <2>2, <2>3, <2>4 DEF Ends
  <2>5. ASSUME NEW e \in Ends(f, n) PROVE e \in Ends(i, n)
    BY <1>1, <2>1, <2>5 DEF Ends
  <2>6. QED BY <2>4, <2>5 DEF f
<1>4. QED BY <1>2, <1>3

LEMMA WalkExists ==
  ASSUME NEW N \in Nat, Chained(N), NEW n
  PROVE  \E f : IsWalk(f, n)
<1> DEFINE g == [i \in Used |-> CHOOSE e : IsFirst(e, Ends(i, n))]
<1>1. Used = 1 .. N
  BY DEF Chained
<1>2. ASSUME NEW i \in 1 .. N PROVE g[i] = CHOOSE e : IsFirst(e, Ends(i, n))
  BY <1>1
<1>3. ASSUME NEW i \in 1 .. N PROVE IsFirst(g[i], Ends(i, n))
  BY <1>2, EndExists
<1>4. ASSUME NEW i \in 1 .. N
      PROVE  g[i] = IF Matches(i, n) \/ storage[i].next = 0 THEN i ELSE g[storage[i].next]
  <2>1. CASE Matches(i, n) \/ storage[i].next = 0
    <3>1. IsFirst(i, Ends(i, n)) /\ IsFirst(g[i], Ends(i, n))
      BY <1>3, <2>1, EndsNext
    <3> DEFINE x == g[i]
    <3> HIDE DEF x
    <3>2. IsFirst(x, Ends(i, n))
      BY <3>1 DEF x
    <3>3. i <= x /\ x <= i /\ x \in Nat
      BY <1>1, <3>1, <3>2 DEF IsFirst, Ends
    <3>4. x = i
      BY <3>3
    <3>5. QED BY <2>1, <3>4 DEF x
  <2>2. CASE ~ (Matches(i, n) \/ storage[i].next = 0)
    <3>1. storage[i].next \in 1 .. N
      BY <2>2 DEF Chained
    <3>2. Ends(i, n) = Ends(storage[i].next, n)
      BY <2>2, EndsNext
    <3>3. QED BY <1>2, <2>2, <3>1, <3>2
  <2>3. QED BY <2>1, <2>2
<1>5. g = [i \in Used |-> g[i]]
  OBVIOUS
<1> HIDE DEF g
<1>6. IsWalk(g, n)
  <2>1. \A i \in Used : g[i] = IF Matches(i, n) \/ storage[i].next = 0 THEN i ELSE g[storage[i].next]
    BY <1>1, <1>4
  <2>2. QED BY <1>5, <2>1, Zenon DEF IsWalk
<1>7. QED BY <1>6

\* Every walk ends at the first such entry.
LEMMA WalkFirst ==
  ASSUME NEW N \in Nat, Chained(N), NEW n, NEW f, IsWalk(f, n), NEW i \in 1 .. N
  PROVE  IsFirst(f[i], Ends(i, n))
<1> DEFINE T == {k \in Nat : k < N /\ ~ IsFirst(f[N - k], Ends(N - k, n))}
<1>1. Used = 1 .. N
  BY DEF Chained
<1>2. T = {}
  <2> SUFFICES ASSUME T # {} PROVE FALSE
    OBVIOUS
  <2>1. T \in SUBSET Nat
    OBVIOUS
  <2>2. PICK k \in T : \A j \in T : k <= j
    <3> HIDE DEF T
    <3>1. QED BY <2>1, NatMin
  <2> DEFINE e == N - k
  <2>3. e \in 1 .. N /\ ~ IsFirst(f[e], Ends(e, n))
    BY <2>2
  <2>4. f[e] = IF Matches(e, n) \/ storage[e].next = 0 THEN e ELSE f[storage[e].next]
    BY <1>1, <2>3, WalkStep
  <2>5. ~ (Matches(e, n) \/ storage[e].next = 0)
    BY <2>3, <2>4, EndsNext
  <2> DEFINE d == storage[e].next
  <2>6. d \in 1 .. N /\ d > e /\ Ends(e, n) = Ends(d, n) /\ f[e] = f[d]
    <3>1. d \in 1 .. N /\ d > e
      BY <2>3, <2>5 DEF Chained
    <3>2. Ends(e, n) = Ends(d, n)
      BY <2>3, <2>5, EndsNext
    <3>3. QED BY <2>4, <2>5, <3>1, <3>2
  <2> HIDE DEF d
  <2>7. N - d \in Nat /\ N - d < N /\ N - (N - d) = d /\ ~ (k <= N - d)
    BY <2>2, <2>6
  <2>8. N - d \notin T
    BY <2>2, <2>7
  <2>9. IsFirst(f[d], Ends(d, n))
    BY <2>7, <2>8
  <2>10. QED BY <2>3, <2>6, <2>9
<1>3. N - i \in Nat /\ N - i < N /\ N - (N - i) = i
  OBVIOUS
<1>4. N - i \notin T
  BY <1>2
<1>5. QED BY <1>3, <1>4

\* What the walk of a name finds: its entry if it has one, or else the last entry
\* of the bucket, or none.
LEMMA WalkFinds ==
  ASSUME NEW N \in Nat, Chained(N), NEW n \in Names
  PROVE  /\ hash_table[Hash[n]] = 0 => Walk(n) = 0
         /\ hash_table[Hash[n]] # 0 => /\ Walk(n) \in 1 .. N /\ Bucket(Walk(n)) = Hash[n]
                                       /\ Matches(Walk(n), n) \/ storage[Walk(n)].next = 0
         /\ \A j \in 1 .. N : Matches(j, n) => Walk(n) = j
<1>1. PICK f : IsWalk(f, n) /\ Walk(n) = IF hash_table[Hash[n]] = 0 THEN 0 ELSE f[hash_table[Hash[n]]]
  <2>1. \E f : IsWalk(f, n)
    BY WalkExists
  <2>2. QED BY <2>1 DEF Walk, IsWalk
<1> DEFINE h == hash_table[Hash[n]]
<1>2. Hash[n] \in Heads /\ Used = 1 .. N
  BY DEF Heads, Chained
<1>3. CASE h = 0
  <2>1. ASSUME NEW j \in 1 .. N, Matches(j, n) PROVE FALSE
    <3>1. Bucket(j) = Hash[n]
      BY <2>1 DEF Bucket, Matches
    <3>2. QED BY <1>3, <3>1 DEF Chained
  <2>2. QED BY <1>1, <1>3, <2>1
<1>4. CASE h # 0
  <2>1. h \in 1 .. N /\ Bucket(h) = Hash[n]
    BY <1>2, <1>4 DEF Chained
  <2> DEFINE e == f[h]
  <2>2. Walk(n) = e
    BY <1>1, <1>4
  <2>3. IsFirst(e, Ends(h, n))
    BY <1>1, <2>1, WalkFirst
  <2> HIDE DEF e
  <2>4. /\ e \in 1 .. N /\ e >= h /\ Bucket(e) = Bucket(h) /\ (Matches(e, n) \/ storage[e].next = 0)
        /\ \A k \in Ends(h, n) : e <= k
    BY <1>2, <2>3 DEF IsFirst, Ends
  <2>5. ASSUME NEW j \in 1 .. N, Matches(j, n) PROVE e = j
    <3>1. Bucket(j) = Hash[n]
      BY <2>5 DEF Bucket, Matches
    <3>2. h <= j
      BY <3>1 DEF Chained
    <3>3. j \in Ends(h, n)
      BY <1>2, <2>1, <2>5, <3>1, <3>2 DEF Ends
    <3>4. e <= j
      BY <2>4, <3>3
    <3>5. CASE Matches(e, n)
      BY <2>4, <2>5, <3>5 DEF Chained, Matches
    <3>6. CASE storage[e].next = 0
      <4>1. ~ (e < j)
        BY <2>1, <2>4, <3>1, <3>6 DEF Chained
      <4>2. QED BY <2>4, <3>4, <4>1
    <3>7. QED BY <2>4, <3>5, <3>6
  <2>6. QED BY <1>4, <2>1, <2>2, <2>4, <2>5
<1>5. QED BY <1>3, <1>4

\* What a WhoIs returns: the task of the name's entry, or -1.
Looked ==
  \A n \in Names :
    /\ \A j \in Used : Matches(j, n) => GetEntry(n) = storage[j].tid
    /\ (\A j \in Used : ~ Matches(j, n)) => GetEntry(n) = -1

LEMMA Looks == NamesInv => Looked
<1> SUFFICES ASSUME NEW N \in Nat, Chained(N), NEW n \in Names
             PROVE  /\ \A j \in Used : Matches(j, n) => GetEntry(n) = storage[j].tid
                    /\ (\A j \in Used : ~ Matches(j, n)) => GetEntry(n) = -1
  BY DEF NamesInv, Looked
<1>1. Used = 1 .. N
  BY DEF Chained
<1> DEFINE i == Walk(n)
<1>2. GetEntry(n) = IF i # 0 /\ Matches(i, n) THEN storage[i].tid ELSE -1
  BY DEF GetEntry
<1>3. i = 0 \/ i \in 1 .. N
  BY WalkFinds
<1>4. \A j \in 1 .. N : Matches(j, n) => i = j
  BY WalkFinds
<1> HIDE DEF i
<1>5. QED BY <1>1, <1>2, <1>3, <1>4

-----------------------------------------------------------------------------
(* Steps                                                                   *)

LEMMA NamesInvInit == NamesInit => NamesInv
<1> SUFFICES ASSUME NamesInit PROVE Chained(0)
  BY DEF NamesInv
<1>1. Used = 1 .. 0 /\ storage = [i \in 1 .. 0 |-> storage[i]]
  BY DEF NamesInit, Used
<1>2. hash_table = [b \in Heads |-> 0]
  BY DEF NamesInit, Heads
<1>3. QED BY <1>1, <1>2 DEF Chained

\* What a registration does to the entries.
Overwrite(i, t) == storage' = [storage EXCEPT ![i].tid = t] /\ UNCHANGED hash_table
Add(i, n, t, new) ==
  /\ storage' = [j \in Used \cup {new} |->
                   IF j = new THEN [name |-> n, tid |-> t, next |-> 0]
                   ELSE IF j = i THEN [storage[j] EXCEPT !.next = new] ELSE storage[j]]
  /\ hash_table' = IF i = 0 THEN [hash_table EXCEPT ![Hash[n]] = new] ELSE hash_table

\* A name that is registered again gets the new task.
LEMMA Overwrites ==
  ASSUME NEW N \in Nat, Chained(N), NEW n \in Names, NEW t, NEW i \in 1 .. N, Matches(i, n), Overwrite(i, t)
  PROVE  /\ NamesInv' /\ Used' = 1 .. N
         /\ \A j \in 1 .. N : /\ storage'[j].name = storage[j].name
                              /\ storage'[j].tid = IF j = i THEN t ELSE storage[j].tid
<1>0. storage' = [storage EXCEPT ![i].tid = t] /\ UNCHANGED hash_table
  BY DEF Overwrite
<1>1. storage = [j \in 1 .. N |-> storage[j]]
  BY DEF Chained
<1>2. storage[i] = [name |-> storage[i].name, tid |-> storage[i].tid, next |-> storage[i].next]
  BY DEF Chained
<1> DEFINE new == [name |-> storage[i].name, tid |-> t, next |-> storage[i].next]
<1>3. storage' = [j \in 1 .. N |-> IF j = i THEN new ELSE storage[j]]
  <2>1. [storage[i] EXCEPT !.tid = t] = new
    BY <1>2
  <2>2. storage' = [storage EXCEPT ![i] = [storage[i] EXCEPT !.tid = t]]
    BY <1>0
  <2>3. storage' = [storage EXCEPT ![i] = new]
    BY <2>1, <2>2
  <2> HIDE DEF new
  <2>4. QED BY <1>1, <2>3
<1>4. new.name = storage[i].name /\ new.tid = t /\ new.next = storage[i].next
      /\ new = [name |-> new.name, tid |-> new.tid, next |-> new.next]
  OBVIOUS
<1> HIDE DEF new
<1>5. \A j \in 1 .. N : /\ storage'[j].name = storage[j].name
                        /\ storage'[j].tid = IF j = i THEN t ELSE storage[j].tid
                        /\ storage'[j].next = storage[j].next
                        /\ storage'[j] = IF j = i THEN new ELSE storage[j]
  BY <1>3, <1>4
<1>6. DOMAIN storage' = 1 .. N /\ storage' = [j \in 1 .. N |-> storage'[j]]
  BY <1>3
<1>7. \A j \in 1 .. N : storage'[j] = [name |-> storage'[j].name, tid |-> storage'[j].tid, next |-> storage'[j].next]
  <2> SUFFICES ASSUME NEW j \in 1 .. N
               PROVE  storage'[j] = [name |-> storage'[j].name, tid |-> storage'[j].tid, next |-> storage'[j].next]
    OBVIOUS
  <2>1. CASE j = i
    BY <1>4, <1>5, <2>1
  <2>2. CASE j # i
    <3>1. storage'[j] = storage[j]
      BY <1>5, <2>2
    <3>2. storage[j] = [name |-> storage[j].name, tid |-> storage[j].tid, next |-> storage[j].next]
      BY DEF Chained
    <3>3. QED BY <3>1, <3>2
  <2>3. QED BY <2>1, <2>2
<1> DEFINE C(j) == Hash[storage'[j].name]
<1>8. \A j \in 1 .. N : C(j) = Bucket(j)
  BY <1>5 DEF Bucket
<1> HIDE DEF C
<1>9. \A j \in 1 .. N : storage'[j].next # 0 => /\ storage'[j].next \in 1 .. N /\ storage'[j].next > j
                                                /\ C(storage'[j].next) = C(j)
  <2> SUFFICES ASSUME NEW j \in 1 .. N, storage[j].next # 0
               PROVE  storage[j].next \in 1 .. N /\ storage[j].next > j /\ C(storage[j].next) = C(j)
    BY <1>5
  <2>1. storage[j].next \in 1 .. N /\ storage[j].next > j /\ Bucket(storage[j].next) = Bucket(j)
    BY DEF Chained
  <2>2. QED BY <1>8, <2>1
<1>10. \A j, k \in 1 .. N : C(j) = C(k) /\ j < k => storage'[j].next # 0 /\ storage'[j].next <= k
  <2> SUFFICES ASSUME NEW j \in 1 .. N, NEW k \in 1 .. N, C(j) = C(k), j < k
               PROVE  storage[j].next # 0 /\ storage[j].next <= k
    BY <1>5
  <2>1. Bucket(j) = Bucket(k)
    BY <1>8
  <2>2. QED BY <2>1 DEF Chained
<1>11. \A j, k \in 1 .. N : storage'[j].name = storage'[k].name => j = k
  BY <1>5 DEF Chained
<1>12. /\ hash_table' = [b \in Heads |-> hash_table'[b]]
       /\ \A b \in Heads : hash_table'[b] # 0 => hash_table'[b] \in 1 .. N /\ C(hash_table'[b]) = b
       /\ \A j \in 1 .. N : hash_table'[C(j)] # 0 /\ hash_table'[C(j)] <= j
  <2>1. \A b \in Heads : hash_table[b] # 0 => hash_table[b] \in 1 .. N /\ Bucket(hash_table[b]) = b
    BY DEF Chained
  <2>2. \A j \in 1 .. N : hash_table[Bucket(j)] # 0 /\ hash_table[Bucket(j)] <= j
    BY DEF Chained
  <2>3. hash_table = [b \in Heads |-> hash_table[b]]
    BY DEF Chained
  <2>4. \A b \in Heads : hash_table[b] # 0 => hash_table[b] \in 1 .. N /\ C(hash_table[b]) = b
    BY <1>8, <2>1
  <2>5. \A j \in 1 .. N : hash_table[C(j)] # 0 /\ hash_table[C(j)] <= j
    BY <1>8, <2>2
  <2>6. QED BY <1>0, <2>3, <2>4, <2>5
<1>13. \A j \in 1 .. N : storage'[j].name \in Names
  BY <1>5 DEF Chained
<1>14. Chained(N)'
  BY <1>6, <1>7, <1>9, <1>10, <1>11, <1>12, <1>13 DEF Chained, Bucket, Used, C
<1>15. NamesInv'
  BY <1>14 DEF NamesInv
<1>16. QED BY <1>5, <1>6, <1>15 DEF Used

\* A name that is registered for the first time gets a new entry, the last of its
\* bucket.
LEMMA Adds ==
  ASSUME NEW N \in Nat, Chained(N), NEW n \in Names, NEW t, NEW i, i = Walk(n), ~ (i # 0 /\ Matches(i, n)),
         NEW new, new = N + 1, Add(i, n, t, new)
  PROVE  /\ NamesInv' /\ Used' = 1 .. new
         /\ \A j \in 1 .. N : ~ Matches(j, n)
         /\ \A j \in 1 .. N : storage'[j].name = storage[j].name /\ storage'[j].tid = storage[j].tid
         /\ storage'[new].name = n /\ storage'[new].tid = t
<1>0. /\ storage' = [j \in Used \cup {new} |->
                     IF j = new THEN [name |-> n, tid |-> t, next |-> 0]
                     ELSE IF j = i THEN [storage[j] EXCEPT !.next = new] ELSE storage[j]]
      /\ hash_table' = IF i = 0 THEN [hash_table EXCEPT ![Hash[n]] = new] ELSE hash_table
  BY DEF Add
<1> DEFINE last == [name |-> n, tid |-> t, next |-> 0]
           b == Hash[n]
<1>1. /\ Used = 1 .. N /\ hash_table = [c \in Heads |-> hash_table[c]] /\ b \in Heads
      /\ new \in Nat /\ Used \cup {new} = 1 .. new /\ new \notin 1 .. N
  BY DEF Chained, Heads
<1>2. /\ hash_table[b] = 0 => i = 0
      /\ hash_table[b] # 0 => i \in 1 .. N /\ Bucket(i) = b /\ (Matches(i, n) \/ storage[i].next = 0)
      /\ \A j \in 1 .. N : Matches(j, n) => i = j
  BY WalkFinds
<1>3. \A j \in 1 .. N : ~ Matches(j, n)
  BY <1>2
<1>4. i # 0 => /\ i \in 1 .. N /\ Bucket(i) = b /\ storage[i].next = 0
               /\ \A j \in 1 .. N : Bucket(j) = b => j <= i
  <2> SUFFICES ASSUME i # 0
               PROVE  /\ i \in 1 .. N /\ Bucket(i) = b /\ storage[i].next = 0
                      /\ \A j \in 1 .. N : Bucket(j) = b => j <= i
    OBVIOUS
  <2>1. i \in 1 .. N /\ Bucket(i) = b /\ storage[i].next = 0
    BY <1>2, <1>3
  <2>2. ASSUME NEW j \in 1 .. N, Bucket(j) = b PROVE ~ (i < j)
    BY <2>1, <2>2 DEF Chained
  <2>3. QED BY <2>1, <2>2
<1>5. i = 0 => \A j \in 1 .. N : Bucket(j) # b
  <2>1. ASSUME i = 0, NEW j \in 1 .. N, Bucket(j) = b PROVE FALSE
    <3>1. hash_table[b] # 0
      BY <2>1 DEF Chained
    <3>2. QED BY <1>2, <2>1, <3>1
  <2>2. QED BY <2>1
<1> DEFINE before == [name |-> storage[i].name, tid |-> storage[i].tid, next |-> new]
<1>6. storage' = [j \in 1 .. new |-> IF j = new THEN last ELSE IF j = i THEN before ELSE storage[j]]
  <2>1. i \in 1 .. N => [storage[i] EXCEPT !.next = new] = before
    <3>1. SUFFICES ASSUME i \in 1 .. N PROVE [storage[i] EXCEPT !.next = new] = before
      OBVIOUS
    <3>2. storage[i] = [name |-> storage[i].name, tid |-> storage[i].tid, next |-> storage[i].next]
      BY <3>1 DEF Chained
    <3>3. QED BY <3>2
  <2> DEFINE x(j) == [storage[j] EXCEPT !.next = new]
  <2>2. storage' = [j \in 1 .. new |-> IF j = new THEN last ELSE IF j = i THEN x(j) ELSE storage[j]]
    BY <1>0, <1>1
  <2>3. i \in 1 .. N => x(i) = before
    BY <2>1
  <2> HIDE DEF x, before, last
  <2>4. \A j \in 1 .. new : j # new => j \in 1 .. N
    BY <1>1
  <2>5. QED BY <2>2, <2>3, <2>4
<1>7. /\ last.name = n /\ last.tid = t /\ last.next = 0 /\ last = [name |-> last.name, tid |-> last.tid, next |-> last.next]
      /\ before.name = storage[i].name /\ before.tid = storage[i].tid /\ before.next = new
      /\ before = [name |-> before.name, tid |-> before.tid, next |-> before.next]
  OBVIOUS
<1> HIDE DEF last, before
<1>8. /\ \A j \in 1 .. N : /\ j \in 1 .. new /\ j # new
                           /\ storage'[j] = IF j = i THEN before ELSE storage[j]
                           /\ storage'[j].name = storage[j].name /\ storage'[j].tid = storage[j].tid
                           /\ storage'[j].next = IF j = i THEN new ELSE storage[j].next
      /\ new \in 1 .. new /\ storage'[new] = last
      /\ storage'[new].name = n /\ storage'[new].tid = t /\ storage'[new].next = 0
  <2>1. new \in 1 .. new /\ storage'[new] = last
    BY <1>1, <1>6
  <2>2. ASSUME NEW j \in 1 .. N PROVE j \in 1 .. new /\ j # new /\ storage'[j] = IF j = i THEN before ELSE storage[j]
    BY <1>1, <1>6
  <2>3. ASSUME NEW j \in 1 .. N
        PROVE  /\ storage'[j].name = storage[j].name /\ storage'[j].tid = storage[j].tid
               /\ storage'[j].next = IF j = i THEN new ELSE storage[j].next
    <3>1. CASE j = i
      <4>1. storage'[j] = before
        BY <2>2, <3>1
      <4>2. QED BY <1>7, <3>1, <4>1
    <3>2. CASE j # i
      <4>1. storage'[j] = storage[j]
        BY <2>2, <3>2
      <4>2. QED BY <3>2, <4>1
    <3>3. QED BY <3>1, <3>2
  <2>4. storage'[new].name = n /\ storage'[new].tid = t /\ storage'[new].next = 0
    BY <1>7, <2>1
  <2>5. QED BY <2>1, <2>2, <2>3, <2>4
<1>9. /\ \A j \in 1 .. new : j \in 1 .. N \/ j = new
      /\ \A j \in 1 .. N : j < new
  BY <1>1
<1>10. /\ DOMAIN storage' = 1 .. new
       /\ storage' = [j \in 1 .. new |-> storage'[j]]
  BY <1>6
<1>11. \A j \in 1 .. new : /\ storage'[j] = [name |-> storage'[j].name, tid |-> storage'[j].tid, next |-> storage'[j].next]
                           /\ storage'[j].name \in Names
  <2>1. /\ storage'[new] = [name |-> storage'[new].name, tid |-> storage'[new].tid, next |-> storage'[new].next]
        /\ storage'[new].name \in Names
    BY <1>7, <1>8
  <2>2. ASSUME NEW j \in 1 .. N
        PROVE  /\ storage'[j] = [name |-> storage'[j].name, tid |-> storage'[j].tid, next |-> storage'[j].next]
               /\ storage'[j].name \in Names
    <3>1. storage[j] = [name |-> storage[j].name, tid |-> storage[j].tid, next |-> storage[j].next] /\ storage[j].name \in Names
      BY DEF Chained
    <3>2. CASE j = i
      BY <1>7, <1>8, <3>1, <3>2
    <3>3. CASE j # i
      <4>1. storage'[j] = storage[j]
        BY <1>8, <3>3
      <4>2. QED BY <3>1, <4>1
    <3>4. QED BY <3>2, <3>3
  <2>3. QED BY <1>9, <2>1, <2>2
<1> DEFINE C(j) == Hash[storage'[j].name]
<1>12. C(new) = b /\ \A j \in 1 .. N : C(j) = Bucket(j)
  BY <1>8 DEF Bucket
<1> HIDE DEF C
<1>13. ASSUME NEW j \in 1 .. new, storage'[j].next # 0
       PROVE  storage'[j].next \in 1 .. new /\ storage'[j].next > j /\ C(storage'[j].next) = C(j)
  <2>1. j \in 1 .. N
    BY <1>8, <1>9, <1>13
  <2>2. CASE j = i
    <3>1. i # 0 /\ storage'[j].next = new
      <4>1. storage'[j].next = IF j = i THEN new ELSE storage[j].next
        BY <1>8, <2>1
      <4>2. QED BY <2>1, <2>2, <4>1
    <3>2. QED BY <1>4, <1>8, <1>9, <1>12, <2>1, <2>2, <3>1
  <2>3. CASE j # i
    <3> DEFINE x == storage[j].next
    <3>1. storage'[j].next = x
      BY <1>8, <2>1, <2>3
    <3>2. x \in 1 .. N /\ x > j /\ Bucket(x) = Bucket(j)
      BY <1>13, <2>1, <3>1 DEF Chained
    <3> HIDE DEF x
    <3>3. QED BY <1>8, <1>12, <2>1, <3>1, <3>2
  <2>4. QED BY <2>2, <2>3
<1>14. ASSUME NEW j \in 1 .. new, NEW k \in 1 .. new, C(j) = C(k), j < k
       PROVE  storage'[j].next # 0 /\ storage'[j].next <= k
  <2>1. j \in 1 .. N
    BY <1>1, <1>14
  <2>2. CASE k = new
    <3>1. Bucket(j) = b /\ i # 0
      BY <1>5, <1>12, <1>14, <2>1, <2>2
    <3>2. i \in 1 .. N /\ Bucket(i) = b /\ j <= i
      BY <1>4, <2>1, <3>1
    <3>3. CASE j = i
      BY <1>1, <1>8, <2>1, <2>2, <3>3
    <3>4. CASE j # i
      <4>1. j < i
        BY <2>1, <3>2, <3>4
      <4>2. storage[j].next # 0 /\ storage[j].next <= i /\ storage[j].next \in 1 .. N
        BY <2>1, <3>1, <3>2, <4>1 DEF Chained
      <4>3. storage'[j].next = storage[j].next
        BY <1>8, <2>1, <3>4
      <4> DEFINE x == storage[j].next
      <4>4. x # 0 /\ x \in 1 .. N /\ storage'[j].next = x
        BY <4>2, <4>3
      <4> HIDE DEF x
      <4>5. x <= k
        BY <1>9, <2>2, <4>4, <1>1
      <4>6. QED BY <4>4, <4>5
    <3>5. QED BY <3>3, <3>4
  <2>3. CASE k # new
    <3>1. k \in 1 .. N
      BY <1>9, <2>3
    <3>2. Bucket(j) = Bucket(k)
      BY <1>12, <1>14, <2>1, <3>1
    <3>3. storage[j].next # 0 /\ storage[j].next <= k
      BY <1>14, <2>1, <3>1, <3>2 DEF Chained
    <3>4. j # i
      <4>1. ASSUME j = i PROVE FALSE
        <5>1. i # 0 /\ storage[j].next = 0
          BY <1>4, <2>1, <4>1
        <5>2. QED BY <3>3, <5>1
      <4>2. QED BY <4>1
    <3>5. storage'[j].next = storage[j].next
      BY <1>8, <2>1, <3>4
    <3>6. QED BY <3>3, <3>5
  <2>4. QED BY <2>2, <2>3
<1>15. ASSUME NEW j \in 1 .. new, NEW k \in 1 .. new, storage'[j].name = storage'[k].name
       PROVE  j = k
  <2>1. CASE j \in 1 .. N /\ k \in 1 .. N
    BY <1>8, <1>15, <2>1 DEF Chained
  <2>2. CASE j = new /\ k \in 1 .. N
    BY <1>3, <1>8, <1>15, <2>2 DEF Matches
  <2>3. CASE j \in 1 .. N /\ k = new
    BY <1>3, <1>8, <1>15, <2>3 DEF Matches
  <2>4. QED BY <1>9, <2>1, <2>2, <2>3
<1>16. /\ hash_table' = [c \in Heads |-> hash_table'[c]]
       /\ \A c \in Heads : hash_table'[c] = IF i = 0 /\ c = b THEN new ELSE hash_table[c]
  BY <1>0, <1>1
<1>17. ASSUME NEW c \in Heads, hash_table'[c] # 0 PROVE hash_table'[c] \in 1 .. new /\ C(hash_table'[c]) = c
  <2>1. CASE i = 0 /\ c = b
    BY <1>8, <1>12, <1>16, <2>1
  <2>2. CASE ~ (i = 0 /\ c = b)
    <3> DEFINE x == hash_table[c]
    <3>1. hash_table'[c] = x
      BY <1>16, <2>2
    <3>2. x \in 1 .. N /\ Bucket(x) = c
      BY <1>17, <3>1 DEF Chained
    <3> HIDE DEF x
    <3>3. QED BY <1>8, <1>12, <3>1, <3>2
  <2>3. QED BY <2>1, <2>2
<1>18. ASSUME NEW j \in 1 .. new PROVE hash_table'[C(j)] # 0 /\ hash_table'[C(j)] <= j
  <2>1. CASE j = new
    <3>1. CASE i = 0
      BY <1>1, <1>12, <1>16, <2>1, <3>1
    <3>2. CASE i # 0
      <4> DEFINE x == hash_table[b]
      <4>1. i \in 1 .. N /\ Bucket(i) = b
        BY <1>4, <3>2
      <4>2. x # 0 /\ x \in 1 .. N
        <5>1. hash_table[Bucket(i)] # 0
          BY <4>1 DEF Chained
        <5>2. x # 0
          BY <4>1, <5>1
        <5>3. QED BY <1>1, <5>2 DEF Chained
      <4>3. hash_table'[C(j)] = x
        BY <1>1, <1>12, <1>16, <2>1, <3>2
      <4> HIDE DEF x
      <4>4. x <= j
        BY <1>1, <2>1, <4>2
      <4>5. QED BY <4>2, <4>3, <4>4
    <3>3. QED BY <3>1, <3>2
  <2>2. CASE j # new
    <3>1. j \in 1 .. N /\ C(j) = Bucket(j)
      BY <1>9, <1>12, <2>2
    <3>2. Bucket(j) \in Heads
      BY <3>1 DEF Bucket, Heads, Chained
    <3>3. ~ (i = 0 /\ Bucket(j) = b)
      BY <1>5, <3>1
    <3>4. hash_table'[C(j)] = hash_table[Bucket(j)]
      BY <1>16, <3>1, <3>2, <3>3
    <3>5. hash_table[Bucket(j)] # 0 /\ hash_table[Bucket(j)] <= j
      BY <3>1 DEF Chained
    <3>6. QED BY <3>4, <3>5
  <2>3. QED BY <2>1, <2>2
<1>19. Chained(new)'
  BY <1>1, <1>10, <1>11, <1>13, <1>14, <1>15, <1>16, <1>17, <1>18 DEF Chained, Bucket, Used, C
<1>20. NamesInv'
  BY <1>1, <1>19 DEF NamesInv
<1>21. QED BY <1>3, <1>8, <1>10, <1>20 DEF Used

\* What each name is looked up as.
Found == [n \in Names |-> GetEntry(n)]

\* What is found depends on the table and the entries only.
LEMMA FoundSame == ASSUME UNCHANGED <<hash_table, storage>> PROVE Found' = Found
<1>1. ASSUME NEW n \in Names PROVE Walk(n)' = Walk(n)
  BY DEF Walk, Used, Matches
<1>2. ASSUME NEW n \in Names PROVE GetEntry(n)' = GetEntry(n)
  BY <1>1 DEF GetEntry, Matches
<1>3. QED BY <1>2 DEF Found

\* A step keeps the buckets linked; it changes what a name is looked up as only if
\* it registers that name.
LEMMA RegisterStep ==
  ASSUME NEW N \in Nat, Chained(N), NEW n \in Names, NEW t, AddEntry(n, t)
  PROVE  /\ NamesInv'
         /\ \/ UNCHANGED <<storage, hash_table>>
            \/ /\ \E j \in Used' : Matches(j, n)' /\ storage'[j].tid = t
               /\ \A j \in Used' : ~ Matches(j, n)' => j \in Used /\ storage'[j].name = storage[j].name
                                                       /\ storage'[j].tid = storage[j].tid
               /\ Used \subseteq Used' /\ \A j \in Used : storage'[j].name = storage[j].name
<1>0. PICK new \in Nat : new = N + 1
  OBVIOUS
<1>1. Used = 1 .. N /\ Cardinality(Used) + 1 = new
  <2>1. Cardinality(1 .. N) = N
    <3>1. 1 \in Int /\ N \in Int
      OBVIOUS
    <3>2. Cardinality(1 .. N) = IF 1 > N THEN 0 ELSE N - 1 + 1
      BY <3>1, FS_Interval
    <3>3. QED BY <3>2
  <2>2. QED BY <1>0, <2>1 DEF Chained
<1>2. PICK i : i = Walk(n)
  OBVIOUS
<1>3. /\ i # 0 /\ Matches(i, n) => Overwrite(i, t)
      /\ ~ (i # 0 /\ Matches(i, n)) => UNCHANGED <<hash_table, storage>> \/ Add(i, n, t, new)
  <2>1. CASE i # 0 /\ Matches(i, n)
    BY <1>2, <2>1 DEF AddEntry, Overwrite
  <2>2. CASE ~ (i # 0 /\ Matches(i, n))
    <3>1. CASE HasRoom(Cardinality(Used) + 1)
      BY <1>1, <1>2, <2>2, <3>1, Zenon DEF AddEntry, Add
    <3>2. CASE ~ HasRoom(Cardinality(Used) + 1)
      BY <1>2, <2>2, <3>2 DEF AddEntry
    <3>3. QED BY <2>2, <3>1, <3>2
  <2>3. QED BY <2>1, <2>2
<1>4. CASE i # 0 /\ Matches(i, n)
  <2>1. Overwrite(i, t)
    BY <1>3, <1>4
  <2>2. i \in 1 .. N
    BY <1>2, <1>4, WalkFinds
  <2>3. /\ NamesInv' /\ Used' = 1 .. N
        /\ \A j \in 1 .. N : /\ storage'[j].name = storage[j].name
                             /\ storage'[j].tid = IF j = i THEN t ELSE storage[j].tid
    BY <1>4, <2>1, <2>2, Overwrites, Zenon
  <2>4. Used' = 1 .. N
    BY <2>3 DEF Chained
  <2>5. Matches(i, n)' /\ storage'[i].tid = t
    BY <1>4, <2>2, <2>3 DEF Matches
  <2>6. \A j \in 1 .. N : ~ Matches(j, n)' => j # i
    BY <1>4, <2>3 DEF Matches
  <2>7. QED BY <1>1, <2>2, <2>3, <2>4, <2>5, <2>6 DEF NamesInv
<1>5. CASE UNCHANGED <<hash_table, storage>>
  <2>1. Chained(N)'
    BY <1>5 DEF Chained, Bucket, Used
  <2>2. QED BY <1>5, <2>1 DEF NamesInv
<1>6. CASE ~ (i # 0 /\ Matches(i, n)) /\ ~ UNCHANGED <<hash_table, storage>>
  <2>1. Add(i, n, t, new)
    BY <1>3, <1>6, Zenon
  <2>2. /\ NamesInv' /\ Used' = 1 .. new
        /\ \A j \in 1 .. N : ~ Matches(j, n)
        /\ \A j \in 1 .. N : storage'[j].name = storage[j].name /\ storage'[j].tid = storage[j].tid
        /\ storage'[new].name = n /\ storage'[new].tid = t
    BY <1>0, <1>2, <1>6, <2>1, Adds
  <2>3. /\ new \in Nat /\ new \in 1 .. new /\ 1 .. N \subseteq 1 .. new
        /\ \A j \in 1 .. new : j = new \/ j \in 1 .. N
    BY <1>0
  <2>4. Used' = 1 .. new
    BY <2>2 DEF Chained
  <2>5. Matches(new, n)'
    BY <2>2 DEF Matches
  <2>6. QED BY <1>1, <2>2, <2>3, <2>4, <2>5 DEF NamesInv
<1>7. QED BY <1>4, <1>5, <1>6

LEMMA FoundStep ==
  ASSUME NamesInv, NamesInv', Looked, Looked', NEW n \in Names, NEW t, Register(n, t)
  PROVE  Found' = Found \/ Found' = [Found EXCEPT ![n] = t]
<1>1. PICK N \in Nat : Chained(N)
  BY DEF NamesInv
<1>2. AddEntry(n, t)
  BY DEF Register
<1>3. \/ UNCHANGED <<storage, hash_table>>
      \/ /\ \E j \in Used' : Matches(j, n)' /\ storage'[j].tid = t
         /\ \A j \in Used' : ~ Matches(j, n)' => j \in Used /\ storage'[j].name = storage[j].name
                                                 /\ storage'[j].tid = storage[j].tid
         /\ Used \subseteq Used' /\ \A j \in Used : storage'[j].name = storage[j].name
  BY <1>1, <1>2, RegisterStep
<1>4. CASE UNCHANGED <<storage, hash_table>>
  <2>1. Found' = Found
    BY <1>4, FoundSame
  <2>2. QED BY <2>1
<1>5. CASE /\ \E j \in Used' : Matches(j, n)' /\ storage'[j].tid = t
           /\ \A j \in Used' : ~ Matches(j, n)' => j \in Used /\ storage'[j].name = storage[j].name
                                                   /\ storage'[j].tid = storage[j].tid
           /\ Used \subseteq Used' /\ \A j \in Used : storage'[j].name = storage[j].name
  <2>1. GetEntry(n)' = t
    BY <1>5 DEF Looked
  <2>2. ASSUME NEW m \in Names, m # n PROVE GetEntry(m)' = GetEntry(m)
    <3>1. \A j \in Used' : Matches(j, m)' => /\ j \in Used /\ Matches(j, m)
                                             /\ storage'[j].tid = storage[j].tid
      BY <1>5, <2>2 DEF Matches
    <3>2. \A j \in Used : Matches(j, m) => j \in Used' /\ Matches(j, m)'
      BY <1>5 DEF Matches
    <3>3. CASE \E j \in Used : Matches(j, m)
      <4>1. PICK j \in Used : Matches(j, m)
        BY <3>3
      <4>2. j \in Used' /\ Matches(j, m)' /\ storage'[j].tid = storage[j].tid
        BY <3>1, <3>2, <4>1
      <4>3. GetEntry(m) = storage[j].tid
        BY <4>1 DEF Looked
      <4>4. GetEntry(m)' = storage'[j].tid
        BY <4>2 DEF Looked
      <4>5. QED BY <4>2, <4>3, <4>4
    <3>4. CASE \A j \in Used : ~ Matches(j, m)
      <4>1. \A j \in Used' : ~ Matches(j, m)'
        BY <3>1, <3>4
      <4>2. GetEntry(m)' = -1 /\ GetEntry(m) = -1
        BY <3>4, <4>1 DEF Looked
      <4>3. QED BY <4>2
    <3>5. QED BY <3>3, <3>4
  <2>3. Found' = [Found EXCEPT ![n] = t]
    BY <2>1, <2>2 DEF Found
  <2>4. QED BY <2>3
<1>6. QED BY <1>3, <1>4, <1>5

LEMMA NamesInvStep == NamesInv /\ [NamesNext]_nameVars => NamesInv'
<1> SUFFICES ASSUME NamesInv, [NamesNext]_nameVars PROVE NamesInv'
  OBVIOUS
<1>1. PICK N \in Nat : Chained(N)
  BY DEF NamesInv
<1>2. ASSUME NEW n \in Names, NEW t, Register(n, t) PROVE NamesInv'
  BY <1>1, <1>2, RegisterStep DEF Register
<1>3. ASSUME UNCHANGED <<hash_table, storage>> PROVE NamesInv'
  <2>1. Chained(N)'
    BY <1>1, <1>3 DEF Chained, Bucket, Used
  <2>2. QED BY <2>1 DEF NamesInv
<1>4. QED BY <1>2, <1>3 DEF NamesNext, WhoIs, nameVars

\* The hash table of the name server (src/src/nameserver.c) refines the promise of
\* nameserver.h: a WhoIs returns the task that registered the name last, whatever
\* names share its bucket, and a Register that finds no room changes nothing.
THEOREM NamesImplement == NamesSpec => NamesRefine
<1>1. NamesSpec => []NamesInv
  BY NamesInvInit, NamesInvStep, PTL DEF NamesSpec
<1>2. NamesInit => R!RInit
  <2> SUFFICES ASSUME NamesInit PROVE R!RInit
    OBVIOUS
  <2>1. NamesInv
    BY NamesInvInit
  <2>2. Looked
    BY <2>1, Looks
  <2>3. Used = {} /\ answer = -1
    BY DEF NamesInit, Used
  <2>4. \A n \in Names : GetEntry(n) = -1
    BY <2>2, <2>3 DEF Looked
  <2>5. QED BY <2>3, <2>4 DEF R!RInit
<1>3. ASSUME NamesInv, NamesInv', Looked, Looked', [NamesNext]_nameVars
      PROVE  [R!RNext]_R!rvars
  <2>1. ASSUME NEW n \in Names, NEW t \in Tids, Register(n, t) PROVE [R!RNext]_R!rvars
    <3>1. Found' = Found \/ Found' = [Found EXCEPT ![n] = t]
      BY <1>3, <2>1, FoundStep
    <3>2. answer' = answer
      BY <2>1 DEF Register
    <3>3. CASE Found' = Found
      BY <3>2, <3>3 DEF R!rvars, Found
    <3>4. CASE Found' = [Found EXCEPT ![n] = t]
      <4>1. R!RRegister(n, t)
        BY <3>2, <3>4 DEF R!RRegister, Found
      <4>2. QED BY <4>1 DEF R!RNext
    <3>5. QED BY <3>1, <3>3, <3>4
  <2>2. ASSUME NEW n \in Names, WhoIs(n) PROVE [R!RNext]_R!rvars
    <3>1. answer' = GetEntry(n) /\ UNCHANGED <<hash_table, storage>>
      BY <2>2 DEF WhoIs
    <3>2. Found' = Found
      BY <3>1, FoundSame
    <3>3. Found[n] = GetEntry(n)
      BY DEF Found
    <3>4. R!RWhoIs(n)
      BY <3>1, <3>2, <3>3 DEF R!RWhoIs, Found
    <3>5. QED BY <3>4 DEF R!RNext
  <2>3. CASE UNCHANGED nameVars
    <3>1. Found' = Found /\ answer' = answer
      BY <2>3, FoundSame DEF nameVars
    <3>2. QED BY <3>1 DEF R!rvars, Found
  <2>4. QED BY <1>3, <2>1, <2>2, <2>3 DEF NamesNext
<1>4. QED BY <1>1, <1>2, <1>3, Looks, PTL DEF NamesSpec, NamesRefine, R!RSpec
=============================================================================
