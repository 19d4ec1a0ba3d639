---------------------------- MODULE TimedProofs ----------------------------
(***************************************************************************)
(* The clock server and the train tasks.                                   *)
(*                                                                         *)
(* No delay ends early, for any number of clients, any delays, any size of *)
(* the delay queue and any order of requests and timer interrupts, as long *)
(* as the timer's counter fits one 32-bit word (MaxTime < Word: the first  *)
(* 71 minutes) and so does every delay in system ticks.  Beyond that the   *)
(* code does end delays early: get_curr_ticks reads the counter in halves, *)
(* and Delay casts to uint32_t.                                            *)
(*                                                                         *)
(* A train goes only over segments locked for it and switches set for it,  *)
(* on a ring of any length, for any start, goal and distances, whatever    *)
(* segments other trains take and give back, as long as a lock is refused  *)
(* only to a train that goes forwards at its speed (RefusedAtSpeed).  The  *)
(* argument: distances to the goal along the ring number the gaps, and a   *)
(* plan is a stretch of them from a down to b.  What has been passed of it *)
(* is what the route notifier has reported.                                *)
(***************************************************************************)
EXTENDS ClockServer, Train, ListLemmas

-----------------------------------------------------------------------------
(* The clock server                                                        *)

Entry == [tid : Clients, clock_tick : Nat]
Request == [type : {"NONE", "TIME", "DELAY", "DELAY_UNTIL"}, clockTick : Nat]

\* Every variable that a delay goes through has its type.
Typed ==
  /\ now \in 0 .. MaxTime
  /\ pc \in [Clients -> {"run", "sent", "wait"}]
  /\ msg \in [Clients -> Request]
  /\ goal \in [Clients -> Int]
  /\ queue \in Seq(Entry)

\* A request on its way to the server asks for no less than its caller's goal.
SentInTime ==
  \A c \in Clients : pc[c] = "sent" =>
    /\ msg[c].type = "DELAY" => goal[c] <= now + msg[c].clockTick
    /\ msg[c].type = "DELAY_UNTIL" => goal[c] <= msg[c].clockTick

\* An entry of the delay queue is of a client that waits, whose goal is not
\* after the entry's tick, and a client has one entry.
QueuedInTime ==
  /\ \A i \in 1 .. Len(queue) :
       pc[queue[i].tid] = "wait" /\ goal[queue[i].tid] <= queue[i].clock_tick
  /\ \A i, j \in 1 .. Len(queue) : queue[i].tid = queue[j].tid => i = j

Inv == Typed /\ SentInTime /\ QueuedInTime

\* The bounds under which the times that the server computes are exact.
InRange == MaxTime < Word /\ \A k \in Ticks : SYSTICKS_CLOCKTICK_UNIT * k < Word

-----------------------------------------------------------------------------
(* The operators                                                           *)

\* While the counter fits a word, get_curr_ticks reads the time at its end.
LEMMA ReadTime ==
  ASSUME InRange, now \in 0 .. MaxTime, NEW e \in 0 .. 1, now + e <= MaxTime
  PROVE  GetCurrTicks(e) = now + e
<1>1. now \in 0 .. Word - 1 /\ now + e \in 0 .. Word - 1 /\ Word \in Nat /\ Word > 0
  BY ClockAssumption DEF InRange
<1>2. now \div Word = 0 /\ (now + e) % Word = now + e
  BY <1>1
<1>3. QED BY <1>1, <1>2 DEF GetCurrTicks

\* clock_queue_add drops the entry, or links it in somewhere.
LEMMA AddElements ==
  ASSUME NEW q \in Seq(Entry), NEW c \in Clients, NEW tick \in Nat
  PROVE  \/ ClockQueueAdd(q, c, tick) = q
         \/ \E k \in 1 .. Len(q) + 1 :
              ClockQueueAdd(q, c, tick) = InsertAt(q, k, [tid |-> c, clock_tick |-> tick])
<1> DEFINE passed(i) == IF i = 1 THEN q[1].clock_tick <= tick ELSE q[i].clock_tick < tick
           P == {i \in 1 .. Len(q) : passed(i)}
           stop(i) == (\A j \in 1 .. i : passed(j)) /\ (i < Len(q) => ~passed(i + 1))
           k == CHOOSE i \in 0 .. Len(q) : stop(i)
<1>1. Len(q) \in Nat
  OBVIOUS
<1>2. \E i \in 0 .. Len(q) : stop(i)
  <2>1. PICK i \in 0 .. Len(q) : (\A j \in 1 .. i : j \in P) /\ (i < Len(q) => i + 1 \notin P)
    BY <1>1, WalkEnds
  <2>2. (\A j \in 1 .. i : passed(j)) /\ (i < Len(q) => ~passed(i + 1))
    BY <1>1, <2>1
  <2>3. QED BY <2>2
<1>3. k \in 0 .. Len(q)
  BY <1>2
<1>4. k + 1 \in 1 .. Len(q) + 1
  BY <1>1, <1>3
<1>5. \/ ClockQueueAdd(q, c, tick) = q
      \/ ClockQueueAdd(q, c, tick) = InsertAt(q, k + 1, [tid |-> c, clock_tick |-> tick])
  BY DEF ClockQueueAdd
<1>6. QED BY <1>4, <1>5

\* dequeueAllReady takes entries whose ticks are over.
LEMMA ReadyEntries ==
  ASSUME NEW q \in Seq(Entry), NEW v \in Nat
  PROVE  /\ ReadyCount(q, v) \in 0 .. Len(q)
         /\ \A i \in 1 .. ReadyCount(q, v) : q[i].clock_tick < v
<1> DEFINE P == {i \in 1 .. Len(q) : q[i].clock_tick < v}
           stop(n) == (\A i \in 1 .. n : q[i].clock_tick < v)
                      /\ (n < Len(q) => q[n + 1].clock_tick >= v)
<1>1. Len(q) \in Nat /\ \A i \in 1 .. Len(q) : q[i].clock_tick \in Nat
  <2>1. Len(q) \in Nat /\ \A i \in 1 .. Len(q) : q[i] \in Entry
    OBVIOUS
  <2>2. QED BY <2>1 DEF Entry
<1>2. \E n \in 0 .. Len(q) : stop(n)
  <2>1. PICK n \in 0 .. Len(q) : (\A j \in 1 .. n : j \in P) /\ (n < Len(q) => n + 1 \notin P)
    BY <1>1, WalkEnds
  <2>2. stop(n)
    BY <1>1, <2>1
  <2>3. QED BY <2>2
<1>3. ReadyCount(q, v) = CHOOSE n \in 0 .. Len(q) : stop(n)
  BY DEF ReadyCount
<1> HIDE DEF stop
<1>4. ReadyCount(q, v) \in 0 .. Len(q) /\ stop(ReadyCount(q, v))
  BY <1>2, <1>3
<1>5. QED BY <1>4 DEF stop

\* Linking in an entry of a client that had none: the entries are the old ones
\* and the new one, and each client still has one.
LEMMA LinkedIn ==
  ASSUME NEW q \in Seq(Entry), NEW e \in Entry, NEW k \in 1 .. Len(q) + 1,
         \A i \in 1 .. Len(q) : q[i].tid # e.tid,
         \A i, j \in 1 .. Len(q) : q[i].tid = q[j].tid => i = j,
         NEW r, r = InsertAt(q, k, e)
  PROVE  /\ r \in Seq(Entry)
         /\ \A i \in 1 .. Len(r) : r[i] = e \/ \E a \in 1 .. Len(q) : r[i] = q[a]
         /\ \A i, j \in 1 .. Len(r) : r[i].tid = r[j].tid => i = j
<1>1. /\ r \in Seq(Entry) /\ Len(r) = Len(q) + 1 /\ Len(q) \in Nat
      /\ \A j \in 1 .. Len(q) + 1 :
           r[j] = IF j < k THEN q[j] ELSE IF j = k THEN e ELSE q[j - 1]
  BY InsertAtElements, SMTT(60) DEF IsInsert
<1> DEFINE old(i) == IF i < k THEN i ELSE i - 1
<1>2. ASSUME NEW i \in 1 .. Len(r), i # k
      PROVE  old(i) \in 1 .. Len(q) /\ r[i] = q[old(i)]
  BY <1>1, <1>2
<1>3. r[k] = e
  BY <1>1
<1>4. ASSUME NEW i \in 1 .. Len(r), NEW j \in 1 .. Len(r), r[i].tid = r[j].tid
      PROVE  i = j
  <2>1. CASE i # k /\ j # k
    <3>1. old(i) = old(j)
      <4> HIDE DEF old
      <4>1. QED BY <1>2, <1>4, <2>1
    <3>2. QED BY <1>1, <2>1, <3>1
  <2>2. CASE i # k /\ j = k
    <3> HIDE DEF old
    <3>1. QED BY <1>2, <1>3, <1>4, <2>2
  <2>3. CASE i = k /\ j # k
    <3> HIDE DEF old
    <3>1. QED BY <1>2, <1>3, <1>4, <2>3
  <2>4. QED BY <2>1, <2>2, <2>3
<1>5. ASSUME NEW i \in 1 .. Len(r)
      PROVE  r[i] = e \/ \E a \in 1 .. Len(q) : r[i] = q[a]
  <2> HIDE DEF old
  <2>1. QED BY <1>2, <1>3
<1>6. QED BY <1>1, <1>4, <1>5

\* So the delay queue stays in time when a request is queued.
LEMMA AddInTime ==
  ASSUME Inv, NEW c \in Clients, NEW tick \in Nat, pc[c] # "wait", goal[c] <= tick,
         queue' = ClockQueueAdd(queue, c, tick), pc' = [pc EXCEPT ![c] = "wait"],
         goal' = goal
  PROVE  queue' \in Seq(Entry) /\ QueuedInTime'
<1> DEFINE e == [tid |-> c, clock_tick |-> tick]
<1>1. /\ queue \in Seq(Entry) /\ Len(queue) \in Nat /\ e \in Entry
      /\ \A i \in 1 .. Len(queue) : queue[i] \in Entry /\ queue[i].tid \in Clients
      /\ e.tid = c /\ e.clock_tick = tick
      /\ pc \in [Clients -> {"run", "sent", "wait"}]
  <2>1. queue \in Seq(Entry) /\ e \in Entry /\ pc \in [Clients -> {"run", "sent", "wait"}]
    BY DEF Inv, Typed, Entry
  <2>2. Len(queue) \in Nat /\ \A i \in 1 .. Len(queue) : queue[i] \in Entry
    BY <2>1
  <2>3. QED BY <2>1, <2>2 DEF Entry
<1>2. \A i \in 1 .. Len(queue) : queue[i].tid # c
  BY <1>1 DEF Inv, QueuedInTime
<1>3. CASE queue' = queue
  BY <1>1, <1>2, <1>3 DEF Inv, QueuedInTime
<1>4. ASSUME NEW k \in 1 .. Len(queue) + 1, queue' = InsertAt(queue, k, e)
      PROVE  queue' \in Seq(Entry) /\ QueuedInTime'
  <2>1. /\ queue' \in Seq(Entry)
        /\ \A i \in 1 .. Len(queue') : queue'[i] = e \/ \E a \in 1 .. Len(queue) : queue'[i] = queue[a]
        /\ \A i, j \in 1 .. Len(queue') : queue'[i].tid = queue'[j].tid => i = j
    <3>1. \A i, j \in 1 .. Len(queue) : queue[i].tid = queue[j].tid => i = j
      BY DEF Inv, QueuedInTime
    <3> HIDE DEF e
    <3>2. QED BY <1>1, <1>2, <1>4, <3>1, LinkedIn
  <2>2. ASSUME NEW i \in 1 .. Len(queue')
        PROVE  pc'[queue'[i].tid] = "wait" /\ goal'[queue'[i].tid] <= queue'[i].clock_tick
    BY <1>1, <1>2, <2>1 DEF Inv, QueuedInTime
  <2>3. QED BY <2>1, <2>2 DEF QueuedInTime
<1>5. QED BY <1>1, <1>3, <1>4, AddElements

-----------------------------------------------------------------------------
(* The actions                                                             *)

LEMMA InitInv == Init => Inv
<1>1. Init => Typed
  BY ClockAssumption DEF Init, Typed, Request, NoMsg
<1>2. Init => SentInTime /\ QueuedInTime
  BY DEF Init, SentInTime, QueuedInTime
<1>3. QED BY <1>1, <1>2 DEF Inv

\* What a delay queue that a step leaves alone needs of the clients.
LEMMA QueueKept ==
  ASSUME Inv, NEW c \in Clients, pc[c] # "wait", queue' = queue,
         \A d \in Clients \ {c} : pc'[d] = pc[d] /\ goal'[d] = goal[d]
  PROVE  QueuedInTime'
<1>1. \A i \in 1 .. Len(queue) : queue[i].tid \in Clients \ {c}
  <2>1. \A i \in 1 .. Len(queue) : queue[i] \in Entry
    BY DEF Inv, Typed
  <2>2. QED BY <2>1 DEF Entry, Inv, QueuedInTime
<1>2. QED BY <1>1 DEF Inv, QueuedInTime

LEMMA TimeKeeps ==
  ASSUME Inv, NEW c \in Clients, Time(c) \/ ServeTime(c)
  PROVE  Inv'
<1>1. QueuedInTime'
  BY QueueKept DEF Time, ServeTime, Inv, Typed
<1>2. Typed'
  <2>1. CASE Time(c)
    BY <2>1 DEF Time, Inv, Typed, Request
  <2>2. CASE ServeTime(c)
    BY <2>2 DEF ServeTime, Inv, Typed, Request, NoMsg
  <2>3. QED BY <2>1, <2>2
<1>3. SentInTime'
  BY SMTT(60) DEF Time, ServeTime, Inv, Typed, SentInTime, NoMsg
<1>4. QED BY <1>1, <1>2, <1>3 DEF Inv

LEMMA DelayKeeps ==
  ASSUME Inv, InRange, NEW c \in Clients, NEW k \in Ticks, Delay(c, k)
  PROVE  Inv'
<1> DEFINE t == SYSTICKS_CLOCKTICK_UNIT * k
<1>1. t \in Nat /\ t < Word /\ Word \in Nat
  BY ClockAssumption DEF Delay, InRange
<1>2. t % Word = t
  BY <1>1
<1>3. /\ pc[c] = "run" /\ pc' = [pc EXCEPT ![c] = "sent"]
      /\ msg' = [msg EXCEPT ![c] = [type |-> "DELAY", clockTick |-> t]]
      /\ goal' = [goal EXCEPT ![c] = now + t]
      /\ UNCHANGED <<now, cmp, notif, queue>>
  BY <1>2 DEF Delay
<1> HIDE DEF t
<1>4. QueuedInTime'
  BY <1>3, QueueKept DEF Inv, Typed
<1>5. Typed'
  BY <1>1, <1>3 DEF Inv, Typed, Request
<1>6. SentInTime'
  <2>1. now + t \in Int /\ now \in Int
    BY <1>1 DEF Inv, Typed
  <2>2. QED BY <1>3, <2>1 DEF Inv, Typed, SentInTime
<1>7. QED BY <1>4, <1>5, <1>6 DEF Inv

LEMMA DelayUntilKeeps ==
  ASSUME Inv, InRange, NEW c \in Clients, NEW k \in Ticks, NEW e \in 0 .. 1,
         DelayUntil(c, k, e)
  PROVE  Inv'
<1> DEFINE t == SYSTICKS_CLOCKTICK_UNIT * k
           W == Word * Word
           r == t % W
<1>1. t \in Int /\ t < Word /\ Word \in Nat \ {0}
  BY ClockAssumption DEF InRange
<1>2. W \in Nat \ {0} /\ Word <= W
  BY <1>1
<1>3. /\ pc[c] = "run" /\ pc' = [pc EXCEPT ![c] = "sent"]
      /\ msg' = [msg EXCEPT ![c] = [type |-> "DELAY_UNTIL", clockTick |-> r]]
      /\ goal' = [goal EXCEPT ![c] = t]
      /\ now' = now + e /\ now + e <= MaxTime
      /\ UNCHANGED <<cmp, notif, queue>>
  BY DEF DelayUntil, Passes
<1> HIDE DEF t, W
<1>4. r \in Nat /\ t <= r
  <2>1. CASE t >= 0
    BY <1>1, <1>2, <2>1
  <2>2. CASE t < 0
    BY <1>1, <1>2, <2>2
  <2>3. QED BY <1>1, <2>1, <2>2
<1> HIDE DEF r
<1>5. QueuedInTime'
  BY <1>3, QueueKept DEF Inv, Typed
<1>6. Typed'
  BY <1>1, <1>3, <1>4, ClockAssumption DEF Inv, Typed, Request
<1>7. SentInTime'
  <2>1. \A d \in Clients : msg[d] \in Request /\ goal[d] \in Int
    BY DEF Inv, Typed
  <2>2. \A d \in Clients : msg[d].clockTick \in Nat
    BY <2>1 DEF Request
  <2>3. now \in Nat
    BY DEF Inv, Typed
  <2>4. QED BY <1>1, <1>3, <1>4, <2>1, <2>2, <2>3 DEF Inv, Typed, SentInTime
<1>8. QED BY <1>5, <1>6, <1>7 DEF Inv

LEMMA ServeDelayKeeps ==
  ASSUME Inv, InRange, NEW c \in Clients, NEW e \in 0 .. 1, ServeDelay(c, e)
  PROVE  Inv'
<1> DEFINE tick == now + e + msg[c].clockTick
<1>1. /\ now \in 0 .. MaxTime /\ now + e <= MaxTime
      /\ \A d \in Clients : msg[d].clockTick \in Nat /\ goal[d] \in Int
  <2>1. \A d \in Clients : msg[d] \in Request /\ goal[d] \in Int
    BY DEF Inv, Typed
  <2>2. QED BY <2>1 DEF Request, Inv, Typed, ServeDelay, Passes
<1>2. GetCurrTicks(e) = now + e
  BY <1>1, ReadTime
<1>3. /\ pc[c] = "sent" /\ msg[c].type = "DELAY" /\ now' = now + e
      /\ queue' = ClockQueueAdd(queue, c, tick)
      /\ pc' = [pc EXCEPT ![c] = "wait"] /\ msg' = [msg EXCEPT ![c] = NoMsg]
      /\ goal' = goal
  BY <1>2 DEF ServeDelay, DelayTick, Passes
<1>4. tick \in Nat /\ goal[c] <= tick
  BY <1>1, <1>3 DEF Inv, SentInTime
<1> HIDE DEF tick
<1>5. queue' \in Seq(Entry) /\ QueuedInTime'
  BY <1>3, <1>4, AddInTime
<1>6. Typed'
  BY <1>1, <1>3, <1>5, ClockAssumption DEF Inv, Typed, Request, NoMsg
<1>7. SentInTime'
  BY <1>1, <1>3 DEF Inv, Typed, SentInTime, NoMsg
<1>8. QED BY <1>5, <1>6, <1>7 DEF Inv

LEMMA ServeDelayUntilKeeps ==
  ASSUME Inv, NEW c \in Clients, ServeDelayUntil(c)
  PROVE  Inv'
<1>1. \A d \in Clients : msg[d].clockTick \in Nat /\ goal[d] \in Int
  <2>1. \A d \in Clients : msg[d] \in Request /\ goal[d] \in Int
    BY DEF Inv, Typed
  <2>2. QED BY <2>1 DEF Request
<1>2. queue' \in Seq(Entry) /\ QueuedInTime'
  BY <1>1, AddInTime DEF ServeDelayUntil, Inv, SentInTime
<1>3. Typed'
  BY <1>2 DEF ServeDelayUntil, Inv, Typed, Request, NoMsg
<1>4. SentInTime'
  BY DEF ServeDelayUntil, Inv, Typed, SentInTime, NoMsg
<1>5. QED BY <1>2, <1>3, <1>4 DEF Inv

\* The notifier's message: the entries taken off are of clients whose goals are
\* behind, and the entries left are of other clients.
LEMMA ServeNotifyKeeps ==
  ASSUME Inv, InRange, NEW e \in 0 .. 1, ServeNotify(e)
  PROVE  /\ Inv'
         /\ \A c \in Clients : pc[c] = "wait" /\ pc'[c] = "run" => now' >= goal[c]
<1> DEFINE n == ReadyCount(queue, now + e)
           woken == {queue[i].tid : i \in 1 .. n}
<1>1. /\ now \in 0 .. MaxTime /\ now + e <= MaxTime /\ now' = now + e
      /\ queue \in Seq(Entry) /\ Len(queue) \in Nat
      /\ \A i \in 1 .. Len(queue) : queue[i] \in Entry
      /\ \A d \in Clients : msg[d] \in Request /\ goal[d] \in Int
  BY DEF Inv, Typed, ServeNotify, Passes
<1>2. /\ \A i \in 1 .. Len(queue) : queue[i].tid \in Clients /\ queue[i].clock_tick \in Nat
      /\ \A d \in Clients : msg[d].clockTick \in Nat
  BY <1>1 DEF Entry, Request
<1>3. GetCurrTicks(e) = now + e /\ now + e \in Nat
  BY <1>1, ReadTime
<1>4. /\ queue' = SubSeq(queue, n + 1, Len(queue))
      /\ pc' = [c \in Clients |-> IF c \in woken THEN "run" ELSE pc[c]]
      /\ goal' = [c \in Clients |-> IF c \in woken THEN 0 ELSE goal[c]]
      /\ msg' = msg
  BY <1>3 DEF ServeNotify
<1>5. n \in 0 .. Len(queue) /\ \A i \in 1 .. n : queue[i].clock_tick < now + e
  BY <1>1, <1>3, ReadyEntries
<1> HIDE DEF n
<1>6. \A c \in woken : goal[c] <= now'
  <2>1. ASSUME NEW i \in 1 .. n
        PROVE  goal[queue[i].tid] <= now'
    <3>1. i \in 1 .. Len(queue)
      BY <1>1, <1>5
    <3>2. /\ goal[queue[i].tid] \in Int /\ queue[i].clock_tick \in Nat
          /\ goal[queue[i].tid] <= queue[i].clock_tick /\ queue[i].clock_tick < now + e
      BY <1>1, <1>2, <1>5, <3>1 DEF Inv, QueuedInTime
    <3>3. QED BY <1>1, <1>3, <3>2
  <2>2. QED BY <2>1
<1>7. /\ queue' \in Seq(Entry) /\ Len(queue') = Len(queue) - n
      /\ \A j \in 1 .. Len(queue) - n : queue'[j] = queue[n + j]
  <2>1. n + 1 \in 1 .. Len(queue) + 1 /\ Len(queue) \in 0 .. Len(queue) /\ n + 1 <= Len(queue) + 1
    BY <1>1, <1>5
  <2>2. /\ queue' \in Seq(Entry) /\ Len(queue') = Len(queue) - (n + 1) + 1
        /\ \A j \in 1 .. Len(queue) - (n + 1) + 1 : queue'[j] = queue[n + 1 + j - 1]
    BY <1>1, <1>4, <2>1, SubSeqElements, Zenon
  <2>3. QED BY <1>1, <1>5, <2>2
<1>8. \A j \in 1 .. Len(queue') : n + j \in 1 .. Len(queue) /\ n + j \notin 1 .. n
                                /\ queue'[j] = queue[n + j]
  BY <1>1, <1>5, <1>7
<1>9. \A j \in 1 .. Len(queue') : queue'[j].tid \notin woken
  <2>1. ASSUME NEW j \in 1 .. Len(queue'), NEW i \in 1 .. n
        PROVE  queue'[j].tid # queue[i].tid
    <3>1. i \in 1 .. Len(queue) /\ n + j \in 1 .. Len(queue) /\ n + j # i
      BY <1>1, <1>5, <1>8
    <3>2. QED BY <1>8, <3>1 DEF Inv, QueuedInTime
  <2>2. QED BY <2>1
<1>10. QueuedInTime'
  <2>1. ASSUME NEW i \in 1 .. Len(queue')
        PROVE  pc'[queue'[i].tid] = "wait" /\ goal'[queue'[i].tid] <= queue'[i].clock_tick
    BY <1>2, <1>4, <1>8, <1>9, ZenonT(60) DEF Inv, QueuedInTime
  <2>2. ASSUME NEW i \in 1 .. Len(queue'), NEW j \in 1 .. Len(queue'),
               queue'[i].tid = queue'[j].tid
        PROVE  i = j
    <3>1. n + i = n + j
      BY <1>8, <2>2 DEF Inv, QueuedInTime
    <3>2. QED BY <1>5, <1>7, <3>1
  <2>3. QED BY <2>1, <2>2 DEF QueuedInTime
<1>11. Typed'
  BY <1>1, <1>4, <1>7 DEF Inv, Typed
<1>12. SentInTime'
  <2>1. \A c \in Clients : pc'[c] = "sent" => pc[c] = "sent" /\ goal'[c] = goal[c]
    BY <1>4
  <2>2. QED BY <1>1, <1>2, <1>4, <2>1 DEF Inv, SentInTime
<1>13. \A c \in Clients : pc[c] = "wait" /\ pc'[c] = "run" => now' >= goal[c]
  <2>1. ASSUME NEW c \in Clients, pc[c] = "wait", pc'[c] = "run"
        PROVE  now' >= goal[c]
    <3>1. c \in woken
      BY <1>4, <2>1
    <3>2. now' \in Int /\ goal[c] \in Int /\ goal[c] <= now'
      BY <1>1, <1>6, <3>1
    <3>3. QED BY <3>2
  <2>2. QED BY <2>1
<1>14. QED BY <1>10, <1>11, <1>12, <1>13 DEF Inv

\* Time alone passes.
LEMMA TickKeeps ==
  ASSUME Inv, Tick \/ TimerInterrupt
  PROVE  Inv'
<1>1. \A c \in Clients : msg[c] \in Request /\ goal[c] \in Int
  BY DEF Inv, Typed
<1>2. \A c \in Clients : msg[c].clockTick \in Nat
  BY <1>1 DEF Request
<1>3. Typed' /\ QueuedInTime'
  BY ClockAssumption DEF Tick, TimerInterrupt, Inv, Typed, QueuedInTime
<1>4. SentInTime'
  BY <1>1, <1>2 DEF Tick, TimerInterrupt, Inv, Typed, SentInTime
<1>5. QED BY <1>3, <1>4 DEF Inv

-----------------------------------------------------------------------------
(* The result                                                              *)

\* Every step keeps the invariant and ends no delay early.
LEMMA StepInTime ==
  ASSUME Inv, InRange, [Next]_vars
  PROVE  /\ Inv'
         /\ \A c \in Clients : pc[c] = "wait" /\ pc'[c] = "run" => now' >= goal[c]
<1> DEFINE OnTime == \A c \in Clients : pc[c] = "wait" /\ pc'[c] = "run" => now' >= goal[c]
<1>1. CASE Tick \/ TimerInterrupt
  <2>1. OnTime
    BY <1>1 DEF Tick, TimerInterrupt
  <2>2. QED BY <1>1, <2>1, TickKeeps
<1>2. CASE Notify
  BY <1>2, ServeNotifyKeeps DEF Notify
<1>3. ASSUME NEW c \in Clients, Call(c)
      PROVE  Inv' /\ OnTime
  <2>1. Inv'
    BY <1>3, TimeKeeps, DelayKeeps, DelayUntilKeeps DEF Call
  <2>2. OnTime
    BY <1>3 DEF Call, Time, Delay, DelayUntil, Inv, Typed
  <2>3. QED BY <2>1, <2>2
<1>4. ASSUME NEW c \in Clients, Serve(c)
      PROVE  Inv' /\ OnTime
  <2>1. Inv'
    BY <1>4, TimeKeeps, ServeDelayKeeps, ServeDelayUntilKeeps DEF Serve
  <2>2. OnTime
    BY <1>4 DEF Serve, ServeTime, ServeDelay, ServeDelayUntil, Inv, Typed
  <2>3. QED BY <2>1, <2>2
<1>5. CASE UNCHANGED vars
  <2>1. OnTime
    BY <1>5 DEF vars
  <2>2. Inv'
    BY <1>5 DEF vars, Inv, Typed, SentInTime, QueuedInTime
  <2>3. QED BY <2>1, <2>2
<1>6. QED BY <1>1, <1>2, <1>3, <1>4, <1>5 DEF Next

\* clock.h: "Blocks the caller until at least until the specified number of
\* ticks has elapsed": no reply of clockserver_main comes before its time.
THEOREM DelaysNeverEarly == ASSUME InRange PROVE Spec => NeverEarly
<1>1. Inv /\ [Next]_vars => Inv'
  BY StepInTime
<1>2. Inv /\ [Next]_vars =>
        [\A c \in Clients : pc[c] = "wait" /\ pc'[c] = "run" => now' >= goal[c]]_vars
  BY StepInTime
<1>3. QED BY InitInv, <1>1, <1>2, PTL DEF Spec, NeverEarly

-----------------------------------------------------------------------------
(* Where on the ring the train is: how many gaps before its goal           *)

Dirs == {1, -1}

\* The sensor at which a train in direction d has k gaps to its goal, and the gap
\* before it.
Node(k, d) == [i |-> (Goal - k * d) % N, d |-> d]
Gap(k, d) == Seg(Rev(Node(k, d)))

\* The sensors, and the gaps, from a down to b before the goal
Way(a, b, d) == [j \in 1 .. a - b + 1 |-> Node(a + 1 - j, d)]
WayNodes(a, b, d) == {Node(k, d) : k \in b .. a}
Gaps(a, b, d) == {Gap(k, d) : k \in b .. a}

-----------------------------------------------------------------------------
(* The invariant                                                           *)

Places == [i : Int, d : {1, 0, -1}]
Kinds == {"short", "accel", "const", "stop"}
Speed == {"stopped", "moving", "braking"}
Changes == [spd : Speed, sensor : Places, delay : BOOLEAN]
Routes == [kind : Kinds, final : BOOLEAN, switches : SUBSET Places, path : Seq(Places),
           segments : SUBSET Sensor, speed_changes : Seq(Changes), decision_pt : Places]
Actions == [state : {"idle", "sensor", "delay", "lock", "report", "gone"}, sensor : Places, spd : Speed,
            segments : SUBSET Sensor, ok : BOOLEAN]

TrainTyped ==
  /\ train_tc \in {"plan", "begin", "run", "receive", "stopped", "quit", "done"}
  /\ cur \in Routes /\ next \in Routes
  /\ current_node \in Places /\ reversed \in BOOLEAN
  /\ waiting \subseteq Notifier
  /\ notifier \in [Notifier -> Actions]
  /\ speed \in Speed /\ facing \in Dirs /\ gap \in Sensor

\* The speed changes of a route that are left: after the first, of a train that
\* stands, there is one that waits for a sensor or a delay.
Delayed(c, kind) == c.delay /\ c.spd = (IF kind = "accel" THEN "moving" ELSE "braking")
ToStart(r) ==
  /\ r.kind \in {"short", "accel"} /\ Len(r.speed_changes) = 2
  /\ r.speed_changes[1] = SpeedChange("moving", NONE, FALSE) /\ Delayed(r.speed_changes[2], r.kind)
OneLeft(r) == r.kind # "const" /\ Len(r.speed_changes) = 1 /\ Delayed(r.speed_changes[1], r.kind)
NoneLeft(r) == r.speed_changes = <<>>

\* A plan that is not begun, of a train that has a gaps to the goal before it and b after it
IsPlan(r, a, b, d) ==
  /\ r.final <=> r.kind \in {"short", "stop"}
  /\ r.final => b = 0
  /\ r.switches = WayNodes(a, b + 1, d)
  /\ r.segments = Gaps(a - 1, b, d)
  /\ r.path = IF r.kind = "short" THEN Way(a, a, d) ELSE Way(a, b, d)
  /\ r.kind \in {"short", "accel"} => ToStart(r)
  /\ r.kind = "stop" => OneLeft(r)
  /\ r.kind = "const" => NoneLeft(r)

Executing == train_tc \in {"run", "receive"}
AtWork(n) ==
  notifier[n].state \in
    CASE n = "route" -> {"sensor", "report"}
      [] n = "spd" -> {"sensor", "delay", "report"}
      [] n = "lock" -> {"sensor", "lock", "report"}
Refused == "lock" \in waiting /\ notifier["lock"].state = "report" /\ ~notifier["lock"].ok

\* While a route is executed, the notifiers at work are those that are waited for;
\* before and after it none is.
TasksInStep ==
  /\ train_tc \in {"plan", "begin", "stopped"} => \A n \in Notifier : notifier[n].state = "idle"
  /\ train_tc \in {"quit", "done"} => \A n \in Notifier : notifier[n].state \in {"idle", "gone"}
  /\ Executing => \A n \in Notifier : IF n \in waiting THEN AtWork(n) ELSE notifier[n].state = "idle"
  /\ train_tc = "receive" => ~SpeedPending /\ ~RoutePending

\* A train that was started and has to get to its speed moves.  A lock is refused only
\* to a train that waits for nothing else.
SpeedsInStep ==
  Executing =>
    /\ cur.final <=> cur.kind \in {"short", "stop"}
    /\ cur.final => "lock" \notin waiting
    /\ ToStart(cur) \/ OneLeft(cur) \/ NoneLeft(cur)
    /\ ToStart(cur) => "spd" \notin waiting /\ train_tc = "run"
    /\ cur.kind = "accel" /\ ~ToStart(cur) => speed = "moving"
    /\ "spd" \in waiting => cur.kind # "const" /\ (notifier["spd"].spd = "moving" <=> cur.kind = "accel")
    /\ Refused => cur.kind = "const" /\ cur.path = <<>> /\ ~reversed

\* The train rolls on where the switches are set for it, up to its goal.
Rolling(p, d) == facing = d /\ gap = Gap(p, d) /\ WayNodes(p, 1, d) \subseteq thrown

\* Of the plan from a to b before the goal, the train has come to p.
NextLocked(b, c, d) ==
  /\ IsPlan(next, b, c, d) /\ next.kind \in {"const", "stop"}
  /\ "lock" \in waiting => notifier["lock"].segments = next.segments
  /\ "lock" \notin waiting \/ (notifier["lock"].state = "report" /\ notifier["lock"].ok) => next.segments \subseteq locks
OnPlan(a, b, p, d) ==
  /\ b <= p /\ p <= a
  /\ facing = d
  /\ WayNodes(a, b + 1, d) \subseteq thrown
  /\ Gaps(p, b, d) \subseteq locks
  /\ ToStart(cur) => cur.segments \subseteq locks
  /\ cur.final => b = 0
  /\ ~cur.final => \E c \in 0 .. b : NextLocked(b, c, d)
  /\ IF cur.kind = "short"
     THEN /\ current_node = Node(a, d) /\ cur.path = <<>> /\ "route" \notin waiting
          /\ gap = Gap(p, d)
     ELSE /\ current_node = Node(b, d) /\ cur.path = Way(p, b + 1, d)
          /\ "route" \in waiting => b < p /\ notifier["route"].sensor = Node(p, d)
          /\ gap = IF "route" \in waiting /\ notifier["route"].state = "report" THEN Gap(p - 1, d) ELSE Gap(p, d)

Planning ==
  train_tc = "plan" =>
    \E p \in Sensor, d \in Dirs : current_node = Node(p, d) /\ facing = d /\ gap = Gap(p, d) /\ gap \in locks
ToBegin(a, b, d) ==
  b <= a /\ IsPlan(cur, a, b, d) /\ facing = d /\ gap = Gap(a, d) /\ Gaps(a, b, d) \subseteq locks
Beginning == train_tc = "begin" => \E a, b \in Sensor, d \in Dirs : ToBegin(a, b, d)
Driving == Executing => \E a, b, p \in Sensor, d \in Dirs : OnPlan(a, b, p, d)
Stopping ==
  train_tc = "stopped" =>
    /\ gap \in locks
    /\ IF cur.kind = "short"
       THEN cur.final /\ \E p \in Sensor, d \in Dirs : Rolling(p, d)
       ELSE /\ ~cur.final => ~reversed
            /\ \E p \in Sensor, d \in Dirs :
                 current_node = Node(p, d) /\ facing = d /\ gap = Gap(p, d) /\ (cur.final => p = 0)
Ended ==
  train_tc \in {"quit", "done"} =>
    /\ cur.final
    /\ speed = "stopped" \/ \E p \in Sensor, d \in Dirs : Rolling(p, d) /\ (cur.kind # "short" => p = 0)
    /\ cur.kind # "short" => gap \in locks
Located == Planning /\ Beginning /\ Driving /\ Stopping /\ Ended

TrainInv == TrainTyped /\ TasksInStep /\ SpeedsInStep /\ Located

-----------------------------------------------------------------------------
(* The ring                                                                *)

LEMMA RingMod ==
  ASSUME NEW x \in Int, -N <= x, x < 2 * N
  PROVE  x % N = IF x < 0 THEN x + N ELSE IF x < N THEN x ELSE x - N
<1>1. N \in Nat /\ N > 0
  BY TrainAssumption
<1>2. QED BY <1>1

LEMMA NodeIs ==
  ASSUME NEW k \in Sensor, NEW d \in Dirs
  PROVE  /\ Node(k, d) = [i |-> Node(k, d).i, d |-> d]
         /\ Node(k, d) \in Places /\ Node(k, d).i \in Sensor
         /\ Node(k, d).i = IF d = 1 THEN (IF k <= Goal THEN Goal - k ELSE Goal - k + N)
                                     ELSE (IF Goal + k < N THEN Goal + k ELSE Goal + k - N)
<1>1. N \in Nat /\ N > 0 /\ Goal \in 0 .. N - 1 /\ k \in 0 .. N - 1
  BY TrainAssumption DEF Sensor
<1>2. CASE d = 1
  <2>1. (Goal - k * d) % N = IF k <= Goal THEN Goal - k ELSE Goal - k + N
    <3>1. Goal - k * d = Goal - k
      BY <1>1, <1>2
    <3>2. -N <= Goal - k /\ Goal - k < 2 * N /\ Goal - k \in Int
      BY <1>1
    <3>3. QED BY <1>1, <3>1, <3>2, RingMod
  <2>2. QED BY <1>1, <1>2, <2>1 DEF Node, Places, Sensor
<1>3. CASE d = -1
  <2>1. (Goal - k * d) % N = IF Goal + k < N THEN Goal + k ELSE Goal + k - N
    <3>1. Goal - k * d = Goal + k
      BY <1>1, <1>3
    <3>2. -N <= Goal + k /\ Goal + k < 2 * N /\ Goal + k \in Int
      BY <1>1
    <3>3. QED BY <1>1, <3>1, <3>2, RingMod
  <2>2. QED BY <1>1, <1>3, <2>1 DEF Node, Places, Sensor
<1>4. QED BY <1>2, <1>3 DEF Dirs

\* The gap before a node, as a number
LEMMA GapIs ==
  ASSUME NEW k \in Sensor, NEW d \in Dirs
  PROVE  /\ Gap(k, d) = IF d = 1 THEN (IF k <= Goal THEN Goal - k ELSE Goal - k + N)
                         ELSE (IF Goal + k + 1 < N THEN Goal + k + 1 ELSE Goal + k + 1 - N)
         /\ Gap(k, d) \in Sensor
<1>1. N \in Nat /\ N > 0 /\ Goal \in 0 .. N - 1 /\ k \in 0 .. N - 1
  BY TrainAssumption DEF Sensor
<1> DEFINE n == Node(k, d)
<1>2. Gap(k, d) = IF d = -1 THEN (n.i + 1) % N ELSE n.i
  <2>1. Rev(n) = [i |-> n.i, d |-> -d]
    BY NodeIs DEF Rev
  <2>2. QED BY <2>1 DEF Gap, Seg, Dirs
<1>3. CASE d = 1
  BY <1>1, <1>2, <1>3, NodeIs DEF Sensor
<1>4. CASE d = -1
  <2>1. n.i \in 0 .. N - 1 /\ n.i = IF Goal + k < N THEN Goal + k ELSE Goal + k - N
    BY <1>4, NodeIs DEF Sensor
  <2>2. (n.i + 1) % N = IF n.i + 1 < N THEN n.i + 1 ELSE n.i + 1 - N
    BY <1>1, <2>1, RingMod
  <2>3. QED BY <1>1, <1>2, <1>4, <2>1, <2>2 DEF Sensor
<1>5. QED BY <1>3, <1>4 DEF Dirs

\* No two gaps on the way to the goal are the same, and no two nodes.
LEMMA Apart ==
  ASSUME NEW k \in Sensor, NEW m \in Sensor, NEW d \in Dirs, k # m
  PROVE  Gap(k, d) # Gap(m, d) /\ Node(k, d).i # Node(m, d).i
<1>1. N \in Nat /\ N > 0 /\ Goal \in 0 .. N - 1 /\ k \in 0 .. N - 1 /\ m \in 0 .. N - 1
  BY TrainAssumption DEF Sensor
<1>2. QED BY <1>1, NodeIs, GapIs DEF Dirs

\* The segment ahead of a node is the gap before the next.
LEMMA SegIs ==
  ASSUME NEW k \in Sensor, NEW d \in Dirs, k > 0
  PROVE  k - 1 \in Sensor /\ Seg(Node(k, d)) = Gap(k - 1, d)
<1>1. N \in Nat /\ N > 0 /\ Goal \in 0 .. N - 1 /\ k \in 0 .. N - 1 /\ k - 1 \in Sensor
  BY TrainAssumption DEF Sensor
<1> DEFINE n == Node(k, d)
<1>2. Seg(n) = IF d = 1 THEN (n.i + 1) % N ELSE n.i
  BY NodeIs DEF Seg
<1>3. CASE d = 1
  <2>1. n.i \in 0 .. N - 1 /\ n.i = IF k <= Goal THEN Goal - k ELSE Goal - k + N
    BY <1>3, NodeIs DEF Sensor
  <2>2. (n.i + 1) % N = IF n.i + 1 < N THEN n.i + 1 ELSE n.i + 1 - N
    BY <1>1, <2>1, RingMod
  <2>3. QED BY <1>1, <1>2, <1>3, <2>1, <2>2, GapIs
<1>4. CASE d = -1
  BY <1>1, <1>2, <1>4, NodeIs, GapIs
<1>5. QED BY <1>1, <1>3, <1>4 DEF Dirs

\* The other way round, the sensor behind the train comes first.
LEMMA TurnedRound ==
  ASSUME NEW k \in Sensor, NEW d \in Dirs, k > 0
  PROVE  /\ -d \in Dirs /\ N - k \in Sensor /\ N - k - 1 \in Sensor
         /\ Rev(Node(k, d)) = Node(N - k, -d) /\ Gap(N - k - 1, -d) = Gap(k, d)
<1>1. N \in Nat /\ N > 0 /\ Goal \in 0 .. N - 1 /\ k \in 0 .. N - 1
  BY TrainAssumption DEF Sensor
<1>2. -d \in Dirs /\ N - k \in Sensor /\ N - k - 1 \in Sensor
  BY <1>1 DEF Dirs, Sensor
<1>3. Node(N - k, -d).i = Node(k, d).i
  BY <1>1, <1>2, NodeIs DEF Dirs
<1>4. Rev(Node(k, d)) = [i |-> Node(k, d).i, d |-> -d]
  BY NodeIs DEF Rev
<1>5. Gap(N - k - 1, -d) = Gap(k, d)
  BY <1>1, <1>2, GapIs DEF Dirs
<1>6. Rev(Node(k, d)) = Node(N - k, -d)
  BY <1>2, <1>3, <1>4, NodeIs
<1>7. QED BY <1>2, <1>5, <1>6

\* The next sensor of a train in a gap
LEMMA ComingIs ==
  ASSUME NEW k \in Sensor, NEW d \in Dirs, gap = Gap(k, d), facing = d
  PROVE  Coming = Node(k, d) /\ (Coming.i = Goal <=> k = 0)
<1>1. N \in Nat /\ N > 0 /\ Goal \in 0 .. N - 1 /\ k \in 0 .. N - 1 /\ 0 \in Sensor
  BY TrainAssumption DEF Sensor
<1>2. Coming.i = Node(k, d).i
  <2>1. CASE d = 1
    BY <1>1, <2>1, NodeIs, GapIs DEF Coming
  <2>2. CASE d = -1
    <3>1. gap - 1 \in Int /\ -N <= gap - 1 /\ gap - 1 < 2 * N
      BY <1>1, GapIs DEF Sensor
    <3>2. (gap - 1) % N = IF gap - 1 < 0 THEN gap - 1 + N ELSE IF gap - 1 < N THEN gap - 1 ELSE gap - 1 - N
      BY <3>1, RingMod
    <3>3. QED BY <1>1, <2>2, <3>2, NodeIs, GapIs DEF Coming
  <2>3. QED BY <2>1, <2>2 DEF Dirs
<1>3. Coming = [i |-> Coming.i, d |-> d]
  BY DEF Coming
<1>4. Coming = Node(k, d)
  BY <1>2, <1>3, NodeIs
<1>5. Node(k, d).i = Goal <=> k = 0
  BY <1>1, NodeIs DEF Dirs
<1>6. QED BY <1>4, <1>5

LEMMA SensorsAre ==
  ASSUME NEW k \in Sensor, NEW d \in Dirs
  PROVE  SensorsFrom(Node(k, d)) = Way(k, 0, d)
<1>1. N \in Nat /\ N > 0 /\ Goal \in 0 .. N - 1 /\ k \in 0 .. N - 1
  BY TrainAssumption DEF Sensor
<1> DEFINE n == Node(k, d)
<1>2. n.d = d /\ n.i \in 0 .. N - 1
      /\ n.i = IF d = 1 THEN (IF k <= Goal THEN Goal - k ELSE Goal - k + N)
                        ELSE (IF Goal + k < N THEN Goal + k ELSE Goal + k - N)
  BY NodeIs DEF Sensor
<1> HIDE DEF n
<1>3. ((Goal - n.i) * n.d) % N = k
  <2> DEFINE x == (Goal - n.i) * n.d
  <2>1. CASE d = 1
    <3>1. x = Goal - n.i
      BY <1>1, <1>2, <2>1
    <3>2. x \in Int /\ -N <= x /\ x < 2 * N
      BY <1>1, <1>2, <3>1
    <3> HIDE DEF x
    <3>3. x % N = IF x < 0 THEN x + N ELSE IF x < N THEN x ELSE x - N
      BY <3>2, RingMod
    <3>4. x % N = k
      BY <1>1, <1>2, <2>1, <3>1, <3>3
    <3>5. QED BY <3>4 DEF x
  <2>2. CASE d = -1
    <3>1. x = n.i - Goal
      BY <1>1, <1>2, <2>2
    <3>2. x \in Int /\ -N <= x /\ x < 2 * N
      BY <1>1, <1>2, <3>1
    <3> HIDE DEF x
    <3>3. x % N = IF x < 0 THEN x + N ELSE IF x < N THEN x ELSE x - N
      BY <3>2, RingMod
    <3>4. x % N = k
      BY <1>1, <1>2, <2>2, <3>1, <3>3
    <3>5. QED BY <3>4 DEF x
  <2>3. QED BY <2>1, <2>2 DEF Dirs
<1>4. ASSUME NEW j \in 1 .. k + 1
      PROVE  [i |-> (n.i + (j - 1) * n.d) % N, d |-> n.d] = Node(k + 1 - j, d)
  <2> DEFINE x == n.i + (j - 1) * n.d
             m == k + 1 - j
  <2>1. m \in Sensor
    BY <1>1 DEF Sensor
  <2>2. x % N = Node(m, d).i
    <3>1. CASE d = 1
      <4>1. x = n.i + j - 1
        BY <1>1, <1>2, <3>1
      <4>2. x \in Int /\ -N <= x /\ x < 2 * N
        BY <1>1, <1>2, <4>1
      <4>3. Node(m, d).i = IF m <= Goal THEN Goal - m ELSE Goal - m + N
        BY <2>1, <3>1, NodeIs
      <4> HIDE DEF x
      <4>4. x % N = IF x < 0 THEN x + N ELSE IF x < N THEN x ELSE x - N
        BY <4>2, RingMod
      <4>5. QED BY <1>1, <1>2, <3>1, <4>1, <4>3, <4>4
    <3>2. CASE d = -1
      <4>1. x = n.i - j + 1
        BY <1>1, <1>2, <3>2
      <4>2. x \in Int /\ -N <= x /\ x < 2 * N
        BY <1>1, <1>2, <4>1
      <4>3. Node(m, d).i = IF Goal + m < N THEN Goal + m ELSE Goal + m - N
        BY <2>1, <3>2, NodeIs
      <4> HIDE DEF x
      <4>4. x % N = IF x < 0 THEN x + N ELSE IF x < N THEN x ELSE x - N
        BY <4>2, RingMod
      <4>5. QED BY <1>1, <1>2, <3>2, <4>1, <4>3, <4>4
    <3>3. QED BY <3>1, <3>2 DEF Dirs
  <2>3. Node(m, d) = [i |-> Node(m, d).i, d |-> d]
    BY <2>1, NodeIs
  <2>4. QED BY <1>2, <2>2, <2>3
<1>5. SensorsFrom(n) = [j \in 1 .. k + 1 |-> [i |-> (n.i + (j - 1) * n.d) % N, d |-> n.d]]
  BY <1>3 DEF SensorsFrom
<1>6. Way(k, 0, d) = [j \in 1 .. k + 1 |-> Node(k + 1 - j, d)]
  BY <1>1 DEF Way
<1>7. SensorsFrom(n) = Way(k, 0, d)
  BY <1>4, <1>5, <1>6
<1>8. QED BY <1>7 DEF n

-----------------------------------------------------------------------------
(* The plans                                                               *)

LEMMA WayIs ==
  ASSUME NEW a \in Sensor, NEW b \in 0 .. a + 1, NEW d \in Dirs
  PROVE  /\ Way(a, b, d) \in Seq(Places) /\ Len(Way(a, b, d)) = a + 1 - b
         /\ \A j \in 1 .. a + 1 - b : Way(a, b, d)[j] = Node(a + 1 - j, d) /\ a + 1 - j \in Sensor /\ b <= a + 1 - j
<1>1. N \in Nat /\ N > 0 /\ a \in 0 .. N - 1 /\ b \in 0 .. a + 1
  BY TrainAssumption DEF Sensor
<1>2. \A j \in 1 .. a - b + 1 : a + 1 - j \in Sensor /\ b <= a + 1 - j /\ Node(a + 1 - j, d) \in Places
  <2>1. \A j \in 1 .. a - b + 1 : a + 1 - j \in Sensor /\ b <= a + 1 - j
    BY <1>1 DEF Sensor
  <2>2. QED BY <2>1, NodeIs
<1>3. a - b + 1 \in Nat /\ a - b + 1 = a + 1 - b
  BY <1>1
<1>4. QED BY <1>2, <1>3 DEF Way

\* The first of several sensors, and the others
LEMMA WayTail ==
  ASSUME NEW a \in Sensor, NEW b \in 0 .. a, NEW d \in Dirs
  PROVE  /\ Way(a, b, d) # <<>> /\ Head(Way(a, b, d)) = Node(a, d)
         /\ a > 0 => Tail(Way(a, b, d)) = Way(a - 1, b, d)
         /\ a = b => Tail(Way(a, b, d)) = <<>>
<1>1. a \in Nat /\ b \in 0 .. a + 1 /\ (a > 0 => a - 1 \in Sensor /\ b \in 0 .. a - 1 + 1)
  BY TrainAssumption DEF Sensor
<1> DEFINE w == Way(a, b, d)
<1>2. /\ w \in Seq(Places) /\ Len(w) = a + 1 - b
      /\ \A j \in 1 .. a + 1 - b : w[j] = Node(a + 1 - j, d)
  BY <1>1, WayIs
<1>3. a > 0 => /\ Way(a - 1, b, d) \in Seq(Places) /\ Len(Way(a - 1, b, d)) = a - b
               /\ \A j \in 1 .. a - b : Way(a - 1, b, d)[j] = Node(a - j, d)
  <2>1. ASSUME a > 0
        PROVE  /\ Way(a - 1, b, d) \in Seq(Places) /\ Len(Way(a - 1, b, d)) = a - 1 + 1 - b
               /\ \A j \in 1 .. a - 1 + 1 - b : Way(a - 1, b, d)[j] = Node(a - 1 + 1 - j, d)
    BY <1>1, <2>1, WayIs
  <2>2. QED BY <1>1, <2>1
<1> HIDE DEF w
<1>4. w # <<>> /\ Head(w) = Node(a, d)
  BY <1>1, <1>2
<1>5. /\ Tail(w) \in Seq(Places) /\ Len(Tail(w)) = a - b
      /\ \A j \in 1 .. a - b : Tail(w)[j] = Node(a - j, d)
  <2>1. /\ Tail(w) \in Seq(Places) /\ Len(Tail(w)) = Len(w) - 1
        /\ \A j \in 1 .. Len(w) - 1 : Tail(w)[j] = w[j + 1]
    BY <1>2, <1>4, TailElements
  <2>2. ASSUME NEW j \in 1 .. a - b PROVE Tail(w)[j] = Node(a - j, d)
    <3>1. j \in 1 .. Len(w) - 1 /\ j + 1 \in 1 .. a + 1 - b /\ a + 1 - (j + 1) = a - j
      BY <1>1, <1>2
    <3>2. QED BY <1>2, <2>1, <3>1
  <2>3. QED BY <1>1, <1>2, <2>1, <2>2
<1>6. a > 0 => Tail(w) = Way(a - 1, b, d)
  BY <1>3, <1>5
<1>7. a = b => Tail(w) = <<>>
  <2>1. a = b => Len(Tail(w)) = 0
    BY <1>1, <1>5
  <2>2. QED BY <1>5, <2>1, EmptySeq
<1>8. QED BY <1>4, <1>6, <1>7 DEF w

\* The last of several sensors, and the others
LEMMA WayFront ==
  ASSUME NEW a \in Sensor, NEW b \in 0 .. a, NEW d \in Dirs
  PROVE  /\ Last(Way(a, b, d)) = Node(b, d) /\ b \in Sensor
         /\ Front(Way(a, b, d)) = Way(a, b + 1, d)
<1>1. a \in Nat /\ b \in 0 .. a + 1 /\ b + 1 \in 0 .. a + 1 /\ b \in Sensor
  BY TrainAssumption DEF Sensor
<1> DEFINE w == Way(a, b, d)
           v == Way(a, b + 1, d)
<1>2. /\ w \in Seq(Places) /\ Len(w) = a + 1 - b
      /\ \A j \in 1 .. a + 1 - b : w[j] = Node(a + 1 - j, d)
  BY <1>1, WayIs
<1>3. /\ v \in Seq(Places) /\ Len(v) = a + 1 - (b + 1)
      /\ \A j \in 1 .. a + 1 - (b + 1) : v[j] = Node(a + 1 - j, d)
  BY <1>1, WayIs
<1> HIDE DEF w, v
<1>4. Last(w) = Node(b, d)
  <2>1. a + 1 - b \in 1 .. a + 1 - b /\ a + 1 - (a + 1 - b) = b
    BY <1>1
  <2>2. QED BY <1>2, <2>1 DEF Last
<1>5. Front(w) = v
  <2>1. Len(w) - 1 \in 0 .. Len(w) /\ 1 \in 1 .. Len(w) + 1 /\ 1 <= Len(w) - 1 + 1
    BY <1>1, <1>2
  <2>2. /\ Front(w) \in Seq(Places) /\ Len(Front(w)) = Len(w) - 1 - 1 + 1
        /\ \A j \in 1 .. Len(w) - 1 - 1 + 1 : Front(w)[j] = w[1 + j - 1]
    BY <1>2, <2>1, SubSeqElements DEF Front
  <2>3. Len(Front(w)) = a - b /\ Len(v) = a - b
    BY <1>1, <1>2, <1>3, <2>2
  <2>4. ASSUME NEW j \in 1 .. a - b PROVE Front(w)[j] = v[j]
    <3>1. /\ j \in 1 .. a + 1 - b /\ j \in 1 .. a + 1 - (b + 1)
          /\ j \in 1 .. Len(w) - 1 - 1 + 1 /\ 1 + j - 1 = j
      BY <1>1, <1>2
    <3>2. QED BY <1>2, <1>3, <2>2, <3>1
  <2>5. QED BY <1>3, <2>2, <2>3, <2>4
<1>6. QED BY <1>1, <1>4, <1>5 DEF w, v

LEMMA RouteIs ==
  ASSUME NEW k \in Sensor, NEW d \in Dirs, NEW b \in 0 .. k, NEW c \in Kinds, c \in {"short", "stop"} => b = 0
  PROVE  LET r == Route(c, Way(k, 0, d), k + 1 - b) IN r \in Routes /\ IsPlan(r, k, b, d) /\ r.kind = c
<1> DEFINE s == Way(k, 0, d)
           n == k + 1 - b
           r == Route(c, s, n)
<1>1. k \in Nat /\ 0 \in 0 .. k + 1 /\ n \in 1 .. k + 1 /\ b \in Sensor /\ k + 1 - 0 = k + 1
  BY TrainAssumption DEF Sensor
<1>2. /\ s \in Seq(Places) /\ Len(s) = k + 1
      /\ \A j \in 1 .. k + 1 : s[j] = Node(k + 1 - j, d) /\ k + 1 - j \in Sensor
  BY <1>1, WayIs
<1>3. s[1] = Node(k, d) /\ s[1] \in Places
  <2>1. 1 \in 1 .. k + 1 /\ k + 1 - 1 = k
    BY <1>1
  <2>2. s[1] = Node(k, d)
    BY <1>2, <2>1
  <2>3. QED BY <2>2, NodeIs
<1>4. Way(k, k, d) = <<s[1]>>
  <2>1. k \in 0 .. k + 1 /\ k + 1 - k = 1 /\ 1 \in 1 .. 1 /\ k + 1 - 1 = k
    BY <1>1
  <2>2. Way(k, k, d) \in Seq(Places) /\ Len(Way(k, k, d)) = 1 /\ Way(k, k, d)[1] = Node(k, d)
    <3>1. /\ Way(k, k, d) \in Seq(Places) /\ Len(Way(k, k, d)) = k + 1 - k
          /\ \A j \in 1 .. k + 1 - k : Way(k, k, d)[j] = Node(k + 1 - j, d)
      BY <2>1, WayIs
    <3>2. 1 \in 1 .. k + 1 - k
      BY <2>1
    <3>3. QED BY <2>1, <3>1, <3>2
  <2>3. QED BY <1>3, <2>2
<1>5. SubSeq(s, 1, n) = Way(k, b, d)
  <2> DEFINE v == Way(k, b, d)
  <2>1. b \in 0 .. k + 1
    BY <1>1
  <2>2. v \in Seq(Places) /\ Len(v) = n /\ \A j \in 1 .. n : v[j] = Node(k + 1 - j, d)
    BY <2>1, WayIs
  <2>3. /\ SubSeq(s, 1, n) \in Seq(Places) /\ Len(SubSeq(s, 1, n)) = n - 1 + 1
        /\ \A j \in 1 .. n - 1 + 1 : SubSeq(s, 1, n)[j] = s[1 + j - 1]
    <3>1. 1 \in 1 .. Len(s) + 1 /\ n \in 0 .. Len(s) /\ 1 <= n + 1
      BY <1>1, <1>2
    <3>2. QED BY <1>2, <3>1, SubSeqElements
  <2> HIDE DEF v, s
  <2>4. ASSUME NEW j \in 1 .. n PROVE SubSeq(s, 1, n)[j] = v[j]
    <3>1. j \in 1 .. k + 1 /\ j \in 1 .. n - 1 + 1 /\ 1 + j - 1 = j
      BY <1>1
    <3>2. QED BY <1>2, <2>2, <2>3, <3>1
  <2>5. n - 1 + 1 = n
    BY <1>1
  <2>6. SubSeq(s, 1, n) = v
    BY <2>2, <2>3, <2>4, <2>5
  <2>7. QED BY <2>6 DEF v
<1>6. {s[j] : j \in 1 .. n - 1} = WayNodes(k, b + 1, d)
  <2>1. ASSUME NEW j \in 1 .. n - 1 PROVE k + 1 - j \in b + 1 .. k /\ s[j] = Node(k + 1 - j, d)
    BY <1>1, <1>2
  <2>2. ASSUME NEW m \in b + 1 .. k PROVE k + 1 - m \in 1 .. n - 1 /\ s[k + 1 - m] = Node(m, d)
    <3>1. k + 1 - m \in 1 .. n - 1 /\ k + 1 - m \in 1 .. k + 1 /\ k + 1 - (k + 1 - m) = m
      BY <1>1
    <3>2. QED BY <1>2, <3>1
  <2> HIDE DEF s, n
  <2>3. QED BY <2>1, <2>2 DEF WayNodes
<1>7. {Seg(s[j]) : j \in 1 .. n - 1} = Gaps(k - 1, b, d)
  <2>1. ASSUME NEW j \in 1 .. n - 1 PROVE k - j \in b .. k - 1 /\ Seg(s[j]) = Gap(k - j, d)
    <3>1. PICK m \in Int : m = k + 1 - j
      BY <1>1
    <3>2. m \in Sensor /\ m > 0 /\ s[j] = Node(m, d) /\ m - 1 = k - j /\ k - j \in b .. k - 1
      BY <1>1, <1>2, <3>1
    <3>3. Seg(Node(m, d)) = Gap(m - 1, d)
      BY <3>2, SegIs
    <3>4. QED BY <3>2, <3>3
  <2>2. ASSUME NEW m \in b .. k - 1 PROVE k - m \in 1 .. n - 1 /\ Seg(s[k - m]) = Gap(m, d)
    <3>1. k - m \in 1 .. n - 1 /\ k - m \in 1 .. k + 1 /\ k - (k - m) = m
      BY <1>1
    <3>2. QED BY <2>1, <3>1
  <2> HIDE DEF s, n
  <2>3. QED BY <2>1, <2>2 DEF Gaps
<1>8. WayNodes(k, b + 1, d) \subseteq Places /\ Gaps(k - 1, b, d) \subseteq Sensor
  <2>1. b + 1 .. k \subseteq Sensor /\ b .. k - 1 \subseteq Sensor
    BY <1>1, TrainAssumption DEF Sensor
  <2>2. QED BY <2>1, NodeIs, GapIs DEF WayNodes, Gaps
<1>9. Way(k, b, d) \in Seq(Places) /\ <<s[1]>> \in Seq(Places)
  BY <1>1, <1>3, WayIs
<1>10. NONE \in Places
  BY DEF NONE, Places
<1> DEFINE chg == CASE c = "short" -> <<SpeedChange("moving", NONE, FALSE), SpeedChange("braking", NONE, TRUE)>>
                    [] c = "accel" -> <<SpeedChange("moving", NONE, FALSE), SpeedChange("moving", NONE, TRUE)>>
                    [] c = "stop" -> <<SpeedChange("braking", s[1], TRUE)>>
                    [] c = "const" -> <<>>
<1>11. r = [kind |-> c, final |-> c \in {"short", "stop"}, switches |-> WayNodes(k, b + 1, d),
            path |-> IF c = "short" THEN Way(k, k, d) ELSE Way(k, b, d),
            segments |-> Gaps(k - 1, b, d), speed_changes |-> chg,
            decision_pt |-> IF n = Len(s) THEN NONE ELSE s[1]]
  <2> HIDE DEF s, n
  <2>1. QED BY <1>4, <1>5, <1>6, <1>7 DEF Route
<1>12. /\ SpeedChange("moving", NONE, FALSE) \in Changes /\ SpeedChange("braking", NONE, TRUE) \in Changes
       /\ SpeedChange("moving", NONE, TRUE) \in Changes /\ SpeedChange("braking", s[1], TRUE) \in Changes
  BY <1>3, <1>10 DEF SpeedChange, Changes, Speed
<1>13. /\ c = "short" => chg = <<SpeedChange("moving", NONE, FALSE), SpeedChange("braking", NONE, TRUE)>>
       /\ c = "accel" => chg = <<SpeedChange("moving", NONE, FALSE), SpeedChange("moving", NONE, TRUE)>>
       /\ c = "stop" => chg = <<SpeedChange("braking", s[1], TRUE)>>
       /\ c = "const" => chg = <<>>
  OBVIOUS
<1> HIDE DEF s, n, r, chg
<1>14. chg \in Seq(Changes)
  <2>1. ASSUME NEW x \in Changes, NEW y \in Changes PROVE <<x, y>> \in Seq(Changes) /\ <<x>> \in Seq(Changes)
    OBVIOUS
  <2>2. <<>> \in Seq(Changes)
    OBVIOUS
  <2>3. QED BY <1>12, <1>13, <2>1, <2>2, Zenon DEF Kinds
<1>15. r \in Routes
  BY <1>3, <1>4, <1>8, <1>9, <1>10, <1>11, <1>14 DEF Routes
<1>16. r.kind = c /\ r.speed_changes = chg /\ (r.final <=> c \in {"short", "stop"})
       /\ r.switches = WayNodes(k, b + 1, d) /\ r.segments = Gaps(k - 1, b, d)
       /\ r.path = IF c = "short" THEN Way(k, k, d) ELSE Way(k, b, d)
  BY <1>11
<1>17. c \in {"short", "accel"} => ToStart(r)
  <2>1. ASSUME NEW x, NEW y, chg = <<x, y>> PROVE Len(chg) = 2 /\ chg[1] = x /\ chg[2] = y
    BY <2>1
  <2>2. /\ SpeedChange("braking", NONE, TRUE).delay /\ SpeedChange("braking", NONE, TRUE).spd = "braking"
        /\ SpeedChange("moving", NONE, TRUE).delay /\ SpeedChange("moving", NONE, TRUE).spd = "moving"
    BY DEF SpeedChange
  <2>3. CASE c = "short"
    <3>1. Len(chg) = 2 /\ chg[1] = SpeedChange("moving", NONE, FALSE) /\ chg[2] = SpeedChange("braking", NONE, TRUE)
      BY <1>13, <2>1, <2>3
    <3>2. Delayed(chg[2], c)
      BY <2>2, <2>3, <3>1 DEF Delayed
    <3>3. QED BY <1>16, <3>1, <3>2, <2>3 DEF ToStart
  <2>4. CASE c = "accel"
    <3>1. Len(chg) = 2 /\ chg[1] = SpeedChange("moving", NONE, FALSE) /\ chg[2] = SpeedChange("moving", NONE, TRUE)
      BY <1>13, <2>1, <2>4
    <3>2. Delayed(chg[2], c)
      BY <2>2, <2>4, <3>1 DEF Delayed
    <3>3. QED BY <1>16, <3>1, <3>2, <2>4 DEF ToStart
  <2>5. QED BY <2>3, <2>4
<1>18. c = "stop" => OneLeft(r)
  <2>1. SpeedChange("braking", s[1], TRUE).delay /\ SpeedChange("braking", s[1], TRUE).spd = "braking"
    BY DEF SpeedChange
  <2>2. ASSUME NEW x, chg = <<x>> PROVE Len(chg) = 1 /\ chg[1] = x
    BY <2>2
  <2>3. QED BY <1>13, <1>16, <2>1, <2>2 DEF OneLeft, Delayed
<1>19. c = "const" => NoneLeft(r)
  BY <1>13, <1>16 DEF NoneLeft
<1>20. IsPlan(r, k, b, d)
  BY <1>16, <1>17, <1>18, <1>19 DEF IsPlan
<1>21. QED BY <1>15, <1>16, <1>20 DEF r, s, n

\* plan_stopped_route, for a train before the sensor k gaps before the goal
LEMMA StoppedPlan ==
  ASSUME NEW k \in Sensor, NEW d \in Dirs, NEW n, NEW first \in BOOLEAN,
         (IF first THEN SensorsFrom(n) ELSE Tail(SensorsFrom(n))) = Way(k, 0, d)
  PROVE  /\ PlanStopped(n, first) \in Routes /\ PlanStopped(n, first).kind \in {"short", "accel"}
         /\ \E b \in 0 .. k : IsPlan(PlanStopped(n, first), k, b, d)
<1> DEFINE w == Way(k, 0, d)
<1>1. k \in Nat /\ Len(w) = k + 1 /\ AccelDist \in Nat /\ StopDist \in Nat \ {0}
  <2>1. k \in Nat /\ 0 \in 0 .. k + 1 /\ k + 1 - 0 = k + 1
    BY TrainAssumption DEF Sensor
  <2>2. QED BY <2>1, WayIs, TrainAssumption
<1>2. PlanStopped(n, first) = IF Len(w) - 1 <= AccelDist + StopDist \/ Len(w) - 1 = 1 THEN Route("short", w, Len(w))
                              ELSE Route("accel", w, AccelDist + 2)
  BY DEF PlanStopped
<1>3. CASE Len(w) - 1 <= AccelDist + StopDist \/ Len(w) - 1 = 1
  <2>1. 0 \in 0 .. k /\ k + 1 - 0 = Len(w) /\ "short" \in Kinds
    BY <1>1 DEF Kinds
  <2>2. Route("short", w, Len(w)) \in Routes /\ IsPlan(Route("short", w, Len(w)), k, 0, d)
        /\ Route("short", w, Len(w)).kind = "short"
    BY <2>1, RouteIs
  <2>3. QED BY <1>2, <1>3, <2>1, <2>2
<1>4. CASE ~(Len(w) - 1 <= AccelDist + StopDist \/ Len(w) - 1 = 1)
  <2> DEFINE b == k - 1 - AccelDist
  <2>1. b \in 0 .. k /\ k + 1 - b = AccelDist + 2 /\ "accel" \in Kinds
    BY <1>1, <1>4 DEF Kinds
  <2>2. Route("accel", w, AccelDist + 2) \in Routes /\ IsPlan(Route("accel", w, AccelDist + 2), k, b, d)
        /\ Route("accel", w, AccelDist + 2).kind = "accel"
    BY <2>1, RouteIs
  <2>3. QED BY <1>2, <1>4, <2>1, <2>2
<1>5. QED BY <1>3, <1>4

\* plan_in_progress_route
LEMMA ProgressPlan ==
  ASSUME NEW k \in Sensor, NEW d \in Dirs
  PROVE  LET r == PlanInProgress(Node(k, d))
         IN r \in Routes /\ r.kind \in {"const", "stop"} /\ \E b \in 0 .. k : IsPlan(r, k, b, d)
<1> DEFINE w == Way(k, 0, d)
<1>1. k \in Nat /\ Len(w) = k + 1 /\ StopDist \in Nat \ {0}
  <2>1. k \in Nat /\ 0 \in 0 .. k + 1 /\ k + 1 - 0 = k + 1
    BY TrainAssumption DEF Sensor
  <2>2. QED BY <2>1, WayIs, TrainAssumption
<1>2. PlanInProgress(Node(k, d)) = IF Len(w) - 2 < StopDist THEN Route("stop", w, Len(w)) ELSE Route("const", w, 2)
  BY SensorsAre DEF PlanInProgress
<1>3. CASE Len(w) - 2 < StopDist
  <2>1. 0 \in 0 .. k /\ k + 1 - 0 = Len(w) /\ "stop" \in Kinds
    BY <1>1 DEF Kinds
  <2>2. Route("stop", w, Len(w)) \in Routes /\ IsPlan(Route("stop", w, Len(w)), k, 0, d)
        /\ Route("stop", w, Len(w)).kind = "stop"
    BY <2>1, RouteIs
  <2>3. QED BY <1>2, <1>3, <2>1, <2>2
<1>4. CASE ~(Len(w) - 2 < StopDist)
  <2>1. k - 1 \in 0 .. k /\ k + 1 - (k - 1) = 2 /\ "const" \in Kinds
    BY <1>1, <1>4 DEF Kinds
  <2>2. Route("const", w, 2) \in Routes /\ IsPlan(Route("const", w, 2), k, k - 1, d) /\ Route("const", w, 2).kind = "const"
    BY <2>1, RouteIs
  <2>3. QED BY <1>2, <1>4, <2>1, <2>2
<1>5. QED BY <1>3, <1>4

-----------------------------------------------------------------------------
(* The steps                                                               *)

\* Locks are refused only to a train that goes forwards at constant speed.
RefusedAtSpeed == Refusals \subseteq {<<"const", FALSE>>}

LEMMA TrainUnchanged ==
  ASSUME TrainInv,
         UNCHANGED <<train_tc, cur, plan, waiting, notifier, locks, train, thrown>>
  PROVE  TrainInv'
<1>1. /\ train_tc' = train_tc /\ cur' = cur /\ next' = next /\ current_node' = current_node
      /\ reversed' = reversed /\ waiting' = waiting /\ notifier' = notifier /\ locks' = locks
      /\ speed' = speed /\ facing' = facing /\ gap' = gap /\ thrown' = thrown
  BY DEF plan, train
<1>2. TrainTyped'
  BY <1>1 DEF TrainInv, TrainTyped
<1>3. TasksInStep'
  BY <1>1 DEF TrainInv, TasksInStep, Executing, AtWork, SpeedPending, RoutePending
<1>4. SpeedsInStep'
  BY <1>1 DEF TrainInv, SpeedsInStep, Executing, ToStart, OneLeft, NoneLeft, Delayed, Refused
<1>5. Located'
  <2>1. Planning'
    BY <1>1 DEF TrainInv, Located, Planning
  <2>2. Beginning'
    BY <1>1 DEF TrainInv, Located, Beginning, ToBegin
  <2>3. Driving'
    BY <1>1 DEF TrainInv, Located, Driving, Executing, OnPlan, NextLocked
  <2>4. Stopping'
    BY <1>1 DEF TrainInv, Located, Stopping, Rolling
  <2>5. Ended'
    BY <1>1 DEF TrainInv, Located, Ended, Rolling
  <2>6. QED BY <2>1, <2>2, <2>3, <2>4, <2>5 DEF Located
<1>6. QED BY <1>2, <1>3, <1>4, <1>5 DEF TrainInv

LEMMA NoRouteTyped == NoRoute \in Routes
<1>1. NONE \in Places /\ <<NONE>> \in Seq(Places)
  BY DEF NONE, Places
<1> DEFINE w == <<NONE>>
           chg == CASE "const" = "short" -> <<SpeedChange("moving", NONE, FALSE), SpeedChange("braking", NONE, TRUE)>>
                    [] "const" = "accel" -> <<SpeedChange("moving", NONE, FALSE), SpeedChange("moving", NONE, TRUE)>>
                    [] "const" = "stop" -> <<SpeedChange("braking", w[1], TRUE)>>
                    [] "const" = "const" -> <<>>
           sw == {w[j] : j \in 1 .. 1 - 1}
           sg == {Seg(w[j]) : j \in 1 .. 1 - 1}
<1>2. sw = {} /\ sg = {} /\ Len(w) = 1
  OBVIOUS
<1>3. chg = <<>>
  OBVIOUS
<1> HIDE DEF w, chg, sw, sg
<1> DEFINE rec(k, f, t, x, g, c, q) ==
             [kind |-> k, final |-> f, switches |-> t, path |-> x, segments |-> g, speed_changes |-> c, decision_pt |-> q]
<1>4. ASSUME NEW k, NEW f, NEW t, NEW x, NEW g, NEW c, NEW q
      PROVE  [rec(k, f, t, x, g, c, q) EXCEPT !.path = <<>>] = rec(k, f, t, <<>>, g, c, q)
  OBVIOUS
<1>5. NoRoute = rec("const", FALSE, {}, <<>>, {}, <<>>, NONE)
  <2>1. Route("const", w, 1) = rec("const", "const" \in {"short", "stop"}, sw,
                                   IF "const" = "short" THEN <<w[1]>> ELSE SubSeq(w, 1, 1),
                                   sg, chg, IF 1 = Len(w) THEN NONE ELSE w[1])
    BY Zenon DEF Route, chg, sw, sg
  <2>2. NoRoute = [Route("const", w, 1) EXCEPT !.path = <<>>]
    BY DEF NoRoute, w
  <2> HIDE DEF rec
  <2>3. NoRoute = rec("const", "const" \in {"short", "stop"}, sw, <<>>, sg, chg, IF 1 = Len(w) THEN NONE ELSE w[1])
    <3>1. PICK f, x, q : /\ f = ("const" \in {"short", "stop"})
                         /\ x = IF "const" = "short" THEN <<w[1]>> ELSE SubSeq(w, 1, 1)
                         /\ q = IF 1 = Len(w) THEN NONE ELSE w[1]
      OBVIOUS
    <3>2. Route("const", w, 1) = rec("const", f, sw, x, sg, chg, q)
      BY <2>1, <3>1, Zenon
    <3>3. NoRoute = rec("const", f, sw, <<>>, sg, chg, q)
      BY <1>4, <2>2, <3>2
    <3>4. QED BY <3>1, <3>3, Zenon
  <2>4. ("const" \in {"short", "stop"}) = FALSE
    OBVIOUS
  <2>5. (IF 1 = Len(w) THEN NONE ELSE w[1]) = NONE
    BY <1>2
  <2>6. QED BY <1>2, <1>3, <2>3, <2>4, <2>5, Zenon
<1>6. <<>> \in Seq(Places) /\ <<>> \in Seq(Changes)
  OBVIOUS
<1>7. QED BY <1>1, <1>5, <1>6 DEF Routes, Kinds

LEMMA IdleTyped == Idle \in Actions
BY DEF Idle, Actions, NONE, Places, Speed

LEMMA TrainInitially == TrainInit => TrainInv
<1> SUFFICES ASSUME TrainInit PROVE TrainInv
  OBVIOUS
<1>1. N \in Nat /\ N > 0 /\ Goal \in 0 .. N - 1 /\ Start \in 0 .. N - 1
  BY TrainAssumption
<1>2. \E k \in Sensor : Node(k, 1) = current_node /\ Gap(k, 1) = Start
  <2> DEFINE k == IF Start <= Goal THEN Goal - Start ELSE Goal - Start + N
  <2>1. k \in Sensor
    BY <1>1 DEF Sensor
  <2>2. 1 \in Dirs
    BY DEF Dirs
  <2>3. Node(k, 1) = [i |-> Node(k, 1).i, d |-> 1] /\ Node(k, 1).i = Start /\ Gap(k, 1) = Start
    BY <1>1, <2>1, <2>2, NodeIs, GapIs
  <2>4. QED BY <2>1, <2>3 DEF TrainInit
<1>3. TrainTyped
  BY <1>1, <1>2, NodeIs, NoRouteTyped, IdleTyped DEF TrainInit, TrainTyped, Dirs, Sensor, Speed
<1>4. TasksInStep /\ SpeedsInStep
  BY DEF TrainInit, TasksInStep, SpeedsInStep, Executing, Idle
<1>5. Located
  BY <1>2 DEF TrainInit, Located, Planning, Beginning, Driving, Stopping, Ended, Executing, Dirs
<1>6. QED BY <1>3, <1>4, <1>5 DEF TrainInv

\* What train_tc sends to receives.
LEMMA TargetsIdle ==
  ASSUME TrainInv
  PROVE  \A n \in Target : notifier[n].state = "idle"
<1> SUFFICES ASSUME NEW n \in Target PROVE notifier[n].state = "idle"
  OBVIOUS
<1>1. CASE train_tc = "begin" /\ ~cur.final
  BY <1>1 DEF TrainInv, TasksInStep, Target, Notifier
<1>2. CASE train_tc = "run" /\ SpeedPending
  BY <1>2 DEF TrainInv, TasksInStep, Target, Notifier, SpeedPending, Executing
<1>3. CASE train_tc = "run" /\ ~SpeedPending /\ RoutePending
  BY <1>3 DEF TrainInv, TasksInStep, Target, Notifier, RoutePending, Executing
<1>4. CASE train_tc = "quit"
  BY <1>4 DEF TrainInv, TasksInStep, Target
<1>5. QED BY <1>1, <1>2, <1>3, <1>4 DEF Target

LEMMA GapsSplit ==
  ASSUME NEW a \in Int, NEW b \in Int, NEW d, b <= a
  PROVE  Gaps(a, b, d) = Gaps(a - 1, b, d) \cup {Gap(a, d)}
<1>1. b .. a = (b .. a - 1) \cup {a}
  OBVIOUS
<1>2. QED BY <1>1 DEF Gaps

LEMMA PlanKeeps ==
  ASSUME TrainInv, Plan
  PROVE  TrainInv'
<1> DEFINE fwd == PlanStopped(current_node, TRUE)
           rv == PlanStopped(Rev(current_node), FALSE)
           Begins == cur' \in Routes /\ reversed' \in BOOLEAN /\ \E a, b \in Sensor, e \in Dirs : ToBegin(a, b, e)'
<1>1. PICK p \in Sensor, d \in Dirs : current_node = Node(p, d) /\ facing = d /\ gap = Gap(p, d) /\ gap \in locks
  BY DEF TrainInv, Located, Planning, Plan
<1>2. N \in Nat /\ N > 0 /\ p \in Nat /\ p < N /\ Sensor \subseteq Int
  BY <1>1, TrainAssumption DEF Sensor
<1>3. /\ fwd \in Routes /\ fwd.kind \in {"short", "accel"}
      /\ \E b \in 0 .. p : IsPlan(fwd, p, b, d)
  <2>1. (IF TRUE THEN SensorsFrom(current_node) ELSE Tail(SensorsFrom(current_node))) = Way(p, 0, d)
    BY <1>1, SensorsAre
  <2>2. QED BY <1>1, <2>1, StoppedPlan
<1>p. \/ reversed' = FALSE /\ cur' = fwd /\ locks' = locks \cup fwd.segments /\ facing' = facing
      \/ fwd.segments # {} /\ reversed' = TRUE /\ cur' = rv /\ locks' = locks \cup rv.segments /\ facing' = -facing
  BY DEF Plan
<1>g. gap' = gap /\ next' = NoRoute /\ train_tc = "plan" /\ train_tc' = "begin"
      /\ UNCHANGED <<current_node, waiting, notifier, speed>>
  BY DEF Plan
<1> HIDE DEF fwd, rv
<1>4. ASSUME reversed' = FALSE, cur' = fwd, locks' = locks \cup fwd.segments, facing' = facing
      PROVE  Begins
  <2>1. PICK b \in 0 .. p : IsPlan(fwd, p, b, d)
    BY <1>3
  <2>2. fwd.segments = Gaps(p - 1, b, d) /\ b \in Sensor /\ b <= p
    BY <1>2, <2>1 DEF IsPlan, Sensor
  <2>3. Gaps(p, b, d) \subseteq locks'
    <3>1. Gaps(p, b, d) = Gaps(p - 1, b, d) \cup {Gap(p, d)}
      BY <1>2, <2>2, GapsSplit
    <3>2. QED BY <1>1, <1>4, <2>2, <3>1
  <2>4. facing' = d /\ gap' = gap
    BY <1>1, <1>4, <1>g
  <2>5. ToBegin(p, b, d)'
    BY <1>1, <1>4, <2>1, <2>2, <2>3, <2>4 DEF ToBegin
  <2>6. QED BY <1>1, <1>3, <1>4, <2>2, <2>5
<1>5. ASSUME fwd.segments # {}, reversed' = TRUE, cur' = rv, locks' = locks \cup rv.segments, facing' = -facing
      PROVE  Begins
  <2>1. PICK b0 \in 0 .. p : IsPlan(fwd, p, b0, d)
    BY <1>3
  <2>2. p > 0
    <3>1. p = 0 => b0 .. p - 1 = {}
      BY <1>2
    <3>2. QED BY <1>2, <1>5, <2>1, <3>1 DEF IsPlan, Gaps
  <2>3. /\ -d \in Dirs /\ N - p \in Sensor /\ N - p - 1 \in Sensor
        /\ Rev(current_node) = Node(N - p, -d) /\ Gap(N - p - 1, -d) = Gap(p, d)
    BY <1>1, <2>2, TurnedRound
  <2>4. PICK q, e : q = N - p - 1 /\ e = -d
    OBVIOUS
  <2>5. Tail(SensorsFrom(Rev(current_node))) = Way(q, 0, e)
    <3>1. PICK r : r = N - p
      OBVIOUS
    <3>2. r \in Sensor /\ r > 0 /\ e \in Dirs /\ r - 1 = q /\ 0 \in 0 .. r
      BY <1>2, <2>3, <2>4, <3>1
    <3>3. SensorsFrom(Node(r, e)) = Way(r, 0, e)
      BY <3>2, SensorsAre
    <3>4. Tail(Way(r, 0, e)) = Way(r - 1, 0, e)
      BY <3>2, WayTail
    <3>5. QED BY <2>3, <2>4, <3>1, <3>2, <3>3, <3>4
  <2>6. /\ rv \in Routes /\ rv.kind \in {"short", "accel"}
        /\ \E b \in 0 .. q : IsPlan(rv, q, b, e)
    <3>1. (IF FALSE THEN SensorsFrom(Rev(current_node)) ELSE Tail(SensorsFrom(Rev(current_node)))) = Way(q, 0, e)
      BY <2>5
    <3>2. q \in Sensor /\ e \in Dirs
      BY <2>3, <2>4
    <3>3. QED BY <3>1, <3>2, StoppedPlan DEF rv
  <2>7. PICK b \in 0 .. q : IsPlan(rv, q, b, e)
    BY <2>6
  <2>8. rv.segments = Gaps(q - 1, b, e) /\ b \in Sensor /\ b <= q /\ q \in Sensor /\ e \in Dirs
    BY <1>2, <2>3, <2>4, <2>7 DEF IsPlan, Sensor
  <2>9. gap = Gap(q, e) /\ Gaps(q, b, e) \subseteq locks'
    <3>1. gap = Gap(q, e)
      BY <1>1, <2>3, <2>4
    <3>2. Gaps(q, b, e) = Gaps(q - 1, b, e) \cup {Gap(q, e)}
      BY <1>2, <2>8, GapsSplit
    <3>3. QED BY <1>1, <1>5, <2>8, <3>1, <3>2
  <2>10. facing' = e /\ gap' = gap
    BY <1>1, <1>5, <1>g, <2>4
  <2>11. ToBegin(q, b, e)'
    BY <1>5, <2>7, <2>8, <2>9, <2>10 DEF ToBegin
  <2>12. QED BY <1>5, <2>6, <2>8, <2>11
<1>6. cur' \in Routes /\ reversed' \in BOOLEAN /\ \E a, b \in Sensor, e \in Dirs : ToBegin(a, b, e)'
  BY <1>3, <1>4, <1>5, <1>p
<1>7. TrainTyped'
  <2>1. facing' \in Dirs
    BY <1>1, <1>p DEF Dirs
  <2>2. QED BY <1>6, <2>1, <1>g, NoRouteTyped DEF TrainInv, TrainTyped
<1>8. TasksInStep' /\ SpeedsInStep'
  BY <1>g DEF TrainInv, TasksInStep, SpeedsInStep, Executing
<1>9. Located'
  BY <1>6, <1>g DEF Located, Planning, Beginning, Driving, Stopping, Ended, Executing
<1>10. QED BY <1>7, <1>8, <1>9 DEF TrainInv

\* A route with another path, or with other speed changes
SameButPath(r, c) ==
  /\ r \in Routes /\ c.kind = r.kind /\ c.final = r.final /\ c.switches = r.switches
  /\ c.segments = r.segments /\ c.speed_changes = r.speed_changes
LEMMA WithPath ==
  ASSUME NEW r \in Routes, NEW w \in Seq(Places)
  PROVE  [r EXCEPT !.path = w] \in Routes /\ [r EXCEPT !.path = w].path = w /\ SameButPath(r, [r EXCEPT !.path = w])
BY DEF Routes, SameButPath

LEMMA WithChanges ==
  ASSUME NEW r \in Routes, NEW w \in Seq(Changes)
  PROVE  LET c == [r EXCEPT !.speed_changes = w]
         IN /\ c \in Routes /\ c.speed_changes = w /\ c.kind = r.kind /\ c.final = r.final /\ c.switches = r.switches
            /\ c.path = r.path /\ c.segments = r.segments
BY DEF Routes

\* A notifier is given something to do.
LEMMA Assigned ==
  ASSUME NEW n \in Notifier, NEW a \in Actions, notifier \in [Notifier -> Actions],
         notifier' = [notifier EXCEPT ![n] = a]
  PROVE  /\ notifier' \in [Notifier -> Actions] /\ notifier'[n] = a
         /\ \A m \in Notifier : m # n => notifier'[m] = notifier[m]
OBVIOUS

LEMMA BeginKeeps ==
  ASSUME TrainInv, Begin
  PROVE  TrainInv'
<1>1. PICK a, b \in Sensor, d \in Dirs : ToBegin(a, b, d)
  BY DEF TrainInv, Located, Beginning, Begin
<1>2. /\ train_tc = "begin" /\ train_tc' = "run" /\ thrown' = thrown \cup cur.switches
      /\ current_node' = Last(cur.path) /\ cur' = [cur EXCEPT !.path = Front(cur.path)]
      /\ reversed' = reversed /\ locks' = locks /\ speed' = speed /\ facing' = facing /\ gap' = gap
  BY DEF Begin, Throw, train
<1>3. /\ b <= a /\ IsPlan(cur, a, b, d) /\ facing = d /\ gap = Gap(a, d) /\ Gaps(a, b, d) \subseteq locks
      /\ cur \in Routes /\ next \in Routes /\ a \in Nat /\ b \in 0 .. a /\ notifier \in [Notifier -> Actions]
  BY <1>1, TrainAssumption DEF ToBegin, TrainInv, TrainTyped, Sensor
<1> DEFINE e == IF cur.kind = "short" THEN a ELSE b
<1>4. e \in 0 .. a /\ e \in Sensor /\ e + 1 \in 0 .. a + 1 /\ cur.path = Way(a, e, d)
  BY <1>1, <1>3 DEF IsPlan
<1>5. e = IF cur.kind = "short" THEN a ELSE b
  OBVIOUS
<1> HIDE DEF e
<1>6. current_node' = Node(e, d) /\ Front(cur.path) = Way(a, e + 1, d) /\ Way(a, e + 1, d) \in Seq(Places)
  BY <1>1, <1>2, <1>4, WayFront, WayIs
<1>7. cur' \in Routes /\ cur'.path = Way(a, e + 1, d) /\ SameButPath(cur, cur')
  BY <1>2, <1>3, <1>6, WithPath
<1>8. /\ cur'.kind = cur.kind /\ cur'.final = cur.final /\ cur'.segments = cur.segments
      /\ cur'.speed_changes = cur.speed_changes /\ cur.kind \in Kinds
  BY <1>3, <1>7 DEF SameButPath, Routes
<1>9. (ToStart(cur') <=> ToStart(cur)) /\ (OneLeft(cur') <=> OneLeft(cur)) /\ (NoneLeft(cur') <=> NoneLeft(cur))
  BY <1>8 DEF ToStart, OneLeft, NoneLeft
<1> DEFINE act == [Idle EXCEPT !.state = "sensor", !.sensor = cur.decision_pt, !.segments = next'.segments]
<1>10. \/ cur.final /\ next' = NoRoute /\ waiting' = {} /\ notifier' = notifier
       \/ /\ ~cur.final /\ next' = PlanInProgress(Node(e, d)) /\ waiting' = {"lock"}
          /\ notifier' = [notifier EXCEPT !["lock"] = act]
  BY <1>6 DEF Begin, wait_action
<1>11. \A n \in Notifier : notifier[n].state = "idle"
  BY <1>2 DEF TrainInv, TasksInStep
<1>12. ~cur.final => /\ next' \in Routes /\ next'.kind \in {"const", "stop"}
                     /\ \E c \in 0 .. e : IsPlan(next', e, c, d)
  BY <1>1, <1>4, <1>10, ProgressPlan
<1>13. next' \in Routes
  BY <1>10, <1>12, NoRouteTyped
<1>14. act \in Actions /\ act.state = "sensor" /\ act.segments = next'.segments
  <2>1. cur.decision_pt \in Places /\ next'.segments \in SUBSET Sensor
    BY <1>3, <1>13 DEF Routes
  <2>2. QED BY <2>1 DEF Idle, Actions, Speed
<1> HIDE DEF act
<1>15. ~cur.final => /\ notifier' \in [Notifier -> Actions] /\ notifier'["lock"] = act
                     /\ \A m \in Notifier : m # "lock" => notifier'[m] = notifier[m]
  BY <1>3, <1>10, <1>14, Assigned DEF Notifier
<1>16. TrainTyped'
  <2>1. waiting' \subseteq Notifier /\ notifier' \in [Notifier -> Actions]
    BY <1>3, <1>10, <1>15 DEF Notifier
  <2>2. current_node' \in Places
    BY <1>1, <1>4, <1>6, NodeIs
  <2>3. QED BY <1>2, <1>7, <1>13, <2>1, <2>2 DEF TrainInv, TrainTyped
<1>17. TasksInStep'
  <2>1. \A n \in Notifier : IF n \in waiting' THEN AtWork(n)' ELSE notifier'[n].state = "idle"
    <3>1. CASE cur.final
      BY <1>10, <1>11, <3>1
    <3>2. CASE ~cur.final
      BY <1>10, <1>11, <1>14, <1>15, <3>2 DEF AtWork, Notifier
    <3>3. QED BY <3>1, <3>2
  <2>2. QED BY <1>2, <2>1 DEF TasksInStep, Executing
<1>18. cur.final <=> cur.kind \in {"short", "stop"}
  BY <1>3 DEF IsPlan
<1>19. SpeedsInStep'
  <2>1. ToStart(cur') \/ OneLeft(cur') \/ NoneLeft(cur')
    BY <1>3, <1>8, <1>9 DEF IsPlan, Kinds
  <2>2. "spd" \notin waiting' /\ (cur.final => "lock" \notin waiting')
    BY <1>10
  <2>3. ~ Refused'
    BY <1>10, <1>14, <1>15 DEF Refused
  <2>4. cur'.kind = "accel" => ToStart(cur')
    BY <1>3, <1>8, <1>9 DEF IsPlan
  <2>5. QED BY <1>2, <1>8, <1>18, <2>1, <2>2, <2>3, <2>4 DEF SpeedsInStep
<1>20. OnPlan(a, b, a, d)'
  <2>1. b <= a /\ a <= a /\ facing' = d
    BY <1>2, <1>3
  <2>2. WayNodes(a, b + 1, d) \subseteq thrown' /\ Gaps(a, b, d) \subseteq locks'
    BY <1>2, <1>3 DEF IsPlan
  <2>3. cur'.segments \subseteq locks'
    <3>1. cur.segments = Gaps(a - 1, b, d)
      BY <1>3 DEF IsPlan
    <3>2. QED BY <1>2, <1>3, <1>8, <3>1, GapsSplit
  <2>4. cur'.final => b = 0
    BY <1>3, <1>8 DEF IsPlan
  <2>5. ~cur'.final => \E c \in 0 .. b : NextLocked(b, c, d)'
    <3>1. ASSUME ~cur.final PROVE \E c \in 0 .. b : NextLocked(b, c, d)'
      <4>1. e = b /\ waiting' = {"lock"} /\ notifier'["lock"] = act
        BY <1>5, <1>10, <1>15, <1>18, <3>1
      <4>2. PICK c \in 0 .. b : IsPlan(next', b, c, d)
        BY <1>12, <3>1, <4>1
      <4>3. NextLocked(b, c, d)'
        BY <1>12, <1>14, <3>1, <4>1, <4>2 DEF NextLocked
      <4>4. QED BY <4>3
    <3>2. QED BY <1>8, <3>1
  <2>6. "route" \notin waiting'
    BY <1>10
  <2>7. cur.kind = "short" => Way(a, e + 1, d) = <<>>
    <3>1. a \in Sensor /\ a + 1 \in 0 .. a + 1 /\ a + 1 - (a + 1) = 0
      BY <1>3
    <3>2. Way(a, a + 1, d) \in Seq(Places) /\ Len(Way(a, a + 1, d)) = a + 1 - (a + 1)
      BY <1>1, <3>1, WayIs
    <3>3. QED BY <1>5, <3>1, <3>2, EmptySeq
  <2>8. IF cur'.kind = "short"
        THEN current_node' = Node(a, d) /\ cur'.path = <<>> /\ "route" \notin waiting' /\ gap' = Gap(a, d)
        ELSE /\ current_node' = Node(b, d) /\ cur'.path = Way(a, b + 1, d)
             /\ "route" \notin waiting' /\ gap' = Gap(a, d)
    BY <1>2, <1>3, <1>5, <1>6, <1>7, <1>8, <2>6, <2>7
  <2>9. QED BY <2>1, <2>2, <2>3, <2>4, <2>5, <2>8 DEF OnPlan
<1>21. Located'
  <2>1. Driving'
    BY <1>1, <1>20 DEF Driving
  <2>2. QED BY <1>2, <2>1 DEF Located, Planning, Beginning, Stopping, Ended
<1>22. QED BY <1>16, <1>17, <1>19, <1>21 DEF TrainInv

-----------------------------------------------------------------------------
(* execute_plan at work                                                    *)

\* What does not touch the route and its locks does not move the train along it.
LEMMA OnPlanKeeps ==
  ASSUME NEW a, NEW b, NEW p, NEW d, OnPlan(a, b, p, d),
         UNCHANGED <<next, current_node, locks, facing, gap, thrown>>,
         cur'.kind = cur.kind, cur'.final = cur.final, cur'.path = cur.path, cur'.segments = cur.segments,
         ToStart(cur') => ToStart(cur),
         waiting' \cap {"lock", "route"} = waiting \cap {"lock", "route"},
         notifier'["lock"] = notifier["lock"], notifier'["route"] = notifier["route"]
  PROVE  OnPlan(a, b, p, d)'
<1>1. ("lock" \in waiting' <=> "lock" \in waiting) /\ ("route" \in waiting' <=> "route" \in waiting)
  <2>1. \A n \in {"lock", "route"} : n \in waiting' <=> n \in waiting' \cap {"lock", "route"}
    OBVIOUS
  <2>2. \A n \in {"lock", "route"} : n \in waiting <=> n \in waiting \cap {"lock", "route"}
    OBVIOUS
  <2>3. QED BY <2>1, <2>2
<1>2. ASSUME NEW c \in 0 .. b, NextLocked(b, c, d) PROVE NextLocked(b, c, d)'
  BY <1>1, <1>2 DEF NextLocked
<1>3. b <= p /\ p <= a /\ facing' = d /\ WayNodes(a, b + 1, d) \subseteq thrown' /\ Gaps(p, b, d) \subseteq locks'
      /\ (cur'.final => b = 0)
  BY DEF OnPlan
<1>4. (ToStart(cur') => cur'.segments \subseteq locks') /\ (~cur'.final => \E c \in 0 .. b : NextLocked(b, c, d)')
  BY <1>2 DEF OnPlan
<1>5. IF cur'.kind = "short"
      THEN current_node' = Node(a, d) /\ cur'.path = <<>> /\ "route" \notin waiting' /\ gap' = Gap(p, d)
      ELSE /\ current_node' = Node(b, d) /\ cur'.path = Way(p, b + 1, d)
           /\ "route" \in waiting' => b < p /\ notifier'["route"].sensor = Node(p, d)
           /\ gap' = IF "route" \in waiting' /\ notifier'["route"].state = "report" THEN Gap(p - 1, d) ELSE Gap(p, d)
  BY <1>1 DEF OnPlan
<1>6. QED BY <1>3, <1>4, <1>5 DEF OnPlan

\* The speed changes that are left, and what is left of them after the next one
LEMMA ChangesLeft ==
  ASSUME TrainInv, Executing, SpeedPending
  PROVE  /\ Tail(cur.speed_changes) \in Seq(Changes) /\ Head(cur.speed_changes) \in Changes
         /\ \/ /\ ToStart(cur) /\ Immediate(Head(cur.speed_changes)) /\ Head(cur.speed_changes).spd = "moving"
               /\ \A c : c.kind = cur.kind /\ c.speed_changes = Tail(cur.speed_changes) => OneLeft(c) /\ ~ToStart(c)
            \/ /\ OneLeft(cur) /\ ~ToStart(cur) /\ ~Immediate(Head(cur.speed_changes))
               /\ (Head(cur.speed_changes).spd = "moving" <=> cur.kind = "accel")
               /\ \A c : c.kind = cur.kind /\ c.speed_changes = Tail(cur.speed_changes) => NoneLeft(c) /\ ~ToStart(c)
<1> DEFINE s == cur.speed_changes
<1>1. s \in Seq(Changes) /\ s # <<>>
  BY DEF TrainInv, TrainTyped, Routes, SpeedPending
<1> HIDE DEF s
<1>2. /\ Head(s) = s[1] /\ Head(s) \in Changes /\ Tail(s) \in Seq(Changes)
      /\ Len(s) \in Nat \ {0} /\ Len(Tail(s)) = Len(s) - 1
      /\ \A i \in 1 .. Len(s) - 1 : Tail(s)[i] = s[i + 1]
  BY <1>1, TailElements
<1>3. ToStart(cur) \/ OneLeft(cur)
  BY <1>1 DEF TrainInv, SpeedsInStep, NoneLeft, s
<1>4. CASE ToStart(cur)
  <2>1. Len(s) = 2 /\ s[1] = SpeedChange("moving", NONE, FALSE) /\ Delayed(s[2], cur.kind) /\ cur.kind \in {"short", "accel"}
    BY <1>4 DEF ToStart, s
  <2>2. Len(Tail(s)) = 1 /\ Tail(s)[1] = s[2]
    BY <1>2, <2>1
  <2>3. Immediate(Head(s)) /\ Head(s).spd = "moving"
    BY <1>2, <2>1 DEF Immediate, SpeedChange
  <2>4. ASSUME NEW c, c.kind = cur.kind, c.speed_changes = Tail(s) PROVE OneLeft(c) /\ ~ToStart(c)
    <3>1. Len(c.speed_changes) = 1 /\ c.speed_changes[1] = s[2] /\ c.kind # "const"
      BY <2>1, <2>2, <2>4
    <3>2. Delayed(c.speed_changes[1], c.kind)
      BY <2>1, <2>4, <3>1 DEF Delayed
    <3>3. QED BY <3>1, <3>2 DEF OneLeft, ToStart
  <2>5. QED BY <1>2, <1>4, <2>3, <2>4 DEF s
<1>5. CASE OneLeft(cur)
  <2>1. Len(s) = 1 /\ Delayed(s[1], cur.kind) /\ cur.kind # "const"
    BY <1>5 DEF OneLeft, s
  <2>2. Tail(s) = <<>> /\ Len(Tail(s)) = 0
    <3>1. Tail(s) \in Seq(Changes) /\ Len(Tail(s)) = 0
      BY <1>2, <2>1
    <3>2. QED BY <3>1, EmptySeq
  <2>3. ~Immediate(Head(s)) /\ (Head(s).spd = "moving" <=> cur.kind = "accel")
    BY <1>2, <2>1 DEF Immediate, Delayed
  <2>4. ~ToStart(cur)
    BY <2>1 DEF ToStart, s
  <2>5. ASSUME NEW c, c.kind = cur.kind, c.speed_changes = Tail(s) PROVE NoneLeft(c) /\ ~ToStart(c)
    <3>1. c.speed_changes = <<>> /\ Len(c.speed_changes) = 0
      BY <2>2, <2>5, Zenon
    <3>2. Len(c.speed_changes) # 2
      BY <3>1
    <3>3. QED BY <3>1, <3>2, Zenon DEF NoneLeft, ToStart
  <2>6. QED BY <1>2, <1>5, <2>3, <2>4, <2>5 DEF s
<1>6. QED BY <1>3, <1>4, <1>5

LEMMA BlockKeeps ==
  ASSUME TrainInv, Block
  PROVE  TrainInv'
<1>1. /\ train_tc = "run" /\ ~SpeedPending /\ ~RoutePending /\ train_tc' = "receive"
      /\ UNCHANGED <<cur, next, current_node, reversed, waiting, notifier, locks, speed, facing, gap, thrown>>
  BY DEF Block, plan, train
<1>2. TrainTyped'
  BY <1>1 DEF TrainInv, TrainTyped
<1>3. TasksInStep'
  BY <1>1 DEF TrainInv, TasksInStep, Executing, AtWork, SpeedPending, RoutePending
<1>4. ~ToStart(cur)
  <2>1. ToStart(cur) => "spd" \notin waiting
    BY <1>1 DEF TrainInv, SpeedsInStep, Executing
  <2>2. ToStart(cur) => cur.speed_changes # <<>>
    BY DEF ToStart
  <2>3. QED BY <1>1, <2>1, <2>2 DEF SpeedPending
<1>5. SpeedsInStep'
  BY <1>1, <1>4 DEF TrainInv, SpeedsInStep, Executing, Refused
<1>6. Located'
  <2>1. PICK a, b, p \in Sensor, d \in Dirs : OnPlan(a, b, p, d)
    BY <1>1 DEF TrainInv, Located, Driving, Executing
  <2>2. OnPlan(a, b, p, d)'
    BY <1>1, <2>1, OnPlanKeeps
  <2>3. Driving'
    BY <2>2 DEF Driving
  <2>4. QED BY <1>1, <2>3 DEF Located, Planning, Beginning, Stopping, Ended
<1>7. QED BY <1>2, <1>3, <1>5, <1>6 DEF TrainInv

LEMMA ChangeNowKeeps ==
  ASSUME TrainInv, ChangeNow
  PROVE  TrainInv'
<1> DEFINE s == cur.speed_changes
<1>1. /\ train_tc = "run" /\ SpeedPending /\ Immediate(Head(s)) /\ SetSpeed(Head(s).spd)
      /\ cur' = [cur EXCEPT !.speed_changes = Tail(s)]
      /\ UNCHANGED <<train_tc, next, current_node, reversed, waiting, notifier, locks, facing, gap, thrown>>
  BY DEF ChangeNow, plan
<1>2. Executing /\ cur \in Routes
  BY <1>1 DEF Executing, TrainInv, TrainTyped
<1>3. /\ Tail(s) \in Seq(Changes) /\ ToStart(cur) /\ Head(s).spd = "moving"
      /\ \A c : c.kind = cur.kind /\ c.speed_changes = Tail(s) => OneLeft(c) /\ ~ToStart(c)
  BY <1>1, <1>2, ChangesLeft
<1> HIDE DEF s
<1>4. /\ cur' \in Routes /\ cur'.speed_changes = Tail(s) /\ cur'.kind = cur.kind /\ cur'.final = cur.final
      /\ cur'.path = cur.path /\ cur'.segments = cur.segments
  BY <1>1, <1>2, <1>3, WithChanges
<1>5. OneLeft(cur') /\ ~ToStart(cur')
  BY <1>3, <1>4
<1>6. speed' = "moving"
  BY <1>1, <1>3 DEF SetSpeed
<1>7. TrainTyped'
  BY <1>1, <1>4, <1>6 DEF TrainInv, TrainTyped, Speed
<1>8. TasksInStep'
  BY <1>1 DEF TrainInv, TasksInStep, Executing, AtWork
<1>9. SpeedsInStep'
  <2>1. /\ cur.final <=> cur.kind \in {"short", "stop"}
        /\ cur.final => "lock" \notin waiting
        /\ "spd" \notin waiting
        /\ Refused => cur.kind = "const" /\ cur.path = <<>> /\ ~reversed
    BY <1>2, <1>3 DEF TrainInv, SpeedsInStep
  <2>2. Refused' = Refused
    BY <1>1 DEF Refused
  <2>3. QED BY <1>1, <1>4, <1>5, <1>6, <2>1, <2>2 DEF SpeedsInStep
<1>10. Located'
  <2>1. PICK a, b, p \in Sensor, d \in Dirs : OnPlan(a, b, p, d)
    BY <1>2 DEF TrainInv, Located, Driving
  <2>2. OnPlan(a, b, p, d)'
    BY <1>1, <1>4, <1>5, <2>1, OnPlanKeeps
  <2>3. Driving'
    BY <2>2 DEF Driving
  <2>4. QED BY <1>1, <2>3 DEF Located, Planning, Beginning, Stopping, Ended
<1>11. QED BY <1>7, <1>8, <1>9, <1>10 DEF TrainInv

LEMMA WaitSpeedKeeps ==
  ASSUME TrainInv, WaitSpeed
  PROVE  TrainInv'
<1> DEFINE s == cur.speed_changes
           act == [Idle EXCEPT !.state = (IF Head(s).sensor = NONE THEN "delay" ELSE "sensor"),
                               !.sensor = Head(s).sensor, !.spd = Head(s).spd]
<1>1. /\ train_tc = "run" /\ SpeedPending /\ ~Immediate(Head(s))
      /\ notifier' = [notifier EXCEPT !["spd"] = act]
      /\ waiting' = waiting \cup {"spd"}
      /\ cur' = [cur EXCEPT !.speed_changes = Tail(s)]
      /\ UNCHANGED <<train_tc, next, current_node, reversed, locks, speed, facing, gap, thrown>>
  BY DEF WaitSpeed, wait_action, plan, train
<1>2. Executing /\ cur \in Routes /\ notifier \in [Notifier -> Actions]
  BY <1>1 DEF Executing, TrainInv, TrainTyped
<1>3. /\ Tail(s) \in Seq(Changes) /\ Head(s) \in Changes /\ OneLeft(cur) /\ ~ToStart(cur)
      /\ (Head(s).spd = "moving" <=> cur.kind = "accel")
      /\ \A c : c.kind = cur.kind /\ c.speed_changes = Tail(s) => NoneLeft(c) /\ ~ToStart(c)
  BY <1>1, <1>2, ChangesLeft
<1>4. act \in Actions /\ act.state \in {"sensor", "delay"} /\ act.spd = Head(s).spd
  BY <1>3 DEF Changes, Idle, Actions
<1> HIDE DEF s, act
<1>5. /\ cur' \in Routes /\ cur'.speed_changes = Tail(s) /\ cur'.kind = cur.kind /\ cur'.final = cur.final
      /\ cur'.path = cur.path /\ cur'.segments = cur.segments
  BY <1>1, <1>2, <1>3, WithChanges
<1>6. NoneLeft(cur') /\ ~ToStart(cur')
  BY <1>3, <1>5
<1>7. /\ notifier' \in [Notifier -> Actions] /\ notifier'["spd"] = act
      /\ notifier'["lock"] = notifier["lock"] /\ notifier'["route"] = notifier["route"]
      /\ \A m \in Notifier : m # "spd" => notifier'[m] = notifier[m]
  BY <1>1, <1>2, <1>4, Assigned DEF Notifier
<1>8. TrainTyped'
  BY <1>1, <1>5, <1>7 DEF TrainInv, TrainTyped, Notifier
<1>9. TasksInStep'
  BY <1>1, <1>4, <1>7 DEF TrainInv, TasksInStep, Executing, AtWork, Notifier
<1>10. SpeedsInStep'
  <2>1. /\ cur.final <=> cur.kind \in {"short", "stop"}
        /\ cur.final => "lock" \notin waiting
        /\ cur.kind = "accel" /\ ~ToStart(cur) => speed = "moving"
        /\ Refused => cur.kind = "const" /\ cur.path = <<>> /\ ~reversed
    BY <1>2 DEF TrainInv, SpeedsInStep
  <2>2. (Refused' <=> Refused) /\ ("lock" \in waiting' <=> "lock" \in waiting) /\ cur.kind # "const"
    BY <1>1, <1>3, <1>7 DEF Refused, OneLeft
  <2>3. QED BY <1>1, <1>3, <1>4, <1>5, <1>6, <1>7, <2>1, <2>2 DEF SpeedsInStep
<1>11. Located'
  <2>1. PICK a, b, p \in Sensor, d \in Dirs : OnPlan(a, b, p, d)
    BY <1>2 DEF TrainInv, Located, Driving
  <2>2. waiting' \cap {"lock", "route"} = waiting \cap {"lock", "route"}
    BY <1>1
  <2>3. OnPlan(a, b, p, d)'
    BY <1>1, <1>5, <1>6, <1>7, <2>1, <2>2, OnPlanKeeps
  <2>4. Driving'
    BY <2>3 DEF Driving
  <2>5. QED BY <1>1, <2>4 DEF Located, Planning, Beginning, Stopping, Ended
<1>12. QED BY <1>8, <1>9, <1>10, <1>11 DEF TrainInv

LEMMA WayEmpty ==
  ASSUME NEW a \in Sensor, NEW d \in Dirs
  PROVE  Way(a, a + 1, d) = <<>>
<1>1. a + 1 \in 0 .. a + 1 /\ a + 1 - (a + 1) = 0
  BY TrainAssumption DEF Sensor
<1>2. Way(a, a + 1, d) \in Seq(Places) /\ Len(Way(a, a + 1, d)) = a + 1 - (a + 1)
  BY <1>1, WayIs
<1>3. QED BY <1>1, <1>2, EmptySeq

\* What is left of the path: the sensors up to the last but one
LEMMA PathLeft ==
  ASSUME NEW b \in Sensor, NEW p \in Sensor, NEW d \in Dirs, b <= p
  PROVE  /\ Way(p, b + 1, d) \in Seq(Places)
         /\ Way(p, b + 1, d) = <<>> <=> p = b
         /\ b < p => /\ p - 1 \in Sensor /\ b + 1 <= p /\ Head(Way(p, b + 1, d)) = Node(p, d)
                     /\ Tail(Way(p, b + 1, d)) = Way(p - 1, b + 1, d)
<1>1. b \in Nat /\ p \in Nat /\ b + 1 \in 0 .. p + 1
  BY TrainAssumption DEF Sensor
<1>2. Way(p, b + 1, d) \in Seq(Places)
  BY <1>1, WayIs
<1>3. ASSUME b < p
      PROVE  /\ Way(p, b + 1, d) # <<>> /\ p - 1 \in Sensor /\ Head(Way(p, b + 1, d)) = Node(p, d)
             /\ Tail(Way(p, b + 1, d)) = Way(p - 1, b + 1, d)
  <2>1. b + 1 \in 0 .. p /\ p > 0 /\ p - 1 \in Sensor
    BY <1>1, <1>3, TrainAssumption DEF Sensor
  <2>2. QED BY <2>1, WayTail
<1>4. p = b => Way(p, b + 1, d) = <<>>
  BY WayEmpty
<1>5. QED BY <1>1, <1>2, <1>3, <1>4

LEMMA WaitRouteKeeps ==
  ASSUME TrainInv, WaitRoute
  PROVE  TrainInv'
<1> DEFINE act == [Idle EXCEPT !.state = "sensor", !.sensor = Head(cur.path)]
<1>1. /\ train_tc = "run" /\ ~SpeedPending /\ RoutePending
      /\ notifier' = [notifier EXCEPT !["route"] = act]
      /\ waiting' = waiting \cup {"route"}
      /\ UNCHANGED <<train_tc, cur, next, current_node, reversed, locks, speed, facing, gap, thrown>>
  BY DEF WaitRoute, wait_action, plan, train
<1>2. Executing /\ cur \in Routes /\ notifier \in [Notifier -> Actions]
  BY <1>1 DEF Executing, TrainInv, TrainTyped
<1>3. PICK a, b, p \in Sensor, d \in Dirs : OnPlan(a, b, p, d)
  BY <1>2 DEF TrainInv, Located, Driving
<1>4. "route" \notin waiting /\ cur.path # <<>>
  BY <1>1 DEF RoutePending
<1>5. /\ cur.kind # "short" /\ current_node = Node(b, d) /\ cur.path = Way(p, b + 1, d) /\ gap = Gap(p, d)
      /\ b <= p /\ p <= a /\ facing = d /\ WayNodes(a, b + 1, d) \subseteq thrown /\ Gaps(p, b, d) \subseteq locks
      /\ (ToStart(cur) => cur.segments \subseteq locks) /\ (cur.final => b = 0)
      /\ ~cur.final => \E c \in 0 .. b : NextLocked(b, c, d)
  BY <1>3, <1>4 DEF OnPlan
<1>6. b < p /\ Head(cur.path) = Node(p, d) /\ Node(p, d) \in Places
  <2>1. b # p
    BY <1>3, <1>4, <1>5, PathLeft
  <2>2. b < p
    BY <1>3, <1>5, <2>1, TrainAssumption DEF Sensor
  <2>3. QED BY <1>3, <1>5, <2>2, PathLeft, NodeIs
<1>7. act \in Actions /\ act.state = "sensor" /\ act.sensor = Node(p, d)
  BY <1>6 DEF Idle, Actions, Speed
<1> HIDE DEF act
<1>8. /\ notifier' \in [Notifier -> Actions] /\ notifier'["route"] = act
      /\ notifier'["lock"] = notifier["lock"] /\ notifier'["spd"] = notifier["spd"]
      /\ \A m \in Notifier : m # "route" => notifier'[m] = notifier[m]
  BY <1>1, <1>2, <1>7, Assigned DEF Notifier
<1>9. TrainTyped'
  BY <1>1, <1>8 DEF TrainInv, TrainTyped, Notifier
<1>10. TasksInStep'
  BY <1>1, <1>7, <1>8 DEF TrainInv, TasksInStep, Executing, AtWork, Notifier
<1>11. SpeedsInStep'
  <2>1. (Refused' <=> Refused) /\ ("lock" \in waiting' <=> "lock" \in waiting) /\ ("spd" \in waiting' <=> "spd" \in waiting)
    BY <1>1, <1>8 DEF Refused
  <2>2. QED BY <1>1, <1>2, <1>8, <2>1 DEF TrainInv, SpeedsInStep, Executing
<1>12. Located'
  <2>1. ASSUME NEW c \in 0 .. b, NextLocked(b, c, d) PROVE NextLocked(b, c, d)'
    BY <1>1, <1>8, <2>1 DEF NextLocked
  <2>2. ~cur'.final => \E c \in 0 .. b : NextLocked(b, c, d)'
    BY <1>1, <1>5, <2>1
  <2>3. OnPlan(a, b, p, d)'
    BY <1>1, <1>5, <1>6, <1>7, <1>8, <2>2 DEF OnPlan
  <2>4. Driving'
    BY <1>3, <2>3 DEF Driving
  <2>5. QED BY <1>1, <2>4 DEF Located, Planning, Beginning, Stopping, Ended
<1>13. QED BY <1>9, <1>10, <1>11, <1>12 DEF TrainInv

-----------------------------------------------------------------------------
(* The notifiers and the train                                             *)

LEMMA Working ==
  ASSUME TrainInv, NEW n \in Notifier, notifier[n].state \notin {"idle", "gone"}
  PROVE  Executing /\ n \in waiting /\ AtWork(n)
<1>1. Executing
  BY DEF TrainInv, TrainTyped, TasksInStep, Executing
<1>2. QED BY <1>1 DEF TrainInv, TasksInStep

LEMMA SpeedDueKeeps ==
  ASSUME TrainInv, SpeedDue
  PROVE  TrainInv'
<1>1. /\ notifier["spd"].state = "delay" /\ SetSpeed(notifier["spd"].spd)
      /\ notifier' = [notifier EXCEPT !["spd"].state = "report"]
      /\ UNCHANGED <<train_tc, cur, next, current_node, reversed, waiting, locks, facing, gap, thrown>>
  BY DEF SpeedDue, plan
<1>2. "spd" \in Notifier /\ Executing /\ "spd" \in waiting /\ notifier \in [Notifier -> Actions]
  BY <1>1, Working DEF Notifier, TrainInv, TrainTyped
<1>3. /\ notifier' \in [Notifier -> Actions] /\ notifier'["spd"].state = "report" /\ notifier'["spd"].spd = notifier["spd"].spd
      /\ notifier'["lock"] = notifier["lock"] /\ notifier'["route"] = notifier["route"]
      /\ \A m \in Notifier : m # "spd" => notifier'[m] = notifier[m]
  BY <1>1, <1>2 DEF Actions, Notifier
<1>4. speed' \in Speed /\ (notifier["spd"].spd = "moving" => speed' = "moving")
  BY <1>1, <1>2 DEF SetSpeed, Actions, Speed
<1>5. TrainTyped'
  BY <1>1, <1>3, <1>4 DEF TrainInv, TrainTyped
<1>6. TasksInStep'
  BY <1>1, <1>2, <1>3 DEF TrainInv, TasksInStep, Executing, AtWork, Notifier, SpeedPending, RoutePending
<1>7. SpeedsInStep'
  <2>1. Refused' = Refused
    BY <1>1, <1>3 DEF Refused
  <2>2. QED BY <1>1, <1>2, <1>3, <1>4, <2>1 DEF TrainInv, SpeedsInStep, Executing
<1>8. Located'
  <2>1. PICK a, b, p \in Sensor, d \in Dirs : OnPlan(a, b, p, d)
    BY <1>2 DEF TrainInv, Located, Driving
  <2>2. OnPlan(a, b, p, d)'
    BY <1>1, <1>3, <2>1, OnPlanKeeps
  <2>3. Driving'
    BY <2>2 DEF Driving
  <2>4. QED BY <1>1, <1>2, <2>3 DEF Located, Planning, Beginning, Stopping, Ended, Executing
<1>9. QED BY <1>5, <1>6, <1>7, <1>8 DEF TrainInv

LEMMA GrantKeeps ==
  ASSUME TrainInv, Grant
  PROVE  TrainInv'
<1>1. /\ notifier["lock"].state = "lock"
      /\ locks' = locks \cup notifier["lock"].segments
      /\ notifier' = [notifier EXCEPT !["lock"].state = "report", !["lock"].ok = TRUE]
      /\ UNCHANGED <<train_tc, cur, next, current_node, reversed, waiting, speed, facing, gap, thrown>>
  BY DEF Grant, plan, train
<1>2. "lock" \in Notifier /\ Executing /\ "lock" \in waiting /\ notifier \in [Notifier -> Actions]
  BY <1>1, Working DEF Notifier, TrainInv, TrainTyped
<1>3. /\ notifier' \in [Notifier -> Actions] /\ notifier'["lock"].state = "report" /\ notifier'["lock"].ok
      /\ notifier'["lock"].segments = notifier["lock"].segments
      /\ notifier'["spd"] = notifier["spd"] /\ notifier'["route"] = notifier["route"]
      /\ \A m \in Notifier : m # "lock" => notifier'[m] = notifier[m]
  BY <1>1, <1>2 DEF Actions, Notifier
<1>4. TrainTyped'
  BY <1>1, <1>3 DEF TrainInv, TrainTyped
<1>5. TasksInStep'
  BY <1>1, <1>2, <1>3 DEF TrainInv, TasksInStep, Executing, AtWork, Notifier, SpeedPending, RoutePending
<1>6. SpeedsInStep'
  <2>1. ~ Refused'
    BY <1>1, <1>3 DEF Refused
  <2>2. QED BY <1>1, <1>2, <1>3, <2>1 DEF TrainInv, SpeedsInStep, Executing
<1>7. Located'
  <2>1. PICK a, b, p \in Sensor, d \in Dirs : OnPlan(a, b, p, d)
    BY <1>2 DEF TrainInv, Located, Driving
  <2>2. ASSUME NEW c \in 0 .. b, NextLocked(b, c, d) PROVE NextLocked(b, c, d)'
    BY <1>1, <1>2, <1>3, <2>2 DEF NextLocked
  <2>3. ~cur'.final => \E c \in 0 .. b : NextLocked(b, c, d)'
    BY <1>1, <2>1, <2>2 DEF OnPlan
  <2>4. OnPlan(a, b, p, d)'
    BY <1>1, <1>3, <2>1, <2>3 DEF OnPlan
  <2>5. Driving'
    BY <2>1, <2>4 DEF Driving
  <2>6. QED BY <1>1, <1>2, <2>5 DEF Located, Planning, Beginning, Stopping, Ended, Executing
<1>8. QED BY <1>4, <1>5, <1>6, <1>7 DEF TrainInv

\* When a lock is refused the train stands before the last sensor of its plan, which
\* the route notifier does not wait for.
LEMMA RefuseKeeps ==
  ASSUME TrainInv, RefusedAtSpeed, Refuse
  PROVE  TrainInv'
<1>1. /\ notifier["lock"].state = "lock"
      /\ <<cur.kind, reversed>> \in Refusals /\ Quiet /\ gap = Seg(Rev(current_node))
      /\ speed' = "stopped"
      /\ notifier' = [notifier EXCEPT !["lock"].state = "report", !["lock"].ok = FALSE]
      /\ UNCHANGED <<train_tc, cur, next, current_node, reversed, waiting, locks, facing, gap, thrown>>
  BY DEF Refuse, plan
<1>2. "lock" \in Notifier /\ Executing /\ "lock" \in waiting /\ notifier \in [Notifier -> Actions]
  BY <1>1, Working DEF Notifier, TrainInv, TrainTyped
<1>3. /\ notifier' \in [Notifier -> Actions] /\ notifier'["lock"].state = "report" /\ ~notifier'["lock"].ok
      /\ notifier'["lock"].segments = notifier["lock"].segments
      /\ notifier'["spd"] = notifier["spd"] /\ notifier'["route"] = notifier["route"]
      /\ \A m \in Notifier : m # "lock" => notifier'[m] = notifier[m]
  BY <1>1, <1>2 DEF Actions, Notifier
<1>4. cur.kind = "const" /\ ~reversed
  BY <1>1 DEF RefusedAtSpeed
<1>5. PICK a, b, p \in Sensor, d \in Dirs : OnPlan(a, b, p, d)
  BY <1>2 DEF TrainInv, Located, Driving
<1>6. notifier["route"].state # "report"
  BY <1>1, TargetsIdle DEF Quiet, Blocked, Notifier
<1>7. p = b /\ cur.path = <<>>
  <2>1. gap = Gap(p, d) /\ current_node = Node(b, d) /\ cur.path = Way(p, b + 1, d) /\ b <= p
    BY <1>4, <1>5, <1>6 DEF OnPlan
  <2>2. gap = Gap(b, d)
    BY <1>1, <2>1 DEF Gap
  <2>3. p = b
    BY <1>5, <2>1, <2>2, Apart
  <2>4. QED BY <1>5, <2>1, <2>3, PathLeft
<1>8. TrainTyped'
  BY <1>1, <1>3 DEF TrainInv, TrainTyped, Speed
<1>9. TasksInStep'
  BY <1>1, <1>2, <1>3 DEF TrainInv, TasksInStep, Executing, AtWork, Notifier, SpeedPending, RoutePending
<1>10. SpeedsInStep'
  BY <1>1, <1>2, <1>3, <1>4, <1>7 DEF TrainInv, SpeedsInStep, Executing
<1>11. Located'
  <2>1. ASSUME NEW c \in 0 .. b, NextLocked(b, c, d) PROVE NextLocked(b, c, d)'
    BY <1>1, <1>2, <1>3, <2>1 DEF NextLocked
  <2>2. ~cur'.final => \E c \in 0 .. b : NextLocked(b, c, d)'
    BY <1>1, <1>5, <2>1 DEF OnPlan
  <2>3. OnPlan(a, b, p, d)'
    BY <1>1, <1>3, <1>5, <2>2 DEF OnPlan
  <2>4. Driving'
    BY <1>5, <2>3 DEF Driving
  <2>5. QED BY <1>1, <1>2, <2>4 DEF Located, Planning, Beginning, Stopping, Ended, Executing
<1>12. QED BY <1>8, <1>9, <1>10, <1>11 DEF TrainInv

\* What the notifiers do when the train passes a sensor
LEMMA SensorsReported ==
  ASSUME TrainInv, Cross, NEW n \in Notifier
  PROVE  /\ notifier' \in [Notifier -> Actions]
         /\ notifier'[n].segments = notifier[n].segments /\ notifier'[n].ok = notifier[n].ok
         /\ notifier'[n].spd = notifier[n].spd /\ notifier'[n].sensor = notifier[n].sensor
         /\ IF notifier[n].state = "sensor" /\ notifier[n].sensor = Coming
            THEN notifier'[n].state = AfterSensor[n] ELSE notifier'[n] = notifier[n]
<1>1. notifier \in [Notifier -> Actions]
  BY DEF TrainInv, TrainTyped
<1>2. notifier' = [m \in Notifier |-> IF notifier[m].state = "sensor" /\ notifier[m].sensor = Coming
                                  THEN [notifier[m] EXCEPT !.state = AfterSensor[m]] ELSE notifier[m]]
  BY DEF Cross
<1>3. \A m \in Notifier : AfterSensor[m] \in {"report", "delay", "lock"}
  BY DEF AfterSensor, Notifier
<1>4. ASSUME NEW a \in Actions, NEW st \in {"report", "delay", "lock"}
      PROVE  /\ [a EXCEPT !.state = st] \in Actions /\ [a EXCEPT !.state = st].state = st
             /\ [a EXCEPT !.state = st].segments = a.segments /\ [a EXCEPT !.state = st].ok = a.ok
             /\ [a EXCEPT !.state = st].spd = a.spd /\ [a EXCEPT !.state = st].sensor = a.sensor
  BY DEF Actions
<1>5. \A m \in Notifier :
        /\ notifier'[m] = IF notifier[m].state = "sensor" /\ notifier[m].sensor = Coming
                          THEN [notifier[m] EXCEPT !.state = AfterSensor[m]] ELSE notifier[m]
        /\ notifier[m] \in Actions
  BY <1>1, <1>2, Zenon
<1>6. ASSUME NEW m \in Notifier
      PROVE  /\ notifier'[m] \in Actions
             /\ notifier'[m].segments = notifier[m].segments /\ notifier'[m].ok = notifier[m].ok
             /\ notifier'[m].spd = notifier[m].spd /\ notifier'[m].sensor = notifier[m].sensor
             /\ IF notifier[m].state = "sensor" /\ notifier[m].sensor = Coming
                THEN notifier'[m].state = AfterSensor[m] ELSE notifier'[m] = notifier[m]
  <2>1. notifier[m] \in Actions /\ AfterSensor[m] \in {"report", "delay", "lock"}
    BY <1>3, <1>5
  <2>2. CASE notifier[m].state = "sensor" /\ notifier[m].sensor = Coming
    <3>1. notifier'[m] = [notifier[m] EXCEPT !.state = AfterSensor[m]]
      BY <1>5, <2>2
    <3>2. PICK x \in Actions, st \in {"report", "delay", "lock"} : x = notifier[m] /\ st = AfterSensor[m]
      BY <2>1
    <3>3. notifier'[m] = [x EXCEPT !.state = st]
      BY <3>1, <3>2, Zenon
    <3>4. PICK y : y = [x EXCEPT !.state = st]
      OBVIOUS
    <3>5. y \in Actions /\ y.state = st /\ y.segments = x.segments /\ y.ok = x.ok /\ y.spd = x.spd /\ y.sensor = x.sensor
      BY <1>4, <3>4, Zenon
    <3>6. notifier'[m] = y
      BY <3>3, <3>4
    <3>7. QED BY <2>2, <3>2, <3>5, <3>6
  <2>3. CASE ~(notifier[m].state = "sensor" /\ notifier[m].sensor = Coming)
    <3>1. notifier'[m] = notifier[m]
      BY <1>5, <2>3
    <3>2. QED BY <2>1, <2>3, <3>1
  <2>4. QED BY <2>2, <2>3
<1>7. notifier' \in [Notifier -> Actions]
  BY <1>2, <1>6
<1>8. QED BY <1>6, <1>7

\* A train that moves on its plan gets from one gap to the next.
LEMMA CrossOnPlan ==
  ASSUME TrainInv, Cross, train_tc = "receive",
         NEW a \in Sensor, NEW b \in Sensor, NEW p \in Sensor, NEW d \in Dirs, OnPlan(a, b, p, d)
  PROVE  \E r \in Sensor : OnPlan(a, b, r, d)'
<1>1. /\ Coming.i # Goal /\ (cur.final \/ Coming # current_node) /\ gap' = Seg(Coming)
      /\ UNCHANGED <<cur, next, current_node, waiting, locks, facing, thrown>>
  BY DEF Cross, plan
<1>2. /\ b <= p /\ p <= a /\ facing = d /\ WayNodes(a, b + 1, d) \subseteq thrown /\ Gaps(p, b, d) \subseteq locks
      /\ (ToStart(cur) => cur.segments \subseteq locks) /\ (cur.final => b = 0)
      /\ ~cur.final => \E c \in 0 .. b : NextLocked(b, c, d)
  BY DEF OnPlan
<1>3. \A n \in Notifier : notifier[n].state # "report"
  BY TargetsIdle DEF Cross, Quiet, Blocked
<1>4. ASSUME gap = Gap(p, d) PROVE Coming = Node(p, d) /\ p > 0 /\ p - 1 \in Sensor /\ gap' = Gap(p - 1, d)
  <2>1. Coming = Node(p, d) /\ p # 0
    BY <1>1, <1>2, <1>4, ComingIs
  <2>2. p > 0
    BY <2>1 DEF Sensor
  <2>3. QED BY <1>1, <2>1, <2>2, SegIs
<1>5. ASSUME NEW c \in 0 .. b, NextLocked(b, c, d) PROVE NextLocked(b, c, d)'
  <2>1. "lock" \in Notifier /\ notifier'["lock"].segments = notifier["lock"].segments /\ notifier["lock"].state # "report"
    BY <1>3, SensorsReported DEF Notifier
  <2>2. notifier'["lock"].state # "report"
    BY <2>1, SensorsReported DEF AfterSensor, Notifier
  <2>3. QED BY <1>1, <1>5, <2>1, <2>2 DEF NextLocked
<1>6. ~cur'.final => \E c \in 0 .. b : NextLocked(b, c, d)'
  BY <1>1, <1>2, <1>5
<1>7. CASE cur.kind = "short"
  <2>1. cur.final
    BY <1>7 DEF TrainInv, SpeedsInStep, Executing
  <2>2. gap = Gap(p, d) /\ current_node = Node(a, d) /\ cur.path = <<>> /\ "route" \notin waiting /\ b = 0
    BY <1>2, <1>7, <2>1 DEF OnPlan
  <2>3. p - 1 \in Sensor /\ gap' = Gap(p - 1, d) /\ b <= p - 1 /\ p - 1 <= a /\ p \in Int /\ a \in Int
    BY <1>2, <1>4, <2>2, TrainAssumption DEF Sensor
  <2>4. Gaps(p - 1, b, d) \subseteq locks
    <3>1. Gaps(p, b, d) = Gaps(p - 1, b, d) \cup {Gap(p, d)}
      BY <1>2, <2>2, <2>3, GapsSplit
    <3>2. QED BY <1>2, <3>1
  <2>5. OnPlan(a, b, p - 1, d)'
    BY <1>1, <1>2, <1>6, <1>7, <2>2, <2>3, <2>4 DEF OnPlan
  <2>6. QED BY <2>3, <2>5
<1>8. CASE cur.kind # "short"
  <2>1. current_node = Node(b, d) /\ cur.path = Way(p, b + 1, d)
        /\ ("route" \in waiting => b < p /\ notifier["route"].sensor = Node(p, d)) /\ gap = Gap(p, d)
    BY <1>3, <1>8 DEF OnPlan, Notifier
  <2>2. Coming = Node(p, d) /\ p > 0 /\ gap' = Gap(p - 1, d)
    BY <1>4, <2>1
  <2>3. p # b
    BY <1>1, <1>2, <2>1, <2>2
  <2>4. "route" \in waiting
    <3>1. cur.path # <<>>
      BY <1>2, <2>1, <2>3, PathLeft
    <3>2. QED BY <3>1 DEF TrainInv, TasksInStep, RoutePending
  <2>5. notifier["route"].state = "sensor" /\ notifier["route"].sensor = Coming
    BY <1>3, <2>1, <2>2, <2>4 DEF TrainInv, TasksInStep, Executing, AtWork, Notifier
  <2>6. notifier'["route"].state = "report" /\ notifier'["route"].sensor = Node(p, d)
    BY <2>2, <2>5, SensorsReported DEF AfterSensor, Notifier
  <2>7. OnPlan(a, b, p, d)'
    BY <1>1, <1>2, <1>6, <1>8, <2>1, <2>2, <2>4, <2>6 DEF OnPlan
  <2>8. QED BY <2>7
<1>9. QED BY <1>7, <1>8

LEMMA CrossKeeps ==
  ASSUME TrainInv, Cross
  PROVE  TrainInv'
<1>1. /\ speed # "stopped" /\ Quiet /\ Coming.i # Goal /\ gap' = Seg(Coming)
      /\ UNCHANGED <<train_tc, cur, next, current_node, reversed, waiting, locks, speed, facing, thrown>>
  BY DEF Cross, plan
<1>2. train_tc \in {"receive", "done"} /\ \A n \in Notifier : notifier[n].state # "report"
  BY <1>1, TargetsIdle DEF Quiet, Blocked
<1>3. CASE train_tc = "receive"
  <2>1. PICK a, b, p \in Sensor, d \in Dirs : OnPlan(a, b, p, d)
    BY <1>3 DEF TrainInv, Located, Driving, Executing
  <2>2. PICK r \in Sensor : OnPlan(a, b, r, d)'
    BY <1>3, <2>1, CrossOnPlan
  <2>3. gap' \in Sensor
    <3>1. gap' = Gap(r, d) \/ (gap' = Gap(r - 1, d) /\ b < r)
      BY <2>2 DEF OnPlan
    <3>2. b < r => r - 1 \in Sensor
      BY <2>1, TrainAssumption DEF Sensor
    <3>3. QED BY <2>1, <3>1, <3>2, GapIs
  <2>4. notifier' \in [Notifier -> Actions]
    BY SensorsReported DEF Notifier
  <2>5. TrainTyped'
    BY <1>1, <2>3, <2>4 DEF TrainInv, TrainTyped
  <2>6. \A n \in Notifier : IF n \in waiting THEN AtWork(n)' ELSE notifier'[n].state = "idle"
    <3>1. \A n \in Notifier : IF n \in waiting THEN AtWork(n) ELSE notifier[n].state = "idle"
      BY <1>3 DEF TrainInv, TasksInStep, Executing
    <3>2. ASSUME NEW n \in Notifier, n \in waiting PROVE AtWork(n)'
      <4>1. CASE notifier[n].state = "sensor" /\ notifier[n].sensor = Coming
        <5>1. notifier'[n].state = AfterSensor[n]
          BY <4>1, SensorsReported
        <5>2. QED BY <5>1 DEF AtWork, AfterSensor, Notifier
      <4>2. CASE ~(notifier[n].state = "sensor" /\ notifier[n].sensor = Coming)
        <5>1. notifier'[n] = notifier[n]
          BY <4>2, SensorsReported
        <5>2. QED BY <3>1, <3>2, <5>1 DEF AtWork
      <4>3. QED BY <4>1, <4>2
    <3>3. ASSUME NEW n \in Notifier, n \notin waiting PROVE notifier'[n].state = "idle"
      BY <3>1, <3>3, SensorsReported
    <3>4. QED BY <3>2, <3>3
  <2>7. TasksInStep'
    BY <1>1, <1>3, <2>6 DEF TrainInv, TasksInStep, Executing, SpeedPending, RoutePending
  <2>8. SpeedsInStep'
    <3>1. ~ Refused'
      <4>1. notifier'["lock"].state # "report"
        BY <1>2, SensorsReported DEF AfterSensor, Notifier
      <4>2. QED BY <4>1 DEF Refused
    <3>2. notifier'["spd"].spd = notifier["spd"].spd
      BY SensorsReported DEF Notifier
    <3>3. QED BY <1>1, <1>3, <3>1, <3>2 DEF TrainInv, SpeedsInStep, Executing
  <2>9. Located'
    <3>1. Driving'
      BY <2>1, <2>2 DEF Driving
    <3>2. QED BY <1>1, <1>3, <3>1 DEF Located, Planning, Beginning, Stopping, Ended
  <2>10. QED BY <2>5, <2>7, <2>8, <2>9 DEF TrainInv
<1>4. CASE train_tc = "done"
  <2>1. cur.final /\ \E p \in Sensor, d \in Dirs : Rolling(p, d) /\ (cur.kind # "short" => p = 0)
    BY <1>1, <1>4 DEF TrainInv, Located, Ended
  <2>2. PICK p \in Sensor, d \in Dirs : Rolling(p, d) /\ (cur.kind # "short" => p = 0)
    BY <2>1
  <2>3. Coming = Node(p, d) /\ p # 0
    BY <1>1, <2>2, ComingIs DEF Rolling
  <2>4. p > 0 /\ p - 1 \in Sensor /\ gap' = Gap(p - 1, d) /\ cur.kind = "short"
    <3>1. p > 0
      BY <2>3 DEF Sensor
    <3>2. QED BY <1>1, <2>2, <2>3, <3>1, SegIs
  <2>5. Rolling(p - 1, d)'
    <3>1. p - 1 \in Int /\ 1 .. p - 1 \subseteq 1 .. p
      BY <2>4 DEF Sensor
    <3>2. WayNodes(p - 1, 1, d) \subseteq WayNodes(p, 1, d)
      BY <3>1 DEF WayNodes
    <3>3. QED BY <1>1, <2>2, <2>4, <3>2 DEF Rolling
  <2>6. \A n \in Notifier : notifier'[n].state \in {"idle", "gone"}
    <3>1. \A n \in Notifier : notifier[n].state \in {"idle", "gone"}
      BY <1>4 DEF TrainInv, TasksInStep
    <3>2. QED BY <3>1, SensorsReported
  <2>7. gap' \in Sensor /\ notifier' \in [Notifier -> Actions]
    BY <2>4, GapIs, SensorsReported DEF Notifier
  <2>8. TrainTyped'
    BY <1>1, <2>7 DEF TrainInv, TrainTyped
  <2>9. TasksInStep' /\ SpeedsInStep'
    BY <1>1, <1>4, <2>6 DEF TasksInStep, SpeedsInStep, Executing
  <2>10. Located'
    <3>1. Ended'
      BY <1>1, <2>1, <2>4, <2>5 DEF Ended
    <3>2. QED BY <1>1, <1>4, <3>1 DEF Located, Planning, Beginning, Driving, Stopping, Executing
  <2>11. QED BY <2>8, <2>9, <2>10 DEF TrainInv
<1>5. QED BY <1>2, <1>3, <1>4

-----------------------------------------------------------------------------
(* The reports of the notifiers                                            *)

\* A plan that is over: all that it waited for has been reported, and the train is
\* before the last sensor.
LEMMA FinishedKeeps ==
  ASSUME TrainInv, train_tc = "receive", NEW c \in Routes, c.kind = cur.kind, c.final = cur.final,
         NEW a \in Sensor, NEW b \in Sensor, NEW p \in Sensor, NEW d \in Dirs, OnPlan(a, b, p, d),
         \/ c.final /\ train_tc' = "stopped" /\ cur' = c /\ next' = next
         \/ ~c.final /\ train_tc' = "begin" /\ cur' = next /\ next' = NoRoute,
         waiting' = {}, notifier' \in [Notifier -> Actions], \A n \in Notifier : notifier'[n].state = "idle",
         UNCHANGED <<current_node, reversed, speed, facing, gap, thrown>>,
         cur.kind # "short" => gap = Gap(b, d), gap \in locks', ~cur.final => next.segments \subseteq locks'
  PROVE  TrainInv'
<1>1. cur.final <=> cur.kind \in {"short", "stop"}
  BY DEF TrainInv, SpeedsInStep, Executing
<1>2. /\ b <= p /\ p <= a /\ facing = d /\ WayNodes(a, b + 1, d) \subseteq thrown
      /\ (cur.final => b = 0) /\ (~cur.final => \E m \in 0 .. b : NextLocked(b, m, d))
      /\ IF cur.kind = "short" THEN gap = Gap(p, d) ELSE current_node = Node(b, d)
  BY DEF OnPlan
<1>3. TrainTyped'
  BY NoRouteTyped DEF TrainInv, TrainTyped
<1>4. TasksInStep' /\ SpeedsInStep'
  BY DEF TasksInStep, SpeedsInStep, Executing
<1>5. CASE c.final
  <2>1. train_tc' = "stopped" /\ cur'.kind = cur.kind /\ cur'.final /\ cur.final
    BY <1>5
  <2>2. CASE cur.kind = "short"
    <3>1. b = 0 /\ p \in Int /\ a \in Int
      BY <1>2, <2>1, TrainAssumption DEF Sensor
    <3>2. 1 .. p \subseteq b + 1 .. a
      BY <1>2, <3>1
    <3>3. WayNodes(p, 1, d) \subseteq WayNodes(a, b + 1, d)
      BY <3>2 DEF WayNodes
    <3>4. Rolling(p, d)'
      BY <1>2, <2>2, <3>3 DEF Rolling
    <3>5. Stopping'
      BY <2>1, <2>2, <3>4 DEF Stopping
    <3>6. Located'
      BY <2>1, <3>5 DEF Located, Planning, Beginning, Driving, Ended, Executing
    <3>7. QED BY <1>3, <1>4, <3>6 DEF TrainInv
  <2>3. CASE cur.kind # "short"
    <3>1. current_node' = Node(b, d) /\ facing' = d /\ gap' = Gap(b, d) /\ b = 0
      BY <1>2, <2>1, <2>3
    <3>2. Stopping'
      BY <2>1, <2>3, <3>1 DEF Stopping
    <3>3. Located'
      BY <2>1, <3>2 DEF Located, Planning, Beginning, Driving, Ended, Executing
    <3>4. QED BY <1>3, <1>4, <3>3 DEF TrainInv
  <2>4. QED BY <2>2, <2>3
<1>6. CASE ~c.final
  <2>1. train_tc' = "begin" /\ cur' = next /\ ~cur.final /\ cur.kind # "short"
    BY <1>1, <1>6
  <2>2. PICK m \in 0 .. b : NextLocked(b, m, d)
    BY <1>2, <2>1
  <2>3. IsPlan(next, b, m, d) /\ next.segments = Gaps(b - 1, m, d) /\ m \in Sensor /\ m <= b /\ b \in Int
    BY <2>2, TrainAssumption DEF NextLocked, IsPlan, Sensor
  <2>4. Gaps(b, m, d) = Gaps(b - 1, m, d) \cup {Gap(b, d)}
    BY <2>3, GapsSplit
  <2>5. Gaps(b, m, d) \subseteq locks'
    BY <2>1, <2>3, <2>4
  <2>6. ToBegin(b, m, d)'
    BY <1>2, <2>1, <2>3, <2>5 DEF ToBegin
  <2>7. Located'
    <3>1. Beginning'
      BY <2>3, <2>6 DEF Beginning
    <3>2. QED BY <2>1, <3>1 DEF Located, Planning, Driving, Stopping, Ended, Executing
  <2>8. QED BY <1>3, <1>4, <2>7 DEF TrainInv
<1>7. QED BY <1>5, <1>6

\* A report is received.
LEMMA Received ==
  ASSUME TrainInv, NEW n \in Notifier, Receive(n)
  PROVE  /\ train_tc = "receive" /\ Executing /\ n \in waiting /\ notifier[n].state = "report"
         /\ ~ToStart(cur)
         /\ notifier' \in [Notifier -> Actions] /\ notifier'[n].state = "idle"
         /\ \A m \in Notifier : m # n => notifier'[m] = notifier[m]
         /\ \A m \in Notifier : IF m \in waiting \ {n} THEN AtWork(m)' ELSE notifier'[m].state = "idle"
         /\ \A m \in Notifier : m \notin waiting => notifier'[m].state = "idle"
         /\ cur \in Routes /\ next \in Routes /\ waiting \subseteq Notifier
<1>1. train_tc = "receive" /\ notifier[n].state = "report" /\ notifier' = [notifier EXCEPT ![n] = Idle]
  BY DEF Receive
<1>2. notifier \in [Notifier -> Actions] /\ cur \in Routes /\ next \in Routes /\ waiting \subseteq Notifier
  BY DEF TrainInv, TrainTyped
<1>3. Executing /\ n \in waiting
  BY <1>1, Working
<1>4. /\ notifier' \in [Notifier -> Actions] /\ notifier'[n] = Idle
      /\ \A m \in Notifier : m # n => notifier'[m] = notifier[m]
  BY <1>1, <1>2, IdleTyped, Assigned
<1>5. notifier'[n].state = "idle"
  BY <1>4 DEF Idle
<1>6. \A m \in Notifier : IF m \in waiting THEN AtWork(m) ELSE notifier[m].state = "idle"
  BY <1>3 DEF TrainInv, TasksInStep
<1>7. \A m \in Notifier : IF m \in waiting \ {n} THEN AtWork(m)' ELSE notifier'[m].state = "idle"
  BY <1>4, <1>5, <1>6 DEF AtWork
<1>8. ~ToStart(cur)
  BY <1>1, <1>3 DEF TrainInv, SpeedsInStep
<1>9. QED BY <1>1, <1>2, <1>3, <1>4, <1>5, <1>7, <1>8

\* The lock and the speed notifier: the train stays where it is on its plan.
LEMMA ReportKeeps ==
  ASSUME TrainInv, NEW n \in {"lock", "spd"}, Receive(n), Loop(waiting \ {n}, cur),
         n = "lock" => notifier["lock"].ok,
         UNCHANGED <<current_node, reversed, locks, speed, facing, gap, thrown>>
  PROVE  TrainInv'
<1>1. /\ train_tc = "receive" /\ Executing /\ n \in waiting /\ notifier[n].state = "report"
      /\ ~ToStart(cur)
      /\ notifier' \in [Notifier -> Actions] /\ notifier'[n].state = "idle"
      /\ \A m \in Notifier : m # n => notifier'[m] = notifier[m]
      /\ \A m \in Notifier : IF m \in waiting \ {n} THEN AtWork(m)' ELSE notifier'[m].state = "idle"
      /\ cur \in Routes /\ next \in Routes /\ waiting \subseteq Notifier
  <2>1. n \in Notifier
    BY DEF Notifier
  <2>2. QED BY <2>1, Received
<1>2. PICK a, b, p \in Sensor, d \in Dirs : OnPlan(a, b, p, d)
  BY <1>1 DEF TrainInv, Located, Driving
<1>3. waiting' = waiting \ {n}
  BY DEF Loop
<1>4. /\ b <= p /\ p <= a /\ facing = d /\ WayNodes(a, b + 1, d) \subseteq thrown /\ Gaps(p, b, d) \subseteq locks
      /\ (cur.final => b = 0) /\ (~cur.final => \E c \in 0 .. b : NextLocked(b, c, d))
  BY <1>2 DEF OnPlan
<1>5. \A c \in 0 .. b : NextLocked(b, c, d) /\ "lock" \notin waiting' => next.segments \subseteq locks
  BY <1>1, <1>3 DEF NextLocked
<1>6. "route" \in Notifier /\ "lock" \in Notifier /\ "spd" \in Notifier
  BY DEF Notifier
<1>7. CASE ~Finished(waiting \ {n}, cur)
  <2>1. train_tc' = "run" /\ cur' = cur /\ next' = next
    BY <1>7 DEF Loop
  <2>2. TrainTyped'
    BY <1>1, <1>3, <2>1 DEF TrainInv, TrainTyped
  <2>3. TasksInStep'
    BY <1>1, <1>3, <2>1 DEF TasksInStep, Executing
  <2>4. SpeedsInStep'
    <3>1. Refused' => Refused
      BY <1>1, <1>3, <1>6 DEF Refused
    <3>2. "spd" \in waiting' => "spd" \in waiting /\ notifier'["spd"] = notifier["spd"]
      BY <1>1, <1>3, <1>6
    <3>3. "lock" \in waiting' => "lock" \in waiting
      BY <1>3
    <3>4. QED BY <1>1, <2>1, <3>1, <3>2, <3>3 DEF TrainInv, SpeedsInStep
  <2>5. ASSUME NEW c \in 0 .. b, NextLocked(b, c, d) PROVE NextLocked(b, c, d)'
    <3>1. "lock" \in waiting' => "lock" \in waiting /\ notifier'["lock"] = notifier["lock"]
      BY <1>1, <1>3, <1>6
    <3>2. QED BY <1>5, <2>1, <2>5, <3>1 DEF NextLocked
  <2>6. OnPlan(a, b, p, d)'
    <3>1. ("route" \in waiting' <=> "route" \in waiting) /\ notifier'["route"] = notifier["route"]
      BY <1>1, <1>3, <1>6
    <3>2. ~cur'.final => \E c \in 0 .. b : NextLocked(b, c, d)'
      BY <1>4, <2>1, <2>5
    <3>3. QED BY <1>2, <2>1, <3>1, <3>2 DEF OnPlan
  <2>7. Located'
    <3>1. Driving'
      BY <1>2, <2>6 DEF Driving
    <3>2. QED BY <2>1, <3>1 DEF Located, Planning, Beginning, Stopping, Ended
  <2>8. QED BY <2>2, <2>3, <2>4, <2>7 DEF TrainInv
<1>8. CASE Finished(waiting \ {n}, cur)
  <2>1. waiting' = {} /\ cur.path = <<>>
        /\ \/ cur.final /\ train_tc' = "stopped" /\ cur' = cur /\ next' = next
           \/ ~cur.final /\ train_tc' = "begin" /\ cur' = next /\ next' = NoRoute
    BY <1>3, <1>8 DEF Loop, Finished
  <2>2. \A m \in Notifier : notifier'[m].state = "idle"
    BY <1>1, <1>3, <2>1
  <2>3. gap = Gap(p, d) /\ (cur.kind # "short" => p = b)
    <3>1. CASE cur.kind = "short"
      BY <1>2, <3>1 DEF OnPlan
    <3>2. CASE cur.kind # "short"
      <4>1. cur.path = Way(p, b + 1, d) /\ "route" \notin waiting
        BY <1>2, <1>3, <2>1, <3>2 DEF OnPlan
      <4>2. p = b
        BY <1>2, <1>4, <2>1, <4>1, PathLeft
      <4>3. QED BY <1>2, <3>2, <4>1, <4>2 DEF OnPlan
    <3>3. QED BY <3>1, <3>2
  <2>4. gap \in locks'
    <3>1. Gaps(p, b, d) = Gaps(p - 1, b, d) \cup {Gap(p, d)}
      BY <1>2, <1>4, GapsSplit DEF Sensor
    <3>2. QED BY <1>4, <2>3, <3>1
  <2>5. ~cur.final => next.segments \subseteq locks'
    BY <1>4, <1>5, <2>1
  <2>6. QED BY <1>1, <1>2, <2>1, <2>2, <2>3, <2>4, <2>5, FinishedKeeps
<1>9. QED BY <1>7, <1>8

\* The route notifier: the train has passed the next sensor of its plan, and the
\* segment before that sensor is freed.
LEMMA HitKeeps ==
  ASSUME TrainInv, SensorHit
  PROVE  TrainInv'
<1>1. /\ train_tc = "receive" /\ Executing /\ "route" \in waiting /\ notifier["route"].state = "report"
      /\ ~ToStart(cur)
      /\ notifier' \in [Notifier -> Actions] /\ notifier'["route"].state = "idle"
      /\ \A m \in Notifier : m # "route" => notifier'[m] = notifier[m]
      /\ \A m \in Notifier : IF m \in waiting \ {"route"} THEN AtWork(m)' ELSE notifier'[m].state = "idle"
      /\ cur \in Routes /\ next \in Routes /\ waiting \subseteq Notifier
  <2>1. "route" \in Notifier /\ Receive("route")
    BY DEF Notifier, SensorHit
  <2>2. QED BY <2>1, Received
<1>2. PICK a, b, p \in Sensor, d \in Dirs : OnPlan(a, b, p, d)
  BY <1>1 DEF TrainInv, Located, Driving
<1>3. /\ b < p /\ p <= a /\ facing = d /\ WayNodes(a, b + 1, d) \subseteq thrown /\ Gaps(p, b, d) \subseteq locks
      /\ (cur.final => b = 0) /\ (~cur.final => \E m \in 0 .. b : NextLocked(b, m, d))
      /\ cur.kind # "short" /\ current_node = Node(b, d) /\ cur.path = Way(p, b + 1, d)
      /\ notifier["route"].sensor = Node(p, d) /\ gap = Gap(p - 1, d)
  BY <1>1, <1>2 DEF OnPlan
<1>4. a \in Int /\ b \in Int /\ p \in Int /\ b <= p - 1 /\ b <= p /\ 0 <= b
  BY <1>2, <1>3, TrainAssumption DEF Sensor
<1>5. /\ cur.path \in Seq(Places) /\ cur.path # <<>> /\ p - 1 \in Sensor
      /\ Head(cur.path) = Node(p, d) /\ Tail(cur.path) = Way(p - 1, b + 1, d)
  <2>1. b <= p /\ b < p /\ p # b /\ cur.path = Way(p, b + 1, d)
    BY <1>3, <1>4
  <2>2. /\ Way(p, b + 1, d) \in Seq(Places) /\ (Way(p, b + 1, d) = <<>> <=> p = b)
        /\ b < p => /\ p - 1 \in Sensor /\ Head(Way(p, b + 1, d)) = Node(p, d)
                    /\ Tail(Way(p, b + 1, d)) = Way(p - 1, b + 1, d)
    BY <1>2, <2>1, PathLeft
  <2>3. QED BY <2>1, <2>2
<1>6. PICK r : r = p - 1
  OBVIOUS
<1>7. r \in Sensor /\ b <= r /\ r <= a /\ r \in Int /\ gap = Gap(r, d) /\ Tail(cur.path) = Way(r, b + 1, d)
  BY <1>3, <1>4, <1>5, <1>6
<1>8. Way(r, b + 1, d) \in Seq(Places) /\ (Way(r, b + 1, d) = <<>> <=> r = b)
  BY <1>2, <1>7, PathLeft
<1>9. PICK c : c = [cur EXCEPT !.path = Way(r, b + 1, d)]
  OBVIOUS
<1>10. c \in Routes /\ c.path = Way(r, b + 1, d) /\ SameButPath(cur, c)
  BY <1>1, <1>8, <1>9, WithPath
<1>11. /\ Loop(waiting \ {"route"}, c) /\ locks' = locks \ {Gap(p, d)}
       /\ UNCHANGED <<current_node, reversed, speed, facing, gap, thrown>>
  BY <1>3, <1>5, <1>7, <1>9 DEF SensorHit, FreeBehind, Gap, train
<1>12. waiting' = waiting \ {"route"}
  BY <1>11 DEF Loop
\* No gap before the train is freed, none of this plan and none of the next.
<1>13. ASSUME NEW m \in b .. r PROVE Gap(m, d) \in locks'
  <2>1. m \in Sensor /\ m # p /\ m \in b .. p
    BY <1>2, <1>4, <1>6, TrainAssumption DEF Sensor
  <2>2. Gap(m, d) # Gap(p, d)
    BY <1>2, <2>1, Apart
  <2>3. Gap(m, d) \in locks
    BY <1>3, <2>1 DEF Gaps
  <2>4. QED BY <1>11, <2>2, <2>3
<1>14. Gaps(r, b, d) \subseteq locks' /\ gap \in locks'
  BY <1>7, <1>13 DEF Gaps
<1>15. ASSUME NEW m \in 0 .. b, NextLocked(b, m, d), next.segments \subseteq locks
       PROVE  next.segments \subseteq locks'
  <2>1. next.segments = Gaps(b - 1, m, d)
    BY <1>15 DEF NextLocked, IsPlan
  <2>2. ASSUME NEW k \in m .. b - 1 PROVE Gap(k, d) # Gap(p, d)
    <3>1. k \in Sensor /\ k # p
      BY <1>2, <1>3, <1>4, TrainAssumption DEF Sensor
    <3>2. QED BY <1>2, <3>1, Apart
  <2>3. Gap(p, d) \notin next.segments
    BY <2>1, <2>2 DEF Gaps
  <2>4. QED BY <1>11, <1>15, <2>3
<1>16. "route" \in Notifier /\ "lock" \in Notifier /\ "spd" \in Notifier
  BY DEF Notifier
<1>17. CASE ~Finished(waiting \ {"route"}, c)
  <2>1. train_tc' = "run" /\ cur' = c /\ next' = next
    BY <1>11, <1>17 DEF Loop
  <2>2. /\ cur' \in Routes /\ cur'.path = Way(r, b + 1, d) /\ cur'.kind = cur.kind /\ cur'.final = cur.final
        /\ cur'.switches = cur.switches /\ cur'.segments = cur.segments
        /\ cur'.speed_changes = cur.speed_changes
    BY <1>10, <2>1 DEF SameButPath
  <2>3. TrainTyped'
    BY <1>1, <1>11, <1>12, <2>1, <2>2 DEF TrainInv, TrainTyped
  <2>4. TasksInStep'
    BY <1>1, <1>12, <2>1 DEF TasksInStep, Executing
  <2>5. ~Refused
    <3>1. cur.path # <<>>
      BY <1>5
    <3>2. QED BY <1>1, <3>1 DEF TrainInv, SpeedsInStep
  <2>6. ~ToStart(cur') /\ (OneLeft(cur') <=> OneLeft(cur)) /\ (NoneLeft(cur') <=> NoneLeft(cur))
    BY <1>1, <2>2 DEF ToStart, OneLeft, NoneLeft
  <2>7. /\ notifier'["spd"] = notifier["spd"] /\ notifier'["lock"] = notifier["lock"]
        /\ ("spd" \in waiting' <=> "spd" \in waiting) /\ ("lock" \in waiting' <=> "lock" \in waiting)
        /\ "route" \notin waiting'
    BY <1>1, <1>12, <1>16
  <2>8. SpeedsInStep'
    <3>1. ~Refused'
      BY <2>5, <2>7 DEF Refused
    <3>2. QED BY <1>1, <1>11, <2>1, <2>2, <2>6, <2>7, <3>1 DEF TrainInv, SpeedsInStep
  <2>9. ASSUME NEW m \in 0 .. b, NextLocked(b, m, d) PROVE NextLocked(b, m, d)'
    BY <1>15, <2>1, <2>7, <2>9 DEF NextLocked
  <2>10. ~cur'.final => \E m \in 0 .. b : NextLocked(b, m, d)'
    BY <1>3, <2>2, <2>9
  <2>11. OnPlan(a, b, r, d)'
    BY <1>3, <1>7, <1>11, <1>14, <2>2, <2>6, <2>7, <2>10 DEF OnPlan
  <2>12. Located'
    <3>1. Driving'
      BY <1>2, <1>7, <2>11 DEF Driving
    <3>2. QED BY <2>1, <3>1 DEF Located, Planning, Beginning, Stopping, Ended
  <2>13. QED BY <2>3, <2>4, <2>8, <2>12 DEF TrainInv
<1>18. CASE Finished(waiting \ {"route"}, c)
  <2>1. /\ waiting' = {} /\ c.path = <<>> /\ r = b /\ c.kind = cur.kind /\ c.final = cur.final
        /\ \/ c.final /\ train_tc' = "stopped" /\ cur' = c /\ next' = next
           \/ ~c.final /\ train_tc' = "begin" /\ cur' = next /\ next' = NoRoute
    BY <1>8, <1>10, <1>11, <1>12, <1>18 DEF Loop, Finished, SameButPath
  <2>2. \A m \in Notifier : notifier'[m].state = "idle"
    BY <1>1, <1>12, <2>1
  <2>3. ~cur.final => next.segments \subseteq locks'
    <3>1. "lock" \notin waiting
      BY <1>12, <2>1
    <3>2. QED BY <1>3, <1>15, <3>1 DEF NextLocked
  <2>4. gap = Gap(b, d)
    BY <1>7, <2>1
  <2>5. QED BY <1>1, <1>2, <1>10, <1>11, <1>14, <2>1, <2>2, <2>3, <2>4, FinishedKeeps
<1>19. QED BY <1>17, <1>18

\* The lock was refused: the train waits for nothing else, at the end of its plan.
LEMMA TimeoutKeeps ==
  ASSUME TrainInv, LockTimeout
  PROVE  TrainInv'
<1>1. /\ train_tc = "receive" /\ Executing /\ "lock" \in waiting /\ notifier["lock"].state = "report"
      /\ notifier' \in [Notifier -> Actions] /\ notifier'["lock"].state = "idle"
      /\ \A m \in Notifier : m # "lock" => notifier'[m] = notifier[m]
      /\ \A m \in Notifier : IF m \in waiting \ {"lock"} THEN AtWork(m)' ELSE notifier'[m].state = "idle"
      /\ cur \in Routes /\ next \in Routes /\ waiting \subseteq Notifier
  <2>1. "lock" \in Notifier /\ Receive("lock")
    BY DEF Notifier, LockTimeout
  <2>2. QED BY <2>1, Received
<1>2. /\ train_tc' = "stopped" /\ ~notifier["lock"].ok
      /\ UNCHANGED <<cur, next, current_node, reversed, waiting, locks, speed, facing, gap, thrown>>
  BY DEF LockTimeout, plan, train
<1>3. Refused /\ cur.kind = "const" /\ cur.path = <<>> /\ ~reversed /\ ~cur.final
  BY <1>1, <1>2 DEF TrainInv, SpeedsInStep, Refused
<1>4. "spd" \notin waiting
  BY <1>1, <1>3 DEF TrainInv, SpeedsInStep
<1>5. PICK a, b, p \in Sensor, d \in Dirs : OnPlan(a, b, p, d)
  BY <1>1 DEF TrainInv, Located, Driving
<1>6. b <= p /\ facing = d /\ Gaps(p, b, d) \subseteq locks /\ current_node = Node(b, d)
      /\ cur.path = Way(p, b + 1, d) /\ ("route" \in waiting => b < p)
      /\ ("route" \notin waiting => gap = Gap(p, d))
  BY <1>3, <1>5 DEF OnPlan
<1>7. p = b
  BY <1>3, <1>5, <1>6, PathLeft
<1>8. "route" \notin waiting /\ gap = Gap(b, d)
  BY <1>5, <1>6, <1>7 DEF Sensor
<1>9. gap \in locks
  BY <1>5, <1>6, <1>7, <1>8 DEF Gaps, Sensor
<1>10. \A m \in Notifier : notifier'[m].state = "idle"
  BY <1>1, <1>4, <1>8 DEF Notifier
<1>11. TrainTyped'
  BY <1>1, <1>2 DEF TrainInv, TrainTyped
<1>12. TasksInStep' /\ SpeedsInStep'
  BY <1>2, <1>10 DEF TasksInStep, SpeedsInStep, Executing
<1>13. Located'
  <2>1. Stopping'
    BY <1>2, <1>3, <1>5, <1>6, <1>8, <1>9 DEF Stopping
  <2>2. QED BY <1>2, <2>1 DEF Located, Planning, Beginning, Driving, Ended, Executing
<1>14. QED BY <1>11, <1>12, <1>13 DEF TrainInv

LEMMA StopKeeps ==
  ASSUME TrainInv, Stop
  PROVE  TrainInv'
<1>1. /\ train_tc = "stopped"
      /\ locks' = locks \cap {FreeBehind(current_node)}
      /\ facing' = (IF reversed THEN -facing ELSE facing)
      /\ speed' = (IF reversed THEN "stopped" ELSE speed)
      /\ reversed' = FALSE
      /\ train_tc' = IF cur.final THEN "quit" ELSE "plan"
      /\ UNCHANGED <<cur, next, current_node, waiting, notifier, gap, thrown>>
  BY DEF Stop, AfterStop
<1>2. \A n \in Notifier : notifier'[n].state = "idle"
  BY <1>1 DEF TrainInv, TasksInStep
<1>3. TrainTyped'
  <2>1. facing' \in Dirs /\ speed' \in Speed
    BY <1>1 DEF TrainInv, TrainTyped, Speed, Dirs
  <2>2. train_tc' \in {"quit", "plan"} /\ reversed' \in BOOLEAN
    BY <1>1
  <2>3. QED BY <1>1, <2>1, <2>2 DEF TrainInv, TrainTyped
<1>4. TasksInStep' /\ SpeedsInStep'
  BY <1>1, <1>2 DEF TasksInStep, SpeedsInStep, Executing
<1>5. gap \in locks /\ Stopping
  BY <1>1 DEF TrainInv, Located, Stopping
<1>6. cur.kind # "short" => gap \in locks'
  <2>1. ASSUME cur.kind # "short" PROVE gap \in locks'
    <3>1. PICK p \in Sensor, d \in Dirs : current_node = Node(p, d) /\ gap = Gap(p, d)
      BY <1>1, <1>5, <2>1 DEF Stopping
    <3>2. FreeBehind(current_node) = gap
      BY <3>1 DEF FreeBehind, Gap
    <3>3. QED BY <1>1, <1>5, <3>2
  <2>2. QED BY <2>1
<1>7. CASE cur.final
  <2>1. train_tc' = "quit" /\ cur'.final /\ cur'.kind = cur.kind
    BY <1>1, <1>7
  <2>2. ASSUME ~reversed
        PROVE  \E p \in Sensor, d \in Dirs : Rolling(p, d)' /\ (cur.kind # "short" => p = 0)
    <3>0. facing' = facing /\ gap' = gap /\ thrown' = thrown
      BY <1>1, <2>2
    <3>1. CASE cur.kind = "short"
      <4>1. PICK p \in Sensor, d \in Dirs : Rolling(p, d)
        BY <1>1, <1>5, <3>1 DEF Stopping
      <4>2. Rolling(p, d)'
        BY <3>0, <4>1 DEF Rolling
      <4>3. QED BY <3>1, <4>1, <4>2
    <3>2. CASE cur.kind # "short"
      <4>1. PICK d \in Dirs : facing = d /\ gap = Gap(0, d)
        BY <1>1, <1>5, <1>7, <3>2 DEF Stopping
      <4>2. 1 .. 0 = {} /\ 0 \in Sensor
        BY TrainAssumption DEF Sensor
      <4>3. Rolling(0, d)'
        BY <3>0, <4>1, <4>2 DEF Rolling, WayNodes
      <4>4. QED BY <4>1, <4>2, <4>3
    <3>3. QED BY <3>1, <3>2
  <2>3. Ended'
    <3>1. CASE reversed
      BY <1>1, <1>6, <2>1, <3>1 DEF Ended
    <3>2. CASE ~reversed
      BY <1>1, <1>6, <2>1, <2>2, <3>2 DEF Ended
    <3>3. QED BY <3>1, <3>2, <1>3 DEF TrainInv, TrainTyped
  <2>4. Located'
    BY <2>1, <2>3 DEF Located, Planning, Beginning, Driving, Stopping, Executing
  <2>5. QED BY <1>3, <1>4, <2>4 DEF TrainInv
<1>8. CASE ~cur.final
  <2>1. train_tc' = "plan" /\ ~reversed /\ cur.kind # "short"
    BY <1>1, <1>5, <1>8 DEF Stopping
  <2>2. Planning'
    BY <1>1, <1>5, <1>6, <2>1 DEF Planning, Stopping
  <2>3. Located'
    BY <2>1, <2>2 DEF Located, Beginning, Driving, Stopping, Ended, Executing
  <2>4. QED BY <1>3, <1>4, <2>3 DEF TrainInv
<1>9. QED BY <1>7, <1>8

LEMMA QuitKeeps ==
  ASSUME TrainInv, NEW n \in Notifier, Quit(n)
  PROVE  TrainInv'
<1>1. /\ train_tc = "quit" /\ notifier' = [notifier EXCEPT ![n] = [Idle EXCEPT !.state = "gone"]]
      /\ UNCHANGED <<train_tc, cur, next, current_node, reversed, waiting, locks, speed, facing, gap, thrown>>
  BY DEF Quit, wait_action, plan, train
<1>2. PICK act : act = [Idle EXCEPT !.state = "gone"]
  OBVIOUS
<1>3. act \in Actions /\ act.state = "gone"
  BY <1>2, IdleTyped DEF Actions, Idle
<1>4. /\ notifier' \in [Notifier -> Actions] /\ notifier'[n] = act
      /\ \A m \in Notifier : m # n => notifier'[m] = notifier[m]
  BY <1>1, <1>2, <1>3, Assigned DEF TrainInv, TrainTyped
<1>5. TrainTyped'
  BY <1>1, <1>4 DEF TrainInv, TrainTyped
<1>6. TasksInStep' /\ SpeedsInStep'
  BY <1>1, <1>3, <1>4 DEF TrainInv, TasksInStep, SpeedsInStep, Executing
<1>7. Located'
  BY <1>1 DEF TrainInv, Located, Planning, Beginning, Driving, Stopping, Ended, Executing, Rolling
<1>8. QED BY <1>5, <1>6, <1>7 DEF TrainInv

LEMMA EndKeeps ==
  ASSUME TrainInv, End
  PROVE  TrainInv'
<1>1. /\ train_tc = "quit" /\ train_tc' = "done"
      /\ UNCHANGED <<cur, next, current_node, reversed, waiting, notifier, locks, speed, facing, gap, thrown>>
  BY DEF End, plan, train
<1>2. TrainTyped'
  BY <1>1 DEF TrainInv, TrainTyped
<1>3. TasksInStep' /\ SpeedsInStep'
  BY <1>1 DEF TrainInv, TasksInStep, SpeedsInStep, Executing
<1>4. Located'
  BY <1>1 DEF TrainInv, Located, Planning, Beginning, Driving, Stopping, Ended, Executing, Rolling
<1>5. QED BY <1>2, <1>3, <1>4 DEF TrainInv

-----------------------------------------------------------------------------
(* The results                                                             *)

LEMMA TrainStep ==
  ASSUME TrainInv, RefusedAtSpeed, [TrainNext]_trainVars
  PROVE  TrainInv'
<1>1. CASE Plan \/ Begin \/ ChangeNow \/ WaitSpeed \/ WaitRoute \/ Block
  BY <1>1, PlanKeeps, BeginKeeps, ChangeNowKeeps, WaitSpeedKeeps, WaitRouteKeeps, BlockKeeps
<1>2. CASE Locked
  <2>1. "lock" \in {"lock", "spd"} /\ Receive("lock") /\ Loop(waiting \ {"lock"}, cur) /\ notifier["lock"].ok
        /\ UNCHANGED <<current_node, reversed, locks, speed, facing, gap, thrown>>
    BY <1>2 DEF Locked, train
  <2>2. QED BY <2>1, ReportKeeps
<1>3. CASE SpeedSet
  <2>1. "spd" \in {"lock", "spd"} /\ Receive("spd") /\ Loop(waiting \ {"spd"}, cur)
        /\ UNCHANGED <<current_node, reversed, locks, speed, facing, gap, thrown>>
    BY <1>3 DEF SpeedSet, train
  <2>2. QED BY <2>1, ReportKeeps
<1>4. CASE LockTimeout \/ SensorHit \/ Stop \/ End
  BY <1>4, TimeoutKeeps, HitKeeps, StopKeeps, EndKeeps
<1>5. ASSUME NEW n \in Notifier, Quit(n) PROVE TrainInv'
  BY <1>5, QuitKeeps
<1>6. CASE SpeedDue \/ Grant \/ Refuse \/ Cross
  BY <1>6, SpeedDueKeeps, GrantKeeps, RefuseKeeps, CrossKeeps
<1>7. ASSUME NEW s \in Sensor, OthersTake(s) \/ OthersFree(s) PROVE TrainInv'
  <2>1. UNCHANGED <<train_tc, cur, plan, waiting, notifier, locks, train, thrown>>
    BY <1>7 DEF OthersTake, OthersFree
  <2>2. QED BY <2>1, TrainUnchanged
<1>8. CASE UNCHANGED trainVars
  <2>1. UNCHANGED <<train_tc, cur, plan, waiting, notifier, locks, train, thrown>>
    BY <1>8 DEF trainVars
  <2>2. QED BY <2>1, TrainUnchanged
<1>9. QED BY <1>1, <1>2, <1>3, <1>4, <1>5, <1>6, <1>7, <1>8 DEF TrainNext, Tasks, Done

\* For every length of the ring, every start and goal, every acceleration and
\* stopping distance, and whatever other trains take, train_tc, its notifiers and
\* the train are in step, and the train is where its plan says.
THEOREM TrainInvariant == ASSUME RefusedAtSpeed PROVE TrainSpec => []TrainInv
<1>1. TrainInv /\ [TrainNext]_trainVars => TrainInv'
  BY TrainStep
<1>2. QED BY TrainInitially, <1>1, PTL DEF TrainSpec

\* execute_plan's Sends never wait for a notifier that is in its own Send to train_tc:
\* the notifier that is given something to do always waits for that.
THEOREM NeverMutual == ASSUME RefusedAtSpeed PROVE TrainSpec => []NoMutualSend
<1>1. TrainInv => NoMutualSend
  BY TargetsIdle DEF NoMutualSend
<1>2. QED BY TrainInvariant, <1>1, PTL

LEMMA TrainOnLocked == ASSUME TrainInv PROVE OnlyOnLocked
<1>1. CASE train_tc = "plan"
  BY <1>1 DEF TrainInv, Located, Planning, OnlyOnLocked
<1>2. CASE train_tc = "begin"
  <2>1. PICK a, b \in Sensor, d \in Dirs : ToBegin(a, b, d)
    BY <1>2 DEF TrainInv, Located, Beginning
  <2>2. gap = Gap(a, d) /\ a \in b .. a /\ Gaps(a, b, d) \subseteq locks
    BY <2>1, TrainAssumption DEF ToBegin, Sensor
  <2>3. QED BY <2>2 DEF Gaps, OnlyOnLocked
<1>3. CASE Executing
  <2>1. PICK a, b, p \in Sensor, d \in Dirs : OnPlan(a, b, p, d)
    BY <1>3 DEF TrainInv, Located, Driving
  <2>2. Gaps(p, b, d) \subseteq locks /\ b <= p /\ (gap = Gap(p, d) \/ (b < p /\ gap = Gap(p - 1, d)))
    BY <2>1 DEF OnPlan
  <2>3. p \in b .. p /\ (b < p => p - 1 \in b .. p)
    BY <2>1, <2>2, TrainAssumption DEF Sensor
  <2>4. QED BY <2>2, <2>3 DEF Gaps, OnlyOnLocked
<1>4. CASE train_tc = "stopped"
  BY <1>4 DEF TrainInv, Located, Stopping, OnlyOnLocked
<1>5. CASE train_tc \in {"quit", "done"}
  BY <1>5 DEF TrainInv, Located, Ended, OnlyOnLocked
<1>6. QED BY <1>1, <1>2, <1>3, <1>4, <1>5 DEF TrainInv, TrainTyped, Executing

\* The train administrator frees the segment behind each sensor, and all but one when
\* it stops, and plans the other way when it must: the train is never on a segment
\* that is not locked for it, except where a short move ended before its end.
THEOREM AlwaysOnLocked == ASSUME RefusedAtSpeed PROVE TrainSpec => []OnlyOnLocked
<1>1. TrainInv => OnlyOnLocked
  BY TrainOnLocked
<1>2. QED BY TrainInvariant, <1>1, PTL

LEMMA CrossThrown ==
  ASSUME TrainInv, Cross
  PROVE  Coming \in thrown
<1>1. Coming.i # Goal /\ (cur.final \/ Coming # current_node) /\ Quiet
  BY DEF Cross
<1>2. train_tc \in {"receive", "done"} /\ \A n \in Notifier : notifier[n].state # "report"
  BY <1>1, TargetsIdle DEF Quiet, Blocked
<1>3. CASE train_tc = "receive"
  <2>1. PICK a, b, p \in Sensor, d \in Dirs : OnPlan(a, b, p, d)
    BY <1>3 DEF TrainInv, Located, Driving, Executing
  <2>2. /\ b <= p /\ p <= a /\ facing = d /\ WayNodes(a, b + 1, d) \subseteq thrown
        /\ (cur.final => b = 0) /\ gap = Gap(p, d) /\ (~cur.final /\ cur.kind # "short" => current_node = Node(b, d))
    BY <1>2, <2>1 DEF OnPlan, Notifier
  <2>3. Coming = Node(p, d) /\ p # 0
    BY <1>1, <2>1, <2>2, ComingIs
  <2>4. cur.kind = "short" => cur.final
    BY <1>3 DEF TrainInv, SpeedsInStep, Executing
  <2>5. p # b
    BY <1>1, <2>2, <2>3, <2>4
  <2>6. p \in b + 1 .. a
    BY <2>1, <2>2, <2>5, TrainAssumption DEF Sensor
  <2>7. QED BY <2>2, <2>3, <2>6 DEF WayNodes
<1>4. CASE train_tc = "done"
  <2>1. PICK p \in Sensor, d \in Dirs : Rolling(p, d)
    BY <1>4 DEF TrainInv, Located, Ended, Cross
  <2>2. Coming = Node(p, d) /\ p # 0
    BY <1>1, <2>1, ComingIs DEF Rolling
  <2>3. p \in 1 .. p
    BY <2>2, TrainAssumption DEF Sensor
  <2>4. QED BY <2>1, <2>2, <2>3 DEF Rolling, WayNodes
<1>5. QED BY <1>2, <1>3, <1>4

\* execute_plan throws a route's switches before it starts or goes on: the train
\* passes no sensor before those ahead of it are set.
THEOREM ThrownBefore == ASSUME RefusedAtSpeed PROVE TrainSpec => SwitchesBefore
<1>1. TrainInv /\ [TrainNext]_trainVars => [gap' # gap => Coming \in thrown]_trainVars
  <2>1. ASSUME TrainNext, gap' # gap PROVE Cross
    BY <2>1 DEF TrainNext, Tasks, Plan, Begin, ChangeNow, WaitSpeed, WaitRoute, Block, Locked, LockTimeout,
                SensorHit, SpeedSet, Stop, End, Quit, SpeedDue, Grant, Refuse, OthersTake, OthersFree, Done, train, trainVars
  <2>2. QED BY <2>1, CrossThrown
<1>2. QED BY TrainInvariant, <1>1, PTL DEF TrainSpec, SwitchesBefore

LEMMA StartsOnLocked ==
  ASSUME TrainInv, TrainNext, speed = "stopped", speed' = "moving"
  PROVE  notifier' = notifier /\ cur.segments \subseteq locks
<1>1. CASE ChangeNow
  <2>1. train_tc = "run" /\ SpeedPending /\ Immediate(Head(cur.speed_changes)) /\ notifier' = notifier
    BY <1>1 DEF ChangeNow
  <2>2. PICK a, b, p \in Sensor, d \in Dirs : OnPlan(a, b, p, d)
    BY <2>1 DEF TrainInv, Located, Driving, Executing
  <2>3. ToStart(cur)
    BY <2>1, ChangesLeft DEF Executing
  <2>4. QED BY <2>1, <2>2, <2>3 DEF OnPlan
<1>2. CASE SpeedDue
  <2>1. notifier["spd"].state = "delay" /\ SetSpeed(notifier["spd"].spd)
    BY <1>2 DEF SpeedDue
  <2>2. Executing /\ "spd" \in waiting
    BY <2>1, Working DEF Notifier
  <2>3. notifier["spd"].spd = "moving"
    BY <2>1 DEF SetSpeed
  <2>4. speed = "moving"
    BY <2>2, <2>3 DEF TrainInv, SpeedsInStep
  <2>5. QED BY <2>4
<1>3. CASE ~ChangeNow /\ ~SpeedDue
  BY <1>3 DEF TrainNext, Tasks, Plan, Begin, WaitSpeed, WaitRoute, Block, Locked, LockTimeout,
              SensorHit, SpeedSet, Stop, End, Quit, Grant, Refuse, Cross, OthersTake, OthersFree, Done, train, trainVars
<1>4. QED BY <1>1, <1>2, <1>3

\* The speed notifier's delayed order to a train that has been stopped is never one
\* to move: only execute_plan starts a train, for a route that train_tc has locked.
THEOREM StartedByPlan == ASSUME RefusedAtSpeed PROVE TrainSpec => StaysStopped
<1>1. TrainInv /\ [TrainNext]_trainVars =>
        [speed = "stopped" /\ speed' = "moving" => notifier' = notifier /\ cur.segments \subseteq locks]_trainVars
  BY StartsOnLocked
<1>2. QED BY TrainInvariant, <1>1, PTL DEF TrainSpec, StaysStopped
=============================================================================
