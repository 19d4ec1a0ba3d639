----------------------------- MODULE SnakeProofs -----------------------------
(***************************************************************************)
(* Theorems about Snake, for any number of trains, any ring and any length *)
(* of the snake that leaves two sensors of the ring free, any speeds and   *)
(* distances: the snake's state is sound (its speeds are supported, its    *)
(* grace periods are timed), and the queue of every sensor lists exactly   *)
(* the trains that have not passed it, so that every report is taken for   *)
(* the right train.                                                        *)
(***************************************************************************)
EXTENDS Snake, ListLemmas

-----------------------------------------------------------------------------
(* Speeds and the timer                                                    *)

TrainData == [spd : Int, adj : {-1, 0, 1}, grace : BOOLEAN, dist : Int]
SnakeData ==
  [trns : [Idx -> TrainData], head : Idx, waiting_timer : BOOLEAN,
   timer : {"idle", "delay", "send"}, timed : Idx, stuck : BOOLEAN]

Supported == SPD_VLO .. SPD_VHI
SpeedsOK(s) ==
  /\ \A i \in 0 .. s.head : s.trns[i].spd \in Supported /\ s.trns[i].spd + s.trns[i].adj \in Supported
  /\ \A i \in Idx : i > s.head => s.trns[i].adj = 0 /\ ~s.trns[i].grace

\* What holds of the timer also where a grace period has begun and the server is
\* about to have it timed.
TimerOK(s) ==
  /\ ~s.stuck
  /\ s.waiting_timer <=> s.timer # "idle"
  /\ s.waiting_timer => s.timed \in 0 .. s.head /\ s.trns[s.timed].grace
AllTimed(s) == (\E i \in 0 .. s.head : s.trns[i].grace) => s.waiting_timer

Untimed(s) == s \in SnakeData /\ SpeedsOK(s) /\ TimerOK(s)
Sound(s) == Untimed(s) /\ AllTimed(s)

\* A change of the snake that is sound, and of no train more
Follows(r, s) == Sound(r) /\ r.head = s.head

LEMMA Trains ==
  ASSUME NEW s, s \in SnakeData
  PROVE  /\ s.head \in Nat /\ 0 .. s.head \subseteq Idx
         /\ \A i \in Idx : i \in Nat /\ s.trns[i] \in TrainData
<1>1. N_TRNS \in Nat
  BY SnakeAssumption
<1>2. s.head \in Idx /\ \A i \in Idx : s.trns[i] \in TrainData
  BY DEF SnakeData
<1>3. QED BY <1>1, <1>2 DEF Idx

LEMMA TryWait ==
  ASSUME NEW s, Untimed(s), NEW r \in snake_try_wait_timer(s)
  PROVE  Follows(r, s)
<1> DEFINE graced == {i \in 0 .. s.head : s.trns[i].grace}
<1>1. CASE s.waiting_timer \/ graced = {}
  <2>1. r = s
    BY <1>1 DEF snake_try_wait_timer
  <2>2. AllTimed(s)
    BY <1>1 DEF AllTimed
  <2>3. QED BY <2>1, <2>2 DEF Follows, Sound
<1>2. CASE ~(s.waiting_timer \/ graced = {})
  <2>1. PICK i \in graced :
          r = [s EXCEPT !.waiting_timer = TRUE, !.stuck = s.timer # "idle", !.timer = "delay", !.timed = i]
    BY <1>2 DEF snake_try_wait_timer
  <2>2. i \in 0 .. s.head /\ i \in Idx /\ s.trns[i].grace /\ s.timer = "idle" /\ s \in SnakeData
    BY <1>2, Trains DEF Untimed, TimerOK, SnakeData
  <2>3. r \in SnakeData /\ r.trns = s.trns /\ r.head = s.head /\ r.waiting_timer /\ ~r.stuck
        /\ r.timer = "delay" /\ r.timed = i
    BY <2>1, <2>2 DEF SnakeData
  <2>4. SpeedsOK(r) /\ TimerOK(r) /\ AllTimed(r)
    BY <2>2, <2>3 DEF Untimed, SpeedsOK, TimerOK, AllTimed
  <2>5. QED BY <2>3, <2>4 DEF Follows, Sound, Untimed
<1>3. QED BY <1>1, <1>2

\* Train i's speed becomes what was checked when the change was queued.
LEMMA MakesAdjustment ==
  ASSUME NEW s, Sound(s), NEW i \in 0 .. s.head,
         NEW r \in snake_try_make_queued_speed_adjustment(s, i)
  PROVE  Follows(r, s)
<1>1. CASE s.trns[i].adj = 0 \/ s.trns[i].grace
  BY <1>1 DEF snake_try_make_queued_speed_adjustment, Follows
<1>2. CASE ~(s.trns[i].adj = 0 \/ s.trns[i].grace)
  <2> DEFINE t == [s EXCEPT !.trns[i].spd = @ + s.trns[i].adj,
                            !.trns[i].grace = TRUE, !.trns[i].adj = 0]
  <2>1. r \in snake_try_wait_timer(t)
    BY <1>2 DEF snake_try_make_queued_speed_adjustment
  <2>2. s \in SnakeData /\ i \in Idx
    BY Trains DEF Sound, Untimed
  <2>3. /\ t \in SnakeData /\ t.head = s.head /\ t.waiting_timer = s.waiting_timer
        /\ t.timer = s.timer /\ t.timed = s.timed /\ t.stuck = s.stuck
        /\ t.trns[i].spd = s.trns[i].spd + s.trns[i].adj /\ t.trns[i].adj = 0 /\ t.trns[i].grace
        /\ \A j \in Idx \ {i} : t.trns[j] = s.trns[j]
    <3> DEFINE u == [s.trns[i] EXCEPT !.spd = @ + s.trns[i].adj, !.grace = TRUE, !.adj = 0]
    <3>1. s.trns[i] \in TrainData /\ s.trns[i].spd + s.trns[i].adj \in Int
      BY <2>2 DEF SnakeData, TrainData
    <3>2. u \in TrainData /\ u.spd = s.trns[i].spd + s.trns[i].adj /\ u.adj = 0 /\ u.grace
      BY <3>1 DEF TrainData
    <3>3. t = [s EXCEPT !.trns = [s.trns EXCEPT ![i] = u]]
      BY <2>2, <3>1 DEF SnakeData, TrainData
    <3> HIDE DEF t, u
    <3>4. QED BY <2>2, <3>2, <3>3 DEF SnakeData
  <2> HIDE DEF t
  <2>4. 0 .. t.head \subseteq Idx
    BY <2>3, Trains
  <2>5. SpeedsOK(t)
    <3>1. SpeedsOK(s) /\ s.trns[i] \in TrainData /\ t.trns[i] \in TrainData
      BY <2>2, <2>3 DEF Sound, Untimed, SnakeData
    <3>2. s.trns[i].spd + s.trns[i].adj \in Supported /\ Supported \subseteq Int
      BY <3>1 DEF SpeedsOK, Supported
    <3>3. t.trns[i].spd \in Supported /\ t.trns[i].spd + t.trns[i].adj \in Supported
      <4>1. t.trns[i].spd \in Supported
        BY <2>3, <3>2
      <4>2. \A x \in Int : x + 0 = x
        OBVIOUS
      <4>3. QED BY <2>3, <3>2, <4>1, <4>2, Zenon
    <3>4. ASSUME NEW j \in 0 .. t.head
          PROVE  t.trns[j].spd \in Supported /\ t.trns[j].spd + t.trns[j].adj \in Supported
      BY <2>3, <2>4, <3>1, <3>3 DEF SpeedsOK
    <3>5. ASSUME NEW j \in Idx, j > t.head PROVE t.trns[j].adj = 0 /\ ~t.trns[j].grace
      <4>1. j # i
        BY <2>3, <3>5, Trains DEF Sound, Untimed
      <4>2. QED BY <2>3, <3>1, <3>5, <4>1 DEF SpeedsOK
    <3>6. QED BY <3>4, <3>5 DEF SpeedsOK
  <2>6. TimerOK(t)
    BY <2>2, <2>3, <2>4 DEF Sound, Untimed, TimerOK
  <2>7. Follows(r, t)
    BY <2>1, <2>3, <2>5, <2>6, TryWait DEF Untimed
  <2>8. QED BY <2>3, <2>7 DEF Follows
<1>3. QED BY <1>1, <1>2

\* Queueing a change keeps the snake sound: it is only queued for trains that
\* support it.
LEMMA Queues ==
  ASSUME NEW s, Sound(s), NEW trains \in SUBSET (0 .. s.head), NEW a \in {-1, 1}
  PROVE  Follows(Queue(s, trains, a), s)
<1> DEFINE r == Queue(s, trains, a)
<1>1. s \in SnakeData /\ 0 .. s.head \subseteq Idx
  BY Trains DEF Sound, Untimed
<1>2. /\ r \in SnakeData /\ r.head = s.head /\ r.waiting_timer = s.waiting_timer
      /\ r.timer = s.timer /\ r.timed = s.timed /\ r.stuck = s.stuck
      /\ \A i \in Idx : /\ r.trns[i].spd = s.trns[i].spd /\ r.trns[i].grace = s.trns[i].grace
                        /\ \/ r.trns[i].adj = s.trns[i].adj
                           \/ r.trns[i].adj = a /\ i \in trains /\ speed_is_supported(s.trns[i].spd + a)
  <2> DEFINE trn(i) == IF /\ i \in trains
                          /\ speed_is_supported(s.trns[i].spd + a)
                          /\ ~(a > 0 /\ s.trns[i].dist >= FOLLOWING_DIST_MM + FOLLOWING_DIST_MARGIN_MM)
                       THEN [s.trns[i] EXCEPT !.adj = a] ELSE s.trns[i]
  <2>1. r = [s EXCEPT !.trns = [i \in Idx |-> trn(i)]]
    BY DEF Queue
  <2>2. ASSUME NEW i \in Idx
        PROVE  /\ trn(i) \in TrainData /\ trn(i).spd = s.trns[i].spd /\ trn(i).grace = s.trns[i].grace
               /\ \/ trn(i).adj = s.trns[i].adj
                  \/ trn(i).adj = a /\ i \in trains /\ speed_is_supported(s.trns[i].spd + a)
    <3>1. s.trns[i] \in TrainData
      BY <1>1 DEF SnakeData
    <3>2. [s.trns[i] EXCEPT !.adj = a] \in TrainData
          /\ [s.trns[i] EXCEPT !.adj = a].spd = s.trns[i].spd
          /\ [s.trns[i] EXCEPT !.adj = a].grace = s.trns[i].grace
          /\ [s.trns[i] EXCEPT !.adj = a].adj = a
      BY <3>1 DEF TrainData
    <3>3. QED BY <3>1, <3>2
  <2> HIDE DEF trn, r
  <2>3. [i \in Idx |-> trn(i)] \in [Idx -> TrainData]
    BY <2>2
  <2>4. r \in SnakeData /\ r.head = s.head /\ r.waiting_timer = s.waiting_timer
        /\ r.timer = s.timer /\ r.timed = s.timed /\ r.stuck = s.stuck
        /\ \A i \in Idx : r.trns[i] = trn(i)
    BY <1>1, <2>1, <2>3 DEF SnakeData
  <2>5. QED BY <2>2, <2>4
<1> HIDE DEF r
<1>3. \A i \in 0 .. s.head : s.trns[i].spd + a >= SPD_VLO - 1
  BY <1>1, SnakeAssumption DEF Sound, Untimed, SpeedsOK, Supported, SnakeData, TrainData
<1>4. \A i \in 0 .. s.head : speed_is_supported(s.trns[i].spd + a) => s.trns[i].spd + a \in Supported
  BY <1>3, SnakeAssumption DEF speed_is_supported, Supported
<1>5. SpeedsOK(r)
  <2>1. ASSUME NEW i \in 0 .. r.head PROVE r.trns[i].spd \in Supported /\ r.trns[i].spd + r.trns[i].adj \in Supported
    <3>1. i \in Idx /\ i \in 0 .. s.head
      BY <1>1, <1>2
    <3>2. s.trns[i].spd \in Supported /\ s.trns[i].spd + s.trns[i].adj \in Supported
      BY <3>1 DEF Sound, Untimed, SpeedsOK
    <3>3. QED BY <1>2, <1>4, <3>1, <3>2
  <2>2. ASSUME NEW i \in Idx, i > r.head PROVE r.trns[i].adj = 0 /\ ~r.trns[i].grace
    <3>1. s.trns[i].adj = 0 /\ ~s.trns[i].grace /\ i \notin trains
      BY <1>1, <1>2, <2>2 DEF Sound, Untimed, SpeedsOK, Idx, SnakeData
    <3>2. QED BY <1>2, <3>1
  <2>3. QED BY <2>1, <2>2 DEF SpeedsOK
<1>6. TimerOK(r) /\ AllTimed(r)
  BY <1>1, <1>2 DEF Sound, Untimed, TimerOK, AllTimed
<1>7. QED BY <1>2, <1>5, <1>6 DEF r, Follows, Sound, Untimed

LEMMA Adjusts ==
  ASSUME NEW s, Sound(s), NEW front \in 1 .. s.head, NEW trend \in Int,
         NEW r \in snake_adjust_trains(s, front, trend)
  PROVE  Follows(r, s)
<1>1. s \in SnakeData /\ s.head \in Nat
  BY Trains DEF Sound, Untimed
<1>2. ASSUME NEW t, Sound(t), t.head = s.head, NEW f \in 1 .. s.head, NEW a \in {-1, 1}
      PROVE  Follows(snake_change_speed_fwd(t, f, a), s)
  <2>1. f .. t.head \in SUBSET (0 .. t.head)
    BY <1>1, <1>2
  <2>2. QED BY <1>2, <2>1, Queues DEF snake_change_speed_fwd, Follows
<1>3. ASSUME NEW t, Sound(t), t.head = s.head, NEW f \in 1 .. s.head, NEW a \in {-1, 1},
             NEW x \in snake_change_speed_behind(t, f, a)
      PROVE  Follows(x, s)
  <2>1. 0 .. f - 1 \in SUBSET (0 .. t.head) /\ f - 1 \in 0 .. t.head
    BY <1>1, <1>3
  <2>2. Follows(Queue(t, 0 .. f - 1, a), t)
    BY <1>3, <2>1, Queues
  <2>3. QED BY <1>3, <2>1, <2>2, MakesAdjustment DEF snake_change_speed_behind, Follows
<1>4. ASSUME NEW f \in 1 .. s.head, NEW a \in {-1, 1}, NEW b \in {-1, 1}, NEW x \in Both(s, f, a, b)
      PROVE  Follows(x, s)
  BY <1>2, <1>3, <1>4 DEF Both, Follows
<1> DEFINE dist == s.trns[front].dist
           mid == (s.head \div 2) + 1
           slow == dist > FOLLOWING_DIST_MM + FOLLOWING_DIST_MARGIN_MM
           fwd == IF slow THEN -1 ELSE 1
<1>5. fwd \in {-1, 1} /\ -fwd \in {-1, 1}
  <2>1. fwd = -1 \/ fwd = 1
    OBVIOUS
  <2> HIDE DEF fwd
  <2>2. QED BY <2>1
<1>6. Bunched(s) => mid \in 1 .. s.head
  BY <1>1 DEF Bunched
<1>7. \/ Bunched(s) /\ r \in Both(s, mid, 1, -1)
      \/ r \in Both(s, front, 1, -1)
      \/ r \in Both(s, front, -1, 1)
      \/ r = s
      \/ r = snake_change_speed_fwd(s, front, fwd)
      \/ r \in snake_change_speed_behind(s, front, -fwd)
  <2>1. dist \in Int
    BY <1>1, Trains DEF TrainData
  <2>2. CASE Bunched(s)
    BY <2>2 DEF snake_adjust_trains
  <2>3. CASE ~Bunched(s) /\ trend <= -LARGE_TREND
    BY <2>3 DEF snake_adjust_trains
  <2>4. CASE ~Bunched(s) /\ trend > -LARGE_TREND /\ dist >= LARGE_FOLLOWING_DIST
    BY <2>4 DEF snake_adjust_trains
  <2>5. CASE ~Bunched(s) /\ trend > -LARGE_TREND /\ dist < LARGE_FOLLOWING_DIST
    BY <2>5 DEF snake_adjust_trains
  <2>6. QED BY <2>1, <2>2, <2>3, <2>4, <2>5 DEF LARGE_FOLLOWING_DIST, LARGE_TREND, FOLLOWING_DIST_MM
<1> HIDE DEF mid, fwd
<1>8. QED BY <1>2, <1>3, <1>4, <1>5, <1>6, <1>7 DEF Follows

-----------------------------------------------------------------------------
(* The queues of the sensors                                               *)

EntryData == [snake_idx : Nat, first : BOOLEAN, single_train : BOOLEAN]

\* What the server puts in the queue of the sensor that the head is to reach, and
\* what is left in the queue of a sensor that n trains have still to pass.
Fresh(h) == IF h = 0 THEN <<Entry(0, TRUE)>> ELSE [k \in 1 .. h |-> Entry(h + 1 - k, FALSE)]
Waiting(i, told) == [snake_idx |-> i, first |-> told, single_train |-> FALSE]
Rest(n) == [k \in 1 .. n |-> Waiting(n + 1 - k, k = 1)]

\* How many sensors ago the head passed sensor s, and whether train i is the next
\* to pass it.
Ago(s) == (ahead - s) % Ring
NextToPass(i, s) == behind[i + 1] < Ago(s) /\ Ago(s) <= behind[i]

Lists(h) ==
  /\ ahead \in Sensors /\ next = ahead
  /\ behind \in [Idx -> 0 .. MaxLag]
  /\ \A i, j \in Idx : i <= j => behind[j] <= behind[i]
  /\ \A i \in Idx : h <= i => behind[i] = 0
  /\ q = [s \in Sensors |-> q[s]] /\ q[ahead] = Fresh(h)
  /\ \A s \in Sensors :
       /\ behind[0] < Ago(s) => q[s] = <<>>
       /\ \A i \in 0 .. h - 1 : NextToPass(i, s) => q[s] = Rest(i + 1)

SafeInv == pc = "run" => Sound(sn) /\ Lists(sn.head)

LEMMA ModSmall ==
  ASSUME NEW x \in Int, -Ring <= x, x < Ring
  PROVE  x % Ring = IF 0 <= x THEN x ELSE x + Ring
  BY SnakeAssumption

LEMMA SeqIs ==
  ASSUME NEW S, NEW n \in Nat, NEW f \in [1 .. n -> S]
  PROVE  f \in Seq(S) /\ Len(f) = n
  OBVIOUS

LEMMA SeqSame ==
  ASSUME NEW S, NEW s \in Seq(S), NEW t \in Seq(S), Len(s) = Len(t),
         \A k \in 1 .. Len(s) : s[k] = t[k]
  PROVE  s = t
  OBVIOUS

LEMMA EntrySame ==
  ASSUME NEW e \in EntryData, NEW f \in EntryData, e.snake_idx = f.snake_idx,
         e.first <=> f.first, e.single_train <=> f.single_train
  PROVE  e = f
  BY DEF EntryData

LEMMA WaitingFields ==
  ASSUME NEW i \in Nat, NEW told \in BOOLEAN
  PROVE  /\ Waiting(i, told) \in EntryData
         /\ Waiting(i, told).snake_idx = i /\ (Waiting(i, told).first <=> told) /\ ~Waiting(i, told).single_train
  BY DEF Waiting, EntryData

LEMMA WaitingIs ==
  ASSUME NEW i \in Nat, NEW told \in BOOLEAN
  PROVE  [Waiting(i, told) EXCEPT !.first = TRUE] = Waiting(i, TRUE)
<1> DEFINE e == Waiting(i, told)
           u == [e EXCEPT !.first = TRUE]
<1>1. e \in EntryData /\ e.snake_idx = i /\ ~e.single_train
  BY WaitingFields
<1> HIDE DEF e
<1>2. u \in EntryData /\ u.snake_idx = i /\ u.first /\ ~u.single_train
  BY <1>1 DEF EntryData
<1> HIDE DEF u
<1>3. TRUE \in BOOLEAN
  OBVIOUS
<1>4. /\ Waiting(i, TRUE) \in EntryData
      /\ Waiting(i, TRUE).snake_idx = i /\ Waiting(i, TRUE).first /\ ~Waiting(i, TRUE).single_train
  BY <1>3, WaitingFields, Zenon
<1>5. u = Waiting(i, TRUE)
  BY <1>1, <1>2, <1>4, EntrySame
<1>6. QED BY <1>5 DEF u, e

LEMMA EntryIs ==
  ASSUME NEW i
  PROVE  Entry(i, FALSE) = Waiting(i, FALSE)
  BY DEF Entry, Waiting

LEMMA RestIs ==
  ASSUME NEW n \in Nat
  PROVE  /\ Rest(n) \in Seq(EntryData) /\ Len(Rest(n)) = n
         /\ \A k \in 1 .. n : Rest(n)[k] = Waiting(n + 1 - k, k = 1)
<1>1. \A k \in 1 .. n : n + 1 - k \in Nat /\ (k = 1) \in BOOLEAN
  OBVIOUS
<1>2. Rest(n) \in [1 .. n -> EntryData]
  BY <1>1, WaitingFields, Zenon DEF Rest
<1>3. \A k \in 1 .. n : Rest(n)[k] = Waiting(n + 1 - k, k = 1)
  BY Zenon DEF Rest
<1>4. QED BY <1>2, <1>3, SeqIs

LEMMA FreshIs ==
  ASSUME NEW h \in Nat \ {0}
  PROVE  /\ Fresh(h) \in Seq(EntryData) /\ Len(Fresh(h)) = h
         /\ \A k \in 1 .. h : Fresh(h)[k] = Waiting(h + 1 - k, FALSE)
<1>1. ASSUME NEW k \in 1 .. h
      PROVE  Entry(h + 1 - k, FALSE) = Waiting(h + 1 - k, FALSE) /\ Waiting(h + 1 - k, FALSE) \in EntryData
  <2>1. h + 1 - k \in Nat /\ FALSE \in BOOLEAN
    OBVIOUS
  <2>2. QED BY <2>1, WaitingFields, EntryIs, Zenon
<1>2. Fresh(h) = [k \in 1 .. h |-> Entry(h + 1 - k, FALSE)]
  BY DEF Fresh
<1>3. \A k \in 1 .. h : Fresh(h)[k] = Waiting(h + 1 - k, FALSE)
  BY <1>1, <1>2, Zenon
<1>4. Fresh(h) \in [1 .. h -> EntryData]
  BY <1>1, <1>2, Zenon
<1>5. QED BY <1>3, <1>4, SeqIs

LEMMA ReplacesFirst ==
  ASSUME NEW S, NEW t \in Seq(S), Len(t) > 0, NEW e \in S, NEW u, u = [t EXCEPT ![1] = e]
  PROVE  u \in Seq(S) /\ Len(u) = Len(t) /\ u[1] = e /\ \A k \in 2 .. Len(t) : u[k] = t[k]
<1>1. Len(t) \in Nat /\ t \in [1 .. Len(t) -> S] /\ 1 \in 1 .. Len(t)
  OBVIOUS
<1>2. u \in [1 .. Len(t) -> S] /\ u[1] = e /\ \A k \in 2 .. Len(t) : u[k] = t[k]
  BY <1>1
<1>3. u \in Seq(S) /\ Len(u) = Len(t)
  BY <1>1, <1>2, SeqIs
<1>4. QED BY <1>2, <1>3

\* The next entry of a queue is told that the head has passed.
LEMMA Told ==
  ASSUME NEW t, NEW i \in Nat, NEW b \in BOOLEAN, t[1] = Waiting(i, b)
  PROVE  [t EXCEPT ![1].first = TRUE] = [t EXCEPT ![1] = Waiting(i, TRUE)]
<1>1. [t[1] EXCEPT !.first = TRUE] = Waiting(i, TRUE)
  BY WaitingIs, Zenon
<1>2. [t EXCEPT ![1].first = TRUE] = [t EXCEPT ![1] = [t[1] EXCEPT !.first = TRUE]]
  OBVIOUS
<1>3. QED BY <1>1, <1>2, Zenon

\* When a train has passed, the rest have still to pass.
LEMMA Pops ==
  ASSUME NEW n \in Nat
  PROVE  sensor_queue_pop(Rest(n + 1)) = Rest(n)
<1> DEFINE r == Rest(n + 1)
<1>1. /\ r \in Seq(EntryData) /\ Len(r) = n + 1
      /\ \A k \in 1 .. n + 1 : r[k] = Waiting(n + 1 + 1 - k, k = 1)
  BY RestIs
<1>2. /\ Rest(n) \in Seq(EntryData) /\ Len(Rest(n)) = n
      /\ \A k \in 1 .. n : Rest(n)[k] = Waiting(n + 1 - k, k = 1)
  BY RestIs
<1> HIDE DEF r
<1>3. CASE n = 0
  <2>1. Rest(n) = <<>>
    BY <1>2, <1>3
  <2>2. Len(r) = 1
    BY <1>1, <1>3
  <2>3. QED BY <2>1, <2>2 DEF r, sensor_queue_pop
<1>4. CASE n > 0
  <2> DEFINE t == Tail(r)
             u == [t EXCEPT ![1].first = TRUE]
  <2>1. t \in Seq(EntryData) /\ Len(t) = n /\ \A k \in 1 .. n : t[k] = r[k + 1]
    <3>1. r # <<>>
      BY <1>1
    <3>2. QED BY <1>1, <3>1, TailElements
  <2>2. \A k \in 1 .. n : t[k] = Waiting(n + 1 - k, FALSE)
    <3> SUFFICES ASSUME NEW k \in 1 .. n PROVE t[k] = Waiting(n + 1 - k, FALSE)
      OBVIOUS
    <3>1. k + 1 \in 1 .. n + 1 /\ n + 1 + 1 - (k + 1) = n + 1 - k /\ (k + 1 = 1) = FALSE
      OBVIOUS
    <3>2. t[k] = r[k + 1] /\ r[k + 1] = Waiting(n + 1 + 1 - (k + 1), k + 1 = 1)
      BY <1>1, <2>1, <3>1, Zenon
    <3>3. QED BY <3>1, <3>2
  <2> HIDE DEF t
  <2>3. t[1] = Waiting(n, FALSE)
    <3>1. 1 \in 1 .. n /\ n + 1 - 1 = n
      BY <1>4
    <3>2. QED BY <2>2, <3>1
  <2>4. u \in Seq(EntryData) /\ Len(u) = n /\ u[1] = Waiting(n, TRUE) /\ \A k \in 2 .. n : u[k] = t[k]
    <3> DEFINE w == Waiting(n, TRUE)
    <3>1. w \in EntryData /\ Len(t) > 0
      BY <1>4, <2>1, WaitingFields
    <3>2. u = [t EXCEPT ![1] = w]
      BY <2>3, Told, Zenon
    <3> HIDE DEF u, w
    <3>3. u \in Seq(EntryData) /\ Len(u) = Len(t) /\ u[1] = w /\ \A k \in 2 .. Len(t) : u[k] = t[k]
      BY <2>1, <3>1, <3>2, ReplacesFirst
    <3>4. QED BY <2>1, <3>3 DEF w
  <2> HIDE DEF u
  <2>5. ASSUME NEW k \in 1 .. n PROVE u[k] = Rest(n)[k]
    <3>1. CASE k = 1
      <4>1. n + 1 - k = n /\ (k = 1) = TRUE
        BY <3>1
      <4>2. QED BY <1>2, <2>4, <3>1, <4>1
    <3>2. CASE k # 1
      <4>1. k \in 2 .. n /\ (k = 1) = FALSE
        BY <3>2
      <4>2. QED BY <1>2, <2>2, <2>4, <4>1
    <3>3. QED BY <3>1, <3>2
  <2>6. u = Rest(n)
    BY <1>2, <2>4, <2>5, SeqSame
  <2>7. sensor_queue_pop(r) = u
    <3>1. Len(r) # 1
      BY <1>1, <1>4
    <3>2. QED BY <3>1 DEF sensor_queue_pop, t, u
  <2>8. QED BY <2>6, <2>7 DEF r
<1>5. QED BY <1>3, <1>4

\* When the head has passed, the trains behind it have still to pass.
LEMMA Activates ==
  ASSUME NEW h \in Nat \ {0}
  PROVE  [Fresh(h) EXCEPT ![1].first = TRUE] = Rest(h)
<1> DEFINE u == [Fresh(h) EXCEPT ![1].first = TRUE]
<1>1. /\ Fresh(h) \in Seq(EntryData) /\ Len(Fresh(h)) = h
      /\ \A k \in 1 .. h : Fresh(h)[k] = Waiting(h + 1 - k, FALSE)
  BY FreshIs
<1>2. /\ Rest(h) \in Seq(EntryData) /\ Len(Rest(h)) = h
      /\ \A k \in 1 .. h : Rest(h)[k] = Waiting(h + 1 - k, k = 1)
  BY RestIs
<1>3. 1 \in 1 .. h /\ h + 1 - 1 = h /\ Len(Fresh(h)) > 0
  BY <1>1
<1>4. Fresh(h)[1] = Waiting(h, FALSE)
  BY <1>1, <1>3
<1>5. u \in Seq(EntryData) /\ Len(u) = h /\ u[1] = Waiting(h, TRUE) /\ \A k \in 2 .. h : u[k] = Fresh(h)[k]
  <2> DEFINE f == Fresh(h)
             w == Waiting(h, TRUE)
  <2>1. w \in EntryData
    BY WaitingFields
  <2>2. u = [f EXCEPT ![1] = w]
    BY <1>4, Told, Zenon
  <2> HIDE DEF u, w
  <2>3. u \in Seq(EntryData) /\ Len(u) = Len(f) /\ u[1] = w /\ \A k \in 2 .. Len(f) : u[k] = f[k]
    BY <1>1, <1>3, <2>1, <2>2, ReplacesFirst
  <2>4. QED BY <1>1, <2>3 DEF w
<1> HIDE DEF u
<1>6. ASSUME NEW k \in 1 .. h PROVE u[k] = Rest(h)[k]
  <2>1. CASE k = 1
    <3>1. h + 1 - k = h /\ (k = 1) = TRUE
      BY <2>1
    <3>2. QED BY <1>2, <1>5, <2>1, <3>1
  <2>2. CASE k # 1
    <3>1. k \in 2 .. h /\ (k = 1) = FALSE
      BY <2>2
    <3>2. QED BY <1>1, <1>2, <1>5, <3>1
  <2>3. QED BY <2>1, <2>2
<1>7. u = Rest(h)
  BY <1>2, <1>5, <1>6, SeqSame
<1>8. QED BY <1>7 DEF u

-----------------------------------------------------------------------------
(* The ring                                                                *)

LEMMA OnRing ==
  ASSUME NEW a \in Sensors, NEW s \in Sensors
  PROVE  /\ (a - s) % Ring = IF s <= a THEN a - s ELSE a - s + Ring
         /\ (a + 1) % Ring = IF a + 1 < Ring THEN a + 1 ELSE 0
         /\ (a + 1) % Ring \in Sensors
<1>1. Ring \in Nat /\ Ring >= 2 /\ a \in 0 .. Ring - 1 /\ s \in 0 .. Ring - 1
  BY SnakeAssumption DEF Sensors
<1>2. (a - s) % Ring = IF s <= a THEN a - s ELSE a - s + Ring
  BY <1>1, ModSmall
<1>3. (a + 1) % Ring = IF a + 1 < Ring THEN a + 1 ELSE 0
  <2>1. CASE a + 1 < Ring
    BY <1>1, <2>1, ModSmall
  <2>2. CASE a + 1 >= Ring
    <3>1. a + 1 = Ring
      BY <1>1, <2>2
    <3>2. QED BY <1>1, <3>1
  <2>3. QED BY <1>1, <2>1, <2>2
<1>4. QED BY <1>1, <1>2, <1>3 DEF Sensors

\* Where the head was k sensors ago
LEMMA WhereAgo ==
  ASSUME NEW a \in Sensors, NEW k \in 0 .. Ring - 1
  PROVE  (a - k) % Ring \in Sensors /\ (a - ((a - k) % Ring)) % Ring = k
<1> DEFINE s == (a - k) % Ring
<1>1. Ring \in Nat /\ Ring >= 2 /\ a \in 0 .. Ring - 1
  BY SnakeAssumption DEF Sensors
<1>2. s = IF k <= a THEN a - k ELSE a - k + Ring
  BY <1>1, ModSmall
<1> HIDE DEF s
<1>3. s \in Sensors
  BY <1>1, <1>2 DEF Sensors
<1>4. (a - s) % Ring = IF s <= a THEN a - s ELSE a - s + Ring
  BY <1>3, OnRing
<1>5. (a - s) % Ring = k
  BY <1>1, <1>2, <1>4
<1>6. QED BY <1>3, <1>5 DEF s

\* Passing a sensor moves the head on from all of them.
LEMMA MovesOn ==
  ASSUME NEW a \in Sensors, NEW s \in Sensors
  PROVE  /\ (a - s) % Ring \in 0 .. Ring - 1
         /\ (a - s) % Ring = 0 <=> s = a
         /\ (((a + 1) % Ring) - s) % Ring = IF s = (a + 1) % Ring THEN 0 ELSE ((a - s) % Ring) + 1
         /\ (a - ((a + 1) % Ring)) % Ring = Ring - 1
<1> DEFINE b == (a + 1) % Ring
<1>1. Ring \in Nat /\ Ring >= 2 /\ a \in 0 .. Ring - 1 /\ s \in 0 .. Ring - 1
  BY SnakeAssumption DEF Sensors
<1>2. b \in Sensors /\ b = IF a + 1 < Ring THEN a + 1 ELSE 0
  BY OnRing
<1> HIDE DEF b
<1>3. (a - s) % Ring = IF s <= a THEN a - s ELSE a - s + Ring
  BY OnRing
<1>4. (b - s) % Ring = IF s <= b THEN b - s ELSE b - s + Ring
  BY <1>2, OnRing
<1>5. (a - b) % Ring = IF b <= a THEN a - b ELSE a - b + Ring
  BY <1>2, OnRing
<1>6. (a - s) % Ring \in 0 .. Ring - 1 /\ ((a - s) % Ring = 0 <=> s = a)
  BY <1>1, <1>3
<1>7. (b - s) % Ring = IF s = b THEN 0 ELSE ((a - s) % Ring) + 1
  BY <1>1, <1>2, <1>3, <1>4
<1>8. (a - b) % Ring = Ring - 1
  BY <1>1, <1>2, <1>5
<1>9. QED BY <1>6, <1>7, <1>8 DEF b

LEMMA AtIs ==
  ASSUME NEW h, Lists(h), NEW i \in Idx
  PROVE  /\ behind[i] \in 0 .. MaxLag
         /\ At(i) \in Sensors /\ Ago(At(i)) = behind[i]
         /\ (At(i) - 1) % Ring \in Sensors /\ Ago((At(i) - 1) % Ring) = behind[i] + 1
<1>1. ahead \in Sensors /\ behind[i] \in 0 .. MaxLag
  BY DEF Lists
<1>2. Ring \in Nat /\ behind[i] \in 0 .. Ring - 1 /\ behind[i] + 1 \in 0 .. Ring - 1 /\ MaxLag \in Nat
  BY <1>1, SnakeAssumption
<1>3. At(i) \in Sensors /\ Ago(At(i)) = behind[i]
  BY <1>1, <1>2, WhereAgo DEF At, Ago
<1>4. (At(i) - 1) % Ring = (ahead - (behind[i] + 1)) % Ring
  <2> DEFINE k == behind[i]
  <2>1. ahead \in 0 .. Ring - 1
    BY <1>1 DEF Sensors
  <2>a. /\ ahead - k \in Int /\ -Ring <= ahead - k /\ ahead - k < Ring
        /\ ahead - (k + 1) \in Int /\ -Ring <= ahead - (k + 1) /\ ahead - (k + 1) < Ring
    BY <1>2, <2>1
  <2>b. (ahead - k) % Ring = IF 0 <= ahead - k THEN ahead - k ELSE ahead - k + Ring
    BY <2>a, ModSmall
  <2>c. (ahead - (k + 1)) % Ring = IF 0 <= ahead - (k + 1) THEN ahead - (k + 1) ELSE ahead - (k + 1) + Ring
    BY <2>a, ModSmall
  <2>d. (k <= ahead <=> 0 <= ahead - k) /\ (k + 1 <= ahead <=> 0 <= ahead - (k + 1))
    BY <1>2, <2>1
  <2>2. At(i) = IF k <= ahead THEN ahead - k ELSE ahead - k + Ring
    BY <2>b, <2>d DEF At
  <2>3. (ahead - (k + 1)) % Ring = IF k + 1 <= ahead THEN ahead - (k + 1) ELSE ahead - (k + 1) + Ring
    BY <2>c, <2>d
  <2>4. At(i) - 1 \in Int /\ -Ring <= At(i) - 1 /\ At(i) - 1 < Ring
    BY <1>2, <2>1, <2>2
  <2>5. (At(i) - 1) % Ring = IF 0 <= At(i) - 1 THEN At(i) - 1 ELSE At(i) - 1 + Ring
    BY <2>4, ModSmall
  <2> HIDE DEF k
  <2>6. QED BY <1>2, <2>1, <2>2, <2>3, <2>5 DEF k
<1>5. QED BY <1>1, <1>2, <1>3, <1>4, WhereAgo DEF Ago

\* There is one sensor that the head passed k sensors ago.
LEMMA OneAgo ==
  ASSUME ahead \in Sensors, NEW s \in Sensors, NEW t \in Sensors, Ago(s) = Ago(t)
  PROVE  s = t
<1>1. Ring \in Nat /\ ahead \in 0 .. Ring - 1 /\ s \in 0 .. Ring - 1 /\ t \in 0 .. Ring - 1
  BY SnakeAssumption DEF Sensors
<1>2. Ago(s) = IF s <= ahead THEN ahead - s ELSE ahead - s + Ring
  BY OnRing DEF Ago
<1>3. Ago(t) = IF t <= ahead THEN ahead - t ELSE ahead - t + Ring
  BY OnRing DEF Ago
<1>4. CASE s <= ahead /\ t <= ahead
  <2>1. ahead - s = ahead - t
    BY <1>2, <1>3, <1>4
  <2>2. QED BY <1>1, <2>1
<1>5. CASE ~(s <= ahead) /\ ~(t <= ahead)
  <2>1. ahead - s + Ring = ahead - t + Ring
    BY <1>2, <1>3, <1>5
  <2>2. QED BY <1>1, <2>1
<1>6. CASE s <= ahead /\ ~(t <= ahead)
  <2>1. ahead - s = ahead - t + Ring
    BY <1>2, <1>3, <1>6
  <2>2. QED BY <1>1, <2>1
<1>7. CASE ~(s <= ahead) /\ t <= ahead
  <2>1. ahead - s + Ring = ahead - t
    BY <1>2, <1>3, <1>7
  <2>2. QED BY <1>1, <2>1
<1>8. QED BY <1>4, <1>5, <1>6, <1>7

-----------------------------------------------------------------------------
(* The messages                                                            *)

\* The train that is picked up has no change queued, and no grace period.
LEMMA PicksUp ==
  ASSUME NEW s, Sound(s), s.head + 1 < N_TRNS,
         NEW r, r = [s EXCEPT !.head = @ + 1, !.trns[s.head + 1].spd = SPD_MED]
  PROVE  Sound(r) /\ r.head = s.head + 1
<1> DEFINE n == s.head + 1
           u == [s.trns[n] EXCEPT !.spd = SPD_MED]
<1>1. /\ s \in SnakeData /\ SpeedsOK(s) /\ TimerOK(s) /\ AllTimed(s)
      /\ s.head \in Nat /\ 0 .. s.head \subseteq Idx
      /\ \A i \in Idx : i \in Nat /\ s.trns[i] \in TrainData
  BY Trains DEF Sound, Untimed
<1>2. n \in Idx /\ n \in Nat /\ n > s.head /\ 0 .. n \subseteq Idx
  <2>1. N_TRNS \in Nat
    BY SnakeAssumption
  <2>2. QED BY <1>1, <2>1 DEF Idx
<1>3. SPD_MED \in Supported /\ SPD_MED \in Int
  BY SnakeAssumption DEF Supported
<1> HIDE DEF n
<1>4. s.trns[n] \in TrainData /\ s.trns[n].adj = 0 /\ ~s.trns[n].grace
  BY <1>1, <1>2 DEF SpeedsOK
<1>5. u \in TrainData /\ u.spd = SPD_MED /\ u.adj = 0 /\ ~u.grace
  BY <1>3, <1>4 DEF TrainData
<1>6. r = [s EXCEPT !.head = n, !.trns = [s.trns EXCEPT ![n] = u]]
  BY <1>1, <1>2 DEF SnakeData, n
<1> HIDE DEF u
<1>7. /\ r \in SnakeData /\ r.head = n /\ r.waiting_timer = s.waiting_timer
      /\ r.timer = s.timer /\ r.timed = s.timed /\ r.stuck = s.stuck
      /\ r.trns[n] = u /\ \A j \in Idx \ {n} : r.trns[j] = s.trns[j]
  <2> DEFINE v == [s.trns EXCEPT ![n] = u]
  <2>1. v \in [Idx -> TrainData] /\ v[n] = u /\ \A j \in Idx \ {n} : v[j] = s.trns[j]
    BY <1>1, <1>2, <1>5 DEF SnakeData
  <2>2. r = [s EXCEPT !.head = n, !.trns = v]
    BY <1>6
  <2> HIDE DEF v
  <2>3. r \in SnakeData /\ r.trns = v /\ r.head = n /\ r.waiting_timer = s.waiting_timer
        /\ r.timer = s.timer /\ r.timed = s.timed /\ r.stuck = s.stuck
    BY <1>1, <1>2, <2>1, <2>2 DEF SnakeData
  <2>4. QED BY <2>1, <2>3
<1>8. SpeedsOK(r)
  <2>1. ASSUME NEW j \in 0 .. r.head
        PROVE  r.trns[j].spd \in Supported /\ r.trns[j].spd + r.trns[j].adj \in Supported
    <3>1. CASE j = n
      <4>1. SPD_MED + 0 = SPD_MED
        BY <1>3
      <4>2. QED BY <1>3, <1>5, <1>7, <3>1, <4>1
    <3>2. CASE j # n
      <4>1. j \in 0 .. s.head /\ j \in Idx \ {n}
        BY <1>1, <1>2, <1>7, <3>2 DEF n
      <4>2. QED BY <1>1, <1>7, <4>1 DEF SpeedsOK
    <3>3. QED BY <3>1, <3>2
  <2>2. ASSUME NEW j \in Idx, j > r.head PROVE r.trns[j].adj = 0 /\ ~r.trns[j].grace
    <3>1. j > s.head /\ j # n
      BY <1>1, <1>2, <1>7, <2>2
    <3>2. QED BY <1>1, <1>7, <3>1 DEF SpeedsOK
  <2>3. QED BY <2>1, <2>2 DEF SpeedsOK
<1>9. TimerOK(r)
  <2>1. s.timed \in 0 .. s.head => s.timed \in 0 .. n /\ s.timed \in Idx \ {n}
    BY <1>1, <1>2
  <2>2. QED BY <1>1, <1>7, <2>1 DEF TimerOK
<1>10. AllTimed(r)
  <2>1. ASSUME NEW j \in 0 .. r.head, r.trns[j].grace PROVE s.waiting_timer
    <3>1. j # n
      BY <1>5, <1>7, <2>1
    <3>2. j \in 0 .. s.head /\ j \in Idx \ {n}
      BY <1>1, <1>2, <1>7, <3>1 DEF n
    <3>3. QED BY <1>1, <1>7, <2>1, <3>2 DEF AllTimed
  <2>2. QED BY <1>7, <2>1 DEF AllTimed
<1>11. QED BY <1>7, <1>8, <1>9, <1>10 DEF Sound, Untimed, n

\* The grace period that is timed is over.
LEMMA GraceOver ==
  ASSUME NEW s, Sound(s), s.timer = "send",
         NEW r, r = [s EXCEPT !.waiting_timer = FALSE, !.timer = "idle", !.timed = 0,
                              !.trns[s.timed].grace = FALSE]
  PROVE  Untimed(r) /\ r.head = s.head
<1> DEFINE n == s.timed
           u == [s.trns[n] EXCEPT !.grace = FALSE]
<1>1. /\ s \in SnakeData /\ SpeedsOK(s) /\ TimerOK(s)
      /\ s.head \in Nat /\ 0 .. s.head \subseteq Idx
      /\ \A i \in Idx : i \in Nat /\ s.trns[i] \in TrainData
  BY Trains DEF Sound, Untimed
<1>2. n \in Idx /\ 0 \in Idx
  BY <1>1 DEF SnakeData
<1> HIDE DEF n
<1>3. /\ u \in TrainData /\ u.spd = s.trns[n].spd /\ u.adj = s.trns[n].adj /\ ~u.grace
  BY <1>1, <1>2 DEF TrainData
<1>4. r = [s EXCEPT !.waiting_timer = FALSE, !.timer = "idle", !.timed = 0,
                    !.trns = [s.trns EXCEPT ![n] = u]]
  BY <1>1, <1>2 DEF SnakeData, n
<1> HIDE DEF u
<1>5. /\ r \in SnakeData /\ r.head = s.head /\ ~r.waiting_timer
      /\ r.timer = "idle" /\ r.stuck = s.stuck
      /\ r.trns[n] = u /\ \A j \in Idx \ {n} : r.trns[j] = s.trns[j]
  <2> DEFINE v == [s.trns EXCEPT ![n] = u]
  <2>1. v \in [Idx -> TrainData] /\ v[n] = u /\ \A j \in Idx \ {n} : v[j] = s.trns[j]
    BY <1>1, <1>2, <1>3 DEF SnakeData
  <2>2. r = [s EXCEPT !.waiting_timer = FALSE, !.timer = "idle", !.timed = 0, !.trns = v]
    BY <1>4
  <2> HIDE DEF v
  <2>3. r \in SnakeData /\ r.trns = v /\ r.head = s.head /\ ~r.waiting_timer
        /\ r.timer = "idle" /\ r.stuck = s.stuck
    BY <1>1, <1>2, <2>1, <2>2 DEF SnakeData
  <2>4. QED BY <2>1, <2>3
<1>6. \A j \in Idx : /\ r.trns[j].spd = s.trns[j].spd /\ r.trns[j].adj = s.trns[j].adj
                     /\ r.trns[j].grace => s.trns[j].grace
  BY <1>3, <1>5
<1>7. SpeedsOK(r)
  BY <1>1, <1>5, <1>6 DEF SpeedsOK
<1>8. QED BY <1>1, <1>5, <1>7 DEF Untimed, TimerOK

LEMMA FirstActivates ==
  ASSUME Sound(sn), Lists(sn.head), pc = "run", NEW pickUp \in BOOLEAN, pickUp => sn.head + 1 < N_TRNS,
         FirstActivation(ahead, pickUp), pc' = "run"
  PROVE  /\ Sound(sn)' /\ sn'.head \in {sn.head, sn.head + 1}
         /\ next' = (ahead + 1) % Ring
         /\ q' = [s \in Sensors |-> IF s = ahead THEN Rest(sn.head)
                                    ELSE IF s = next' THEN Fresh(sn'.head) ELSE q[s]]
<1> DEFINE h == sn.head
           e == Head(q[ahead])
           q1 == [q EXCEPT ![ahead] = IF e.single_train THEN sensor_queue_pop(@) ELSE [@ EXCEPT ![1].first = TRUE]]
<1>1. /\ sn \in SnakeData /\ h \in Nat /\ h \in Idx /\ 0 .. h \subseteq Idx
  BY Trains DEF Sound, Untimed, SnakeData
<1>2. /\ ahead \in Sensors /\ next = ahead /\ q[ahead] = Fresh(h)
      /\ behind \in [Idx -> 0 .. MaxLag] /\ q = [s \in Sensors |-> q[s]]
  BY DEF Lists
<1>3. /\ next' = (next + 1) % Ring
      /\ \E s \in snake_try_make_queued_speed_adjustment(sn, e.snake_idx) :
           sn' = IF pickUp THEN [s EXCEPT !.head = @ + 1, !.trns[s.head + 1].spd = SPD_MED] ELSE s
      /\ q' = snake_wait_on_sensor_queue(q1, next', sn'.head)
  BY DEF FirstActivation, Gone
<1>4. e.snake_idx = h /\ (IF e.single_train THEN sensor_queue_pop(Fresh(h)) ELSE [Fresh(h) EXCEPT ![1].first = TRUE]) = Rest(h)
  <2>1. CASE h = 0
    <3>1. Fresh(h) = <<Entry(0, TRUE)>>
      BY <2>1 DEF Fresh
    <3>2. e = Entry(0, TRUE) /\ Len(Fresh(h)) = 1
      BY <1>2, <3>1
    <3>3. Rest(h) = <<>>
      BY <1>1, <2>1, RestIs
    <3>4. sensor_queue_pop(Fresh(h)) = <<>>
      BY <3>2 DEF sensor_queue_pop
    <3>5. QED BY <2>1, <3>2, <3>3, <3>4 DEF Entry
  <2>2. CASE h # 0
    <3>1. Fresh(h) \in Seq(EntryData) /\ Len(Fresh(h)) = h /\ \A k \in 1 .. h : Fresh(h)[k] = Waiting(h + 1 - k, FALSE)
      BY <1>1, <2>2, FreshIs
    <3>2. 1 \in 1 .. h /\ h + 1 - 1 = h
      BY <1>1, <2>2
    <3>3. Head(Fresh(h)) = Fresh(h)[1]
      BY <3>1, <3>2
    <3>4. e = Waiting(h, FALSE)
      BY <1>2, <3>1, <3>2, <3>3
    <3>5. e.snake_idx = h /\ ~e.single_train
      BY <3>4 DEF Waiting
    <3>6. [Fresh(h) EXCEPT ![1].first = TRUE] = Rest(h)
      BY <1>1, <2>2, Activates
    <3> HIDE DEF e
    <3>7. QED BY <3>5, <3>6
  <2>3. QED BY <2>1, <2>2
<1>5. Sound(sn)' /\ sn'.head \in {h, h + 1}
  <2>1. PICK s \in snake_try_make_queued_speed_adjustment(sn, h) :
           sn' = IF pickUp THEN [s EXCEPT !.head = @ + 1, !.trns[s.head + 1].spd = SPD_MED] ELSE s
    BY <1>3, <1>4
  <2>2. Sound(s) /\ s.head = h
    <3>1. h \in 0 .. sn.head
      BY <1>1
    <3>2. QED BY <3>1, <2>1, MakesAdjustment DEF Follows
  <2>3. Sound(sn') /\ sn'.head \in {h, h + 1}
    <3>1. CASE pickUp
      <4>1. s.head + 1 < N_TRNS
        BY <2>2, <3>1
      <4>2. sn' = [s EXCEPT !.head = @ + 1, !.trns[s.head + 1].spd = SPD_MED]
        BY <2>1, <3>1
      <4>3. QED BY <2>2, <4>1, <4>2, PicksUp
    <3>2. CASE ~pickUp
      BY <2>1, <2>2, <3>2
    <3>3. QED BY <3>1, <3>2
  <2>4. QED BY <2>3 DEF Sound, Untimed, SnakeData, SpeedsOK, TimerOK, AllTimed
<1>6. next' = (ahead + 1) % Ring /\ next' \in Sensors /\ next' # ahead /\ q[next'] = <<>>
  <2>1. next' = (ahead + 1) % Ring /\ next' \in Sensors
    BY <1>2, <1>3, OnRing
  <2>2. Ago(next') = Ring - 1
    BY <1>2, <2>1, MovesOn DEF Ago
  <2>3. Ago(ahead) = 0
    BY <1>2, MovesOn DEF Ago
  <2>4. behind[0] < Ring - 1 /\ Ring - 1 # 0
    <3>1. behind[0] \in 0 .. MaxLag
      BY <1>1, <1>2
    <3>2. QED BY <3>1, SnakeAssumption
  <2>5. behind[0] < Ago(next') => q[next'] = <<>>
    BY <2>1 DEF Lists
  <2>6. QED BY <2>1, <2>2, <2>3, <2>4, <2>5
<1>7. q1 = [s \in Sensors |-> IF s = ahead THEN Rest(h) ELSE q[s]]
  BY <1>2, <1>4
<1>8. Fresh(sn'.head) = <<>> \o (IF sn'.head = 0 THEN <<Entry(0, TRUE)>>
                                 ELSE [k \in 1 .. sn'.head |-> Entry(sn'.head + 1 - k, FALSE)])
  <2>1. sn'.head \in Nat
    BY <1>1, <1>5
  <2> DEFINE f == Fresh(sn'.head)
  <2>2. \E S : f \in Seq(S)
    <3>1. CASE sn'.head = 0
      <4>1. f = <<Entry(0, TRUE)>>
        BY <3>1 DEF Fresh
      <4>2. f \in Seq({Entry(0, TRUE)})
        BY <4>1
      <4>3. QED BY <4>2
    <3>2. CASE sn'.head # 0
      BY <2>1, <3>2, FreshIs
    <3>3. QED BY <3>1, <3>2
  <2>3. f = <<>> \o f
    <3> HIDE DEF f
    <3>1. QED BY <2>2
  <2>4. QED BY <2>3, Zenon DEF Fresh
<1>9. q' = [q1 EXCEPT ![next'] = Fresh(sn'.head)]
  <2>1. q1[next'] = <<>>
    BY <1>6, <1>7
  <2> HIDE DEF q1
  <2>2. QED BY <1>3, <1>8, <2>1, Zenon DEF snake_wait_on_sensor_queue
<1> HIDE DEF q1, e
<1>10. q' = [s \in Sensors |-> IF s = ahead THEN Rest(h)
                               ELSE IF s = next' THEN Fresh(sn'.head) ELSE q[s]]
  BY <1>6, <1>7, <1>9
<1>11. QED BY <1>5, <1>6, <1>10

\* The first entry of a queue the head has left to the others is told of it.
LEMMA RestFirst ==
  ASSUME NEW i \in Nat
  PROVE  Rest(i + 1) # <<>> /\ Head(Rest(i + 1)).first /\ Head(Rest(i + 1)).snake_idx = i + 1
<1>1. i + 1 \in Nat /\ 1 \in 1 .. i + 1 /\ i + 1 + 1 - 1 = i + 1
  OBVIOUS
<1>2. /\ Rest(i + 1) \in Seq(EntryData) /\ Len(Rest(i + 1)) = i + 1
      /\ \A k \in 1 .. i + 1 : Rest(i + 1)[k] = Waiting(i + 1 + 1 - k, k = 1)
  BY <1>1, RestIs
<1>3. Rest(i + 1) # <<>> /\ Head(Rest(i + 1)) = Rest(i + 1)[1]
  BY <1>1, <1>2
<1>4. Rest(i + 1)[1] = Waiting(i + 1, TRUE)
  <2>1. (1 = 1) = TRUE
    OBVIOUS
  <2>2. Rest(i + 1)[1] = Waiting(i + 1 + 1 - 1, 1 = 1)
    BY <1>1, <1>2, Zenon
  <2>3. QED BY <1>1, <2>1, <2>2, Zenon
<1>5. QED BY <1>3, <1>4 DEF Waiting

\* No train has passed the sensor that the head is to reach.
LEMMA FreshFirst ==
  ASSUME NEW h \in Nat
  PROVE  Fresh(h) # <<>> /\ ~Head(Fresh(h)).first
<1>1. CASE h = 0
  <2>1. Fresh(h) = <<Entry(0, TRUE)>>
    BY <1>1 DEF Fresh
  <2>2. QED BY <2>1 DEF Entry
<1>2. CASE h # 0
  <2>1. Fresh(h) \in Seq(EntryData) /\ Len(Fresh(h)) = h /\ \A k \in 1 .. h : Fresh(h)[k] = Waiting(h + 1 - k, FALSE)
    BY <1>2, FreshIs
  <2>2. 1 \in 1 .. h /\ h + 1 - 1 = h
    BY <1>2
  <2>3. Fresh(h) # <<>> /\ Head(Fresh(h)) = Fresh(h)[1]
    BY <2>1, <2>2
  <2>4. Fresh(h)[1] = Waiting(h, FALSE)
    BY <2>1, <2>2
  <2>5. QED BY <2>3, <2>4 DEF Waiting
<1>3. QED BY <1>1, <1>2

\* A queue that the head has left to the others, where the server measures
LEMMA Measures ==
  ASSUME Sound(sn), NEW at \in Sensors, q = [s \in Sensors |-> q[s]],
         NEW i \in 0 .. sn.head - 1, q[at] = Rest(i + 1), NextTrain(at)
  PROVE  /\ Sound(sn)' /\ sn'.head = sn.head /\ next' = next /\ pc' = pc
         /\ q' = [q EXCEPT ![at] = Rest(i)]
<1>1. sn \in SnakeData /\ sn.head \in Nat /\ 0 .. sn.head \subseteq Idx /\ i \in Nat
  BY Trains DEF Sound, Untimed
<1>2. Head(q[at]).snake_idx = i + 1
  BY <1>1, RestFirst
<1>4. PICK d \in Dist :
        sn' \in snake_adjust_trains([sn EXCEPT !.trns[i + 1].dist = d], i + 1, d - sn.trns[i + 1].dist)
  BY <1>2 DEF NextTrain
<1> DEFINE n == i + 1
           u == [sn.trns[n] EXCEPT !.dist = d]
           v == [sn.trns EXCEPT ![n] = u]
           s == [sn EXCEPT !.trns = v]
<1>5. n \in Idx /\ n \in 1 .. sn.head
  BY <1>1
<1>6. d \in Int /\ sn.trns[n] \in TrainData /\ sn.trns[n].dist \in Int
  BY <1>1, <1>5, SnakeAssumption DEF SnakeData, TrainData
<1>7. [sn EXCEPT !.trns[n].dist = d] = s
  OBVIOUS
<1>8. /\ u \in TrainData /\ u.spd = sn.trns[n].spd /\ u.adj = sn.trns[n].adj
      /\ u.grace = sn.trns[n].grace
  BY <1>6 DEF TrainData
<1> HIDE DEF u
<1>9. /\ v \in [Idx -> TrainData]
      /\ \A j \in Idx : v[j].spd = sn.trns[j].spd /\ v[j].adj = sn.trns[j].adj /\ v[j].grace = sn.trns[j].grace
  BY <1>1, <1>5, <1>8 DEF SnakeData
<1> HIDE DEF v
<1>10. s \in SnakeData /\ s.trns = v /\ s.head = sn.head /\ s.waiting_timer = sn.waiting_timer
       /\ s.timer = sn.timer /\ s.timed = sn.timed /\ s.stuck = sn.stuck
  BY <1>1, <1>9 DEF SnakeData
<1> HIDE DEF s
<1>11. Sound(s)
  <2>1. SpeedsOK(s)
    BY <1>1, <1>9, <1>10 DEF Sound, Untimed, SpeedsOK
  <2>2. TimerOK(s) /\ AllTimed(s)
    BY <1>1, <1>9, <1>10 DEF Sound, Untimed, TimerOK, AllTimed
  <2>3. QED BY <1>10, <2>1, <2>2 DEF Sound, Untimed
<1>12. sn' \in snake_adjust_trains(s, n, d - sn.trns[n].dist)
  BY <1>4, <1>7
<1>13. Sound(sn') /\ sn'.head = sn.head
  <2>1. d - sn.trns[n].dist \in Int /\ n \in 1 .. s.head
    BY <1>5, <1>6, <1>10
  <2> HIDE DEF n
  <2>2. Follows(sn', s)
    BY <1>11, <1>12, <2>1, Adjusts
  <2>3. QED BY <1>10, <2>2 DEF Follows
<1>14. q' = [q EXCEPT ![at] = Rest(i)]
  <2>1. sensor_queue_pop(q[at]) = Rest(i)
    BY <1>1, Pops
  <2>2. q' = [q EXCEPT ![at] = sensor_queue_pop(q[at])]
    BY DEF NextTrain
  <2>3. QED BY <2>1, <2>2
<1>15. Sound(sn)' /\ next' = next /\ pc' = pc
  BY <1>13 DEF NextTrain, Sound, Untimed, SnakeData, SpeedsOK, TimerOK, AllTimed
<1>16. QED BY <1>13, <1>14, <1>15

LEMMA SafeInitially == SnakeInit => SafeInv
<1> SUFFICES ASSUME SnakeInit PROVE Sound(sn) /\ Lists(sn.head)
  BY DEF SafeInv
<1> DEFINE a == [Train0 EXCEPT !.spd = SPD_MED]
           trns == [i \in Idx |-> IF i = 0 THEN a ELSE Train0]
<1>1. N_TRNS \in Nat \ {0} /\ Ring \in Nat /\ Ring >= 2 /\ MaxLag \in Nat /\ SPD_MED \in Supported /\ SPD_MED \in Int
  BY SnakeAssumption DEF Supported
<1>2. 0 \in Idx /\ \A i \in Idx : i \in Nat
  BY <1>1 DEF Idx
<1>3. /\ Train0 \in TrainData /\ Train0.adj = 0 /\ ~Train0.grace
      /\ a \in TrainData /\ a.spd = SPD_MED /\ a.adj = 0 /\ ~a.grace
  <2>1. Train0 \in TrainData /\ Train0.adj = 0 /\ ~Train0.grace
    BY DEF Train0, TrainData, DIST_NONE
  <2>2. QED BY <1>1, <2>1 DEF TrainData
<1> HIDE DEF a
<1>4. /\ trns \in [Idx -> TrainData] /\ trns[0] = a
      /\ \A i \in Idx : trns[i].adj = 0 /\ ~trns[i].grace
  BY <1>2, <1>3
<1>5. sn = [trns |-> trns, head |-> 0, waiting_timer |-> FALSE, timer |-> "idle", timed |-> 0, stuck |-> FALSE]
  BY DEF SnakeInit, a
<1> HIDE DEF trns
<1>6. /\ sn \in SnakeData /\ sn.trns = trns /\ sn.head = 0 /\ ~sn.waiting_timer
      /\ sn.timer = "idle" /\ sn.timed = 0 /\ ~sn.stuck
  BY <1>2, <1>4, <1>5 DEF SnakeData
<1>7. Sound(sn)
  <2>1. SPD_MED + 0 = SPD_MED
    BY <1>1
  <2>2. 0 .. sn.head = {0}
    BY <1>6
  <2>3. SpeedsOK(sn)
    BY <1>1, <1>2, <1>3, <1>4, <1>6, <2>1, <2>2 DEF SpeedsOK
  <2>4. TimerOK(sn) /\ AllTimed(sn)
    BY <1>2, <1>4, <1>6, <2>2 DEF TimerOK, AllTimed
  <2>5. QED BY <1>6, <2>3, <2>4 DEF Sound, Untimed
<1>8. Lists(0)
  <2>1. 0 \in Sensors /\ ahead = 0 /\ next = 0 /\ behind = [i \in Idx |-> 0]
    BY <1>1 DEF SnakeInit, Sensors
  <2>2. q = [s \in Sensors |-> IF s = 0 THEN <<Entry(0, TRUE)>> ELSE <<>>]
    <3>1. <<>> \o <<Entry(0, TRUE)>> = <<Entry(0, TRUE)>>
      <4> DEFINE e == Entry(0, TRUE)
      <4> HIDE DEF e
      <4>1. <<e>> \in Seq({e})
        OBVIOUS
      <4>2. <<>> \o <<e>> = <<e>>
        BY <4>1
      <4>3. QED BY <4>2 DEF e
    <3>2. q = [[s \in Sensors |-> <<>>] EXCEPT ![0] = @ \o <<Entry(0, TRUE)>>]
      BY DEF SnakeInit, snake_wait_on_sensor_queue
    <3>3. QED BY <2>1, <3>1, <3>2
  <2>3. q = [s \in Sensors |-> q[s]] /\ q[ahead] = Fresh(0)
    BY <2>1, <2>2 DEF Fresh
  <2>4. ASSUME NEW s \in Sensors, behind[0] < Ago(s) PROVE q[s] = <<>>
    <3>1. Ago(s) # 0
      BY <1>2, <2>1, <2>4
    <3>2. s # ahead
      BY <2>1, <3>1, MovesOn DEF Ago
    <3>3. QED BY <2>1, <2>2, <3>2
  <2>5. /\ behind \in [Idx -> 0 .. MaxLag]
        /\ \A i, j \in Idx : i <= j => behind[j] <= behind[i]
        /\ \A i \in Idx : 0 <= i => behind[i] = 0
    BY <1>1, <2>1
  <2>6. \A i \in 0 .. 0 - 1 : FALSE
    OBVIOUS
  <2>7. QED BY <2>1, <2>3, <2>4, <2>5, <2>6 DEF Lists
<1>9. QED BY <1>6, <1>7, <1>8

\* What a message does not change
LEMMA Unchanged ==
  ASSUME Sound(sn), Lists(sn.head), UNCHANGED <<q, next, ahead, behind>>, Sound(sn)', sn'.head = sn.head
  PROVE  SafeInv'
<1>1. Lists(sn.head)'
  BY DEF Lists, Ago, NextToPass
<1>2. QED BY <1>1 DEF SafeInv

LEMMA SoundSame ==
  ASSUME sn' = sn, Sound(sn)
  PROVE  Sound(sn)'
  BY DEF Sound, Untimed, SnakeData, SpeedsOK, TimerOK, AllTimed

\* The head passes a sensor: the others have still to pass it, and it is next
\* expected at the sensor after it, which the last train has passed long ago.
LEMMA HeadCrosses ==
  ASSUME SafeInv, NEW pickUp \in BOOLEAN, CrossHead(pickUp), pc' = "run"
  PROVE  SafeInv'
<1> DEFINE h == sn.head
           R == (ahead + 1) % Ring
<1>1. pc = "run" /\ Sound(sn) /\ Lists(h) /\ behind[0] < MaxLag
      /\ (pickUp => h + 1 < N_TRNS) /\ Report(ahead, TRUE, pickUp)
      /\ ahead' = R /\ behind' = [i \in Idx |-> IF i < h THEN behind[i] + 1 ELSE 0]
  BY DEF CrossHead, SafeInv
<1>2. h \in Nat /\ h \in Idx /\ 0 .. h \subseteq Idx /\ \A i \in Idx : i \in Nat
  BY <1>1, Trains DEF Sound, Untimed, SnakeData
<1>3. /\ ahead \in Sensors /\ next = ahead /\ q[ahead] = Fresh(h)
      /\ behind \in [Idx -> 0 .. MaxLag]
      /\ \A i, j \in Idx : i <= j => behind[j] <= behind[i]
      /\ \A i \in Idx : h <= i => behind[i] = 0
      /\ \A s \in Sensors : behind[0] < Ago(s) => q[s] = <<>>
      /\ \A s \in Sensors : \A i \in 0 .. h - 1 : NextToPass(i, s) => q[s] = Rest(i + 1)
  BY <1>1 DEF Lists
<1>4. FirstActivation(ahead, pickUp)
  BY <1>1, <1>2, <1>3, FreshFirst DEF Report
<1>5. /\ Sound(sn)' /\ sn'.head \in {h, h + 1} /\ next' = R
      /\ q' = [s \in Sensors |-> IF s = ahead THEN Rest(h) ELSE IF s = next' THEN Fresh(sn'.head) ELSE q[s]]
  BY <1>1, <1>4, FirstActivates
<1>6. R \in Sensors /\ R # ahead
  <2>1. R \in Sensors /\ Ago(R) = Ring - 1 /\ Ago(ahead) = 0
    BY <1>3, OnRing, MovesOn DEF Ago
  <2>2. Ring - 1 # 0
    BY SnakeAssumption
  <2> HIDE DEF R
  <2>3. QED BY <2>1, <2>2
<1>7. MaxLag \in Nat /\ 0 \in Idx /\ behind[0] \in 0 .. MaxLag
  BY <1>2, <1>3, SnakeAssumption
<1>8. \A i \in Idx : behind[i] \in 0 .. MaxLag /\ behind[i] <= behind[0]
  BY <1>2, <1>3, <1>7
<1>9. /\ behind' \in [Idx -> 0 .. MaxLag]
      /\ \A i \in Idx : behind'[i] = IF i < h THEN behind[i] + 1 ELSE 0
  BY <1>1, <1>7, <1>8
<1>10. \A i, j \in Idx : i <= j => behind'[j] <= behind'[i]
  BY <1>2, <1>3, <1>8, <1>9
<1>11. \A i \in Idx : sn'.head <= i => behind'[i] = 0
  BY <1>2, <1>5, <1>9
<1>12. ASSUME NEW s \in Sensors
       PROVE  /\ Ago(s) \in 0 .. Ring - 1 /\ (Ago(s) = 0 <=> s = ahead)
              /\ Ago(s)' = IF s = R THEN 0 ELSE Ago(s) + 1
  <2>1. Ago(s)' = (R - s) % Ring
    BY <1>1 DEF Ago
  <2>2. QED BY <1>3, <2>1, MovesOn DEF Ago
<1> HIDE DEF R
<1>13. ASSUME NEW s \in Sensors, behind'[0] < Ago(s)' PROVE q'[s] = <<>>
  <2>1. behind'[0] \in Nat /\ s # R /\ Ago(s)' = Ago(s) + 1
    BY <1>7, <1>9, <1>12, <1>13
  <2>2. CASE h = 0
    <3>1. s = ahead => q'[s] = <<>>
      <4>1. Rest(h) = <<>>
        BY <2>2, RestIs
      <4>2. QED BY <1>3, <1>5, <4>1
    <3>2. s # ahead => behind[0] < Ago(s)
      BY <1>3, <1>7, <1>12, <2>2
    <3>3. QED BY <1>3, <1>5, <2>1, <3>1, <3>2
  <2>3. CASE h > 0
    <3>1. behind[0] < Ago(s)
      BY <1>7, <1>8, <1>9, <1>12, <1>13, <2>1, <2>3
    <3>2. s # ahead
      BY <1>7, <1>12, <3>1
    <3>3. QED BY <1>3, <1>5, <2>1, <3>1, <3>2
  <2>4. QED BY <1>2, <2>2, <2>3
<1>14. ASSUME NEW s \in Sensors, NEW i \in 0 .. sn'.head - 1, NextToPass(i, s)' PROVE q'[s] = Rest(i + 1)
  <2>1. i \in Nat /\ i \in Idx /\ i + 1 \in Idx /\ i <= h
    <3>1. sn'.head \in Idx
      BY <1>5 DEF Sound, Untimed, SnakeData
    <3>2. N_TRNS \in Nat
      BY SnakeAssumption
    <3>3. QED BY <1>2, <1>5, <3>1, <3>2 DEF Idx
  <2>2. behind'[i + 1] < Ago(s)' /\ Ago(s)' <= behind'[i]
    BY <1>14 DEF NextToPass
  <2>3. s # R /\ Ago(s)' = Ago(s) + 1 /\ Ago(s) \in Nat
    BY <1>8, <1>9, <1>12, <2>1, <2>2
  <2>4. i < h /\ Ago(s) <= behind[i]
    BY <1>2, <1>8, <1>9, <2>1, <2>2, <2>3
  <2>5. s # ahead /\ NextToPass(i, s) => q'[s] = Rest(i + 1)
    <3>1. i \in 0 .. h - 1
      BY <1>2, <2>1, <2>4
    <3>2. NextToPass(i, s) => q[s] = Rest(i + 1)
      BY <1>3, <3>1
    <3>3. s # ahead => q'[s] = q[s]
      BY <1>5, <2>3, Zenon
    <3>4. QED BY <3>2, <3>3
  <2>6. CASE i + 1 < h
    <3>1. behind[i + 1] < Ago(s)
      BY <1>8, <1>9, <2>1, <2>2, <2>3, <2>6
    <3>2. s # ahead /\ NextToPass(i, s)
      BY <1>8, <1>12, <2>1, <2>4, <3>1 DEF NextToPass
    <3>3. QED BY <2>5, <3>2
  <2>7. CASE i + 1 = h
    <3>1. s = ahead => q'[s] = Rest(i + 1)
      BY <1>3, <1>5, <2>7
    <3>2. s # ahead => NextToPass(i, s)
      <4>1. behind[i + 1] = 0
        BY <1>2, <1>3, <2>1, <2>7
      <4>2. QED BY <1>12, <2>3, <2>4, <4>1 DEF NextToPass
    <3>3. QED BY <2>5, <3>1, <3>2
  <2>8. QED BY <1>2, <2>1, <2>4, <2>6, <2>7
<1>15. q' = [s \in Sensors |-> q'[s]] /\ q'[ahead'] = Fresh(sn'.head)
  BY <1>1, <1>5, <1>6
<1>16. ahead' \in Sensors /\ next' = ahead'
  BY <1>1, <1>5, <1>6
<1>17. Lists(sn.head)'
  BY <1>9, <1>10, <1>11, <1>13, <1>14, <1>15, <1>16 DEF Lists
<1>18. QED BY <1>5, <1>17 DEF SafeInv

\* Another train passes a sensor: those behind it have still to pass it.
LEMMA TrainCrosses ==
  ASSUME SafeInv, NEW i \in Idx, Cross(i), pc' = "run"
  PROVE  SafeInv'
<1> DEFINE h == sn.head
           at == At(i)
<1>1. pc = "run" /\ Sound(sn) /\ Lists(h) /\ i < h /\ behind[i] > behind[i + 1]
      /\ Report(at, TRUE, FALSE)
      /\ behind' = [behind EXCEPT ![i] = @ - 1] /\ ahead' = ahead
  BY DEF Cross, SafeInv
<1>2. h \in Nat /\ h \in Idx /\ 0 .. h \subseteq Idx /\ i \in 0 .. h - 1 /\ i + 1 \in Idx /\ \A j \in Idx : j \in Nat
  <2>1. h \in Nat /\ h \in Idx /\ 0 .. h \subseteq Idx /\ \A j \in Idx : j \in Nat
    BY <1>1, Trains DEF Sound, Untimed, SnakeData
  <2>2. QED BY <1>1, <2>1
<1>3. /\ ahead \in Sensors /\ next = ahead /\ q[ahead] = Fresh(h)
      /\ behind \in [Idx -> 0 .. MaxLag] /\ q = [s \in Sensors |-> q[s]]
      /\ \A j, k \in Idx : j <= k => behind[k] <= behind[j]
      /\ \A j \in Idx : h <= j => behind[j] = 0
      /\ \A s \in Sensors : behind[0] < Ago(s) => q[s] = <<>>
      /\ \A s \in Sensors : \A j \in 0 .. h - 1 : NextToPass(j, s) => q[s] = Rest(j + 1)
  BY <1>1 DEF Lists
<1>4. at \in Sensors /\ Ago(at) = behind[i] /\ MaxLag \in Nat
  BY <1>1, AtIs, SnakeAssumption
<1> HIDE DEF at
<1>5. q[at] = Rest(i + 1)
  <2>1. NextToPass(i, at)
    BY <1>1, <1>2, <1>3, <1>4 DEF NextToPass
  <2>2. QED BY <1>2, <1>3, <1>4, <2>1
<1>6. NextTrain(at)
  BY <1>1, <1>2, <1>5, RestFirst DEF Report
<1>7. Sound(sn)' /\ sn'.head = h /\ next' = next /\ q' = [q EXCEPT ![at] = Rest(i)]
  BY <1>1, <1>2, <1>3, <1>4, <1>5, <1>6, Measures
<1>8. \A j \in Idx : behind[j] \in 0 .. MaxLag
  BY <1>3
<1>9. /\ behind' \in [Idx -> 0 .. MaxLag] /\ behind'[i] = behind[i] - 1
      /\ \A j \in Idx \ {i} : behind'[j] = behind[j]
  <2>1. behind[i] - 1 \in 0 .. MaxLag
    BY <1>1, <1>2, <1>4, <1>8
  <2>2. QED BY <1>1, <1>3, <2>1
<1>10. \A j, k \in Idx : j <= k => behind'[k] <= behind'[j]
  <2> SUFFICES ASSUME NEW j \in Idx, NEW k \in Idx, j <= k PROVE behind'[k] <= behind'[j]
    OBVIOUS
  <2>1. CASE j = i /\ k # i
    <3>1. i + 1 <= k
      BY <1>2, <2>1
    <3>2. behind[k] <= behind[i + 1]
      BY <1>2, <1>3, <3>1
    <3>3. behind'[k] = behind[k] /\ behind'[j] = behind[i] - 1
      BY <1>9, <2>1
    <3>4. QED BY <1>1, <1>2, <1>8, <3>2, <3>3
  <2>2. CASE k = i \/ j # i
    <3>1. behind[k] <= behind[j] /\ behind[j] \in Nat /\ behind[k] \in Nat
      BY <1>3, <1>8
    <3>2. behind'[k] <= behind[k] /\ (behind'[j] = behind[j] \/ j = k)
      BY <1>2, <1>8, <1>9, <2>2
    <3>3. behind'[k] \in Nat
      BY <1>9
    <3>4. QED BY <3>1, <3>2, <3>3
  <2>3. QED BY <2>1, <2>2
<1>11. \A j \in Idx : h <= j => behind'[j] = 0
  BY <1>2, <1>3, <1>9
<1>12. ASSUME NEW s \in Sensors, Ago(s) = behind[i] PROVE s = at
  BY <1>3, <1>4, <1>12, OneAgo
<1>13. \A s \in Sensors : Ago(s) \in Nat
  BY <1>3, MovesOn DEF Ago
<1>14. ASSUME NEW s \in Sensors, behind'[0] < Ago(s) PROVE q'[s] = <<>>
  <2>1. 0 \in Idx
    BY <1>2
  <2>2. CASE i # 0
    <3>1. behind'[0] = behind[0]
      BY <1>9, <2>1, <2>2
    <3>2. s # at
      <4>1. behind[i] <= behind[0]
        BY <1>2, <1>3, <2>1
      <4>2. QED BY <1>4, <1>8, <1>13, <1>14, <2>1, <3>1, <4>1
    <3>3. QED BY <1>3, <1>7, <1>14, <3>1, <3>2
  <2>3. CASE i = 0
    <3>1. s = at => q'[s] = <<>>
      <4>1. Rest(0) = <<>>
        BY RestIs
      <4>2. QED BY <1>3, <1>7, <2>3, <4>1
    <3>2. s # at => behind[0] < Ago(s)
      <4>1. s # at => Ago(s) # behind[0]
        BY <1>12, <2>3
      <4>2. behind[0] - 1 < Ago(s) /\ behind[0] \in Nat
        BY <1>8, <1>9, <1>14, <2>1, <2>3
      <4>3. QED BY <1>13, <4>1, <4>2
    <3>3. QED BY <1>3, <1>7, <3>1, <3>2
  <2>4. QED BY <2>2, <2>3
<1>15. ASSUME NEW s \in Sensors, NEW j \in 0 .. h - 1, behind'[j + 1] < Ago(s), Ago(s) <= behind'[j]
       PROVE  q'[s] = Rest(j + 1)
  <2>1. j \in Nat /\ j \in Idx /\ j + 1 \in Idx
    BY <1>2
  <2>2. CASE s = at
    <3>1. Ago(s) = behind[i] /\ q'[s] = Rest(i)
      BY <1>3, <1>4, <1>7, <2>2
    <3>2. j # i
      BY <1>8, <1>9, <1>15, <3>1
    <3>3. ~(i < j)
      <4> SUFFICES ASSUME i < j PROVE FALSE
        OBVIOUS
      <4>1. behind[j] <= behind[i + 1] /\ behind'[j] = behind[j]
        BY <1>2, <1>3, <1>9, <2>1, <3>2
      <4>2. QED BY <1>1, <1>2, <1>8, <1>15, <2>1, <3>1, <4>1
    <3>4. ~(j + 1 < i)
      <4> SUFFICES ASSUME j + 1 < i PROVE FALSE
        OBVIOUS
      <4>1. behind[i] <= behind[j + 1] /\ behind'[j + 1] = behind[j + 1]
        BY <1>2, <1>3, <1>9, <2>1, SMTT(60)
      <4>2. QED BY <1>2, <1>8, <1>15, <2>1, <3>1, <4>1
    <3>5. i = j + 1
      BY <1>2, <2>1, <3>2, <3>3, <3>4
    <3>6. QED BY <3>1, <3>5
  <2>3. CASE s # at
    <3>1. Ago(s) # behind[i]
      BY <1>12, <2>3
    <3>2. Ago(s) <= behind[j]
      BY <1>8, <1>9, <1>13, <1>15, <2>1
    <3>3. behind[j + 1] < Ago(s)
      <4>1. CASE j + 1 = i
        BY <1>8, <1>9, <1>13, <1>15, <2>1, <3>1, <4>1
      <4>2. CASE j + 1 # i
        BY <1>9, <1>15, <2>1, <4>2
      <4>3. QED BY <4>1, <4>2
    <3>4. NextToPass(j, s)
      BY <3>2, <3>3 DEF NextToPass
    <3>5. QED BY <1>3, <1>7, <2>3, <3>4
  <2>4. QED BY <2>2, <2>3
<1>16. q' = [s \in Sensors |-> q'[s]] /\ q'[ahead] = Fresh(h)
  <2>1. at # ahead
    <3>1. Ago(ahead) = 0
      BY <1>3, MovesOn DEF Ago
    <3>2. QED BY <1>1, <1>2, <1>4, <1>8, <3>1
  <2>2. QED BY <1>3, <1>4, <1>7, <2>1
<1>17. \A s \in Sensors : Ago(s)' = Ago(s)
  BY <1>1 DEF Ago
<1>18. Lists(sn.head)'
  <2>1. \A s \in Sensors : (behind[0] < Ago(s))' => q'[s] = <<>>
    BY <1>14, <1>17
  <2>2. \A s \in Sensors : \A j \in 0 .. h - 1 : NextToPass(j, s)' => q'[s] = Rest(j + 1)
    BY <1>15, <1>17 DEF NextToPass
  <2>3. QED BY <1>1, <1>3, <1>7, <1>9, <1>10, <1>11, <1>16, <2>1, <2>2 DEF Lists
<1>19. QED BY <1>7, <1>18 DEF SafeInv

\* The sensor a train is over, reported again: the train is known, or no train
\* is expected there.
LEMMA AgainReported ==
  ASSUME SafeInv, NEW i \in Idx, Again(i), pc' = "run"
  PROVE  SafeInv'
<1> DEFINE h == sn.head
           at == (At(i) - 1) % Ring
<1>1. pc = "run" /\ Sound(sn) /\ Lists(h) /\ i <= h /\ (i > 0 => behind[i - 1] > behind[i])
      /\ Report(at, FALSE, FALSE) /\ ahead' = ahead /\ behind' = behind
  BY DEF Again, SafeInv
<1>2. /\ h \in Nat /\ h \in Idx /\ 0 .. h \subseteq Idx /\ i \in Nat /\ 0 \in Idx
      /\ \A j \in Idx : behind[j] \in 0 .. MaxLag
  <2>1. h \in Nat /\ h \in Idx /\ 0 .. h \subseteq Idx /\ i \in Nat
    BY <1>1, Trains DEF Sound, Untimed, SnakeData
  <2>2. QED BY <1>1, <2>1 DEF Lists
<1>3. at \in Sensors /\ Ago(at) = behind[i] + 1 /\ MaxLag \in Nat
  BY <1>1, AtIs, SnakeAssumption
<1> HIDE DEF at
<1>4. q[at] = <<>> \/ (q[at] # <<>> /\ Head(q[at]).first)
  <2>1. CASE i = 0
    <3>1. behind[0] < Ago(at)
      BY <1>2, <1>3, <2>1
    <3>2. QED BY <1>1, <1>3, <3>1 DEF Lists
  <2>2. CASE i > 0
    <3>1. i - 1 \in 0 .. h - 1 /\ i - 1 \in Nat /\ i - 1 \in Idx /\ (i - 1) + 1 = i
      BY <1>1, <1>2, <2>2
    <3>2. NextToPass(i - 1, at)
      <4>1. behind[i - 1] \in Nat /\ behind[i] \in Nat /\ behind[i] < behind[i - 1]
        BY <1>1, <1>2, <2>2, <3>1
      <4>2. behind[i] < Ago(at) /\ Ago(at) <= behind[i - 1]
        BY <1>3, <4>1
      <4>3. QED BY <3>1, <4>2 DEF NextToPass
    <3>3. q[at] = Rest((i - 1) + 1)
      BY <1>1, <1>3, <3>1, <3>2 DEF Lists
    <3>4. QED BY <3>1, <3>3, RestFirst
  <2>3. QED BY <1>2, <2>1, <2>2
<1>5. Ignored
  BY <1>1, <1>4 DEF Report
<1>6. sn' = sn /\ q' = q /\ next' = next
  BY <1>5 DEF Ignored
<1>7. QED BY <1>1, <1>6, SoundSame, Unchanged

LEMMA TimerSteps ==
  ASSUME SafeInv, TimerDue \/ TimerEnd, pc' = "run"
  PROVE  SafeInv'
<1>1. pc = "run" /\ UNCHANGED <<q, next, ahead, behind>> /\ Sound(sn) /\ Lists(sn.head)
  BY DEF TimerDue, TimerEnd, SafeInv
<1>2. CASE TimerDue
  <2>1. sn.timer = "delay" /\ sn' = [sn EXCEPT !.timer = "send"]
    BY <1>2 DEF TimerDue
  <2>2. sn' \in SnakeData /\ sn'.trns = sn.trns /\ sn'.head = sn.head /\ sn'.waiting_timer = sn.waiting_timer
        /\ sn'.timer = "send" /\ sn'.timed = sn.timed /\ sn'.stuck = sn.stuck
    BY <1>1, <2>1 DEF Sound, Untimed, SnakeData
  <2>3. SpeedsOK(sn') /\ TimerOK(sn') /\ AllTimed(sn')
    BY <1>1, <2>1, <2>2 DEF Sound, Untimed, SpeedsOK, TimerOK, AllTimed
  <2>4. Sound(sn)'
    BY <2>2, <2>3 DEF Sound, Untimed, SnakeData, SpeedsOK, TimerOK, AllTimed
  <2>5. QED BY <1>1, <2>2, <2>4, Unchanged
<1>3. CASE TimerEnd
  <2> DEFINE r == [sn EXCEPT !.waiting_timer = FALSE, !.timer = "idle", !.timed = 0,
                             !.trns[sn.timed].grace = FALSE]
  <2>1. sn.timer = "send" /\ sn' \in snake_try_wait_timer(r)
    BY <1>3 DEF TimerEnd
  <2>2. Untimed(r) /\ r.head = sn.head
    BY <1>1, <2>1, GraceOver
  <2> HIDE DEF r
  <2>3. Sound(sn') /\ sn'.head = sn.head
    BY <2>1, <2>2, TryWait DEF Follows
  <2>4. Sound(sn)'
    BY <2>3 DEF Sound, Untimed, SnakeData, SpeedsOK, TimerOK, AllTimed
  <2>5. QED BY <1>1, <2>3, <2>4, Unchanged
<1>4. QED BY <1>2, <1>3

LEMMA SafeNext == SafeInv /\ [SnakeNext]_snakeVars => SafeInv'
<1> SUFFICES ASSUME SafeInv, [SnakeNext]_snakeVars PROVE SafeInv'
  OBVIOUS
<1>1. CASE pc' # "run"
  BY <1>1 DEF SafeInv
<1>2. CASE pc' = "run"
  <2>1. CASE \E p \in BOOLEAN : CrossHead(p)
    BY <1>2, <2>1, HeadCrosses
  <2>2. CASE \E i \in Idx : Cross(i) \/ Again(i)
    BY <1>2, <2>2, TrainCrosses, AgainReported
  <2>3. CASE TimerDue \/ TimerEnd
    BY <1>2, <2>3, TimerSteps
  <2>4. CASE End \/ Ended
    BY <1>2, <2>4 DEF End, Ended, Gone
  <2>5. CASE UNCHANGED snakeVars
    <3>1. UNCHANGED <<sn, q, next, pc, ahead, behind>>
      BY <2>5 DEF snakeVars
    <3>2. pc = "run" /\ Sound(sn) /\ Lists(sn.head)
      BY <1>2, <3>1 DEF SafeInv
    <3>3. QED BY <3>1, <3>2, SoundSame, Unchanged
  <2>6. QED BY <2>1, <2>2, <2>3, <2>4, <2>5 DEF SnakeNext
<1>3. QED BY <1>1, <1>2

THEOREM SnakeSafe == SnakeSpec => []SafeInv
<1>1. QED BY SafeInitially, SafeNext, PTL DEF SnakeSpec

-----------------------------------------------------------------------------
(* The properties                                                          *)

\* The speed of every train of the snake is one its decoder and the tables
\* support, and so is the one that a queued change will make of it.
THEOREM SpeedsAlwaysSupported == SnakeSpec => []SpeedsSupported
<1>1. SafeInv => SpeedsSupported
  BY DEF SafeInv, Sound, Untimed, SpeedsOK, Supported, SpeedsSupported
<1>2. QED BY <1>1, SnakeSafe, PTL

\* Grace periods are timed one after the other until none is left, and the server
\* never waits for its timer task.
THEOREM GraceAlwaysTimed == SnakeSpec => []GraceTimed
<1>1. SafeInv => GraceTimed
  BY DEF SafeInv, Sound, Untimed, TimerOK, AllTimed, GraceTimed
<1>2. QED BY <1>1, SnakeSafe, PTL

\* Every report is taken for the train that is really there.
THEOREM AlwaysRightTrains == SnakeSpec => []RightTrains
<1>1. SafeInv => RightTrains
  <2> SUFFICES ASSUME SafeInv, pc = "run" PROVE RightTrains
    BY DEF RightTrains
  <2>1. Sound(sn) /\ Lists(sn.head)
    BY DEF SafeInv
  <2>2. sn.head \in Nat /\ 0 .. sn.head \subseteq Idx
    BY <2>1, Trains DEF Sound, Untimed
  <2>3. next = ahead /\ q[next] # <<>> /\ ~Head(q[next]).first
    BY <2>1, <2>2, FreshFirst DEF Lists
  <2>4. ASSUME NEW i \in 0 .. sn.head - 1, behind[i] > behind[i + 1]
        PROVE  q[At(i)] # <<>> /\ Head(q[At(i)]).first /\ Head(q[At(i)]).snake_idx = i + 1
    <3>1. i \in Nat /\ i \in Idx /\ i + 1 \in Idx
      BY <2>2
    <3>2. behind[i] \in Nat /\ behind[i + 1] \in Nat /\ At(i) \in Sensors /\ Ago(At(i)) = behind[i]
      BY <2>1, <3>1, AtIs, SnakeAssumption
    <3>3. NextToPass(i, At(i))
      BY <2>4, <3>2 DEF NextToPass
    <3>4. q[At(i)] = Rest(i + 1)
      BY <2>1, <3>2, <3>3 DEF Lists
    <3>5. QED BY <3>1, <3>4, RestFirst
  <2>5. QED BY <2>3, <2>4 DEF RightTrains
<1>2. QED BY <1>1, SnakeSafe, PTL
=============================================================================
