------------------------------- MODULE Snake -------------------------------
(***************************************************************************)
(* The snake server of the final project (snake.c), with its sensor queue  *)
(* and its timer task.  Trains 0 .. head follow each other, the last one   *)
(* picked up in front, round a ring of sensors.  The first train to pass a *)
(* sensor moves the game on; when each of the others passes it the         *)
(* distance to the train before it is measured and speeds are adjusted.    *)
(*                                                                         *)
(* A message is handled in one step, Sends to the timer task apart.        *)
(* Dist has one distance of each range that snake.c tells apart; which     *)
(* grace period ends first is left open.  Every train is reported once or  *)
(* more at each sensor it passes, two trains far enough from each other,   *)
(* and the snake is at least two sensors shorter than the ring.            *)
(***************************************************************************)
EXTENDS Integers, Sequences

CONSTANTS
  N_TRNS,
  Ring,         \* how many sensors the ring has
  MaxLag,       \* how many sensors the snake is long
  SPD_VLO, SPD_MED, SPD_VHI,
  Dist          \* the distances between trains that are measured, in mm

ASSUME SnakeAssumption ==
  /\ N_TRNS \in Nat \ {0}
  /\ Ring \in Nat /\ MaxLag \in Nat /\ MaxLag + 2 <= Ring
  /\ {SPD_VLO, SPD_MED, SPD_VHI} \subseteq Nat
  /\ 1 < SPD_VLO /\ SPD_VLO <= SPD_MED /\ SPD_MED <= SPD_VHI
  /\ Dist \subseteq Int

Sensors == 0 .. Ring - 1
Idx == 0 .. N_TRNS - 1
DIST_NONE == -1
SMALL_FOLLOWING_DIST == 50
FOLLOWING_DIST_MM == 210
FOLLOWING_DIST_MARGIN_MM == 70
LARGE_FOLLOWING_DIST == 3 * FOLLOWING_DIST_MM
LARGE_TREND == 100

VARIABLES
  sn,      \* the snake: trns, head, waiting_timer; and the timer task
  q,       \* sensor -> its queue of entries
  next,    \* the sensor that the head is to reach
  pc,      \* the server: "run", "ending" (sends to the timer), "done" or "panic"
  ahead,   \* the sensor that the head is really about to pass
  behind   \* behind[i]: how many sensors the head has passed and train i has not

snakeVars == <<sn, q, next, pc, ahead, behind>>

-----------------------------------------------------------------------------
(* The timer task: "idle", "delay" or "send" (TIMER_END to the server)     *)

\* At most one grace period is timed, the one that ends first.  The Send would
\* not return if the timer task were not idle.
snake_try_wait_timer_again(s) ==   \* faulty: does not look at waiting_timer
  {[s EXCEPT !.waiting_timer = TRUE, !.stuck = s.timer # "idle", !.timer = "delay", !.timed = i] :
     i \in {i \in 0 .. s.head : s.trns[i].grace}}
snake_try_wait_timer(s) ==
  LET graced == {i \in 0 .. s.head : s.trns[i].grace}
  IN IF s.waiting_timer \/ graced = {} THEN {s}
     ELSE {[s EXCEPT !.waiting_timer = TRUE, !.stuck = s.timer # "idle", !.timer = "delay", !.timed = i] : i \in graced}

-----------------------------------------------------------------------------
(* The speeds.  An operator returns the snakes that can result.            *)

speed_is_supported(spd) == spd = 0 \/ spd \in SPD_VLO .. SPD_VHI

snake_try_make_queued_speed_adjustment(s, i) ==
  IF s.trns[i].adj = 0 \/ s.trns[i].grace THEN {s}
  ELSE snake_try_wait_timer([s EXCEPT !.trns[i].spd = @ + s.trns[i].adj,
                                      !.trns[i].grace = TRUE, !.trns[i].adj = 0])

\* Queue the change for those trains that can make it; one that is too far from
\* the train behind it does not accelerate
Queue_unchecked(s, trains, a) ==   \* faulty: without speed_is_supported
  [s EXCEPT !.trns = [i \in Idx |-> IF i \in trains THEN [s.trns[i] EXCEPT !.adj = a] ELSE s.trns[i]]]
Queue(s, trains, a) ==
  [s EXCEPT !.trns = [i \in Idx |->
     IF /\ i \in trains
        /\ speed_is_supported(s.trns[i].spd + a)
        /\ ~(a > 0 /\ s.trns[i].dist >= FOLLOWING_DIST_MM + FOLLOWING_DIST_MARGIN_MM)
     THEN [s.trns[i] EXCEPT !.adj = a] ELSE s.trns[i]]]
snake_change_speed_fwd(s, front, a) == Queue(s, front .. s.head, a)
snake_change_speed_behind(s, front, a) ==
  snake_try_make_queued_speed_adjustment(Queue(s, 0 .. front - 1, a), front - 1)
Both(s, front, fwd, bwd) == snake_change_speed_behind(snake_change_speed_fwd(s, front, fwd), front, bwd)
CanAll(s, trains, a) == \A i \in trains : speed_is_supported(s.trns[i].spd + a)

\* The distance in front of the train that just passed has become s.trns[front].dist
MatchingTrend(trend, a) == trend = 0 \/ (trend > 0 /\ a > 0) \/ (trend < 0 /\ a < 0)
Bunched(s) == s.head >= 2 /\ \A i \in 1 .. s.head : s.trns[i].dist <= SMALL_FOLLOWING_DIST
snake_adjust_trains(s, front, trend) ==
  LET dist == s.trns[front].dist
      mid == (s.head \div 2) + 1
      slow == dist > FOLLOWING_DIST_MM + FOLLOWING_DIST_MARGIN_MM
      fast == dist < FOLLOWING_DIST_MM - FOLLOWING_DIST_MARGIN_MM
      fwd == IF slow THEN -1 ELSE 1
  IN
  CASE Bunched(s) -> Both(s, mid, 1, -1)
    [] ~Bunched(s) /\ trend <= -LARGE_TREND -> Both(s, front, 1, -1)
    [] ~Bunched(s) /\ trend > -LARGE_TREND /\ dist >= LARGE_FOLLOWING_DIST ->
         IF MatchingTrend(trend, -1) THEN {s} ELSE Both(s, front, -1, 1)
    [] ~Bunched(s) /\ trend > -LARGE_TREND /\ dist < LARGE_FOLLOWING_DIST ->
         IF \/ ~slow /\ ~fast
            \/ slow /\ MatchingTrend(trend, -1)
            \/ fast /\ dist > SMALL_FOLLOWING_DIST /\ MatchingTrend(trend, 1)
         THEN {s}
         ELSE IF ~CanAll(s, 0 .. front - 1, -fwd) /\ CanAll(s, front .. s.head, fwd)
              THEN {snake_change_speed_fwd(s, front, fwd)}
              ELSE snake_change_speed_behind(s, front, -fwd)

-----------------------------------------------------------------------------
(* The sensors                                                             *)

Entry(i, single) == [snake_idx |-> i, first |-> FALSE, single_train |-> single]
snake_wait_on_sensor_queue(queue, at, head) ==
  [queue EXCEPT ![at] = @ \o IF head = 0 THEN <<Entry(0, TRUE)>>
                             ELSE [k \in 1 .. head |-> Entry(head + 1 - k, FALSE)]]
sensor_queue_pop_plain(list) == Tail(list)   \* faulty: the next entry is not told of the activation
sensor_queue_pop(list) ==
  IF Len(list) = 1 THEN <<>> ELSE [Tail(list) EXCEPT ![1].first = TRUE]

Train0 == [spd |-> 0, adj |-> 0, grace |-> FALSE, dist |-> DIST_NONE]
SnakeInit ==
  /\ sn = [trns |-> [i \in Idx |-> IF i = 0 THEN [Train0 EXCEPT !.spd = SPD_MED] ELSE Train0],
           head |-> 0, waiting_timer |-> FALSE, timer |-> "idle", timed |-> 0, stuck |-> FALSE]
  /\ next = 0 /\ ahead = 0
  /\ q = snake_wait_on_sensor_queue([s \in Sensors |-> <<>>], 0, 0)
  /\ behind = [i \in Idx |-> 0]
  /\ pc = "run"

\* The server task is gone, and with it what it knew
Gone(how) ==
  /\ pc' = how /\ next' = 0 /\ q' = [s \in Sensors |-> <<>>]
  /\ sn' = [sn EXCEPT !.trns = [i \in Idx |-> Train0], !.head = 0]

\* FIRST_ACTIVATION: the user server tells the next sensor, and a train to pick
\* up.  Once it has ended, before END comes, nobody does: uassert(next)
FirstActivation(at, pickUp) ==
  LET e == Head(q[at])
      q1 == [q EXCEPT ![at] = IF e.single_train THEN sensor_queue_pop(@) ELSE [@ EXCEPT ![1].first = TRUE]]
  IN
  \/ Gone("panic")
  \/ /\ next' = (next + 1) % Ring
     /\ \E s \in snake_try_make_queued_speed_adjustment(sn, e.snake_idx) :
          sn' = IF pickUp THEN [s EXCEPT !.head = @ + 1, !.trns[s.head + 1].spd = SPD_MED] ELSE s
     /\ q' = snake_wait_on_sensor_queue(q1, next', sn'.head)
     /\ pc' = pc

\* Another train: pop, measure the distance and adjust
NextTrain(at) ==
  LET i == Head(q[at]).snake_idx IN
  /\ q' = [q EXCEPT ![at] = sensor_queue_pop(@)]
  /\ \E d \in Dist :
       sn' \in snake_adjust_trains([sn EXCEPT !.trns[i].dist = d], i, d - sn.trns[i].dist)
  /\ UNCHANGED <<next, pc>>

\* SNAKE_MSG_SENSOR, by the answer of sensor_queue_update.  A report that comes
\* soon after the first (TRN_TIMEOUT_DIST) is of the same train.
Ignored == UNCHANGED <<sn, q, next, pc>>
Report(at, far, pickUp) ==
  \/ q[at] = <<>> /\ Ignored                                           \* ERR_SPURIOUS
  \/ q[at] # <<>> /\ ~Head(q[at]).first /\ FirstActivation(at, pickUp)
  \/ q[at] # <<>> /\ Head(q[at]).first /\ far /\ NextTrain(at)
  \/ q[at] # <<>> /\ Head(q[at]).first /\ ~far /\ Ignored              \* SAME_TRAIN

\* The sensor that train i passes next
At(i) == (ahead - behind[i]) % Ring

CrossHead(pickUp) ==
  /\ pc = "run" /\ behind[0] < MaxLag
  /\ pickUp => sn.head + 1 < N_TRNS
  /\ Report(ahead, TRUE, pickUp)
  /\ ahead' = (ahead + 1) % Ring
  /\ behind' = [i \in Idx |-> IF i < sn.head THEN behind[i] + 1 ELSE 0]
Cross(i) ==
  /\ pc = "run" /\ i < sn.head /\ behind[i] > behind[i + 1]
  /\ Report(At(i), TRUE, FALSE)
  /\ behind' = [behind EXCEPT ![i] = @ - 1]
  /\ UNCHANGED ahead

\* The sensor a train is over is reported again, before another train comes
Again(i) ==
  /\ pc = "run" /\ i <= sn.head /\ (i > 0 => behind[i - 1] > behind[i])
  /\ Report((At(i) - 1) % Ring, FALSE, FALSE)
  /\ UNCHANGED <<ahead, behind>>

-----------------------------------------------------------------------------
(* The timer and the end                                                   *)

TimerDue ==
  /\ sn.timer = "delay"
  /\ sn' = [sn EXCEPT !.timer = "send"]
  /\ UNCHANGED <<q, next, pc, ahead, behind>>
TimerEnd ==
  /\ pc = "run" /\ sn.timer = "send"
  /\ sn' \in snake_try_wait_timer([sn EXCEPT !.waiting_timer = FALSE, !.timer = "idle", !.timed = 0,
                                       !.trns[sn.timed].grace = FALSE])
  /\ UNCHANGED <<q, next, pc, ahead, behind>>

\* 'q': the user server ends, then main.c sends END, which is received after a
\* TIMER_END that was sent before; the snake server ends the timer task, whose
\* Send and its own wait for each other if the timer is due first
End == pc = "run" /\ sn.timer # "send" /\ Gone("ending") /\ UNCHANGED <<ahead, behind>>
Ended == /\ pc = "ending" /\ sn.timer = "idle"
         /\ pc' = "done" /\ UNCHANGED <<sn, q, next, ahead, behind>>

SnakeNext ==
  \/ \E p \in BOOLEAN : CrossHead(p)
  \/ \E i \in Idx : Cross(i) \/ Again(i)
  \/ TimerDue \/ TimerEnd \/ End \/ Ended
SnakeSpec == SnakeInit /\ [][SnakeNext]_snakeVars

-----------------------------------------------------------------------------
(* Properties                                                              *)

\* Every train runs at a speed its decoder and the tables support: a change was
\* checked when it was queued, and may be made much later.
SpeedsSupported ==
  pc = "run" => \A i \in 0 .. sn.head :
    /\ sn.trns[i].spd \in SPD_VLO .. SPD_VHI
    /\ sn.trns[i].spd + sn.trns[i].adj \in SPD_VLO .. SPD_VHI

\* Every grace period ends: while there is one the timer task has one, of a train
\* that is in its grace period; and the server never sends to the timer task
\* while that delays or sends to the server.
GraceTimed ==
  pc = "run" =>
    /\ ~sn.stuck
    /\ sn.waiting_timer <=> sn.timer # "idle"
    /\ (\E i \in 0 .. sn.head : sn.trns[i].grace) => sn.waiting_timer
    /\ sn.waiting_timer => sn.trns[sn.timed].grace

\* Each report is taken for what it is: the server waits for the head at the
\* sensor it is about to reach, and for every other train, at the next sensor it
\* reaches, for the distance to the train that is really in front of it.
RightTrains ==
  pc = "run" =>
    /\ next = ahead /\ q[next] # <<>> /\ ~Head(q[next]).first
    /\ \A i \in 0 .. sn.head - 1 : behind[i] > behind[i + 1] =>
         q[At(i)] # <<>> /\ Head(q[At(i)]).first /\ Head(q[At(i)]).snake_idx = i + 1
=============================================================================
