---------------------------- MODULE Coordinator ----------------------------
(***************************************************************************)
(* track-control-coordinator.c with sensor-queue.c, position.c and the     *)
(* sensor worker: which notifiers of which trains wait for which sensor,   *)
(* and what the prediction knows of each train.                            *)
(*                                                                         *)
(* Every message is handled in one step.  A prediction is any of Est, its  *)
(* arithmetic is left out; with it go the distances and times of position.c*)
(* and the difference of middle and final sensors.  Of the speed and       *)
(* locking notifiers of a train task, which never both wait for a sensor,  *)
(* there is one, "other".  The tasks of a train can be killed at any time  *)
(* (st and run of cmd_task_main); then TRAIN_DONE is sent in their place.  *)
(* A train is not started a second time while a task of it is registered:  *)
(* st would then kill the task that was refused instead.                   *)
(***************************************************************************)
EXTENDS Integers, FiniteSets, Sequences, SequencesExt

CONSTANTS
  Trains, Sensors,
  Speeds,      \* without 0, the speed of a train that stands
  Est,         \* the expected times
  MAX_WAITING_PROCESSES, \* entries of the pool (8)
  MaxKills     \* bound: how often tasks are killed

\* There are entries for two notifiers of every train: of three, in the code.
ASSUME CoordAssumption ==
  /\ IsFiniteSet(Trains) /\ 2 * Cardinality(Trains) <= MAX_WAITING_PROCESSES
  /\ MAX_WAITING_PROCESSES \in Nat
  /\ Speeds \subseteq Nat \ {0} /\ Est \subseteq Nat
  /\ "nowhere" \notin Sensors

TIME_NONE == -1
NO_QUEUE == -1
Nowhere == "nowhere"
TrnNotifiers == {"route", "other"}

VARIABLES
  sq,          \* sensor -> the entries that wait for it
  pos,         \* train -> train_data_pos
  registered,  \* the trains with a task in registered_trns
  tasks,       \* train -> "none", "running" or "killed"
  gen,         \* train -> how often its tasks were killed
  waiting,     \* train -> notifier -> the sensor its Send waits for
  panic,       \* upanic was called: there was no free entry
  trapped      \* the uassert of sensor_queue_adjust_waiting_tid failed

coordVars == <<sq, pos, registered, tasks, gen, waiting, panic, trapped>>

-----------------------------------------------------------------------------
(* sensor-queue.c.  The pool of entries is counted, not linked.            *)

Tid(t, n) == [trn |-> t, notifier |-> n, gen |-> gen[t]]
Used(q) == Cardinality({p \in Sensors \X (1 .. MAX_WAITING_PROCESSES) : p[2] <= Len(q[p[1]])})

\* Ordered by the expected time, before those expected at the same time (save the first)
sensor_queue_insert_back(list, e) == Append(list, e)   \* faulty: in the order of arrival
sensor_queue_insert(list, e) ==
  IF list = <<>> \/ Head(list).expected_time > e.expected_time
  THEN <<e>> \o list
  ELSE LET i == CHOOSE i \in 1 .. Len(list) :
                  /\ i = Len(list) \/ list[i + 1].expected_time >= e.expected_time
                  /\ \A j \in 1 .. i - 1 : list[j + 1].expected_time < e.expected_time
       IN InsertAt(list, i + 1, e)

\* The first entry of the task is taken out and put back with its new time.  The caller
\* gives the sensor its train waited for last: module 0 if there was none, and then the
\* uassert on the module fails before the queue is looked at.
ModuleAssertFails(s) == s = Nowhere
sensor_queue_adjust_waiting_tid(q, s, tid, time) ==
  IF ~\E e \in ToSet(q[s]) : e.tid = tid THEN q
  ELSE LET i == SelectInSeq(q[s], LAMBDA e : e.tid = tid)
       IN [q EXCEPT ![s] = sensor_queue_insert(RemoveAt(@, i), [@[i] EXCEPT !.expected_time = time])]

\* The walk of a list goes on from an entry it has removed, which is in the
\* free list by then: of each list the first entry of the train is removed
RemoveFirstOf(list, t) ==
  LET i == SelectInSeq(list, LAMBDA e : e.tid.trn = t)
  IN IF i = 0 THEN list ELSE RemoveAt(list, i)
sensor_queue_free_train(q, t) == [s \in Sensors |-> RemoveFirstOf(q[s], t)]

-----------------------------------------------------------------------------
(* position.c                                                              *)

NoPosition == [spd_init |-> 0, spd_final |-> 0, state |-> "waiting", queued_speed_reset |-> NO_QUEUE,
               queued_speed_change |-> NO_QUEUE, startup |-> TRUE, sensor |-> Nowhere, gen |-> 0]
end_accel(p, spd) ==
  [p EXCEPT !.spd_init = spd, !.spd_final = spd, !.queued_speed_reset = NO_QUEUE, !.startup = TRUE]
recalculate(p, spd) ==
  [p EXCEPT !.spd_init = p.spd_final, !.spd_final = spd, !.queued_speed_change = NO_QUEUE]

\* trn_position_update_speed: the same speed again says that it has been reached.
\* Between a sensor and the next wait the change is put off.
update_speed(p, spd) ==
  CASE p.spd_final = spd -> IF p.state = "hit" THEN [p EXCEPT !.queued_speed_reset = spd]
                            ELSE end_accel(p, spd)
    [] p.spd_final # spd /\ p.spd_init = 0 -> [p EXCEPT !.spd_final = spd]
    [] p.spd_final # spd /\ p.spd_init # 0 -> IF p.state = "hit" THEN [p EXCEPT !.queued_speed_change = spd]
                                              ELSE recalculate(p, spd)
Recalculates(p, spd) == p.spd_final # spd /\ p.spd_init # 0 /\ p.state = "waiting"

\* trn_position_set_sensor: the first sensor after a start has no prediction yet
FirstSensor(p) == p.spd_init # p.spd_final /\ p.startup
set_sensor(p, s, g) ==
  LET p1 == [p EXCEPT !.state = "waiting", !.sensor = s, !.gen = g]
      p2 == IF p1.queued_speed_reset # NO_QUEUE THEN end_accel(p1, p1.queued_speed_reset) ELSE p1
  IN CASE FirstSensor(p) -> p1
       [] ~FirstSensor(p) /\ p2.queued_speed_change = NO_QUEUE -> p2
       [] ~FirstSensor(p) /\ p2.queued_speed_change # NO_QUEUE -> recalculate(p2, p2.queued_speed_change)

reached_sensor_still(p) == [p EXCEPT !.startup = IF FirstSensor(p) THEN FALSE ELSE @]  \* faulty: goes on waiting
reached_sensor(p) ==
  [p EXCEPT !.state = "hit", !.startup = IF FirstSensor(p) THEN FALSE ELSE @]

LastWaited(t, p) == [trn |-> t, notifier |-> "route", gen |-> p.gen]   \* last_waited_trn_tid

-----------------------------------------------------------------------------
(* The messages                                                            *)

CoordInit ==
  /\ sq = [s \in Sensors |-> <<>>]
  /\ pos = [t \in Trains |-> NoPosition]
  /\ registered = {}
  /\ tasks = [t \in Trains |-> "none"] /\ gen = [t \in Trains |-> 0]
  /\ waiting = [t \in Trains |-> [n \in TrnNotifiers |-> Nowhere]]
  /\ panic = FALSE /\ trapped = FALSE

\* MSG_TC_TRAIN_REGISTER of a new train task
RegisterTrain(t) ==
  /\ tasks[t] = "none" /\ t \notin registered
  /\ registered' = registered \cup {t}
  /\ tasks' = [tasks EXCEPT ![t] = "running"]
  /\ UNCHANGED <<sq, pos, gen, waiting, panic, trapped>>

\* KillChild of the train task and with it of its notifiers, whatever they do
KillTrain(t) ==
  /\ tasks[t] = "running" /\ MapThenSumSet(LAMBDA u : gen[u], Trains) < MaxKills
  /\ tasks' = [tasks EXCEPT ![t] = "killed"]
  /\ gen' = [gen EXCEPT ![t] = @ + 1]
  /\ waiting' = [waiting EXCEPT ![t] = [n \in TrnNotifiers |-> Nowhere]]
  /\ UNCHANGED <<sq, pos, registered, panic, trapped>>

\* MSG_TC_TRAIN_DONE, of a train that has arrived, in place of one that was killed,
\* or of one that is not registered: that is an error, and its traces are removed too
TrainDone(t) ==
  /\ \A n \in TrnNotifiers : waiting[t][n] = Nowhere
  /\ registered' = registered \ {t}
  /\ sq' = sensor_queue_free_train(sq, t)
  /\ pos' = [pos EXCEPT ![t] = NoPosition]
  /\ tasks' = [tasks EXCEPT ![t] = "none"]
  /\ UNCHANGED <<gen, waiting, panic, trapped>>

\* MSG_TC_SENSOR_GET; only the route notifier asks for a prediction
sensor_queue_add_waiting_tid(q, s, e) ==
  IF Used(q) = MAX_WAITING_PROCESSES THEN panic' = TRUE /\ sq' = q
  ELSE panic' = panic /\ sq' = [q EXCEPT ![s] = sensor_queue_insert(@, e)]
WaitSensor(t, n, s) ==
  LET Entry(time) == [tid |-> Tid(t, n), expected_time |-> time, pos_rqst |-> n = "route"]
      p == set_sensor(pos[t], s, gen[t])
      q(time) == IF pos[t].queued_speed_change # p.queued_speed_change
                 THEN sensor_queue_adjust_waiting_tid(sq, s, Tid(t, n), time) ELSE sq
  IN
  /\ tasks[t] = "running" /\ waiting[t][n] = Nowhere
  /\ IF n = "route"
     THEN /\ pos' = [pos EXCEPT ![t] = p]
          /\ \E time \in Est \cup IF FirstSensor(pos[t]) THEN {TIME_NONE} ELSE {} :
               sensor_queue_add_waiting_tid(q(time), s, Entry(time))
     ELSE pos' = pos /\ sensor_queue_add_waiting_tid(sq, s, Entry(TIME_NONE))
  /\ waiting' = [waiting EXCEPT ![t][n] = s]
  /\ UNCHANGED <<registered, tasks, gen, trapped>>

\* MSG_TC_SENSOR_PUT, from the sensor worker: replyWaitingProcess answers all who
\* wait for the sensor, one after the other, and tells the position of a train when
\* its route notifier is among them.  (A report of the sensor that was reported last,
\* within SENSOR_IGNORE_TIME, is ignored: it is no step.)
Answered(s) == {e.tid : e \in ToSet(sq[s])}
Replied(r, e, time) ==
  LET t == e.tid.trn
      p == r.pos[t]
  IN IF ~e.pos_rqst THEN r
     ELSE [sq |-> IF FirstSensor(p)
                  THEN sensor_queue_adjust_waiting_tid(r.sq, p.sensor, LastWaited(t, p), time) ELSE r.sq,
           pos |-> [r.pos EXCEPT ![t] = reached_sensor(p)]]
AfterReplies(s, time) ==
  LET after[i \in 0 .. Len(sq[s])] ==
        IF i = 0 THEN [sq |-> [sq EXCEPT ![s] = <<>>], pos |-> pos] ELSE Replied(after[i - 1], sq[s][i], time)
  IN after[Len(sq[s])]
\* The position of a train that has no sensor is told: the first such reply traps, and
\* no reply before it makes a difference to that
ReplyTraps(s) ==
  \E e \in ToSet(sq[s]) : e.pos_rqst /\ FirstSensor(pos[e.tid.trn]) /\ ModuleAssertFails(pos[e.tid.trn].sensor)
Hit(s) ==
  \/ /\ ReplyTraps(s)
     /\ trapped' = TRUE
     /\ UNCHANGED <<sq, pos, registered, tasks, gen, waiting, panic>>
  \/ /\ ~ReplyTraps(s)
     /\ \E time \in Est : sq' = AfterReplies(s, time).sq /\ pos' = AfterReplies(s, time).pos
     /\ waiting' = [t \in Trains |-> [n \in TrnNotifiers |->
                      IF Tid(t, n) \in Answered(s) THEN Nowhere ELSE waiting[t][n]]]
     /\ UNCHANGED <<registered, tasks, gen, panic, trapped>>

\* MSG_TC_TRAIN_PUT, of a train task or from the console, for any train
SetSpeed(t, spd) ==
  \/ /\ Recalculates(pos[t], spd) /\ ModuleAssertFails(pos[t].sensor)
     /\ trapped' = TRUE
     /\ UNCHANGED <<sq, pos, registered, tasks, gen, waiting, panic>>
  \/ /\ Recalculates(pos[t], spd) => ~ModuleAssertFails(pos[t].sensor)
     /\ pos' = [pos EXCEPT ![t] = update_speed(@, spd)]
     /\ \E time \in Est :
          sq' = IF Recalculates(pos[t], spd)
                THEN sensor_queue_adjust_waiting_tid(sq, pos[t].sensor, LastWaited(t, pos[t]), time) ELSE sq
     /\ UNCHANGED <<registered, tasks, gen, waiting, panic, trapped>>

\* After a panic or a trap the coordinator does nothing more
CoordNext ==
  /\ ~panic /\ ~trapped
  /\ \/ \E t \in Trains : \/ RegisterTrain(t) \/ KillTrain(t) \/ TrainDone(t)
                          \/ \E n \in TrnNotifiers, s \in Sensors : WaitSensor(t, n, s)
                          \/ \E spd \in Speeds \cup {0} : SetSpeed(t, spd)
     \/ \E s \in Sensors : Hit(s)
CoordSpec == CoordInit /\ [][CoordNext]_coordVars

-----------------------------------------------------------------------------
(* Properties                                                              *)

\* Every list is in the order of the expected times, every notifier that waits
\* for a sensor has one entry there, and every other entry is of a killed task:
\* no notifier waits in vain and none is answered that does not wait.  And the
\* pool is large enough for two notifiers of every train, however their waits,
\* reports and ends follow each other, as long as none is killed.  The coordinator
\* does trap without a kill, for one reason: the speed of a train changes again
\* after it was reached, and the train has not yet waited for a sensor.
QueueSound ==
  /\ panic => \E t \in Trains : gen[t] > 0
  /\ trapped => \E t \in Trains : pos[t].sensor = Nowhere /\ (gen[t] > 0 \/ pos[t].spd_init # 0)
  /\ \A s \in Sensors : \A i \in 1 .. Len(sq[s]) - 1 : sq[s][i].expected_time <= sq[s][i + 1].expected_time
  /\ panic \/ \A t \in Trains, n \in TrnNotifiers, s \in Sensors :
       Cardinality({i \in 1 .. Len(sq[s]) : sq[s][i].tid = Tid(t, n)}) = IF waiting[t][n] = s THEN 1 ELSE 0

\* The prediction of a train is in step with its route notifier, whatever order
\* speeds, waits and sensors come in: it waits, for the same sensor, while the
\* notifier does, so a change of speed goes to that entry of the queue and is put
\* off otherwise.  An entry of killed tasks of the train would disturb this.
PositionInStep ==
  \A t \in Trains : tasks[t] = "running" /\ gen[t] = 0 /\ pos[t].sensor # Nowhere =>
    /\ pos[t].state = "waiting" <=> waiting[t]["route"] # Nowhere
    /\ waiting[t]["route"] \in {Nowhere, pos[t].sensor}

\* program-tasks.c:152 "deregister on behalf of killed train": then nothing of
\* the train is left in the queue.
KilledForgotten == \A t \in Trains : t \notin registered => \A s \in Sensors : \A e \in ToSet(sq[s]) : e.tid.trn # t
=============================================================================
