------------------------------- MODULE Train -------------------------------
(***************************************************************************)
(* train.c: the train administrator (train_tc and execute_plan), its       *)
(* route, speed and locking notifiers, and the train that it drives.       *)
(*                                                                         *)
(* The track is a ring of N sensors.  Gap i lies between the sensors i - 1 *)
(* and i and is a segment of its own.  A node is a sensor with a direction *)
(* of travel; plans are what routing.c returns on a ring of gaps of length *)
(* one.  Every message between the tasks is a step, and calls to the       *)
(* coordinator and the track server that return at once are part of the    *)
(* step that makes them.  Other trains are the segments they have taken.   *)
(*                                                                         *)
(* Tasks are fast: the train passes a sensor, and a lock is refused, when  *)
(* every task waits for a sensor, a delay or a message.  Delays are those  *)
(* that routing.c measures: the lock on what follows a plan is decided on  *)
(* the last stretch of the plan, the train gets to the last sensor of the  *)
(* plan when the plan has been done, and it stops at its goal.             *)
(***************************************************************************)
EXTENDS Integers, Sequences, SequencesExt

CONSTANTS
  N,            \* how many sensors the ring has
  Start, Goal,  \* the train stands before Start, facing it, and is to stop at Goal
  AccelDist, StopDist,   \* in gaps
  Refusals,     \* when locks are refused: pairs of the kind of the plan and reversed
  MaxTaken      \* how often other trains take a segment

ASSUME TrainAssumption ==
  /\ N \in Nat \ {0} /\ {Start, Goal} \subseteq 0 .. N - 1
  /\ AccelDist \in Nat /\ StopDist \in Nat \ {0}
  /\ MaxTaken \in Nat

Sensor == 0 .. N - 1
Notifier == {"route", "spd", "lock"}

VARIABLES
  train_tc,      \* where train_tc is: "plan", "begin", "run", "receive", "stopped", "quit", "done"
  cur, next,     \* routes[cur] and routes[1 - cur]
  current_node, reversed,
  waiting,       \* waiting_route, waiting_spd and waiting_lock
  notifier,      \* what each notifier does, and for which action
  locks,         \* the segments locked for this train
  taken, takes,  \* the segments of other trains; how often one was taken
  speed, facing, gap,   \* the train: "stopped", "moving" or "braking"; 1 or -1; its gap
  thrown         \* the nodes whose switches ahead are set for this train

train == <<speed, facing, gap>>
others == <<taken, takes>>
plan == <<next, current_node, reversed>>
trainVars == <<train_tc, cur, plan, waiting, notifier, locks, others, train, thrown>>

NONE == [i |-> -1, d |-> 0]    \* SENSOR_NONE
Rev(n) == [n EXCEPT !.d = -n.d]
Seg(n) == IF n.d = 1 THEN (n.i + 1) % N ELSE n.i    \* the segment ahead of n: segmentId

-----------------------------------------------------------------------------
(* The plans: plan_stopped_route and plan_in_progress_route                *)

SensorsFrom(n) ==
  [k \in 1 .. (((Goal - n.i) * n.d) % N) + 1 |-> [i |-> (n.i + (k - 1) * n.d) % N, d |-> n.d]]
SpeedChange(spd, sensor, delay) == [spd |-> spd, sensor |-> sensor, delay |-> delay]

\* The route over the sensors s up to the k-th
Route(c, s, k) ==
  [kind |-> c,
   final |-> c \in {"short", "stop"},
   switches |-> {s[j] : j \in 1 .. k - 1},
   path |-> IF c = "short" THEN <<s[1]>> ELSE SubSeq(s, 1, k),
   segments |-> {Seg(s[j]) : j \in 1 .. k - 1},
   speed_changes |->
     CASE c = "short" -> <<SpeedChange("moving", NONE, FALSE), SpeedChange("braking", NONE, TRUE)>>
       [] c = "accel" -> <<SpeedChange("moving", NONE, FALSE), SpeedChange("moving", NONE, TRUE)>>
       [] c = "stop" -> <<SpeedChange("braking", s[1], TRUE)>>
       [] c = "const" -> <<>>,
   decision_pt |-> IF k = Len(s) THEN NONE ELSE s[1]]

\* Going back, the sensor that the train stands at is left out
PlanStopped(n, first) ==
  LET s == IF first THEN SensorsFrom(n) ELSE Tail(SensorsFrom(n))
      far == Len(s) - 1
  IN IF far <= AccelDist + StopDist \/ far = 1 THEN Route("short", s, Len(s))
     ELSE Route("accel", s, AccelDist + 2)
PlanInProgress(n) ==
  LET s == SensorsFrom(n)
  IN IF Len(s) - 2 < StopDist THEN Route("stop", s, Len(s)) ELSE Route("const", s, 2)

-----------------------------------------------------------------------------
(* train_tc and execute_plan                                               *)

Idle == [state |-> "idle", sensor |-> NONE, spd |-> "stopped", segments |-> {}, ok |-> FALSE]
NoRoute == [Route("const", <<NONE>>, 1) EXCEPT !.path = <<>>]

\* The train is registered and its segment locked
TrainInit ==
  /\ train_tc = "plan"
  /\ cur = NoRoute /\ next = NoRoute
  /\ current_node = [i |-> Start, d |-> 1] /\ reversed = FALSE
  /\ waiting = {}
  /\ notifier = [n \in Notifier |-> Idle]
  /\ locks = {Start}
  /\ taken = {} /\ takes = 0
  /\ speed = "stopped" /\ facing = 1 /\ gap = Start
  /\ thrown = {}

\* Plan both ways and lock either, forwards first.  What happens when neither can
\* be locked in time is a matter of the track server: here one can.
Plan ==
  LET fwd == PlanStopped(current_node, TRUE)
      rv == PlanStopped(Rev(current_node), FALSE)
      free(r) == r.segments \cap taken = {}
  IN
  /\ train_tc = "plan"
  /\ \/ /\ free(fwd)
        /\ reversed' = FALSE /\ cur' = fwd /\ locks' = locks \cup fwd.segments
     \/ /\ ~free(fwd) /\ free(rv)
        /\ reversed' = TRUE /\ cur' = rv /\ locks' = locks \cup rv.segments
  /\ facing' = IF reversed' THEN -facing ELSE facing
  /\ next' = NoRoute
  /\ train_tc' = "begin"
  /\ UNCHANGED <<current_node, waiting, notifier, others, speed, gap, thrown>>

\* wait_action, wait_decision_pt: the Send returns once the notifier receives it
wait_action(n, action) ==
  /\ notifier[n].state = "idle"
  /\ notifier' = [notifier EXCEPT ![n] = action]

\* execute_plan, before its loop: throw the switches, note the last sensor, plan
\* what follows it and have the locking notifier lock that
ThrowLater == thrown' = thrown   \* faulty: the switches are left as they are
Throw == thrown' = thrown \cup cur.switches
Begin ==
  /\ train_tc = "begin"
  /\ Throw
  /\ current_node' = Last(cur.path)
  /\ cur' = [cur EXCEPT !.path = Front(@)]
  /\ IF cur.final
     THEN next' = NoRoute /\ waiting' = {} /\ UNCHANGED notifier
     ELSE /\ next' = PlanInProgress(current_node')
          /\ waiting' = {"lock"}
          /\ wait_action("lock", [Idle EXCEPT !.state = "sensor", !.sensor = cur.decision_pt,
                                         !.segments = next'.segments])
  /\ train_tc' = "run"
  /\ UNCHANGED <<reversed, locks, others, train>>

\* track_control_set_train_speed; braking a train that stands leaves it standing
SetSpeed(spd) == speed' = IF spd = "braking" /\ speed = "stopped" THEN "stopped" ELSE spd

\* The loop: the speed changes up to one that has to be waited for, then the
\* next sensor of the path, then Receive
SpeedPending == "spd" \notin waiting /\ cur.speed_changes # <<>>
RoutePending == "route" \notin waiting /\ cur.path # <<>>
Immediate(c) == c.sensor = NONE /\ ~c.delay
ChangeNow ==
  /\ train_tc = "run" /\ SpeedPending /\ Immediate(Head(cur.speed_changes))
  /\ SetSpeed(Head(cur.speed_changes).spd)
  /\ cur' = [cur EXCEPT !.speed_changes = Tail(@)]
  /\ UNCHANGED <<train_tc, plan, waiting, notifier, locks, others, facing, gap, thrown>>
WaitSpeed ==
  LET c == Head(cur.speed_changes) IN
  /\ train_tc = "run" /\ SpeedPending /\ ~Immediate(c)
  /\ wait_action("spd", [Idle EXCEPT !.state = (IF c.sensor = NONE THEN "delay" ELSE "sensor"),
                                !.sensor = c.sensor, !.spd = c.spd])
  /\ waiting' = waiting \cup {"spd"}
  /\ cur' = [cur EXCEPT !.speed_changes = Tail(@)]
  /\ UNCHANGED <<train_tc, plan, locks, others, train, thrown>>
WaitRoute ==
  /\ train_tc = "run" /\ ~SpeedPending /\ RoutePending
  /\ wait_action("route", [Idle EXCEPT !.state = "sensor", !.sensor = Head(cur.path)])
  /\ waiting' = waiting \cup {"route"}
  /\ UNCHANGED <<train_tc, cur, plan, locks, others, train, thrown>>
Block ==
  /\ train_tc = "run" /\ ~SpeedPending /\ ~RoutePending
  /\ train_tc' = "receive"
  /\ UNCHANGED <<cur, plan, waiting, notifier, locks, others, train, thrown>>

\* The end of the loop: after the last plan the train stops, after another one
\* the next plan is executed
FinishedEarly(w, c) == w \subseteq {"spd"} /\ c.speed_changes = <<>> /\ c.path = <<>>  \* faulty: does not wait for the speed
Finished(w, c) == w = {} /\ c.speed_changes = <<>> /\ c.path = <<>>
Loop(w, c) ==
  /\ waiting' = w
  /\ \/ ~Finished(w, c) /\ train_tc' = "run" /\ cur' = c /\ next' = next
     \/ Finished(w, c) /\ c.final /\ train_tc' = "stopped" /\ cur' = c /\ next' = next
     \/ Finished(w, c) /\ ~c.final /\ train_tc' = "begin" /\ cur' = next /\ next' = NoRoute

\* A notifier's report, by what it says.  A sensor frees the segment behind it.
Receive(n) ==
  /\ train_tc = "receive" /\ notifier[n].state = "report"
  /\ notifier' = [notifier EXCEPT ![n] = Idle]
FreeAhead(n) == Seg(n)   \* faulty: the segment just entered
FreeBehind(n) == Seg(Rev(n))
Locked ==
  /\ Receive("lock") /\ notifier["lock"].ok
  /\ Loop(waiting \ {"lock"}, cur)
  /\ UNCHANGED <<current_node, reversed, locks, others, train, thrown>>
LockTimeout ==
  /\ Receive("lock") /\ ~notifier["lock"].ok
  /\ train_tc' = "stopped"
  /\ UNCHANGED <<cur, plan, waiting, locks, others, train, thrown>>
SensorHit ==
  LET s == notifier["route"].sensor
      hit == cur.path # <<>> /\ Head(cur.path) = s
  IN
  /\ Receive("route")
  /\ Loop(waiting \ {"route"}, IF hit THEN [cur EXCEPT !.path = Tail(@)] ELSE cur)
  /\ locks' = IF hit THEN locks \ {FreeBehind(s)} ELSE locks
  /\ UNCHANGED <<current_node, reversed, others, train, thrown>>
SpeedSet ==
  /\ Receive("spd")
  /\ Loop(waiting \ {"spd"}, cur)
  /\ UNCHANGED <<current_node, reversed, locks, others, train, thrown>>

AfterStopOn(c) == "plan"   \* faulty: does not see that the plan was the last
AfterStop(c) == IF c.final THEN "quit" ELSE "plan"

\* The train keeps the segment behind the last sensor of the plan; a train that
\* went backwards is turned again, which stops it where it is
Stop ==
  /\ train_tc = "stopped"
  /\ locks' = locks \cap {FreeBehind(current_node)}
  /\ facing' = IF reversed THEN -facing ELSE facing
  /\ speed' = IF reversed THEN "stopped" ELSE speed
  /\ reversed' = FALSE
  /\ train_tc' = AfterStop(cur)
  /\ UNCHANGED <<cur, next, current_node, waiting, notifier, others, gap, thrown>>
Quit(n) ==
  /\ train_tc = "quit"
  /\ \A m \in Notifier : notifier[m].state # "gone" /\ m # n => <<n, m>> \in {<<"route", "spd">>, <<"route", "lock">>, <<"spd", "lock">>}
  /\ wait_action(n, [Idle EXCEPT !.state = "gone"])
  /\ UNCHANGED <<train_tc, cur, plan, waiting, locks, others, train, thrown>>
End ==
  /\ train_tc = "quit" /\ \A n \in Notifier : notifier[n].state = "gone"
  /\ train_tc' = "done"
  /\ UNCHANGED <<cur, plan, waiting, notifier, locks, others, train, thrown>>

-----------------------------------------------------------------------------
(* The notifiers                                                           *)

\* Whom train_tc is sending to, and whether it has to wait
Target == CASE train_tc = "begin" /\ ~cur.final -> {"lock"}
            [] train_tc = "run" /\ SpeedPending -> IF Immediate(Head(cur.speed_changes)) THEN {} ELSE {"spd"}
            [] train_tc = "run" /\ ~SpeedPending /\ RoutePending -> {"route"}
            [] train_tc = "quit" -> {n \in Notifier : notifier[n].state # "gone"}
            [] OTHER -> {}
Blocked == \E n \in Target : notifier[n].state # "idle"
Quiet ==
  /\ train_tc \in {"receive", "done"} \/ Blocked
  /\ \A n \in Notifier : /\ notifier[n].state = "lock" => notifier[n].segments \cap taken # {}
                         /\ notifier[n].state = "report" => Blocked

\* A sensor reply: the route notifier reports, the others go on
AfterSensor == [n \in Notifier |-> CASE n = "route" -> "report" [] n = "spd" -> "delay" [] n = "lock" -> "lock"]

\* The speed notifier changes the speed when its delay is over
SpeedDue ==
  /\ notifier["spd"].state = "delay"
  /\ SetSpeed(notifier["spd"].spd)
  /\ notifier' = [notifier EXCEPT !["spd"].state = "report"]
  /\ UNCHANGED <<train_tc, cur, plan, waiting, locks, others, facing, gap, thrown>>

\* track_server_lock_all_segments_timeout tries at once, and again when the time
\* of the decision point is over; then a refusal is an emergency stop
Grant ==
  /\ notifier["lock"].state = "lock" /\ notifier["lock"].segments \cap taken = {}
  /\ locks' = locks \cup notifier["lock"].segments
  /\ notifier' = [notifier EXCEPT !["lock"].state = "report", !["lock"].ok = TRUE]
  /\ UNCHANGED <<train_tc, cur, plan, waiting, others, train, thrown>>
Refuse ==
  /\ notifier["lock"].state = "lock" /\ notifier["lock"].segments \cap taken # {}
  /\ <<cur.kind, reversed>> \in Refusals
  /\ Quiet /\ gap = Seg(Rev(current_node))
  /\ speed' = "stopped"
  /\ notifier' = [notifier EXCEPT !["lock"].state = "report", !["lock"].ok = FALSE]
  /\ UNCHANGED <<train_tc, cur, plan, waiting, locks, others, facing, gap, thrown>>

-----------------------------------------------------------------------------
(* The train and the other trains                                          *)

Coming == [i |-> IF facing = 1 THEN gap ELSE (gap - 1) % N, d |-> facing]
Cross ==
  /\ speed # "stopped" /\ Quiet
  /\ Coming.i # Goal /\ (cur.final \/ Coming # current_node)
  /\ gap' = Seg(Coming)
  /\ notifier' = [n \in Notifier |-> IF notifier[n].state = "sensor" /\ notifier[n].sensor = Coming
                                  THEN [notifier[n] EXCEPT !.state = AfterSensor[n]] ELSE notifier[n]]
  /\ UNCHANGED <<train_tc, cur, plan, waiting, locks, others, speed, facing, thrown>>

OthersTake(s) ==
  /\ takes < MaxTaken /\ s \notin locks \cup taken
  /\ taken' = taken \cup {s} /\ takes' = takes + 1
  /\ UNCHANGED <<train_tc, cur, plan, waiting, notifier, locks, train, thrown>>
OthersFree(s) ==
  /\ s \in taken
  /\ taken' = taken \ {s} /\ takes' = takes
  /\ UNCHANGED <<train_tc, cur, plan, waiting, notifier, locks, train, thrown>>

Done == train_tc = "done" /\ UNCHANGED trainVars

Tasks ==
  \/ Plan \/ Begin \/ ChangeNow \/ WaitSpeed \/ WaitRoute \/ Block
  \/ Locked \/ LockTimeout \/ SensorHit \/ SpeedSet \/ Stop \/ End
  \/ \E n \in Notifier : Quit(n)
  \/ SpeedDue \/ Grant \/ Refuse
TrainNext ==
  \/ Tasks \/ Cross
  \/ \E s \in Sensor : OthersTake(s) \/ OthersFree(s)
  \/ Done

\* The tasks run, delays end, the train rolls, and other trains leave a segment
TrainFairness == /\ WF_trainVars(Tasks) /\ WF_trainVars(Cross) /\ WF_trainVars(SpeedDue)
            /\ \A s \in Sensor : WF_trainVars(OthersFree(s))
TrainSpec == TrainInit /\ [][TrainNext]_trainVars /\ TrainFairness

-----------------------------------------------------------------------------
(* Properties                                                              *)

\* The administrator never sends to a notifier that is itself sending to the
\* administrator (the Send in wait_action would wait for a notifier that waits
\* for its own Send, and both for ever).
NoMutualSend == \A n \in Target : notifier[n].state # "report"

\* tc2: "a train can be in a segment of the track" only when its administrator
\* "has acquired the respective lock".  Wherever the train rolls or stands its
\* segment is locked for it, although segments are freed behind it, all but one
\* at a stop, and others take what is free.  (Except at the end of a short move.)
OnlyOnLocked == gap \in locks \/ (cur.kind = "short" /\ train_tc \in {"quit", "done"})

\* The switches ahead of a sensor are set when the train passes it.
SwitchesBefore == [][gap' # gap => Coming \in thrown]_trainVars

\* A train that was stopped moves again only by an order of the administrator,
\* for a plan whose segments it has locked: no notifier of a plan given up does it.
StaysStopped == [][speed = "stopped" /\ speed' = "moving" => notifier' = notifier /\ cur.segments \subseteq locks]_trainVars

\* Whatever the other trains take and give back, the administrator ends, and a
\* train that came forwards stands before its goal.
Arrives == <>[](train_tc = "done" /\ (current_node.d = 1 => gap = Goal))
=============================================================================
