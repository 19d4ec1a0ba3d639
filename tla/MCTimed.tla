------------------------------ MODULE MCTimed ------------------------------
(* The clock server, the timeouts of the track server and a train with its *)
(* notifiers, each by itself on a small instance: a behaviour runs one of  *)
(* them, the one that Init chooses, under the fairness of its own module.  *)
EXTENDS ClockServer, Train

VARIABLES
  using,                                   \* what runs
  lock_sectors, t_state, req, timeout, task, held                       \* TrackServer

\* Two trains, each started on a segment of its own, that contend for two others
TS == INSTANCE TrackServer
        WITH N_TRNS <- 2, Segments <- 1 .. 4, Start <- <<3, 4>>, Lists <- {<<1>>, <<1, 2>>},
             TrainCalls <- {"ALL", "ALL_TIMEOUT", "ONE_TIMEOUT", "TWO", "TWO_TIMEOUT", "FREE",
                       "FREE_ALL", "STOP"},
             notif <- timeout

\* A train on a ring of nine sensors.  Locks are refused only to a train that
\* goes forwards at speed.
AtSpeedForwards == {<<"const", FALSE>>}

trackVars == <<lock_sectors, t_state, req, timeout, task, held>>

MCInit ==
  /\ using \in {"clock", "track", "train"}
  /\ Init
  /\ TS!Init
  /\ TrainInit
MCNext ==
  \/ using = "clock" /\ Next /\ UNCHANGED <<using, trackVars, trainVars>>
  \/ using = "track" /\ TS!Next /\ UNCHANGED <<using, vars, trainVars>>
  \/ using = "train" /\ TrainNext /\ UNCHANGED <<using, vars, trackVars>>

\* The fairness of each module, for the behaviours that run it
ClockFairness ==
  /\ WF_vars(using = "clock" /\ Tick)
  /\ WF_vars(using = "clock" /\ TimerInterrupt)
  /\ WF_vars(using = "clock" /\ Notify)
  /\ \A c \in Clients : WF_vars(using = "clock" /\ Serve(c))
TrackFairness == \A t \in 1 .. 2 : WF_trackVars(using = "track" /\ TS!Timeout(t))
TrainsFairness ==
  /\ WF_trainVars(using = "train" /\ Tasks)
  /\ WF_trainVars(using = "train" /\ Cross)
  /\ WF_trainVars(using = "train" /\ SpeedDue)
  /\ \A s \in Sensor : WF_trainVars(using = "train" /\ OthersFree(s))

MCSpec ==
  /\ MCInit /\ [][MCNext]_<<using, vars, trackVars, trainVars>>
  /\ ClockFairness /\ TrackFairness /\ TrainsFairness

-----------------------------------------------------------------------------
(* Properties                                                              *)

\* A lock call with a timeout returns, though notifiers of an earlier request
\* may still be running.
TimeoutsAnswered == TS!TimeoutsAnswered

\* The administrator ends, and a train that came forwards is at its goal.
TrainArrives == using = "train" => Arrives
=============================================================================
