---------------------------- MODULE TrackServer ----------------------------
(***************************************************************************)
(* The track server: locks on the segments of the track, requests that     *)
(* block until they can be granted or time out, and the timeout notifiers, *)
(* with the calls of track-segment-locking.c by which trains use it.       *)
(*                                                                         *)
(* A step is one message that the server receives and handles.  A train is *)
(* one task that calls the server; the operator may stop it (KillChild,    *)
(* then free_all on its behalf) and start it again.  Train numbers and     *)
(* their trn_hash are one number here; 0 is "no train".                    *)
(***************************************************************************)
EXTENDS Integers, Sequences, FiniteSets, Functions

CONSTANTS
  N_TRNS,      \* how many trains there are
  Segments,    \* the segments of the track
  Start,       \* the segment on which each train is started
  Lists,       \* the lists of segments that trains ask for and free
  TrainCalls   \* the calls that trains make

Train == 1 .. N_TRNS
LockCall == {"ALL", "ALL_TIMEOUT", "ONE", "ONE_TIMEOUT", "TWO", "TWO_TIMEOUT"}

ASSUME TrackAssumption ==
  /\ N_TRNS \in Nat \ {0}
  /\ 0 \notin Segments
  /\ Start \in [Train -> Segments]
  /\ Lists \subseteq Seq(Segments)
  /\ TrainCalls \subseteq LockCall \cup {"FREE", "FREE_ALL", "STOP"}

VARIABLES
  lock_sectors, \* the train that has locked each segment, or 0
  t_state,      \* train_data[t].t_state
  req,          \* the request of train t: the call, and its two lists
  notif,        \* the timeout notifier of t is "idle" (waits for a reply) or "delay"s
  task,         \* the task of train t: "run", "wait" (for the reply), "dead", "off"
  held          \* the segments that this task was told, or believes, it has

vars == <<lock_sectors, t_state, req, notif, task, held>>

NoReq == [call |-> "NONE", list |-> <<>>, second |-> <<>>]

-----------------------------------------------------------------------------
(* The server's locking helpers, on the locks lk for train t               *)

UncheckedFree(lk, S, t) == TRUE  \* faulty: nobody else's lock counts
AllFree(lk, S, t) == \A s \in S : lk[s] \in {0, t}  \* checkAllFree
Lock(lk, S, t) == [s \in Segments |-> IF s \in S THEN t ELSE lk[s]]

\* What lockAll_Safe and lockOne_Safe do for a request: ok, the segments they
\* lock, and the number replySegment reports (a segment or which list)
Result(ok, S, n) == [ok |-> ok, segs |-> S, n |-> n]
Refused == Result(FALSE, {}, -1)
LockAllSafe(lk, list, t, n) ==
  IF AllFree(lk, Range(list), t) THEN Result(TRUE, Range(list), n) ELSE Refused
LockOneSafe(lk, list, t) ==
  LET free == {i \in DOMAIN list : AllFree(lk, {list[i]}, t)} IN
  IF free = {} THEN Refused
  ELSE LET s == list[CHOOSE i \in free : \A j \in free : i <= j]
       IN Result(TRUE, {s}, s)
LockEither(lk, list, second, t) ==
  IF LockAllSafe(lk, list, t, 0).ok THEN LockAllSafe(lk, list, t, 0)
  ELSE LockAllSafe(lk, second, t, 1)
Try(lk, r, t) ==
  CASE r.call \in {"ONE", "ONE_TIMEOUT"} -> LockOneSafe(lk, r.list, t)
    [] r.call \in {"TWO", "TWO_TIMEOUT"} -> LockEither(lk, r.list, r.second, t)
    [] OTHER -> LockAllSafe(lk, r.list, t, 0)

-----------------------------------------------------------------------------
(* The clients: track-segment-locking.c                                    *)

\* The message that a call sends.  track_server_lock_two_all_segments sends the
\* one with a timeout, of 0; no call sends AND_OR_NO_TIMEOUT.
BlockedState(c) ==
  CASE c \in {"ALL", "ONE"} -> "blocked"
    [] c \in {"ALL_TIMEOUT", "ONE_TIMEOUT"} -> "blocked_timeout"
    [] c \in {"TWO", "TWO_TIMEOUT"} -> "blocked_timeout_two"

\* What a task takes itself to hold once its call r returns.  lock_segment and
\* lock_all_segments do not look at the reply; lock_two_all_segments returns a
\* number of it that a refusal does not set.
Believed(r, ok, n) ==
  CASE r.call = "ALL" -> {Range(r.list)}
    [] r.call = "ALL_TIMEOUT" -> {IF ok THEN Range(r.list) ELSE {}}
    [] r.call \in {"ONE", "ONE_TIMEOUT"} -> {IF ok THEN {n} ELSE {}}
    [] r.call = "TWO" -> IF ok THEN {Range(IF n = 0 THEN r.list ELSE r.second)}
                         ELSE {Range(r.list), Range(r.second)}
    [] r.call = "TWO_TIMEOUT" ->
         {IF ~ok THEN {} ELSE Range(IF n = 0 THEN r.list ELSE r.second)}

\* Reply to the requester of train t, if its task still waits
ReplyTo(t, r, ok, n) ==
  IF task[t] = "wait"
  THEN /\ task' = [task EXCEPT ![t] = "run"]
       /\ \E S \in Believed(r, ok, n) : held' = [held EXCEPT ![t] = @ \cup S]
  ELSE UNCHANGED <<task, held>>

-----------------------------------------------------------------------------
(* The server: track_server_main                                           *)

\* replyNotifier: lost if the notifier still delays
NotStarted(t) == notif  \* faulty: never started
StartNotifier(t) == [notif EXCEPT ![t] = "delay"]

\* MSG_TS_REQUEST_SEGMENTS_*
Request(t, r) ==
  LET got == Try(lock_sectors, r, t) IN
  /\ task[t] = "run"
  /\ r.call \in TrainCalls
  /\ \/ /\ got.ok
        /\ lock_sectors' = Lock(lock_sectors, got.segs, t)
        /\ t_state' = [t_state EXCEPT ![t] = "idle"]
        /\ \E S \in Believed(r, TRUE, got.n) : held' = [held EXCEPT ![t] = @ \cup S]
        /\ UNCHANGED <<req, notif, task>>
     \/ /\ ~got.ok
        /\ t_state' = [t_state EXCEPT ![t] = BlockedState(r.call)]
        /\ req' = [req EXCEPT ![t] = r]
        /\ task' = [task EXCEPT ![t] = "wait"]
        /\ notif' = IF BlockedState(r.call) = "blocked" THEN notif ELSE StartNotifier(t)
        /\ UNCHANGED <<lock_sectors, held>>

\* The loop of MSG_TS_FREE_SEGMENTS over the trains up to i: each one blocked
\* without timeout, but the one that frees, is tried again.  (Its branch for
\* train_blocked_two, a state that no call leads to, is left out.)
Retries(lk, i, u) == t_state[i] = "blocked" /\ i # u /\ Try(lk, req[i], i).ok
Retried(v, i, u) ==
  IF ~Retries(v.lock, i, u) THEN v
  ELSE [lock    |-> Lock(v.lock, Try(v.lock, req[i], i).segs, i),
        granted |-> v.granted \cup {<<i, Try(v.lock, req[i], i).n>>}]
RetriesNone(lk, u) == [lock |-> lk, granted |-> {}]  \* faulty: nobody is tried
RetryBlocked(lk, u) ==
  LET after[i \in 0 .. N_TRNS] ==
        IF i = 0 THEN [lock |-> lk, granted |-> {}] ELSE Retried(after[i - 1], i, u)
  IN after[N_TRNS]

FreeSegments(t, list) ==
  LET freed == {s \in Range(list) : lock_sectors[s] = t}
      v == RetryBlocked(Lock(lock_sectors, freed, 0), t)
      told == {g \in v.granted : task[g[1]] = "wait"}
      got(i) == UNION {UNION Believed(req[i], TRUE, g[2]) : g \in {h \in told : h[1] = i}}
      inTrains(i, G) == \E g \in G : g[1] = i
  IN
  /\ task[t] = "run"
  /\ "FREE" \in TrainCalls
  /\ lock_sectors' = v.lock
  /\ t_state' = [i \in Train |-> IF inTrains(i, v.granted) THEN "idle" ELSE t_state[i]]
  /\ req' = [i \in Train |-> IF inTrains(i, v.granted) THEN NoReq ELSE req[i]]
  /\ task' = [i \in Train |-> IF inTrains(i, told) THEN "run" ELSE task[i]]
  /\ held' = [i \in Train |-> (IF i = t THEN held[i] \ Range(list) ELSE held[i]) \cup got(i)]
  /\ UNCHANGED notif

\* MSG_TS_NOTIF after the delay of t's notifier, which then waits for a reply.
\* A request for two lists is tried with the lists of the notifier's message,
\* which nobody has set: g is the request they happen to describe.
HandleTimeout(t, g) ==
  LET two == t_state[t] = "blocked_timeout_two"
      got == Try(lock_sectors, IF two THEN g ELSE req[t], t)
  IN
  /\ lock_sectors' = IF got.ok THEN Lock(lock_sectors, got.segs, t) ELSE lock_sectors
  /\ t_state' = [t_state EXCEPT ![t] = "idle"]
  /\ req' = [req EXCEPT ![t] = NoReq]
  /\ ReplyTo(t, req[t], got.ok, got.n)

Timeout(t) ==
  /\ notif[t] = "delay"
  /\ notif' = [notif EXCEPT ![t] = "idle"]
  /\ \/ /\ t_state[t] = "idle"
        /\ UNCHANGED <<lock_sectors, t_state, req, task, held>>
     \/ /\ t_state[t] # "idle" /\ t_state[t] # "blocked_timeout_two"
        /\ HandleTimeout(t, NoReq)
     \/ /\ t_state[t] = "blocked_timeout_two"
        /\ \E l1, l2 \in Lists \cup {<<>>} :
             HandleTimeout(t, [call |-> "TWO", list |-> l1, second |-> l2])

\* MSG_TS_FREE_ALL: the locks of train t but those in keep; t is idle
Unlock(t, keep) ==
  /\ lock_sectors' = [s \in Segments |->
       IF lock_sectors[s] = t /\ s \notin keep THEN 0 ELSE lock_sectors[s]]
  /\ t_state' = [t_state EXCEPT ![t] = "idle"]
  /\ req' = [req EXCEPT ![t] = NoReq]

FreeAll(t, s) ==
  /\ task[t] = "run"
  /\ "FREE_ALL" \in TrainCalls
  /\ Unlock(t, {s})
  /\ held' = [held EXCEPT ![t] = @ \cap {s}]
  /\ UNCHANGED <<notif, task>>

-----------------------------------------------------------------------------
(* Stopping and starting trains: the commands st and tc                    *)

Kill(t) ==
  /\ task[t] \in {"run", "wait"}
  /\ "STOP" \in TrainCalls
  /\ task' = [task EXCEPT ![t] = "dead"]
  /\ held' = [held EXCEPT ![t] = {}]
  /\ UNCHANGED <<lock_sectors, t_state, req, notif>>

\* track_server_free_all(ts_tid, -1, trn) after the kill
FreeKilled(t) ==
  /\ task[t] = "dead"
  /\ Unlock(t, {})
  /\ task' = [task EXCEPT ![t] = "off"]
  /\ UNCHANGED <<notif, held>>

\* MSG_TS_TRAIN_REGISTER by a train that starts
Register(t) ==
  /\ task[t] = "off"
  /\ lock_sectors' = [lock_sectors EXCEPT ![Start[t]] = t]
  /\ task' = [task EXCEPT ![t] = "run"]
  /\ held' = [held EXCEPT ![t] = {Start[t]}]
  /\ UNCHANGED <<t_state, req, notif>>

Init ==
  /\ lock_sectors = [s \in Segments |-> 0]
  /\ t_state = [t \in Train |-> "idle"]
  /\ req = [t \in Train |-> NoReq]
  /\ notif = [t \in Train |-> "idle"]
  /\ task = [t \in Train |-> "off"]
  /\ held = [t \in Train |-> {}]

\* Only the calls for two lists have a second one
Requests ==
  [call : LockCall \ {"TWO", "TWO_TIMEOUT"}, list : Lists, second : {<<>>}] \cup
  [call : {"TWO", "TWO_TIMEOUT"}, list : Lists, second : Lists]

Next == \E t \in Train :
  \/ \E r \in Requests : Request(t, r)
  \/ \E list \in Lists : FreeSegments(t, list)
  \/ \E s \in Segments : FreeAll(t, s)
  \/ Timeout(t)
  \/ Kill(t) \/ FreeKilled(t) \/ Register(t)
Spec == Init /\ [][Next]_vars

\* The clock server ends every delay of a notifier, and the server, above all
\* trains, receives its message.
FairSpec == Spec /\ \A t \in Train : WF_vars(Timeout(t))

-----------------------------------------------------------------------------
(* Properties                                                              *)

\* A train drives only on segments that it has locked: what a task was told it
\* holds, the server has locked for it (so no two trains are on one segment).
HeldIsLocked == \A t \in Train : \A s \in held[t] : lock_sectors[s] = t

\* A train that blocks without timeout waits only for segments that another
\* train has: no grant is forgotten when segments are freed.
NoLostWakeup ==
  \A t \in Train : t_state[t] = "blocked" => ~Try(lock_sectors, req[t], t).ok

\* A call with a timeout returns, though notifiers started for an earlier
\* request of a train that was stopped may still be running.
TimeoutsAnswered ==
  \A t \in Train :
    (task[t] = "wait" /\ req[t].call \notin {"ALL", "ONE"}) ~> (task[t] # "wait")
=============================================================================
