------------------------- MODULE TrackControlProofs -------------------------
(***************************************************************************)
(* Theorems about TrackServer and Coordinator, for any number of trains,   *)
(* any track and any lists of segments, any sensors, speeds and times.     *)
(*   - A train is only told to hold what the track server has locked for   *)
(*     it, and a train that waits without timeout is not forgotten.  Each  *)
(*     theorem names the calls that it needs the trains not to make; the   *)
(*     README gives what happens when they are made.                       *)
(*   - Who waits for a sensor is in its list, in the order of the expected *)
(*     times, the prediction of a train is in step with its route          *)
(*     notifier, and the pool of entries suffices while nothing is killed. *)
(***************************************************************************)
EXTENDS TrackServer, Coordinator, ListLemmas, FiniteSetTheorems

-----------------------------------------------------------------------------
(* The track server                                                        *)

Locks == [Segments -> 0 .. N_TRNS]

\* The requests the server may try: those of trains, none, and those that a
\* notifier's unset message may describe
IsRequest(r) ==
  /\ r.call \in LockCall \cup {"NONE"}
  /\ r.list \in Seq(Segments)
  /\ r.second \in Seq(Segments)

\* The segments of a list
LEMMA ListRange ==
  ASSUME NEW list \in Seq(Segments)
  PROVE  Range(list) \subseteq Segments
BY DEF Range

\* What lockAll_Safe and lockOne_Safe may do for train t: lock only segments
\* of the request that no other train has, exactly those the train will
\* take itself to hold.
Grants(got, lk, r, t) ==
  /\ got.segs \subseteq Segments
  /\ \A s \in got.segs : lk[s] \in {0, t}
  /\ got.n \in Segments \cup {0, 1}
  /\ r.call \notin {"TWO", "TWO_TIMEOUT"} =>
       /\ got.segs \subseteq Range(r.list)
       /\ r.call # "NONE" => Believed(r, TRUE, got.n) = {got.segs}

LEMMA TryGrants ==
  ASSUME NEW r, IsRequest(r), NEW lk, NEW t, Try(lk, r, t).ok
  PROVE  Grants(Try(lk, r, t), lk, r, t)
<1> DEFINE got == Try(lk, r, t)
<1>1. Range(r.list) \subseteq Segments /\ Range(r.second) \subseteq Segments
  BY ListRange DEF IsRequest
<1>2. ASSUME NEW list, NEW n, LockAllSafe(lk, list, t, n).ok
      PROVE  /\ LockAllSafe(lk, list, t, n) = Result(TRUE, Range(list), n)
             /\ \A s \in Range(list) : lk[s] \in {0, t}
  BY <1>2 DEF LockAllSafe, Refused, Result, AllFree
<1>3. CASE r.call \in {"ONE", "ONE_TIMEOUT"}
  <2> DEFINE free == {i \in DOMAIN r.list : AllFree(lk, {r.list[i]}, t)}
             m == CHOOSE i \in free : \A j \in free : i <= j
             s == r.list[m]
  <2>1. Try(lk, r, t) = LockOneSafe(lk, r.list, t)
    BY <1>3 DEF Try
  <2>2. free # {}
    BY <2>1 DEF LockOneSafe, Refused, Result
  <2>3. free \in SUBSET Nat
    BY DEF IsRequest
  <2>4. LockOneSafe(lk, r.list, t) = Result(TRUE, {s}, s)
    BY <2>2 DEF LockOneSafe
  <2>5. \E i \in free : \A j \in free : i <= j
    <3> HIDE DEF free
    <3>1. QED BY <2>2, <2>3, NatMin
  <2>6. m \in free
    <3> HIDE DEF free
    <3>1. QED BY <2>5
  <2>7. s \in Range(r.list) /\ AllFree(lk, {s}, t)
    <3> HIDE DEF m
    <3>1. QED BY <2>6 DEF Range
  <2> HIDE DEF s, m, free
  <2>8. Believed(r, TRUE, s) = {{s}}
    BY <1>3 DEF Believed
  <2>9. lk[s] \in {0, t}
    BY <2>7 DEF AllFree
  <2>10. got.segs = {s} /\ got.n = s
    BY <2>1, <2>4 DEF Result
  <2> HIDE DEF got
  <2>11. Grants(got, lk, r, t)
    BY <1>1, <2>7, <2>8, <2>9, <2>10 DEF Grants
  <2>12. QED BY <2>11 DEF got
<1>4. CASE r.call \in {"TWO", "TWO_TIMEOUT"}
  <2>1. Try(lk, r, t) = LockEither(lk, r.list, r.second, t)
    BY <1>4 DEF Try
  <2>2. \/ LockEither(lk, r.list, r.second, t) = LockAllSafe(lk, r.list, t, 0)
        \/ LockEither(lk, r.list, r.second, t) = LockAllSafe(lk, r.second, t, 1)
    BY DEF LockEither
  <2>3. PICK list \in {r.list, r.second}, n \in {0, 1} :
          Try(lk, r, t) = LockAllSafe(lk, list, t, n)
    BY <2>1, <2>2
  <2>4. /\ Try(lk, r, t) = Result(TRUE, Range(list), n)
        /\ \A s \in Range(list) : lk[s] \in {0, t}
    BY <1>2, <2>3
  <2>5. Range(list) \subseteq Segments
    BY <1>1
  <2>6. got.segs = Range(list) /\ got.n = n
    BY <2>4 DEF Result
  <2> HIDE DEF got
  <2>7. Grants(got, lk, r, t)
    BY <1>4, <2>4, <2>5, <2>6 DEF Grants
  <2>8. QED BY <2>7 DEF got
<1>5. CASE r.call \notin {"ONE", "ONE_TIMEOUT", "TWO", "TWO_TIMEOUT"}
  <2>1. Try(lk, r, t) = LockAllSafe(lk, r.list, t, 0)
    BY <1>5 DEF Try
  <2>2. /\ Try(lk, r, t) = Result(TRUE, Range(r.list), 0)
        /\ \A s \in Range(r.list) : lk[s] \in {0, t}
    BY <1>2, <2>1, ZenonT(60)
  <2>3. r.call # "NONE" => Believed(r, TRUE, 0) = {Range(r.list)}
    <3>1. CASE r.call = "ALL"
      BY <3>1 DEF Believed
    <3>2. CASE r.call = "ALL_TIMEOUT"
      BY <3>2 DEF Believed
    <3>3. QED BY <1>5, <3>1, <3>2 DEF IsRequest, LockCall
  <2>4. got.segs = Range(r.list) /\ got.n = 0
    BY <2>2 DEF Result
  <2> HIDE DEF got
  <2>5. Grants(got, lk, r, t)
    BY <1>1, <2>2, <2>3, <2>4 DEF Grants
  <2>6. QED BY <2>5 DEF got
<1>6. QED BY <1>3, <1>4, <1>5

\* The locks lk2 leave train t no segment that lk do not leave it.
Tighter(lk, lk2, t) == \A s \in Segments : lk2[s] \in {0, t} => lk[s] \in {0, t}

\* A request that cannot be granted cannot be granted with tighter locks.
LEMMA TryTighter ==
  ASSUME NEW r, IsRequest(r), NEW lk, NEW lk2, NEW t, Tighter(lk, lk2, t),
         Try(lk2, r, t).ok
  PROVE  Try(lk, r, t).ok
<1>1. Range(r.list) \subseteq Segments /\ Range(r.second) \subseteq Segments
  BY ListRange DEF IsRequest
<1>2. ASSUME NEW list, NEW n, Range(list) \subseteq Segments, LockAllSafe(lk2, list, t, n).ok
      PROVE  LockAllSafe(lk, list, t, n).ok
  <2>1. AllFree(lk2, Range(list), t)
    BY <1>2 DEF LockAllSafe, Refused, Result
  <2>2. AllFree(lk, Range(list), t)
    BY <1>2, <2>1 DEF AllFree, Tighter
  <2>3. QED BY <2>2 DEF LockAllSafe, Result
<1>3. CASE r.call \in {"ONE", "ONE_TIMEOUT"}
  <2>1. LockOneSafe(lk2, r.list, t).ok
    BY <1>3 DEF Try
  <2>2. PICK i \in DOMAIN r.list : AllFree(lk2, {r.list[i]}, t)
    BY <2>1 DEF LockOneSafe, Refused, Result
  <2>3. r.list[i] \in Segments
    BY <1>1 DEF Range
  <2>4. AllFree(lk, {r.list[i]}, t)
    BY <2>2, <2>3 DEF AllFree, Tighter
  <2>5. LockOneSafe(lk, r.list, t).ok
    BY <2>4 DEF LockOneSafe, Result
  <2>6. QED BY <1>3, <2>5 DEF Try
<1>4. CASE r.call \in {"TWO", "TWO_TIMEOUT"}
  <2>1. LockEither(lk2, r.list, r.second, t).ok
    BY <1>4 DEF Try
  <2>2. LockAllSafe(lk2, r.list, t, 0).ok \/ LockAllSafe(lk2, r.second, t, 1).ok
    BY <2>1 DEF LockEither
  <2>3. LockAllSafe(lk, r.list, t, 0).ok \/ LockAllSafe(lk, r.second, t, 1).ok
    BY <1>1, <1>2, <2>2
  <2>4. LockEither(lk, r.list, r.second, t).ok
    BY <2>3 DEF LockEither
  <2>5. QED BY <1>4, <2>4 DEF Try
<1>5. CASE r.call \notin {"ONE", "ONE_TIMEOUT", "TWO", "TWO_TIMEOUT"}
  BY <1>1, <1>2, <1>5 DEF Try
<1>6. QED BY <1>3, <1>4, <1>5

\* Locking for one train only tightens the locks for the others.
LEMMA LockTighter ==
  ASSUME NEW lk \in Locks, NEW S, NEW t \in Train, NEW u \in Train, u # t
  PROVE  Tighter(lk, Lock(lk, S, t), u)
BY DEF Tighter, Lock, Train

-----------------------------------------------------------------------------
(* The loop of MSG_TS_FREE_SEGMENTS                                        *)

\* A train that is blocked without timeout has asked for one of the lists.
BlockedAsk ==
  \A i \in Train : t_state[i] = "blocked" =>
    IsRequest(req[i]) /\ req[i].call \in {"ALL", "ONE"} /\ req[i].list \in Lists

Grant == Train \X (Segments \cup {0, 1})
LoopValue == [lock : Locks, granted : SUBSET Grant]

\* Segments that no list has
Unlisted(s) == \A list \in Lists : s \notin Range(list)

\* What a grant tells its train to hold is locked for that train.
GrantLocked(g, lk) ==
  /\ t_state[g[1]] = "blocked"
  /\ \A B \in Believed(req[g[1]], TRUE, g[2]) : \A s \in B : s \in Segments /\ lk[s] = g[1]

\* Where the loop is after k trains, when it started with the locks lk for
\* train u: no lock was taken away, the grants are locked, and a train passed
\* over still cannot be served.
IsRetry(v, lk, u, k) ==
  /\ v \in LoopValue
  /\ \A s \in Segments : lk[s] # 0 \/ Unlisted(s) => v.lock[s] = lk[s]
  /\ \A g \in v.granted : GrantLocked(g, v.lock)
  /\ \A i \in 1 .. k : (t_state[i] = "blocked" /\ i # u /\ \A g \in v.granted : g[1] # i)
                         => ~Try(v.lock, req[i], i).ok

\* One iteration keeps the type of what the loop computes.
LEMMA RetriedType ==
  ASSUME BlockedAsk, NEW v \in LoopValue, NEW i \in Train, NEW u
  PROVE  Retried(v, i, u) \in LoopValue
<1> DEFINE got == Try(v.lock, req[i], i)
<1>1. CASE Retries(v.lock, i, u)
  <2>1. IsRequest(req[i]) /\ got.ok
    BY <1>1 DEF BlockedAsk, Retries
  <2>2. Grants(got, v.lock, req[i], i)
    BY <2>1, TryGrants
  <2>3. got.n \in Segments \cup {0, 1}
    BY <2>2 DEF Grants
  <2>4. Retried(v, i, u) = [lock |-> Lock(v.lock, got.segs, i),
                            granted |-> v.granted \cup {<<i, got.n>>}]
    BY <1>1 DEF Retried
  <2> HIDE DEF got
  <2>5. i \in 0 .. N_TRNS /\ v.lock \in Locks /\ v.granted \in SUBSET Grant
    BY TrackAssumption DEF LoopValue, Train
  <2>6. Lock(v.lock, got.segs, i) \in Locks
    BY <2>5 DEF Locks, Lock
  <2>7. v.granted \cup {<<i, got.n>>} \in SUBSET Grant
    BY <2>3, <2>5 DEF Grant
  <2>8. QED BY <2>4, <2>6, <2>7 DEF LoopValue
<1>2. CASE ~Retries(v.lock, i, u)
  BY <1>2 DEF Retried
<1>3. QED BY <1>1, <1>2

\* One iteration: the next train is served, or it cannot be.
LEMMA RetryStep ==
  ASSUME BlockedAsk, NEW lk \in Locks, NEW u, NEW k \in Train, NEW v,
         IsRetry(v, lk, u, k - 1)
  PROVE  IsRetry(Retried(v, k, u), lk, u, k)
<1> DEFINE got == Try(v.lock, req[k], k)
           w == Retried(v, k, u)
<1>1. v \in LoopValue /\ v.lock \in Locks /\ w \in LoopValue
  BY RetriedType DEF IsRetry, LoopValue
<1>2. k \in Nat /\ k >= 1 /\ k \in Train /\ 1 .. k - 1 \subseteq Train
  BY TrackAssumption DEF Train
<1>3. CASE ~Retries(v.lock, k, u)
  <2>1. w = v
    BY <1>3 DEF Retried
  <2>2. ASSUME NEW i \in 1 .. k, t_state[i] = "blocked", i # u, \A g \in v.granted : g[1] # i
        PROVE  ~Try(v.lock, req[i], i).ok
    <3>1. CASE i = k
      BY <1>3, <2>2, <3>1 DEF Retries
    <3>2. CASE i # k
      <4>1. i \in 1 .. k - 1
        BY <1>2, <3>2
      <4>2. QED BY <2>2, <4>1 DEF IsRetry
    <3>3. QED BY <3>1, <3>2
  <2>3. IsRetry(v, lk, u, k)
    BY <2>2 DEF IsRetry
  <2>4. QED BY <2>1, <2>3
<1>4. CASE Retries(v.lock, k, u)
  <2>1. /\ IsRequest(req[k]) /\ got.ok /\ req[k].call \in {"ALL", "ONE"}
        /\ req[k].list \in Lists /\ t_state[k] = "blocked"
    BY <1>4 DEF BlockedAsk, Retries
  <2>2. Grants(got, v.lock, req[k], k)
    BY <2>1, TryGrants
  <2>3. /\ got.segs \subseteq Segments /\ \A s \in got.segs : v.lock[s] \in {0, k}
        /\ got.segs \subseteq Range(req[k].list)
        /\ Believed(req[k], TRUE, got.n) = {got.segs}
    BY <2>1, <2>2 DEF Grants
  <2>4. w = [lock |-> Lock(v.lock, got.segs, k), granted |-> v.granted \cup {<<k, got.n>>}]
    BY <1>4 DEF Retried
  <2>5. w.lock = Lock(v.lock, got.segs, k) /\ w.granted = v.granted \cup {<<k, got.n>>}
    BY <2>4
  <2> HIDE DEF got, w
  <2>6. \A s \in Segments : w.lock[s] = IF s \in got.segs THEN k ELSE v.lock[s]
    BY <2>5 DEF Lock
  <2>7. ASSUME NEW s \in Segments, lk[s] # 0 \/ Unlisted(s) PROVE w.lock[s] = lk[s]
    <3>1. v.lock[s] = lk[s]
      BY <2>7 DEF IsRetry
    <3>2. CASE Unlisted(s)
      BY <2>1, <2>3, <2>6, <3>1, <3>2 DEF Unlisted
    <3>3. CASE lk[s] # 0
      BY <2>3, <2>6, <3>1, <3>3
    <3>4. QED BY <2>7, <3>2, <3>3
  <2>8. ASSUME NEW g \in w.granted PROVE GrantLocked(g, w.lock)
    <3>1. CASE g = <<k, got.n>>
      <4>1. g[1] = k /\ g[2] = got.n
        BY <3>1
      <4>2. QED BY <2>1, <2>3, <2>6, <4>1, ZenonT(60) DEF GrantLocked
    <3>2. CASE g \in v.granted
      <4>1. GrantLocked(g, v.lock)
        BY <3>2 DEF IsRetry
      <4>2. g[1] \in Train
        BY <1>1, <3>2 DEF LoopValue, Grant
      <4>3. \A s \in Segments : v.lock[s] = g[1] => w.lock[s] = g[1]
        BY <1>2, <2>3, <2>6, <4>2 DEF Train
      <4>4. QED BY <4>1, <4>3 DEF GrantLocked
    <3>3. QED BY <2>5, <3>1, <3>2
  <2>9. ASSUME NEW i \in 1 .. k, t_state[i] = "blocked", i # u, \A g \in w.granted : g[1] # i
        PROVE  ~Try(w.lock, req[i], i).ok
    <3>1. i # k
      <4>1. <<k, got.n>> \in w.granted /\ <<k, got.n>>[1] = k
        BY <2>5
      <4>2. QED BY <2>9, <4>1
    <3>2. i \in 1 .. k - 1 /\ i \in Train
      BY <1>2, <3>1
    <3>3. ~Try(v.lock, req[i], i).ok
      BY <2>5, <2>9, <3>2 DEF IsRetry
    <3>4. Tighter(v.lock, w.lock, i)
      BY <1>1, <1>2, <2>5, <3>1, <3>2, LockTighter
    <3>5. IsRequest(req[i])
      BY <2>9, <3>2 DEF BlockedAsk
    <3>6. QED BY <3>3, <3>4, <3>5, TryTighter
  <2>10. IsRetry(w, lk, u, k)
    BY <1>1, <2>7, <2>8, <2>9 DEF IsRetry
  <2>11. QED BY <2>10 DEF w
<1>5. QED BY <1>3, <1>4

\* The whole loop.
LEMMA RetryAll ==
  ASSUME BlockedAsk, NEW lk \in Locks, NEW u
  PROVE  IsRetry(RetryBlocked(lk, u), lk, u, N_TRNS)
<1> DEFINE n == N_TRNS
           v0 == [lock |-> lk, granted |-> {}]
           g == [k \in 1 .. n |-> [x \in LoopValue |-> Retried(x, k, u)]]
           step(f) == [i \in 0 .. n |-> IF i = 0 THEN v0 ELSE Retried(f[i - 1], i, u)]
           after == CHOOSE f : f = step(f)
<1>1. n \in Nat /\ v0 \in LoopValue /\ 1 .. n = Train
  BY TrackAssumption DEF LoopValue, Train
<1>2. IsRetry(v0, lk, u, 0)
  BY <1>1 DEF IsRetry
<1> HIDE DEF v0
<1>3. g \in [1 .. n -> [LoopValue -> LoopValue]]
  <2>1. \A k \in 1 .. n, x \in LoopValue : Retried(x, k, u) \in LoopValue
    BY <1>1, RetriedType
  <2>2. QED BY <2>1
<1>4. PICK f : IsLoop(f, n, LoopValue, v0, g)
  <2> HIDE DEF n, g
  <2>1. QED BY <1>1, <1>3, LoopExists, Zenon
<1>5. /\ f \in [0 .. n -> LoopValue] /\ f[0] = v0
      /\ \A k \in 1 .. n : f[k] = g[k][f[k - 1]]
  <2> HIDE DEF n, g
  <2>1. QED BY <1>4 DEF IsLoop
<1>6. \A k \in 1 .. n : f[k] = Retried(f[k - 1], k, u)
  <2>1. \A k \in 1 .. n : k - 1 \in 0 .. n
    BY <1>1
  <2>2. QED BY <1>5, <2>1
<1>7. f = step(f)
  <2>1. ASSUME NEW k \in 0 .. n PROVE f[k] = step(f)[k]
    <3>1. CASE k = 0
      BY <1>1, <1>5, <3>1
    <3>2. CASE k # 0
      <4>1. k \in 1 .. n
        BY <1>1, <3>2
      <4> HIDE DEF n
      <4>2. QED BY <1>6, <3>2, <4>1
    <3>3. QED BY <3>1, <3>2
  <2>2. step(f) = [k \in 0 .. n |-> step(f)[k]]
    OBVIOUS
  <2> HIDE DEF step, n
  <2>3. QED BY <1>5, <2>1, <2>2
<1>8. after = step(after)
  <2> HIDE DEF step
  <2>1. QED BY <1>7
<1>9. RetryBlocked(lk, u) = after[n]
  BY DEF RetryBlocked, v0
<1> HIDE DEF after
<1>10. after[0] = v0 /\ \A k \in 1 .. n : after[k] = Retried(after[k - 1], k, u)
  <2>1. \A k \in 1 .. n : k \in 0 .. n /\ k # 0
    BY <1>1
  <2>2. 0 \in 0 .. n
    BY <1>1
  <2> HIDE DEF n
  <2>3. QED BY <1>8, <2>1, <2>2
<1> HIDE DEF n, g, step
<1>11. \A k \in 0 .. n : IsRetry(after[k], lk, u, k)
  <2> DEFINE T == {k \in Nat : k <= n /\ ~IsRetry(after[k], lk, u, k)}
  <2> SUFFICES ASSUME T # {} PROVE FALSE
    BY <1>1
  <2>1. T \in SUBSET Nat
    OBVIOUS
  <2>2. PICK m \in T : \A k \in T : m <= k
    <3> HIDE DEF T
    <3>1. QED BY <2>1, NatMin
  <2>3. m \in Nat /\ m <= n /\ ~IsRetry(after[m], lk, u, m)
    BY <2>2
  <2>4. m # 0
    BY <1>2, <1>10, <2>3
  <2>5. m \in 1 .. n /\ m \in Train /\ m - 1 \in Nat /\ m - 1 <= n /\ ~(m <= m - 1)
    BY <1>1, <2>3, <2>4
  <2>6. IsRetry(after[m - 1], lk, u, m - 1)
    BY <2>2, <2>5
  <2>7. after[m] = Retried(after[m - 1], m, u)
    BY <1>10, <2>5
  <2>8. IsRetry(Retried(after[m - 1], m, u), lk, u, m)
    BY <2>5, <2>6, RetryStep
  <2>9. QED BY <2>3, <2>7, <2>8
<1>12. n \in 0 .. n /\ n = N_TRNS
  BY <1>1 DEF n
<1>13. QED BY <1>9, <1>11, <1>12

-----------------------------------------------------------------------------
(* Who waits for what, whichever calls trains make                         *)

TrainState == {"idle", "blocked", "blocked_timeout", "blocked_timeout_two"}

\* The type of the server's variables and of the tasks' states
Typed ==
  /\ lock_sectors \in Locks
  /\ t_state \in [Train -> TrainState]
  /\ req \in [Train -> Requests \cup {NoReq}]
  /\ notif \in [Train -> {"idle", "delay"}]
  /\ task \in [Train -> {"run", "wait", "dead", "off"}]

\* A train whose task runs, or has none, is idle in the server; one that is
\* not idle is blocked on the request that it last made.
Asked ==
  \A t \in Train :
    /\ task[t] \in {"run", "off"} => t_state[t] = "idle"
    /\ t_state[t] # "idle" => /\ req[t] \in Requests
                              /\ req[t].call \in TrainCalls
                              /\ t_state[t] = BlockedState(req[t].call)

\* What trains ask for is a request that the server can try.
LEMMA RequestType ==
  ASSUME NEW r \in Requests
  PROVE  /\ IsRequest(r) /\ r.list \in Lists /\ r.call \in LockCall
         /\ BlockedState(r.call) \in TrainState \ {"idle"}
         /\ BlockedState(r.call) = "blocked" <=> r.call \in {"ALL", "ONE"}
         /\ BlockedState(r.call) = "blocked_timeout_two" <=> r.call \in {"TWO", "TWO_TIMEOUT"}
<1>1. /\ r.call \in LockCall /\ r.list \in Lists /\ r.second \in Lists \cup {<<>>}
  BY DEF Requests, LockCall
<1>2. IsRequest(r)
  <2>1. <<>> \in Seq(Segments) /\ Lists \subseteq Seq(Segments)
    BY TrackAssumption
  <2>2. QED BY <1>1, <2>1 DEF IsRequest
<1>3. /\ BlockedState(r.call) \in TrainState \ {"idle"}
      /\ BlockedState(r.call) = "blocked" <=> r.call \in {"ALL", "ONE"}
      /\ BlockedState(r.call) = "blocked_timeout_two" <=> r.call \in {"TWO", "TWO_TIMEOUT"}
  BY <1>1 DEF BlockedState, LockCall, TrainState
<1>4. QED BY <1>1, <1>2, <1>3

\* The loop of MSG_TS_FREE_SEGMENTS finds requests that it can try.
LEMMA AskedBlocked ==
  ASSUME Typed, Asked
  PROVE  BlockedAsk
<1>1. SUFFICES ASSUME NEW i \in Train, t_state[i] = "blocked"
               PROVE  IsRequest(req[i]) /\ req[i].call \in {"ALL", "ONE"} /\ req[i].list \in Lists
  BY DEF BlockedAsk
<1>2. req[i] \in Requests /\ BlockedState(req[i].call) = "blocked"
  BY <1>1 DEF Asked
<1>3. QED BY <1>2, RequestType

\* Locking and unlocking keep the locks well typed.
LEMMA LockType ==
  ASSUME NEW lk \in Locks, NEW S, NEW t \in Train
  PROVE  Lock(lk, S, t) \in Locks /\ Lock(lk, S, 0) \in Locks
<1>1. t \in 0 .. N_TRNS /\ 0 \in 0 .. N_TRNS
  BY TrackAssumption DEF Train
<1>2. QED BY <1>1 DEF Locks, Lock

\* Every step keeps it so.
LEMMA BaseNext == Typed /\ Asked /\ [Next]_vars => Typed' /\ Asked'
<1> SUFFICES ASSUME Typed, Asked, [Next]_vars PROVE Typed' /\ Asked'
  OBVIOUS
<1>1. CASE UNCHANGED vars
  BY <1>1 DEF vars, Typed, Asked
<1>2. ASSUME NEW t \in Train, NEW r \in Requests, Request(t, r) PROVE Typed' /\ Asked'
  <2> DEFINE got == Try(lock_sectors, r, t)
             b == BlockedState(r.call)
  <2>1. b \in TrainState \ {"idle"} /\ r.call \in TrainCalls
    BY <1>2, RequestType DEF Request
  <2>2. CASE got.ok
    <3>1. /\ lock_sectors' = Lock(lock_sectors, got.segs, t)
          /\ t_state' = [t_state EXCEPT ![t] = "idle"]
          /\ UNCHANGED <<req, notif, task>>
      BY <1>2, <2>2 DEF Request
    <3> HIDE DEF got
    <3>2. lock_sectors' \in Locks
      BY <3>1, LockType DEF Typed
    <3>3. QED BY <3>1, <3>2 DEF Typed, Asked, TrainState
  <2>3. CASE ~got.ok
    <3>1. /\ t_state' = [t_state EXCEPT ![t] = b]
          /\ req' = [req EXCEPT ![t] = r]
          /\ task' = [task EXCEPT ![t] = "wait"]
          /\ notif' = notif \/ notif' = [notif EXCEPT ![t] = "delay"]
          /\ UNCHANGED lock_sectors
      BY <1>2, <2>3 DEF Request, StartNotifier
    <3>2. Typed'
      BY <2>1, <3>1 DEF Typed
    <3>3. Asked'
      BY <2>1, <3>1 DEF Typed, Asked
    <3>4. QED BY <3>2, <3>3
  <2>4. QED BY <2>2, <2>3
<1>3. ASSUME NEW t \in Train, NEW list \in Lists, FreeSegments(t, list) PROVE Typed' /\ Asked'
  <2> DEFINE freed == {s \in Range(list) : lock_sectors[s] = t}
             v == RetryBlocked(Lock(lock_sectors, freed, 0), t)
             told == {g \in v.granted : task[g[1]] = "wait"}
             in(i, G) == \E g \in G : g[1] = i
  <2>1. v \in LoopValue
    <3>1. Lock(lock_sectors, freed, 0) \in Locks
      BY LockType DEF Typed
    <3> HIDE DEF freed
    <3>2. QED BY <3>1, AskedBlocked, RetryAll DEF IsRetry
  <2>2. /\ lock_sectors' = v.lock
        /\ t_state' = [i \in Train |-> IF in(i, v.granted) THEN "idle" ELSE t_state[i]]
        /\ req' = [i \in Train |-> IF in(i, v.granted) THEN NoReq ELSE req[i]]
        /\ task' = [i \in Train |-> IF in(i, told) THEN "run" ELSE task[i]]
        /\ UNCHANGED notif
    BY <1>3 DEF FreeSegments
  <2>3. \A i \in Train : in(i, told) => in(i, v.granted)
    OBVIOUS
  <2> HIDE DEF v, told, in
  <2>4. Typed'
    BY <2>1, <2>2 DEF Typed, LoopValue, TrainState
  <2>5. Asked'
    BY <2>2, <2>3 DEF Asked
  <2>6. QED BY <2>4, <2>5
<1>4. ASSUME NEW t \in Train, NEW keep, Unlock(t, keep), UNCHANGED notif,
             task' = task \/ task' = [task EXCEPT ![t] = "off"]
      PROVE  Typed' /\ Asked'
  <2>1. lock_sectors' \in Locks
    <3>1. 0 \in 0 .. N_TRNS
      BY TrackAssumption
    <3>2. QED BY <1>4, <3>1 DEF Unlock, Typed, Locks
  <2>2. Typed'
    BY <1>4, <2>1 DEF Unlock, Typed, TrainState
  <2>3. Asked'
    BY <1>4 DEF Unlock, Typed, Asked
  <2>4. QED BY <2>2, <2>3
<1>5. ASSUME NEW t \in Train, NEW s \in Segments, FreeAll(t, s) PROVE Typed' /\ Asked'
  BY <1>4, <1>5 DEF FreeAll
<1>6. ASSUME NEW t \in Train, Timeout(t) PROVE Typed' /\ Asked'
  <2>0. notif' \in [Train -> {"idle", "delay"}]
    BY <1>6 DEF Timeout, Typed
  <2>1. ASSUME NEW g, HandleTimeout(t, g) PROVE Typed' /\ Asked'
    <3>1. lock_sectors' \in Locks
      BY <2>1, LockType DEF HandleTimeout, Typed
    <3>2. /\ t_state' = [t_state EXCEPT ![t] = "idle"] /\ req' = [req EXCEPT ![t] = NoReq]
          /\ task' = task \/ task' = [task EXCEPT ![t] = "run"]
      BY <2>1 DEF HandleTimeout, ReplyTo
    <3>3. Typed'
      BY <2>0, <3>1, <3>2 DEF Typed, TrainState
    <3>4. Asked'
      BY <3>2 DEF Typed, Asked
    <3>5. QED BY <3>3, <3>4
  <2>2. CASE UNCHANGED <<lock_sectors, t_state, req, task, held>>
    BY <2>0, <2>2 DEF Typed, Asked
  <2>3. QED BY <1>6, <2>1, <2>2 DEF Timeout
<1>7. ASSUME NEW t \in Train, Kill(t) PROVE Typed' /\ Asked'
  BY <1>7 DEF Kill, Typed, Asked
<1>8. ASSUME NEW t \in Train, FreeKilled(t) PROVE Typed' /\ Asked'
  BY <1>4, <1>8 DEF FreeKilled
<1>9. ASSUME NEW t \in Train, Register(t) PROVE Typed' /\ Asked'
  <2>1. t \in 0 .. N_TRNS /\ Start[t] \in Segments
    BY TrackAssumption DEF Train
  <2>2. QED BY <1>9, <2>1 DEF Register, Typed, Asked, Locks
<1>10. QED
  BY <1>1, <1>2, <1>3, <1>5, <1>6, <1>7, <1>8, <1>9 DEF Next

\* All trains start idle.
LEMMA BaseInit == Init => Typed /\ Asked
<1>1. 0 \in 0 .. N_TRNS
  BY TrackAssumption
<1>2. QED BY <1>1 DEF Init, Typed, Asked, Locks, TrainState

-----------------------------------------------------------------------------
(* No train is forgotten                                                   *)

\* Nobody gives back locks in a way after which blocked trains are not tried
\* again: MSG_TS_FREE_ALL (track-server.c:386) has no loop over them.
FreedOneByOne == TrainCalls \cap {"FREE_ALL", "STOP"} = {}

\* The inductive invariant
WakeInv ==
  /\ Typed /\ Asked
  /\ \A t \in Train : task[t] # "dead"
  /\ NoLostWakeup

\* Steps that lock more for train t, and leave it idle, forget no other train.
LEMMA LockMoreWakes ==
  ASSUME Typed, Asked, NoLostWakeup, NEW t \in Train, NEW S,
         lock_sectors' = Lock(lock_sectors, S, t),
         \A u \in Train : u # t => t_state'[u] = t_state[u] /\ req'[u] = req[u],
         t_state'[t] # "blocked"
  PROVE  NoLostWakeup'
<1>1. SUFFICES ASSUME NEW u \in Train, t_state'[u] = "blocked"
               PROVE  ~Try(lock_sectors', req'[u], u).ok
  BY DEF NoLostWakeup
<1>2. u # t /\ t_state[u] = "blocked" /\ req'[u] = req[u]
  BY <1>1
<1>3. ~Try(lock_sectors, req[u], u).ok /\ IsRequest(req[u])
  BY <1>2, AskedBlocked DEF NoLostWakeup, BlockedAsk
<1>4. Tighter(lock_sectors, lock_sectors', u)
  BY <1>2, LockTighter DEF Typed
<1>5. QED BY <1>2, <1>3, <1>4, TryTighter

\* The tasks wait for segments that another train has, and are served when
\* they are freed: a request that blocks without timeout is, in every state,
\* one that the server could not grant.
THEOREM WaitersAreServed ==
  ASSUME FreedOneByOne
  PROVE  Spec => []NoLostWakeup
<1>1. Init => WakeInv
  <2>1. Init => NoLostWakeup /\ \A t \in Train : task[t] # "dead"
    BY DEF Init, NoLostWakeup
  <2>2. QED BY <2>1, BaseInit DEF WakeInv
<1>2. WakeInv /\ [Next]_vars => WakeInv'
  <2> SUFFICES ASSUME WakeInv, [Next]_vars PROVE WakeInv'
    OBVIOUS
  <2>1. /\ Typed /\ Asked /\ NoLostWakeup /\ Typed' /\ Asked'
        /\ \A t \in Train : task[t] # "dead"
    BY BaseNext DEF WakeInv
  <2>2. SUFFICES (\A t \in Train : task'[t] # "dead") /\ NoLostWakeup'
    BY <2>1 DEF WakeInv
  <2>3. CASE UNCHANGED vars
    BY <2>1, <2>3 DEF vars, NoLostWakeup
  <2>4. ASSUME NEW t \in Train, NEW r \in Requests, Request(t, r)
        PROVE  (\A u \in Train : task'[u] # "dead") /\ NoLostWakeup'
    <3> DEFINE got == Try(lock_sectors, r, t)
    <3>1. CASE got.ok
      <4>1. /\ lock_sectors' = Lock(lock_sectors, got.segs, t)
            /\ t_state' = [t_state EXCEPT ![t] = "idle"] /\ UNCHANGED <<req, task>>
        BY <2>4, <3>1 DEF Request
      <4> HIDE DEF got
      <4>2. (\A u \in Train : u # t => t_state'[u] = t_state[u] /\ req'[u] = req[u])
            /\ t_state'[t] # "blocked"
        BY <2>1, <4>1 DEF Typed
      <4>3. QED BY <2>1, <4>1, <4>2, LockMoreWakes
    <3>2. CASE ~got.ok
      <4>1. /\ t_state' = [t_state EXCEPT ![t] = BlockedState(r.call)]
            /\ req' = [req EXCEPT ![t] = r] /\ task' = [task EXCEPT ![t] = "wait"]
            /\ UNCHANGED lock_sectors
        BY <2>4, <3>2 DEF Request
      <4>2. \A u \in Train : u # t => t_state'[u] = t_state[u] /\ req'[u] = req[u]
        BY <2>1, <4>1 DEF Typed
      <4>3. req'[t] = r
        BY <2>1, <4>1 DEF Typed
      <4>4. ASSUME NEW u \in Train, t_state'[u] = "blocked"
            PROVE  ~Try(lock_sectors', req'[u], u).ok
        <5>1. CASE u = t
          BY <3>2, <4>1, <4>3, <5>1
        <5>2. CASE u # t
          BY <2>1, <4>1, <4>2, <4>4, <5>2 DEF NoLostWakeup
        <5>3. QED BY <5>1, <5>2
      <4>5. \A u \in Train : task'[u] # "dead"
        BY <2>1, <4>1 DEF Typed
      <4>6. QED BY <4>4, <4>5 DEF NoLostWakeup
    <3>3. QED BY <3>1, <3>2
  <2>5. ASSUME NEW t \in Train, NEW list \in Lists, FreeSegments(t, list)
        PROVE  (\A u \in Train : task'[u] # "dead") /\ NoLostWakeup'
    <3> DEFINE freed == {s \in Range(list) : lock_sectors[s] = t}
               v == RetryBlocked(Lock(lock_sectors, freed, 0), t)
               told == {g \in v.granted : task[g[1]] = "wait"}
               in(i, G) == \E g \in G : g[1] = i
    <3>1. IsRetry(v, Lock(lock_sectors, freed, 0), t, N_TRNS)
      <4>1. Lock(lock_sectors, freed, 0) \in Locks
        BY <2>1, LockType DEF Typed
      <4> HIDE DEF freed
      <4>2. QED BY <2>1, <4>1, AskedBlocked, RetryAll
    <3>2. /\ lock_sectors' = v.lock /\ task[t] = "run"
          /\ t_state' = [i \in Train |-> IF in(i, v.granted) THEN "idle" ELSE t_state[i]]
          /\ req' = [i \in Train |-> IF in(i, v.granted) THEN NoReq ELSE req[i]]
          /\ task' = [i \in Train |-> IF in(i, told) THEN "run" ELSE task[i]]
      BY <2>5 DEF FreeSegments
    <3> HIDE DEF v, told
    <3>3. \A u \in Train : task'[u] # "dead"
      BY <2>1, <3>2
    <3>4. ASSUME NEW u \in Train, t_state'[u] = "blocked"
          PROVE  ~Try(lock_sectors', req'[u], u).ok
      <4>1. ~in(u, v.granted) /\ t_state[u] = "blocked" /\ req'[u] = req[u]
        BY <3>2, <3>4
      <4>2. u # t
        BY <2>1, <3>2, <4>1 DEF Asked
      <4>3. u \in 1 .. N_TRNS
        BY DEF Train
      <4>4. ~Try(v.lock, req[u], u).ok
        BY <3>1, <4>1, <4>2, <4>3 DEF IsRetry
      <4>5. QED BY <3>2, <4>1, <4>4
    <3>5. QED BY <3>3, <3>4 DEF NoLostWakeup
  <2>6. ASSUME NEW t \in Train, Timeout(t)
        PROVE  (\A u \in Train : task'[u] # "dead") /\ NoLostWakeup'
    <3>1. ASSUME NEW g, HandleTimeout(t, g)
          PROVE  (\A u \in Train : task'[u] # "dead") /\ NoLostWakeup'
      <4>1. PICK S : lock_sectors' = Lock(lock_sectors, S, t)
        <5>1. lock_sectors = Lock(lock_sectors, {}, t)
          BY <2>1 DEF Typed, Locks, Lock
        <5>2. QED BY <3>1, <5>1 DEF HandleTimeout
      <4>2. /\ t_state' = [t_state EXCEPT ![t] = "idle"] /\ req' = [req EXCEPT ![t] = NoReq]
            /\ task' = task \/ task' = [task EXCEPT ![t] = "run"]
        BY <3>1 DEF HandleTimeout, ReplyTo
      <4>3. (\A u \in Train : u # t => t_state'[u] = t_state[u] /\ req'[u] = req[u])
            /\ t_state'[t] # "blocked"
        BY <2>1, <4>2 DEF Typed
      <4>4. NoLostWakeup'
        BY <2>1, <4>1, <4>3, LockMoreWakes
      <4>5. \A u \in Train : task'[u] # "dead"
        BY <2>1, <4>2 DEF Typed
      <4>6. QED BY <4>4, <4>5
    <3>2. CASE UNCHANGED <<lock_sectors, t_state, req, task, held>>
      BY <2>1, <3>2 DEF NoLostWakeup
    <3>3. QED BY <2>6, <3>1, <3>2 DEF Timeout
  <2>7. ASSUME NEW t \in Train, Register(t)
        PROVE  (\A u \in Train : task'[u] # "dead") /\ NoLostWakeup'
    <3>1. /\ lock_sectors' = [lock_sectors EXCEPT ![Start[t]] = t]
          /\ task[t] = "off" /\ task' = [task EXCEPT ![t] = "run"] /\ UNCHANGED <<t_state, req>>
      BY <2>7 DEF Register
    <3>2. lock_sectors' = Lock(lock_sectors, {Start[t]}, t)
      BY <2>1, <3>1, TrackAssumption DEF Typed, Locks, Lock
    <3>3. t_state'[t] # "blocked"
      BY <2>1, <3>1 DEF Asked
    <3>4. NoLostWakeup'
      BY <2>1, <3>1, <3>2, <3>3, LockMoreWakes
    <3>5. QED BY <2>1, <3>1, <3>4 DEF Typed
  <2>8. ASSUME NEW t \in Train PROVE /\ ~Kill(t) /\ ~FreeKilled(t)
                                     /\ \A s \in Segments : ~FreeAll(t, s)
    BY <2>1 DEF Kill, FreeKilled, FreeAll, FreedOneByOne
  <2>9. QED
    BY <2>3, <2>4, <2>5, <2>6, <2>7, <2>8 DEF Next
<1>3. WakeInv => NoLostWakeup
  BY DEF WakeInv
<1>4. QED BY <1>1, <1>2, <1>3, PTL DEF Spec

-----------------------------------------------------------------------------
(* What a train holds is locked for it                                     *)

\* What the trains and their operator must keep to.  Nobody asks for one of
\* two lists; trains that are stopped do not use the call that believes a
\* refusal, since the notifier of an earlier task may refuse it; and a train
\* is started on a segment of its own, which MSG_TS_TRAIN_REGISTER does not
\* check.
UsedSafely ==
  /\ TrainCalls \cap {"TWO", "TWO_TIMEOUT"} = {}
  /\ ~({"ALL", "STOP"} \subseteq TrainCalls)
  /\ \A t, u \in Train : Start[t] = Start[u] => t = u
  /\ \A t \in Train : Unlisted(Start[t])

\* A segment where a train starts is never locked for another one.
StartOwn == \A t \in Train : lock_sectors[Start[t]] \in {0, t}

\* No notifier can refuse a request for all segments without timeout.
NoEarlyRefusal ==
  \A t \in Train : t_state[t] # "idle" /\ req[t].call = "ALL" => notif[t] = "idle"

\* If trains are not stopped, a notifier delays only for the request at hand.
NotifiersFresh ==
  "STOP" \notin TrainCalls =>
    \A t \in Train : /\ task[t] # "dead"
                     /\ notif[t] = "delay" => t_state[t] = "blocked_timeout"

\* A task that was killed is told nothing any more.
DeadHoldNothing == \A t \in Train : task[t] = "dead" => held[t] = {}

\* The inductive invariant
HeldInv ==
  /\ Typed /\ Asked
  /\ held \in [Train -> SUBSET Segments]
  /\ HeldIsLocked
  /\ StartOwn
  /\ NoEarlyRefusal
  /\ NotifiersFresh
  /\ DeadHoldNothing

\* Locking free segments S for train t, and telling at most t of it
LEMMA LockHolds ==
  ASSUME UsedSafely, HeldInv, NEW t \in Train, NEW S \in SUBSET Segments,
         \A s \in S : lock_sectors[s] \in {0, t} /\ ~Unlisted(s),
         lock_sectors' = Lock(lock_sectors, S, t),
         \/ UNCHANGED held
         \/ held' = [held EXCEPT ![t] = @ \cup S]
  PROVE  /\ held' \in [Train -> SUBSET Segments]
         /\ HeldIsLocked'
         /\ StartOwn'
<1>1. /\ held \in [Train -> SUBSET Segments] /\ lock_sectors \in Locks
      /\ \A u \in Train : Start[u] \in Segments
      /\ 0 \notin Train
  BY TrackAssumption DEF HeldInv, Typed, Train
<1>2. \A s \in Segments : lock_sectors'[s] = IF s \in S THEN t ELSE lock_sectors[s]
  BY DEF Lock
<1>3. held' \in [Train -> SUBSET Segments]
  BY <1>1
<1>4. ASSUME NEW u \in Train, NEW s \in held'[u] PROVE lock_sectors'[s] = u
  <2>1. s \in Segments
    BY <1>3, <1>4
  <2>2. CASE s \in held[u]
    <3>1. lock_sectors[s] = u
      BY <2>2 DEF HeldInv, HeldIsLocked
    <3>2. QED BY <1>1, <1>2, <2>1, <3>1
  <2>3. CASE u = t /\ s \in S
    BY <1>2, <2>1, <2>3
  <2>4. QED BY <1>1, <1>4, <2>2, <2>3
<1>5. StartOwn'
  <2>1. ASSUME NEW u \in Train PROVE lock_sectors'[Start[u]] \in {0, u}
    BY <1>1, <1>2 DEF UsedSafely, HeldInv, StartOwn
  <2>2. QED BY <2>1 DEF StartOwn
<1>6. QED BY <1>3, <1>4, <1>5 DEF HeldIsLocked

\* A request that is tried and can be granted, of a train that asks for lists
LEMMA TrySafe ==
  ASSUME UsedSafely, HeldInv, NEW t \in Train, NEW r \in Requests, r.call \in TrainCalls,
         Try(lock_sectors, r, t).ok
  PROVE  LET got == Try(lock_sectors, r, t) IN
         /\ got.segs \in SUBSET Segments
         /\ \A s \in got.segs : lock_sectors[s] \in {0, t} /\ ~Unlisted(s)
         /\ Believed(r, TRUE, got.n) = {got.segs}
<1> DEFINE got == Try(lock_sectors, r, t)
<1>1. IsRequest(r) /\ r.list \in Lists /\ r.call \in LockCall
  BY RequestType
<1>2. Grants(got, lock_sectors, r, t)
  BY <1>1, TryGrants
<1>3. r.call \notin {"TWO", "TWO_TIMEOUT", "NONE"}
  BY <1>1 DEF UsedSafely, LockCall
<1> HIDE DEF got
<1>4. /\ got.segs \in SUBSET Segments
      /\ \A s \in got.segs : lock_sectors[s] \in {0, t} /\ ~Unlisted(s)
      /\ Believed(r, TRUE, got.n) = {got.segs}
  BY <1>1, <1>2, <1>3 DEF Grants, Unlisted
<1>5. QED BY <1>4 DEF got

\* MSG_TS_REQUEST_SEGMENTS_* keeps the invariant.
LEMMA RequestHolds ==
  ASSUME UsedSafely, HeldInv, Typed', Asked', NEW t \in Train, NEW r \in Requests, Request(t, r)
  PROVE  HeldInv'
<1> DEFINE got == Try(lock_sectors, r, t)
<1>1. /\ Typed /\ Asked /\ HeldIsLocked /\ StartOwn /\ NoEarlyRefusal /\ NotifiersFresh
      /\ DeadHoldNothing /\ held \in [Train -> SUBSET Segments]
  BY DEF HeldInv
<1>2. task[t] = "run" /\ r.call \in TrainCalls /\ t_state[t] = "idle"
  BY <1>1 DEF Request, Asked
<1>3. CASE got.ok
  <2>1. /\ lock_sectors' = Lock(lock_sectors, got.segs, t)
        /\ t_state' = [t_state EXCEPT ![t] = "idle"]
        /\ \E S \in Believed(r, TRUE, got.n) : held' = [held EXCEPT ![t] = @ \cup S]
        /\ UNCHANGED <<req, notif, task>>
    BY <1>3 DEF Request
  <2>2. /\ got.segs \in SUBSET Segments
        /\ \A s \in got.segs : lock_sectors[s] \in {0, t} /\ ~Unlisted(s)
        /\ Believed(r, TRUE, got.n) = {got.segs}
    BY <1>2, <1>3, TrySafe
  <2> HIDE DEF got
  <2>3. held' = [held EXCEPT ![t] = @ \cup got.segs]
    BY <2>1, <2>2
  <2>4. held' \in [Train -> SUBSET Segments] /\ HeldIsLocked' /\ StartOwn'
    BY <2>1, <2>2, <2>3, LockHolds
  <2>5. t_state' = t_state
    BY <1>1, <1>2, <2>1 DEF Typed
  <2>6. NoEarlyRefusal' /\ NotifiersFresh'
    BY <1>1, <2>1, <2>5 DEF NoEarlyRefusal, NotifiersFresh
  <2>7. DeadHoldNothing'
    BY <1>1, <1>2, <2>1, <2>3 DEF DeadHoldNothing
  <2>8. QED BY <2>4, <2>6, <2>7 DEF HeldInv
<1>4. CASE ~got.ok
  <2>1. /\ t_state' = [t_state EXCEPT ![t] = BlockedState(r.call)]
        /\ req' = [req EXCEPT ![t] = r] /\ task' = [task EXCEPT ![t] = "wait"]
        /\ notif' = IF BlockedState(r.call) = "blocked" THEN notif ELSE [notif EXCEPT ![t] = "delay"]
        /\ UNCHANGED <<lock_sectors, held>>
    BY <1>4 DEF Request, StartNotifier
  <2> HIDE DEF got
  <2>2. /\ BlockedState(r.call) \in {"blocked", "blocked_timeout"}
        /\ BlockedState(r.call) = "blocked" <=> r.call \in {"ALL", "ONE"}
    BY <1>2, RequestType DEF UsedSafely, TrainState
  <2>3. "STOP" \notin TrainCalls => notif[t] = "idle"
    BY <1>1, <1>2 DEF NotifiersFresh, Typed
  <2>4. NoEarlyRefusal'
    <3>1. ASSUME NEW u \in Train, t_state'[u] # "idle", req'[u].call = "ALL"
          PROVE  notif'[u] = "idle"
      <4>1. CASE u = t
        <5>1. r.call = "ALL" /\ "STOP" \notin TrainCalls
          BY <1>1, <1>2, <2>1, <3>1, <4>1 DEF Typed, UsedSafely
        <5>2. notif' = notif
          BY <2>1, <2>2, <5>1
        <5>3. QED BY <2>3, <4>1, <5>1, <5>2
      <4>2. CASE u # t
        <5>1. t_state'[u] = t_state[u] /\ req'[u] = req[u] /\ notif'[u] = notif[u]
          BY <1>1, <2>1, <4>2 DEF Typed
        <5>2. QED BY <1>1, <3>1, <5>1 DEF NoEarlyRefusal
      <4>3. QED BY <4>1, <4>2
    <3>2. QED BY <3>1 DEF NoEarlyRefusal
  <2>5. NotifiersFresh'
    <3>1. ASSUME NEW u \in Train, "STOP" \notin TrainCalls
          PROVE  task'[u] # "dead" /\ (notif'[u] = "delay" => t_state'[u] = "blocked_timeout")
      <4>1. CASE u = t
        BY <1>1, <2>1, <2>2, <2>3, <3>1, <4>1 DEF Typed
      <4>2. CASE u # t
        <5>1. task'[u] = task[u] /\ t_state'[u] = t_state[u] /\ notif'[u] = notif[u]
          BY <1>1, <2>1, <4>2 DEF Typed
        <5>2. QED BY <1>1, <3>1, <5>1 DEF NotifiersFresh
      <4>3. QED BY <4>1, <4>2
    <3>2. QED BY <3>1 DEF NotifiersFresh
  <2>6. HeldIsLocked' /\ StartOwn'
    BY <1>1, <2>1 DEF HeldIsLocked, StartOwn
  <2>7. DeadHoldNothing'
    BY <1>1, <2>1 DEF DeadHoldNothing, Typed
  <2>8. QED BY <1>1, <2>1, <2>4, <2>5, <2>6, <2>7 DEF HeldInv
<1>5. QED BY <1>3, <1>4

\* MSG_TS_FREE_SEGMENTS keeps the invariant.
LEMMA FreeHolds ==
  ASSUME UsedSafely, HeldInv, Typed', Asked', NEW t \in Train, NEW list \in Lists,
         FreeSegments(t, list)
  PROVE  HeldInv'
<1> DEFINE freed == {s \in Range(list) : lock_sectors[s] = t}
           lk == Lock(lock_sectors, freed, 0)
           v == RetryBlocked(lk, t)
           told == {g \in v.granted : task[g[1]] = "wait"}
           got(i) == UNION {UNION Believed(req[i], TRUE, g[2]) : g \in {h \in told : h[1] = i}}
           in(i, G) == \E g \in G : g[1] = i
           base(i) == IF i = t THEN held[i] \ Range(list) ELSE held[i]
<1>1. /\ Typed /\ Asked /\ HeldIsLocked /\ StartOwn /\ NoEarlyRefusal /\ NotifiersFresh
      /\ DeadHoldNothing /\ held \in [Train -> SUBSET Segments]
  BY DEF HeldInv
<1>2. lk \in Locks /\ \A s \in Segments : lk[s] = IF s \in freed THEN 0 ELSE lock_sectors[s]
  BY <1>1, LockType DEF Typed, Lock
<1>3. IsRetry(v, lk, t, N_TRNS)
  <2> HIDE DEF lk
  <2>1. QED BY <1>1, <1>2, AskedBlocked, RetryAll
<1>4. /\ lock_sectors' = v.lock
      /\ t_state' = [i \in Train |-> IF in(i, v.granted) THEN "idle" ELSE t_state[i]]
      /\ req' = [i \in Train |-> IF in(i, v.granted) THEN NoReq ELSE req[i]]
      /\ task' = [i \in Train |-> IF in(i, told) THEN "run" ELSE task[i]]
      /\ held' = [i \in Train |-> base(i) \cup got(i)]
      /\ UNCHANGED notif
  BY DEF FreeSegments
<1>5. /\ \A s \in Segments : lk[s] # 0 \/ Unlisted(s) => v.lock[s] = lk[s]
      /\ \A g \in v.granted : GrantLocked(g, v.lock)
  BY <1>3 DEF IsRetry
<1> HIDE DEF lk, v
<1>6. ASSUME NEW i \in Train, NEW s \in got(i) PROVE s \in Segments /\ v.lock[s] = i
  <2>1. PICK g \in told : g[1] = i /\ \E B \in Believed(req[i], TRUE, g[2]) : s \in B
    BY <1>6
  <2>2. GrantLocked(g, v.lock)
    BY <1>5
  <2>3. QED BY <2>1, <2>2 DEF GrantLocked
<1>7. ASSUME NEW i \in Train, NEW s \in base(i) PROVE s \in Segments /\ v.lock[s] = i
  <2>1. s \in held[i] /\ s \in Segments /\ lock_sectors[s] = i
    BY <1>1, <1>7 DEF HeldIsLocked
  <2>2. s \notin freed
    BY <1>7, <2>1
  <2>3. lk[s] = i /\ i # 0
    BY <1>2, <2>1, <2>2 DEF Train
  <2>4. QED BY <1>5, <2>1, <2>3
<1>8. StartOwn'
  <2>1. ASSUME NEW u \in Train PROVE lock_sectors'[Start[u]] \in {0, u}
    <3>1. Start[u] \in Segments /\ Unlisted(Start[u])
      BY TrackAssumption DEF UsedSafely
    <3>2. v.lock[Start[u]] = lk[Start[u]]
      BY <1>5, <3>1
    <3>3. QED BY <1>1, <1>2, <1>4, <3>1, <3>2 DEF StartOwn
  <2>2. QED BY <2>1 DEF StartOwn
<1>9. \A i \in Train : in(i, v.granted) => t_state[i] = "blocked"
  BY <1>5 DEF GrantLocked
<1>0. ASSUME NEW i \in Train, task[i] = "dead" PROVE base(i) = {} /\ got(i) = {}
  BY <1>0, <1>1 DEF DeadHoldNothing
<1> HIDE DEF base, got, told, in
<1>10. held' \in [Train -> SUBSET Segments] /\ HeldIsLocked'
  <2>1. \A i \in Train : held'[i] = base(i) \cup got(i)
    BY <1>4
  <2>2. \A i \in Train : \A s \in held'[i] : s \in Segments /\ v.lock[s] = i
    BY <1>6, <1>7, <2>1
  <2>3. held' \in [Train -> SUBSET Segments]
    BY <1>4, <2>1, <2>2
  <2>4. QED BY <1>4, <2>2, <2>3 DEF HeldIsLocked
<1>11. NoEarlyRefusal'
  BY <1>1, <1>4 DEF NoEarlyRefusal
<1>12. NotifiersFresh'
  BY <1>1, <1>4, <1>9 DEF NotifiersFresh
<1>13. DeadHoldNothing'
  <2>1. ASSUME NEW i \in Train, task'[i] = "dead" PROVE held'[i] = {}
    <3>1. task[i] = "dead"
      BY <1>4, <2>1
    <3>2. QED BY <1>0, <1>4, <3>1
  <2>2. QED BY <2>1 DEF DeadHoldNothing
<1>14. QED BY <1>8, <1>10, <1>11, <1>12, <1>13 DEF HeldInv

\* MSG_TS_FREE_ALL, by the train or for one that was stopped, keeps it.
LEMMA UnlockHolds ==
  ASSUME UsedSafely, HeldInv, Typed', Asked', NEW t \in Train, NEW keep, Unlock(t, keep),
         UNCHANGED notif,
         \/ /\ task[t] = "run" /\ UNCHANGED task
            /\ held' = [held EXCEPT ![t] = @ \cap keep]
         \/ /\ task[t] = "dead" /\ task' = [task EXCEPT ![t] = "off"]
            /\ UNCHANGED held
  PROVE  HeldInv'
<1>1. /\ Typed /\ Asked /\ HeldIsLocked /\ StartOwn /\ NoEarlyRefusal /\ NotifiersFresh
      /\ DeadHoldNothing /\ held \in [Train -> SUBSET Segments]
  BY DEF HeldInv
<1>2. /\ \A s \in Segments : lock_sectors'[s] =
           IF lock_sectors[s] = t /\ s \notin keep THEN 0 ELSE lock_sectors[s]
      /\ t_state' = [t_state EXCEPT ![t] = "idle"]
      /\ req' = [req EXCEPT ![t] = NoReq]
  BY DEF Unlock
<1>3. held' \in [Train -> SUBSET Segments]
  BY <1>1
<1>4. ASSUME NEW u \in Train, NEW s \in held'[u] PROVE lock_sectors'[s] = u
  <2>1. s \in held[u] /\ s \in Segments /\ (u = t => s \in keep)
    BY <1>1, <1>4 DEF DeadHoldNothing
  <2>2. lock_sectors[s] = u
    BY <1>1, <2>1 DEF HeldIsLocked
  <2>3. QED BY <1>2, <2>1, <2>2
<1>5. StartOwn'
  BY <1>1, <1>2, TrackAssumption DEF StartOwn
<1>6. NoEarlyRefusal'
  BY <1>1, <1>2 DEF NoEarlyRefusal, Typed
<1>7. NotifiersFresh'
  <2>1. "STOP" \notin TrainCalls => task[t] = "run" /\ t_state[t] = "idle"
    BY <1>1 DEF NotifiersFresh, Asked
  <2>2. QED BY <1>1, <1>2, <2>1 DEF NotifiersFresh, Typed
<1>8. DeadHoldNothing'
  BY <1>1 DEF DeadHoldNothing, Typed
<1>9. QED BY <1>3, <1>4, <1>5, <1>6, <1>7, <1>8 DEF HeldInv, HeldIsLocked

\* MSG_TS_NOTIF keeps it: what is granted at the last moment is locked, and
\* the train that is refused knows it.
LEMMA TimeoutHolds ==
  ASSUME UsedSafely, HeldInv, Typed', Asked', NEW t \in Train, Timeout(t)
  PROVE  HeldInv'
<1>1. /\ Typed /\ Asked /\ HeldIsLocked /\ StartOwn /\ NoEarlyRefusal /\ NotifiersFresh
      /\ DeadHoldNothing /\ held \in [Train -> SUBSET Segments]
  BY DEF HeldInv
<1>2. notif[t] = "delay" /\ notif' = [notif EXCEPT ![t] = "idle"]
  BY DEF Timeout
<1>3. CASE t_state[t] = "idle"
  <2>1. UNCHANGED <<lock_sectors, t_state, req, task, held>>
    BY <1>3 DEF Timeout
  <2>2. HeldIsLocked' /\ StartOwn' /\ DeadHoldNothing'
    BY <1>1, <2>1 DEF HeldIsLocked, StartOwn, DeadHoldNothing
  <2>3. NoEarlyRefusal' /\ NotifiersFresh'
    BY <1>1, <1>2, <2>1 DEF NoEarlyRefusal, NotifiersFresh, Typed
  <2>4. QED BY <1>1, <2>1, <2>2, <2>3 DEF HeldInv
<1>4. CASE t_state[t] # "idle"
  <2> DEFINE got == Try(lock_sectors, req[t], t)
  <2>1. /\ req[t] \in Requests /\ req[t].call \in TrainCalls
        /\ t_state[t] = BlockedState(req[t].call)
    BY <1>1, <1>4 DEF Asked
  <2>2. req[t].call \in {"ONE", "ALL_TIMEOUT", "ONE_TIMEOUT"}
    <3>1. req[t].call \in LockCall
      BY <2>1, RequestType
    <3>2. req[t].call # "ALL"
      BY <1>1, <1>2, <1>4 DEF NoEarlyRefusal
    <3>3. QED BY <2>1, <3>1, <3>2 DEF UsedSafely, LockCall
  <2>3. t_state[t] # "blocked_timeout_two"
    BY <2>1, <2>2, RequestType
  <2>4. HandleTimeout(t, NoReq)
    BY <1>4, <2>3 DEF Timeout
  <2>5. /\ lock_sectors' = IF got.ok THEN Lock(lock_sectors, got.segs, t) ELSE lock_sectors
        /\ t_state' = [t_state EXCEPT ![t] = "idle"] /\ req' = [req EXCEPT ![t] = NoReq]
        /\ ReplyTo(t, req[t], got.ok, got.n)
    BY <2>3, <2>4 DEF HandleTimeout
  <2>6. /\ task' = task \/ task' = [task EXCEPT ![t] = "run"]
        /\ task[t] # "wait" => UNCHANGED held
    BY <2>5 DEF ReplyTo
  <2>7. held' \in [Train -> SUBSET Segments] /\ HeldIsLocked' /\ StartOwn'
    <3>1. CASE got.ok
      <4>1. /\ got.segs \in SUBSET Segments
            /\ \A s \in got.segs : lock_sectors[s] \in {0, t} /\ ~Unlisted(s)
            /\ Believed(req[t], TRUE, got.n) = {got.segs}
        BY <2>1, <3>1, TrySafe
      <4>2. got.ok = TRUE
        BY <3>1, <2>2 DEF Try, LockAllSafe, LockOneSafe, Refused, Result
      <4>3. lock_sectors' = Lock(lock_sectors, got.segs, t)
        BY <2>5, <3>1
      <4> HIDE DEF got
      <4>4. UNCHANGED held \/ held' = [held EXCEPT ![t] = @ \cup got.segs]
        BY <2>5, <4>1, <4>2 DEF ReplyTo
      <4>5. QED BY <4>1, <4>3, <4>4, LockHolds
    <3>2. CASE ~got.ok
      <4>1. Believed(req[t], got.ok, got.n) = {{}}
        <5> HIDE DEF got
        <5>1. CASE req[t].call = "ALL_TIMEOUT"
          BY <3>2, <5>1 DEF Believed
        <5>2. CASE req[t].call \in {"ONE", "ONE_TIMEOUT"}
          BY <3>2, <5>2 DEF Believed
        <5>3. QED BY <2>2, <5>1, <5>2
      <4>2. lock_sectors' = lock_sectors
        BY <2>5, <3>2
      <4> HIDE DEF got
      <4>3. held' = held
        BY <1>1, <2>5, <4>1 DEF ReplyTo
      <4>4. QED BY <1>1, <4>2, <4>3 DEF HeldIsLocked, StartOwn
    <3>3. QED BY <3>1, <3>2
  <2> HIDE DEF got
  <2>8. NoEarlyRefusal'
    BY <1>1, <1>2, <2>5 DEF NoEarlyRefusal, Typed
  <2>9. NotifiersFresh'
    BY <1>1, <1>2, <2>5, <2>6 DEF NotifiersFresh, Typed
  <2>10. DeadHoldNothing'
    <3>1. \A u \in Train : u # t => held'[u] = held[u]
      BY <1>1, <2>5 DEF ReplyTo
    <3>2. task'[t] = "dead" => task[t] = "dead" /\ held'[t] = held[t]
      BY <1>1, <2>6 DEF Typed
    <3>3. QED BY <1>1, <2>6, <3>1, <3>2 DEF DeadHoldNothing, Typed
  <2>11. QED BY <2>7, <2>8, <2>9, <2>10 DEF HeldInv
<1>5. QED BY <1>3, <1>4

\* MSG_TS_TRAIN_REGISTER keeps it: nobody else has locked the train's start.
LEMMA RegisterHolds ==
  ASSUME UsedSafely, HeldInv, Typed', Asked', NEW t \in Train, Register(t)
  PROVE  HeldInv'
<1>1. /\ Typed /\ Asked /\ HeldIsLocked /\ StartOwn /\ NoEarlyRefusal /\ NotifiersFresh
      /\ DeadHoldNothing /\ held \in [Train -> SUBSET Segments]
  BY DEF HeldInv
<1>2. /\ lock_sectors' = [lock_sectors EXCEPT ![Start[t]] = t]
      /\ task' = [task EXCEPT ![t] = "run"] /\ held' = [held EXCEPT ![t] = {Start[t]}]
      /\ UNCHANGED <<t_state, req, notif>>
  BY DEF Register
<1>3. Start[t] \in Segments /\ 0 \notin Train /\ lock_sectors \in [Segments -> 0 .. N_TRNS]
  BY <1>1, TrackAssumption DEF Train, Typed, Locks
<1>4. held' \in [Train -> SUBSET Segments]
  BY <1>1, <1>2, <1>3
<1>5. ASSUME NEW u \in Train, NEW s \in held'[u] PROVE lock_sectors'[s] = u
  <2>1. CASE u = t
    <3>1. s = Start[t]
      BY <1>1, <1>2, <1>5, <2>1
    <3>2. QED BY <1>2, <1>3, <2>1, <3>1
  <2>2. CASE u # t
    <3>1. s \in held[u] /\ s \in Segments /\ lock_sectors[s] = u
      BY <1>1, <1>2, <1>5, <2>2 DEF HeldIsLocked
    <3>2. s # Start[t]
      BY <1>1, <1>3, <2>2, <3>1 DEF StartOwn
    <3>3. QED BY <1>2, <1>3, <3>1, <3>2
  <2>3. QED BY <2>1, <2>2
<1>6. StartOwn'
  BY <1>1, <1>2, <1>3, TrackAssumption DEF StartOwn, UsedSafely
<1>7. NoEarlyRefusal' /\ NotifiersFresh' /\ DeadHoldNothing'
  BY <1>1, <1>2 DEF NoEarlyRefusal, NotifiersFresh, DeadHoldNothing, Typed
<1>8. QED BY <1>4, <1>5, <1>6, <1>7 DEF HeldInv, HeldIsLocked

\* Stopping a train keeps it.
LEMMA KillHolds ==
  ASSUME HeldInv, Typed', Asked', NEW t \in Train, Kill(t)
  PROVE  HeldInv'
<1>1. /\ Typed /\ Asked /\ HeldIsLocked /\ StartOwn /\ NoEarlyRefusal /\ NotifiersFresh
      /\ DeadHoldNothing /\ held \in [Train -> SUBSET Segments]
  BY DEF HeldInv
<1>2. /\ task' = [task EXCEPT ![t] = "dead"] /\ held' = [held EXCEPT ![t] = {}]
      /\ UNCHANGED <<lock_sectors, t_state, req, notif>> /\ "STOP" \in TrainCalls
  BY DEF Kill
<1>3. held' \in [Train -> SUBSET Segments] /\ HeldIsLocked' /\ DeadHoldNothing'
  BY <1>1, <1>2 DEF HeldIsLocked, DeadHoldNothing, Typed
<1>4. StartOwn' /\ NoEarlyRefusal' /\ NotifiersFresh'
  BY <1>1, <1>2 DEF StartOwn, NoEarlyRefusal, NotifiersFresh
<1>5. QED BY <1>3, <1>4 DEF HeldInv

\* A train takes itself to hold only segments that the server has locked for
\* it, so two trains never hold the same segment.
THEOREM HoldsWhatIsLocked ==
  ASSUME UsedSafely
  PROVE  Spec => []HeldIsLocked
<1>1. Init => HeldInv
  <2>1. Init => /\ held \in [Train -> SUBSET Segments] /\ HeldIsLocked /\ StartOwn
                /\ NoEarlyRefusal /\ NotifiersFresh /\ DeadHoldNothing
    BY TrackAssumption DEF Init, HeldIsLocked, StartOwn, NoEarlyRefusal, NotifiersFresh,
                           DeadHoldNothing
  <2>2. QED BY <2>1, BaseInit DEF HeldInv
<1>2. HeldInv /\ [Next]_vars => HeldInv'
  <2> SUFFICES ASSUME HeldInv, [Next]_vars PROVE HeldInv'
    OBVIOUS
  <2>1. Typed' /\ Asked'
    BY BaseNext DEF HeldInv
  <2>2. CASE UNCHANGED vars
    BY <2>1, <2>2 DEF vars, HeldInv, HeldIsLocked, StartOwn, NoEarlyRefusal, NotifiersFresh,
                      DeadHoldNothing
  <2>3. ASSUME NEW t \in Train, NEW r \in Requests, Request(t, r) PROVE HeldInv'
    BY <2>1, <2>3, RequestHolds
  <2>4. ASSUME NEW t \in Train, NEW list \in Lists, FreeSegments(t, list) PROVE HeldInv'
    BY <2>1, <2>4, FreeHolds
  <2>5. ASSUME NEW t \in Train, NEW s \in Segments, FreeAll(t, s) PROVE HeldInv'
    BY <2>1, <2>5, UnlockHolds DEF FreeAll
  <2>6. ASSUME NEW t \in Train, FreeKilled(t) PROVE HeldInv'
    BY <2>1, <2>6, UnlockHolds DEF FreeKilled
  <2>7. QED
    BY <2>1, <2>2, <2>3, <2>4, <2>5, <2>6, TimeoutHolds, KillHolds, RegisterHolds DEF Next
<1>3. HeldInv => HeldIsLocked
  BY DEF HeldInv
<1>4. QED BY <1>1, <1>2, <1>3, PTL DEF Spec

-----------------------------------------------------------------------------
(* The lists of the sensor queue                                           *)

Tids == [trn : Trains, notifier : TrnNotifiers, gen : Nat]
Times == Est \cup {TIME_NONE}
Entries == [tid : Tids, expected_time : Times, pos_rqst : BOOLEAN]

\* A list is in order, has a task once, and knows who asks for a prediction.
InOrderOfTime(list) ==
  \A i \in 1 .. Len(list) - 1 : list[i].expected_time <= list[i + 1].expected_time
OncePerTask(list) == \A i, j \in 1 .. Len(list) : list[i].tid = list[j].tid => i = j
AsksRight(list) == \A i \in 1 .. Len(list) : list[i].pos_rqst <=> list[i].tid.notifier = "route"
ListOK(list) == list \in Seq(Entries) /\ InOrderOfTime(list) /\ OncePerTask(list) /\ AsksRight(list)

\* Task tid is in the list.
Has(list, tid) == \E i \in 1 .. Len(list) : list[i].tid = tid

LEMMA TimesAre == Times \subseteq Int
  BY CoordAssumption DEF Times, TIME_NONE

\* Where an entry goes: after the last one expected earlier, but after the first
\* in any case.
LEMMA InsertPlace ==
  ASSUME NEW list \in Seq(Entries), InOrderOfTime(list), NEW e \in Entries
  PROVE  \E k \in 1 .. Len(list) + 1 :
           /\ IsInsert(sensor_queue_insert(list, e), Entries, list, k, e)
           /\ k > 1 => list[k - 1].expected_time <= e.expected_time
           /\ k <= Len(list) => e.expected_time <= list[k].expected_time
<1> DEFINE n == Len(list)
           r == sensor_queue_insert(list, e)
<1>0. n \in Nat /\ (list = <<>> <=> n = 0) /\ (list # <<>> => Head(list) = list[1])
      /\ e.expected_time \in Int /\ \A i \in 1 .. n : list[i].expected_time \in Int
  <2>1. \A i \in 1 .. n : list[i] \in Entries
    OBVIOUS
  <2>2. e.expected_time \in Int /\ \A i \in 1 .. n : list[i].expected_time \in Int
    BY <2>1, TimesAre DEF Entries
  <2>3. n \in Nat /\ (list = <<>> <=> n = 0)
    OBVIOUS
  <2>4. list # <<>> => Head(list) = list[1]
    BY TailElements
  <2>5. QED BY <2>2, <2>3, <2>4
<1>1. CASE list = <<>> \/ Head(list).expected_time > e.expected_time
  <2>1. r = <<e>> \o list
    BY <1>1 DEF sensor_queue_insert
  <2>2. <<e>> \in Seq(Entries) /\ Len(<<e>>) = 1 /\ <<e>>[1] = e
    OBVIOUS
  <2> DEFINE one == <<e>>
  <2> HIDE DEF one
  <2>3. /\ one \o list \in Seq(Entries) /\ Len(one \o list) = 1 + n
        /\ \A j \in 1 .. 1 + n : (one \o list)[j] = IF j <= 1 THEN one[j] ELSE list[j - 1]
    BY <2>2, ConcatElements DEF one
  <2>4. one[1] = e /\ r = one \o list
    BY <2>1, <2>2 DEF one
  <2> HIDE DEF r
  <2>5. IsInsert(r, Entries, list, 1, e)
    BY <1>0, <2>3, <2>4 DEF IsInsert
  <2>6. 1 <= n => e.expected_time <= list[1].expected_time
    BY <1>0, <1>1
  <2>7. QED BY <1>0, <2>5, <2>6 DEF r
<1>2. CASE ~(list = <<>> \/ Head(list).expected_time > e.expected_time)
  <2> DEFINE P(i) == /\ i = n \/ list[i + 1].expected_time >= e.expected_time
                     /\ \A j \in 1 .. i - 1 : list[j + 1].expected_time < e.expected_time
             T == {i \in Nat : i \in 1 .. n /\ (i = n \/ list[i + 1].expected_time >= e.expected_time)}
  <2>1. n \in T
    BY <1>0, <1>2
  <2>2. PICK m \in T : \A k \in T : m <= k
    <3>1. T \in SUBSET Nat /\ T # {}
      BY <2>1
    <3> HIDE DEF T
    <3>2. QED BY <3>1, NatMin
  <2>3. m \in 1 .. n /\ P(m)
    <3>1. ASSUME NEW j \in 1 .. m - 1 PROVE list[j + 1].expected_time < e.expected_time
      <4>1. j \in 1 .. n /\ j < m /\ j + 1 \in 1 .. n /\ j # n
        BY <1>0, <2>2
      <4>2. j \notin T
        BY <2>2, <4>1
      <4>3. QED BY <1>0, <4>1, <4>2
    <3>2. QED BY <2>2, <3>1
  <2> DEFINE i == CHOOSE i \in 1 .. n : P(i)
  <2>4. i \in 1 .. n /\ P(i)
    BY <2>3
  <2>5. r = InsertAt(list, i + 1, e)
    BY <1>2 DEF sensor_queue_insert
  <2> HIDE DEF i
  <2>6. PICK k : k = i + 1
    OBVIOUS
  <2>7. k \in 1 .. n + 1 /\ k > 1 /\ k - 1 \in 1 .. n /\ k - 1 = i
    BY <1>0, <2>4, <2>6
  <2>8. /\ k - 1 = n \/ list[k].expected_time >= e.expected_time
        /\ \A j \in 1 .. k - 2 : list[j + 1].expected_time < e.expected_time
    <3>1. k = i + 1 /\ k - 2 = i - 1
      BY <2>6, <2>7
    <3>2. QED BY <2>4, <2>6, <2>7, <3>1
  <2> HIDE DEF P, T
  <2>9. IsInsert(r, Entries, list, k, e)
    BY <2>5, <2>6, <2>7, InsertAtElements
  <2> HIDE DEF r
  <2>10. list[k - 1].expected_time <= e.expected_time
    <3>1. CASE k = 2
      BY <1>0, <1>2, <3>1
    <3>2. CASE k # 2
      <4>1. k - 2 \in 1 .. k - 2 /\ (k - 2) + 1 = k - 1
        BY <2>7, <3>2
      <4>2. list[k - 1].expected_time < e.expected_time
        BY <2>8, <4>1
      <4>3. QED BY <1>0, <2>7, <4>2
    <3>3. QED BY <3>1, <3>2
  <2>11. k <= n => e.expected_time <= list[k].expected_time
    BY <1>0, <2>7, <2>8
  <2>12. QED BY <2>7, <2>9, <2>10, <2>11 DEF r
<1>3. QED BY <1>1, <1>2

\* Linking a new task in
LEMMA Inserts ==
  ASSUME NEW list, ListOK(list), NEW e \in Entries, ~Has(list, e.tid),
         e.pos_rqst <=> e.tid.notifier = "route"
  PROVE  /\ ListOK(sensor_queue_insert(list, e))
         /\ \A tid : Has(sensor_queue_insert(list, e), tid) <=> Has(list, tid) \/ tid = e.tid
<1> DEFINE r == sensor_queue_insert(list, e)
           n == Len(list)
<1>0. list \in Seq(Entries) /\ n \in Nat
  BY DEF ListOK
<1>1. PICK k \in 1 .. n + 1 :
         /\ IsInsert(r, Entries, list, k, e)
         /\ k > 1 => list[k - 1].expected_time <= e.expected_time
         /\ k <= n => e.expected_time <= list[k].expected_time
  BY InsertPlace DEF ListOK
<1> HIDE DEF r, n
<1>2. /\ r \in Seq(Entries) /\ Len(r) = n + 1
      /\ \A j \in 1 .. n + 1 : r[j] = IF j < k THEN list[j] ELSE IF j = k THEN e ELSE list[j - 1]
  BY <1>1 DEF IsInsert, n
<1>3. /\ InOrderOfTime(list) /\ OncePerTask(list) /\ AsksRight(list)
      /\ \A i \in 1 .. n : list[i].tid # e.tid
      /\ \A i \in 1 .. n : list[i].expected_time \in Int
  <2>1. \A i \in 1 .. n : list[i] \in Entries
    BY <1>0 DEF n
  <2>2. QED BY <2>1, TimesAre DEF ListOK, Has, Entries, n
<1>4. e.expected_time \in Int
  BY TimesAre DEF Entries
<1>5. InOrderOfTime(r)
  <2> SUFFICES ASSUME NEW i \in 1 .. n PROVE r[i].expected_time <= r[i + 1].expected_time
    BY <1>0, <1>2 DEF InOrderOfTime
  <2>1. i \in 1 .. n + 1 /\ i + 1 \in 1 .. n + 1
    BY <1>0
  <2>2. CASE i + 1 < k
    <3>1. r[i] = list[i] /\ r[i + 1] = list[i + 1] /\ i \in 1 .. n - 1
      BY <1>0, <1>2, <2>1, <2>2
    <3>2. QED BY <1>3, <3>1 DEF InOrderOfTime, n
  <2>3. CASE i + 1 = k
    <3>1. r[i] = list[i] /\ r[i + 1] = e /\ i = k - 1 /\ k > 1
      BY <1>0, <1>2, <2>1, <2>3
    <3>2. QED BY <1>1, <3>1
  <2>4. CASE i = k
    <3>1. r[i] = e /\ r[i + 1] = list[k] /\ k <= n
      BY <1>0, <1>2, <2>1, <2>4
    <3>2. QED BY <1>1, <3>1
  <2>5. CASE i > k
    <3>1. r[i] = list[i - 1] /\ r[i + 1] = list[i] /\ i - 1 \in 1 .. n - 1 /\ (i - 1) + 1 = i
      BY <1>0, <1>2, <2>1, <2>5
    <3>2. QED BY <1>3, <3>1 DEF InOrderOfTime, n
  <2>6. QED BY <1>0, <2>2, <2>3, <2>4, <2>5
<1>6. \A j \in 1 .. n + 1 : \/ j < k /\ j \in 1 .. n /\ r[j] = list[j]
                            \/ j = k /\ r[j] = e
                            \/ j > k /\ j - 1 \in 1 .. n /\ r[j] = list[j - 1]
  BY <1>0, <1>2
<1>7. OncePerTask(r)
  <2> SUFFICES ASSUME NEW i \in 1 .. n + 1, NEW j \in 1 .. n + 1, r[i].tid = r[j].tid PROVE i = j
    BY <1>2 DEF OncePerTask
  <2>1. \A x, y \in 1 .. n : list[x].tid = list[y].tid => x = y
    BY <1>3 DEF OncePerTask, n
  <2>2. CASE i = k
    BY <1>0, <1>3, <1>6, <2>2
  <2>3. CASE j = k
    BY <1>0, <1>3, <1>6, <2>3
  <2>4. CASE i # k /\ j # k
    <3>1. PICK x \in 1 .. n : r[i] = list[x] /\ x = (IF i < k THEN i ELSE i - 1)
      BY <1>6, <2>4
    <3>2. PICK y \in 1 .. n : r[j] = list[y] /\ y = (IF j < k THEN j ELSE j - 1)
      BY <1>6, <2>4
    <3>3. x = y
      BY <2>1, <3>1, <3>2
    <3>4. QED BY <2>4, <3>1, <3>2, <3>3
  <2>5. QED BY <2>2, <2>3, <2>4
<1>8. AsksRight(r)
  <2> SUFFICES ASSUME NEW j \in 1 .. n + 1 PROVE r[j].pos_rqst <=> r[j].tid.notifier = "route"
    BY <1>2 DEF AsksRight
  <2>1. \A x \in 1 .. n : list[x].pos_rqst <=> list[x].tid.notifier = "route"
    BY <1>3 DEF AsksRight, n
  <2>2. CASE j = k
    BY <1>6, <2>2
  <2>3. CASE j # k
    <3>1. PICK x \in 1 .. n : r[j] = list[x]
      BY <1>6, <2>3
    <3>2. QED BY <2>1, <3>1
  <2>4. QED BY <2>2, <2>3
<1>9. ASSUME NEW tid PROVE Has(r, tid) <=> Has(list, tid) \/ tid = e.tid
  <2>1. ASSUME Has(r, tid) PROVE Has(list, tid) \/ tid = e.tid
    <3>1. PICK j \in 1 .. n + 1 : r[j].tid = tid
      BY <1>2, <2>1 DEF Has
    <3>2. QED BY <1>6, <3>1 DEF Has, n
  <2>2. ASSUME Has(list, tid) PROVE Has(r, tid)
    <3>1. PICK j \in 1 .. n : list[j].tid = tid
      BY <2>2 DEF Has, n
    <3>2. PICK x \in 1 .. n + 1 : r[x] = list[j]
      <4>1. CASE j < k
        BY <1>0, <1>2, <4>1
      <4>2. CASE j >= k
        <5>1. j + 1 \in 1 .. n + 1 /\ j + 1 > k /\ (j + 1) - 1 = j
          BY <1>0, <4>2
        <5>2. r[j + 1] = list[j]
          BY <1>2, <5>1
        <5>3. QED BY <5>1, <5>2
      <4>3. QED BY <1>0, <4>1, <4>2
    <3>3. QED BY <1>2, <3>1, <3>2 DEF Has
  <2>3. ASSUME tid = e.tid PROVE Has(r, tid)
    <3>1. k \in 1 .. n + 1 /\ r[k] = e
      BY <1>1, <1>2
    <3>2. QED BY <1>2, <2>3, <3>1 DEF Has
  <2>4. QED BY <2>1, <2>2, <2>3
<1>10. QED BY <1>2, <1>5, <1>7, <1>8, <1>9 DEF ListOK, r

\* The list without its entry i.
LEMMA RemoveAtElements ==
  ASSUME NEW S, NEW s \in Seq(S), NEW i \in 1 .. Len(s)
  PROVE  /\ RemoveAt(s, i) \in Seq(S) /\ Len(RemoveAt(s, i)) = Len(s) - 1
         /\ \A j \in 1 .. Len(s) - 1 : RemoveAt(s, i)[j] = IF j < i THEN s[j] ELSE s[j + 1]
<1> DEFINE a == SubSeq(s, 1, i - 1)
           b == SubSeq(s, i + 1, Len(s))
<1>0. Len(s) \in Nat
  OBVIOUS
<1>1. a \in Seq(S) /\ Len(a) = i - 1 /\ \A j \in 1 .. i - 1 : a[j] = s[1 + j - 1]
  <2>1. 1 \in 1 .. Len(s) + 1 /\ i - 1 \in 0 .. Len(s) /\ 1 <= (i - 1) + 1 /\ (i - 1) - 1 + 1 = i - 1
    BY <1>0
  <2>2. PICK k : k = i - 1
    OBVIOUS
  <2>3. k \in 0 .. Len(s) /\ 1 <= k + 1 /\ k - 1 + 1 = k /\ a = SubSeq(s, 1, k)
    BY <2>1, <2>2
  <2>4. /\ SubSeq(s, 1, k) \in Seq(S) /\ Len(SubSeq(s, 1, k)) = k - 1 + 1
        /\ \A j \in 1 .. k - 1 + 1 : SubSeq(s, 1, k)[j] = s[1 + j - 1]
    BY <2>1, <2>3, SubSeqElements
  <2> HIDE DEF a
  <2>5. QED BY <2>2, <2>3, <2>4
<1>2. b \in Seq(S) /\ Len(b) = Len(s) - i /\ \A j \in 1 .. Len(s) - i : b[j] = s[(i + 1) + j - 1]
  <2>1. i + 1 \in 1 .. Len(s) + 1 /\ Len(s) \in 0 .. Len(s) /\ i + 1 <= Len(s) + 1
        /\ Len(s) - (i + 1) + 1 = Len(s) - i
    BY <1>0
  <2>2. PICK k : k = i + 1
    OBVIOUS
  <2>3. k \in 1 .. Len(s) + 1 /\ k <= Len(s) + 1 /\ Len(s) - k + 1 = Len(s) - i /\ b = SubSeq(s, k, Len(s))
    BY <2>1, <2>2
  <2>4. /\ SubSeq(s, k, Len(s)) \in Seq(S) /\ Len(SubSeq(s, k, Len(s))) = Len(s) - k + 1
        /\ \A j \in 1 .. Len(s) - k + 1 : SubSeq(s, k, Len(s))[j] = s[k + j - 1]
    BY <2>1, <2>3, SubSeqElements
  <2> HIDE DEF b
  <2>5. QED BY <2>2, <2>3, <2>4
<1>3. RemoveAt(s, i) = a \o b
  BY DEF RemoveAt
<1> HIDE DEF a, b
<1>4. /\ a \o b \in Seq(S) /\ Len(a \o b) = Len(a) + Len(b)
      /\ \A j \in 1 .. Len(a) + Len(b) : (a \o b)[j] = IF j <= Len(a) THEN a[j] ELSE b[j - Len(a)]
  BY <1>1, <1>2, ConcatElements
<1>5. Len(a) + Len(b) = Len(s) - 1
  BY <1>0, <1>1, <1>2
<1>6. ASSUME NEW j \in 1 .. Len(s) - 1 PROVE (a \o b)[j] = IF j < i THEN s[j] ELSE s[j + 1]
  <2>1. CASE j < i
    <3>1. j \in 1 .. i - 1 /\ j <= Len(a) /\ 1 + j - 1 = j
      BY <1>0, <1>1, <2>1
    <3>2. (a \o b)[j] = a[j] /\ a[j] = s[1 + j - 1]
      BY <1>1, <1>4, <1>5, <3>1
    <3>3. QED BY <2>1, <3>1, <3>2
  <2>2. CASE j >= i
    <3>1. j - (i - 1) \in 1 .. Len(s) - i /\ ~(j <= i - 1) /\ (i + 1) + (j - (i - 1)) - 1 = j + 1
      BY <1>0, <2>2
    <3>2. (a \o b)[j] = b[j - (i - 1)]
      BY <1>1, <1>4, <1>5, <3>1
    <3>3. b[j - (i - 1)] = s[(i + 1) + (j - (i - 1)) - 1]
      BY <1>2, <3>1
    <3>4. PICK x : x = j - (i - 1)
      OBVIOUS
    <3>5. (a \o b)[j] = b[x] /\ b[x] = s[(i + 1) + x - 1] /\ (i + 1) + x - 1 = j + 1
      BY <3>1, <3>2, <3>3, <3>4
    <3>6. (a \o b)[j] = s[j + 1] /\ ~(j < i)
      BY <1>0, <2>2, <3>5
    <3>7. QED BY <3>6
  <2>3. j < i \/ j >= i
    BY <1>0
  <2>4. QED BY <2>1, <2>2, <2>3, Zenon
<1>7. QED BY <1>3, <1>4, <1>5, <1>6

\* Taking an entry out
LEMMA Removes ==
  ASSUME NEW list, ListOK(list), NEW i \in 1 .. Len(list)
  PROVE  /\ ListOK(RemoveAt(list, i))
         /\ \A tid : Has(RemoveAt(list, i), tid) <=> Has(list, tid) /\ tid # list[i].tid
<1> DEFINE r == RemoveAt(list, i)
           n == Len(list)
<1>0. list \in Seq(Entries) /\ n \in Nat /\ i \in 1 .. n
  BY DEF ListOK
<1>1. /\ r \in Seq(Entries) /\ Len(r) = n - 1
      /\ \A j \in 1 .. n - 1 : r[j] = IF j < i THEN list[j] ELSE list[j + 1]
  BY <1>0, RemoveAtElements
<1>2. InOrderOfTime(list) /\ OncePerTask(list) /\ AsksRight(list)
  BY DEF ListOK
<1>3. \A j \in 1 .. n : list[j].expected_time \in Int
  <2>1. \A j \in 1 .. n : list[j] \in Entries
    BY <1>0
  <2>2. QED BY <2>1, TimesAre DEF Entries
<1>4. \A j \in 1 .. n - 1 : list[j].expected_time <= list[j + 1].expected_time
  BY <1>2 DEF InOrderOfTime
<1>5. \A x, y \in 1 .. n : list[x].tid = list[y].tid => x = y
  BY <1>2 DEF OncePerTask
<1>6. \A x \in 1 .. n : list[x].pos_rqst <=> list[x].tid.notifier = "route"
  BY <1>2 DEF AsksRight
<1> HIDE DEF r, n
<1>7. \A j \in 1 .. n - 1 : \/ j < i /\ j \in 1 .. n /\ r[j] = list[j]
                            \/ j >= i /\ j + 1 \in 1 .. n /\ r[j] = list[j + 1]
  BY <1>0, <1>1
<1>8. InOrderOfTime(r)
  <2> SUFFICES ASSUME NEW j \in 1 .. n - 2 PROVE r[j].expected_time <= r[j + 1].expected_time
    BY <1>0, <1>1 DEF InOrderOfTime
  <2>1. j \in 1 .. n - 1 /\ j + 1 \in 1 .. n - 1 /\ j + 1 \in 1 .. n /\ (j + 1) + 1 \in 1 .. n /\ j \in 1 .. n
    BY <1>0
  <2>2. CASE j + 1 < i
    <3>1. r[j] = list[j] /\ r[j + 1] = list[j + 1]
      BY <1>0, <1>1, <2>1, <2>2
    <3>2. QED BY <1>4, <2>1, <3>1
  <2>3. CASE j + 1 = i
    <3>1. r[j] = list[j] /\ r[j + 1] = list[(j + 1) + 1]
      BY <1>0, <1>1, <2>1, <2>3
    <3>2. /\ list[j].expected_time <= list[j + 1].expected_time
          /\ list[j + 1].expected_time <= list[(j + 1) + 1].expected_time
      BY <1>4, <2>1
    <3>3. QED BY <1>3, <2>1, <3>1, <3>2
  <2>4. CASE j + 1 > i
    <3>1. r[j] = list[j + 1] /\ r[j + 1] = list[(j + 1) + 1]
      BY <1>0, <1>1, <2>1, <2>4
    <3>2. QED BY <1>4, <2>1, <3>1
  <2>5. QED BY <1>0, <2>2, <2>3, <2>4
<1>9. OncePerTask(r)
  <2> SUFFICES ASSUME NEW x \in 1 .. n - 1, NEW y \in 1 .. n - 1, r[x].tid = r[y].tid PROVE x = y
    BY <1>1 DEF OncePerTask
  <2>1. PICK u \in 1 .. n : r[x] = list[u] /\ u = (IF x < i THEN x ELSE x + 1)
    BY <1>7
  <2>2. PICK v \in 1 .. n : r[y] = list[v] /\ v = (IF y < i THEN y ELSE y + 1)
    BY <1>7
  <2>3. u = v
    BY <1>5, <2>1, <2>2
  <2>4. QED BY <1>0, <2>1, <2>2, <2>3
<1>10. AsksRight(r)
  <2> SUFFICES ASSUME NEW x \in 1 .. n - 1 PROVE r[x].pos_rqst <=> r[x].tid.notifier = "route"
    BY <1>1 DEF AsksRight
  <2>1. PICK u \in 1 .. n : r[x] = list[u]
    BY <1>7
  <2>2. QED BY <1>6, <2>1
<1>11. ASSUME NEW tid PROVE Has(r, tid) <=> Has(list, tid) /\ tid # list[i].tid
  <2>1. ASSUME Has(r, tid) PROVE Has(list, tid) /\ tid # list[i].tid
    <3>1. PICK x \in 1 .. n - 1 : r[x].tid = tid
      BY <1>1, <2>1 DEF Has
    <3>2. PICK u \in 1 .. n : r[x] = list[u] /\ u # i
      BY <1>0, <1>7
    <3>3. list[u].tid = tid /\ tid # list[i].tid
      BY <1>0, <1>5, <3>1, <3>2
    <3>4. QED BY <3>3 DEF Has, n
  <2>2. ASSUME Has(list, tid), tid # list[i].tid PROVE Has(r, tid)
    <3>1. PICK u \in 1 .. n : list[u].tid = tid
      BY <2>2 DEF Has, n
    <3>2. u # i
      BY <2>2, <3>1
    <3>3. PICK x \in 1 .. n - 1 : r[x] = list[u]
      <4>1. CASE u < i
        <5>1. u \in 1 .. n - 1
          BY <1>0, <4>1
        <5>2. r[u] = list[u]
          BY <1>1, <4>1, <5>1
        <5>3. QED BY <5>1, <5>2
      <4>2. CASE u > i
        <5>1. u - 1 \in 1 .. n - 1 /\ ~(u - 1 < i) /\ (u - 1) + 1 = u
          BY <1>0, <4>2
        <5>2. r[u - 1] = list[u]
          BY <1>1, <5>1
        <5>3. QED BY <5>1, <5>2
      <4>3. QED BY <1>0, <3>2, <4>1, <4>2
    <3>4. QED BY <1>1, <3>1, <3>3 DEF Has
  <2>3. QED BY <2>1, <2>2
<1>12. QED BY <1>1, <1>8, <1>9, <1>10, <1>11 DEF ListOK, r

-----------------------------------------------------------------------------
(* The sensor queue                                                        *)

QueueOK(q) == q \in [Sensors -> Seq(Entries)] /\ \A s \in Sensors : ListOK(q[s])
SameTasks(r, q) == QueueOK(r) /\ \A s \in Sensors : \A tid : Has(r[s], tid) <=> Has(q[s], tid)

\* A new time changes where a task is in its list, and nothing else.  (That there
\* is a list is for the actions to show: of Nowhere it only says that the
\* definition gives a queue.)
LEMMA Adjusts ==
  ASSUME NEW q, QueueOK(q), NEW s \in Sensors \cup {Nowhere}, NEW tid, NEW time \in Est
  PROVE  SameTasks(sensor_queue_adjust_waiting_tid(q, s, tid, time), q)
<1> DEFINE r == sensor_queue_adjust_waiting_tid(q, s, tid, time)
<1>1. CASE ~\E e \in ToSet(q[s]) : e.tid = tid
  BY <1>1 DEF sensor_queue_adjust_waiting_tid, SameTasks
<1>2. CASE s \notin Sensors /\ \E e \in ToSet(q[s]) : e.tid = tid
  <2>1. ASSUME NEW new PROVE [q EXCEPT ![s] = new] = q
    BY <1>2 DEF QueueOK
  <2>2. r = q
    BY <1>2, <2>1 DEF sensor_queue_adjust_waiting_tid
  <2>3. QED BY <2>2 DEF SameTasks
<1>3. CASE s \in Sensors /\ \E e \in ToSet(q[s]) : e.tid = tid
  <2> DEFINE list == q[s]
             I == {j \in 1 .. Len(list) : list[j].tid = tid}
             i == SelectInSeq(list, LAMBDA e : e.tid = tid)
             e == [list[i] EXCEPT !.expected_time = time]
             rest == RemoveAt(list, i)
  <2>1. s \in Sensors /\ ListOK(list) /\ list \in Seq(Entries)
    BY <1>3 DEF QueueOK
  <2>2. I \in SUBSET Nat /\ I # {}
    BY <1>3, <2>1 DEF ToSet
  <2>3. i \in I
    <3>1. i = CHOOSE x \in I : \A y \in I : x <= y
      BY <2>2 DEF SelectInSeq, Min
    <3>2. \E x \in I : \A y \in I : x <= y
      BY <2>2, NatMin
    <3> HIDE DEF I, i
    <3>3. QED BY <3>1, <3>2
  <2>4. r = [q EXCEPT ![s] = sensor_queue_insert(rest, e)]
    BY <1>3 DEF sensor_queue_adjust_waiting_tid
  <2>5. i \in 1 .. Len(list) /\ list[i].tid = tid /\ list[i] \in Entries
    BY <2>1, <2>3
  <2>6. e \in Entries /\ e.tid = tid /\ e.pos_rqst = list[i].pos_rqst
    BY <2>5 DEF Entries, Times
  <2>7. list[i].pos_rqst <=> list[i].tid.notifier = "route"
    BY <2>1, <2>5 DEF ListOK, AsksRight
  <2> HIDE DEF list, I, i, e, rest
  <2>8. ListOK(rest) /\ \A x : Has(rest, x) <=> Has(list, x) /\ x # tid
    BY <2>1, <2>5, Removes DEF rest
  <2>9. /\ ListOK(sensor_queue_insert(rest, e))
        /\ \A x : Has(sensor_queue_insert(rest, e), x) <=> Has(rest, x) \/ x = tid
    BY <2>5, <2>6, <2>7, <2>8, Inserts
  <2>10. Has(list, tid)
    BY <2>5 DEF Has
  <2> DEFINE new == sensor_queue_insert(rest, e)
  <2>11. ListOK(new) /\ \A x : Has(new, x) <=> Has(list, x)
    BY <2>8, <2>9, <2>10
  <2> HIDE DEF new
  <2>12. /\ r = [q EXCEPT ![s] = new] /\ new \in Seq(Entries)
    BY <2>4, <2>11 DEF new, ListOK
  <2> HIDE DEF r
  <2>13. QueueOK(r)
    BY <2>11, <2>12 DEF QueueOK
  <2>14. ASSUME NEW u \in Sensors, NEW x PROVE Has(r[u], x) <=> Has(q[u], x)
    <3>1. CASE u = s
      <4>1. r[u] = new /\ q[u] = list
        BY <2>1, <2>12, <3>1 DEF QueueOK, list
      <4>2. QED BY <2>11, <4>1
    <3>2. CASE u # s
      BY <2>12, <3>2 DEF QueueOK
    <3>3. QED BY <3>1, <3>2
  <2>15. QED BY <2>13, <2>14 DEF SameTasks, r
<1>4. QED BY <1>1, <1>2, <1>3

\* What a train that is done leaves behind is in order.
LEMMA FreesTrain ==
  ASSUME NEW q, QueueOK(q), NEW t
  PROVE  /\ QueueOK(sensor_queue_free_train(q, t))
         /\ \A s \in Sensors : \A tid :
              Has(sensor_queue_free_train(q, t)[s], tid) => Has(q[s], tid)
         /\ \A s \in Sensors : \A tid :
              Has(q[s], tid) /\ tid.trn # t => Has(sensor_queue_free_train(q, t)[s], tid)
<1> DEFINE r == sensor_queue_free_train(q, t)
<1>1. ASSUME NEW s \in Sensors
      PROVE  /\ ListOK(RemoveFirstOf(q[s], t))
             /\ \A tid : Has(RemoveFirstOf(q[s], t), tid) => Has(q[s], tid)
             /\ \A tid : Has(q[s], tid) /\ tid.trn # t => Has(RemoveFirstOf(q[s], t), tid)
  <2> DEFINE list == q[s]
             I == {j \in 1 .. Len(list) : list[j].tid.trn = t}
             i == SelectInSeq(list, LAMBDA e : e.tid.trn = t)
  <2>1. ListOK(list)
    BY DEF QueueOK
  <2>2. CASE I = {}
    <3>1. i = 0
      BY <2>2 DEF SelectInSeq
    <3>2. RemoveFirstOf(q[s], t) = q[s]
      BY <3>1 DEF RemoveFirstOf
    <3>3. QED BY <2>1, <3>2
  <2>3. CASE I # {}
    <3>1. i = CHOOSE x \in I : \A y \in I : x <= y
      BY <2>3 DEF SelectInSeq, Min
    <3>2. I \in SUBSET Nat
      OBVIOUS
    <3>3. i \in I
      <4>1. \E x \in I : \A y \in I : x <= y
        BY <2>3, <3>2, NatMin
      <4> HIDE DEF I, i
      <4>2. QED BY <3>1, <4>1
    <3>4. RemoveFirstOf(q[s], t) = RemoveAt(list, i)
      BY <3>3 DEF RemoveFirstOf
    <3>5. i \in 1 .. Len(list) /\ list[i].tid.trn = t
      BY <3>3
    <3> HIDE DEF list, i, I
    <3>6. /\ ListOK(RemoveAt(list, i))
          /\ \A tid : Has(RemoveAt(list, i), tid) <=> Has(list, tid) /\ tid # list[i].tid
      BY <2>1, <3>5, Removes
    <3>7. QED BY <3>4, <3>5, <3>6 DEF list
  <2>4. QED BY <2>2, <2>3
<1>2. r = [s \in Sensors |-> RemoveFirstOf(q[s], t)]
  BY DEF sensor_queue_free_train
<1>3. \A s \in Sensors : RemoveFirstOf(q[s], t) \in Seq(Entries)
  BY <1>1 DEF ListOK
<1> HIDE DEF r
<1>4. QueueOK(r)
  BY <1>1, <1>2, <1>3 DEF QueueOK
<1>5. QED BY <1>1, <1>2, <1>4 DEF r

-----------------------------------------------------------------------------
(* The reports of a sensor                                                 *)

Positions ==
  [spd_init : Int, spd_final : Int, state : {"waiting", "hit"}, queued_speed_reset : Int,
   queued_speed_change : Int, startup : BOOLEAN, sensor : Sensors \cup {Nowhere}, gen : Nat]
Data == {r \in [sq : [Sensors -> Seq(Entries)], pos : [Trains -> Positions]] : QueueOK(r.sq)}

\* What has become of the sensor queue and of the positions, if the trains of X
\* were told: the tasks of the queue are the same, and these trains are hit.
After(r, a, X) ==
  /\ SameTasks(r.sq, a.sq)
  /\ \A t \in Trains : /\ r.pos[t].sensor = a.pos[t].sensor
                       /\ r.pos[t].state = IF t \in X THEN "hit" ELSE a.pos[t].state

LEMMA Reaches ==
  ASSUME NEW p \in Positions
  PROVE  reached_sensor(p) \in Positions /\ reached_sensor(p).state = "hit" /\ reached_sensor(p).sensor = p.sensor
BY DEF reached_sensor, Positions

LEMMA Replies ==
  ASSUME NEW r \in Data, NEW e \in Entries, NEW time \in Est
  PROVE  /\ Replied(r, e, time) \in Data
         /\ \A a, X : After(r, a, X) =>
              After(Replied(r, e, time), a, IF e.pos_rqst THEN X \cup {e.tid.trn} ELSE X)
<1> DEFINE d == Replied(r, e, time)
           t == e.tid.trn
           p == r.pos[t]
           last == LastWaited(t, p)
           q == IF FirstSensor(p) THEN sensor_queue_adjust_waiting_tid(r.sq, p.sensor, last, time) ELSE r.sq
<1>1. CASE ~e.pos_rqst
  BY <1>1 DEF Replied
<1>2. CASE e.pos_rqst
  <2>1. t \in Trains /\ p \in Positions /\ p.sensor \in Sensors \cup {Nowhere} /\ QueueOK(r.sq)
        /\ r.pos \in [Trains -> Positions]
    BY DEF Data, Entries, Tids, Positions
  <2>2. SameTasks(q, r.sq)
    <3> HIDE DEF last
    <3>1. SameTasks(sensor_queue_adjust_waiting_tid(r.sq, p.sensor, last, time), r.sq)
      BY <2>1, Adjusts
    <3>2. SameTasks(r.sq, r.sq)
      BY <2>1 DEF SameTasks
    <3>3. QED BY <3>1, <3>2
  <2>3. d = [sq |-> q, pos |-> [r.pos EXCEPT ![t] = reached_sensor(p)]]
    BY <1>2 DEF Replied
  <2>4. /\ d.sq = q /\ d.pos \in [Trains -> Positions] /\ d.pos[t].state = "hit" /\ d.pos[t].sensor = p.sensor
        /\ \A u \in Trains \ {t} : d.pos[u] = r.pos[u]
    <3>1. reached_sensor(p) \in Positions /\ reached_sensor(p).state = "hit" /\ reached_sensor(p).sensor = p.sensor
      BY <2>1, Reaches
    <3> DEFINE new == reached_sensor(p)
    <3> HIDE DEF new, q, p, t
    <3>2. d = [sq |-> q, pos |-> [r.pos EXCEPT ![t] = new]]
      BY <2>3 DEF new
    <3> HIDE DEF d
    <3>3. QED BY <2>1, <3>1, <3>2 DEF new, p
  <2>5. d \in Data
    <3>1. d = [sq |-> d.sq, pos |-> d.pos]
      BY <2>3
    <3>2. QueueOK(d.sq) /\ d.sq \in [Sensors -> Seq(Entries)]
      BY <2>2, <2>4 DEF SameTasks, QueueOK
    <3> HIDE DEF d
    <3>3. QED BY <2>4, <3>1, <3>2 DEF Data
  <2>6. ASSUME NEW a, NEW X, After(r, a, X) PROVE After(d, a, X \cup {t})
    <3> HIDE DEF d, q, p, last
    <3>1. SameTasks(d.sq, a.sq)
      BY <2>2, <2>4, <2>6 DEF After, SameTasks
    <3>2. ASSUME NEW u \in Trains
          PROVE  /\ d.pos[u].sensor = a.pos[u].sensor
                 /\ d.pos[u].state = IF u \in X \cup {t} THEN "hit" ELSE a.pos[u].state
      BY <2>4, <2>6 DEF After, p
    <3>3. QED BY <3>1, <3>2 DEF After
  <2>7. QED BY <1>2, <2>5, <2>6
<1>3. QED BY <1>1, <1>2

\* After all replies
LEMMA RepliesToAll ==
  ASSUME NEW s \in Sensors, NEW time \in Est, QueueOK(sq), pos \in [Trains -> Positions]
  PROVE  /\ AfterReplies(s, time) \in Data
         /\ After(AfterReplies(s, time), [sq |-> [sq EXCEPT ![s] = <<>>], pos |-> pos],
                  {t \in Trains : \E i \in 1 .. Len(sq[s]) : sq[s][i].pos_rqst /\ sq[s][i].tid.trn = t})
<1> DEFINE list == sq[s]
           n == Len(list)
           a == [sq |-> [sq EXCEPT ![s] = <<>>], pos |-> pos]
           IsAfter(f) == f = [i \in 0 .. n |-> IF i = 0 THEN a ELSE Replied(f[i - 1], list[i], time)]
           after == CHOOSE f : IsAfter(f)
           T(k) == {t \in Trains : \E i \in 1 .. k : list[i].pos_rqst /\ list[i].tid.trn = t}
<1>0. list \in Seq(Entries) /\ n \in Nat /\ \A i \in 1 .. n : list[i] \in Entries
  BY DEF QueueOK
<1>1. AfterReplies(s, time) = after[n]
  BY DEF AfterReplies
<1>2. a \in Data
  <2> DEFINE q == [sq EXCEPT ![s] = <<>>]
  <2>1. <<>> \in Seq(Entries) /\ ListOK(<<>>)
    BY DEF ListOK, InOrderOfTime, OncePerTask, AsksRight
  <2>2. QueueOK(q)
    BY <2>1 DEF QueueOK
  <2> HIDE DEF q
  <2>3. q \in [Sensors -> Seq(Entries)] /\ a = [sq |-> q, pos |-> pos]
    BY <2>2 DEF QueueOK, q
  <2>4. QED BY <2>2, <2>3 DEF Data
<1> HIDE DEF a, list, n
<1>3. \E f : IsAfter(f) /\ f \in [0 .. n -> Data]
  <2> DEFINE g == [k \in 1 .. n |-> [r \in Data |-> Replied(r, list[k], time)]]
  <2>1. g \in [1 .. n -> [Data -> Data]]
    BY <1>0, Replies
  <2>2. PICK f : IsLoop(f, n, Data, a, g)
    <3> HIDE DEF g
    <3>1. QED BY <1>0, <1>2, <2>1, LoopExists
  <2>3. f \in [0 .. n -> Data] /\ f[0] = a /\ \A k \in 1 .. n : f[k] = g[k][f[k - 1]]
    BY <2>2 DEF IsLoop
  <2>4. ASSUME NEW k \in 1 .. n PROVE f[k] = Replied(f[k - 1], list[k], time)
    <3>1. k - 1 \in 0 .. n
      BY <1>0
    <3>2. f[k - 1] \in Data
      BY <2>3, <3>1
    <3>3. f[k] = g[k][f[k - 1]]
      BY <2>3
    <3>4. QED BY <3>2, <3>3
  <2> HIDE DEF g
  <2>5. ASSUME NEW k \in 0 .. n PROVE f[k] = IF k = 0 THEN a ELSE Replied(f[k - 1], list[k], time)
    <3>1. k = 0 \/ (k # 0 /\ k \in 1 .. n)
      BY <1>0
    <3>2. CASE k = 0
      BY <2>3, <3>2
    <3>3. CASE k # 0 /\ k \in 1 .. n
      <4>1. f[k] = Replied(f[k - 1], list[k], time)
        BY <2>4, <3>3
      <4>2. QED BY <3>3, <4>1, Zenon
    <3>4. QED BY <3>1, <3>2, <3>3, Zenon
  <2>6. f = [i \in 0 .. n |-> IF i = 0 THEN a ELSE Replied(f[i - 1], list[i], time)]
    BY <2>3, <2>5
  <2>7. QED BY <2>3, <2>6
<1>4. IsAfter(after)
  BY <1>3
<1> HIDE DEF after
<1>5. after[0] = a /\ \A k \in 1 .. n : after[k] = Replied(after[k - 1], list[k], time)
  <2>1. after = [i \in 0 .. n |-> IF i = 0 THEN a ELSE Replied(after[i - 1], list[i], time)]
    BY <1>4
  <2>2. 0 \in 0 .. n /\ \A k \in 1 .. n : k \in 0 .. n /\ k # 0
    BY <1>0
  <2> DEFINE body(i) == IF i = 0 THEN a ELSE Replied(after[i - 1], list[i], time)
  <2>3. \A i \in 0 .. n : after[i] = body(i)
    <3>1. after = [i \in 0 .. n |-> body(i)]
      BY <2>1
    <3> HIDE DEF body
    <3>2. QED BY <3>1
  <2>4. QED BY <2>2, <2>3
<1> HIDE DEF IsAfter
<1> DEFINE B == {k \in Nat : k <= n /\ ~(after[k] \in Data /\ After(after[k], a, T(k)))}
<1>6. 0 \notin B
  <2>1. QueueOK(a.sq)
    BY <1>2 DEF Data
  <2>2. T(0) = {}
    OBVIOUS
  <2>3. After(a, a, T(0))
    BY <2>1, <2>2 DEF After, SameTasks
  <2>4. QED BY <1>2, <1>5, <2>3
<1>7. ASSUME NEW k \in 1 .. n, k - 1 \notin B PROVE k \notin B
  <2>1. after[k - 1] \in Data /\ After(after[k - 1], a, T(k - 1))
    BY <1>0, <1>7
  <2>2. after[k] = Replied(after[k - 1], list[k], time) /\ list[k] \in Entries
    BY <1>0, <1>5
  <2>3. /\ after[k] \in Data
        /\ After(after[k], a, IF list[k].pos_rqst THEN T(k - 1) \cup {list[k].tid.trn} ELSE T(k - 1))
    <3>1. PICK r, e, X : r = after[k - 1] /\ e = list[k] /\ X = T(k - 1)
      OBVIOUS
    <3> HIDE DEF T
    <3>2. r \in Data /\ e \in Entries /\ After(r, a, X) /\ after[k] = Replied(r, e, time)
      BY <2>1, <2>2, <3>1
    <3>3. /\ Replied(r, e, time) \in Data
          /\ After(Replied(r, e, time), a, IF e.pos_rqst THEN X \cup {e.tid.trn} ELSE X)
      BY <3>2, Replies
    <3>4. QED BY <3>1, <3>2, <3>3
  <2>4. T(k) = IF list[k].pos_rqst THEN T(k - 1) \cup {list[k].tid.trn} ELSE T(k - 1)
    <3>1. list[k].tid.trn \in Trains
      BY <2>2 DEF Entries, Tids
    <3>2. \A i : i \in 1 .. k <=> i \in 1 .. k - 1 \/ i = k
      OBVIOUS
    <3>3. QED BY <3>1, <3>2
  <2>5. QED BY <2>3, <2>4
<1>8. B = {}
  <2> SUFFICES ASSUME B # {} PROVE FALSE
    OBVIOUS
  <2>1. PICK k \in B : \A j \in B : k <= j
    <3>1. B \in SUBSET Nat
      OBVIOUS
    <3> HIDE DEF B
    <3>2. QED BY <3>1, NatMin
  <2>a. k \in Nat /\ k <= n /\ B \in SUBSET Nat
    OBVIOUS
  <2> HIDE DEF B
  <2>2. k \in 1 .. n
    BY <1>0, <1>6, <2>1, <2>a
  <2>3. k - 1 \notin B
    BY <2>1, <2>2, <2>a
  <2>4. QED BY <1>7, <2>1, <2>2, <2>3
<1>9. after[n] \in Data /\ After(after[n], a, T(n))
  <2>1. n \notin B /\ n \in Nat /\ n <= n
    <3> HIDE DEF B
    <3>1. QED BY <1>0, <1>8
  <2> HIDE DEF T
  <2>2. QED BY <2>1
<1>10. QED BY <1>1, <1>9 DEF a, list, n

-----------------------------------------------------------------------------
(* The positions                                                           *)

LEMMA ChangesSpeed ==
  ASSUME NEW p \in Positions, NEW spd \in Int
  PROVE  /\ end_accel(p, spd) \in Positions
         /\ end_accel(p, spd).state = p.state /\ end_accel(p, spd).sensor = p.sensor
         /\ recalculate(p, spd) \in Positions
         /\ recalculate(p, spd).state = p.state /\ recalculate(p, spd).sensor = p.sensor
<1>1. NO_QUEUE \in Int
  BY DEF NO_QUEUE
<1>2. /\ end_accel(p, spd) \in Positions
      /\ end_accel(p, spd).state = p.state /\ end_accel(p, spd).sensor = p.sensor
  BY <1>1 DEF Positions, end_accel
<1>3. /\ recalculate(p, spd) \in Positions
      /\ recalculate(p, spd).state = p.state /\ recalculate(p, spd).sensor = p.sensor
  BY <1>1 DEF Positions, recalculate
<1>4. QED BY <1>2, <1>3

LEMMA SetsSensor ==
  ASSUME NEW p \in Positions, NEW s \in Sensors, NEW g \in Nat
  PROVE  /\ set_sensor(p, s, g) \in Positions
         /\ set_sensor(p, s, g).state = "waiting" /\ set_sensor(p, s, g).sensor = s
<1> DEFINE p1 == [p EXCEPT !.state = "waiting", !.sensor = s, !.gen = g]
           p2 == IF p1.queued_speed_reset # NO_QUEUE THEN end_accel(p1, p1.queued_speed_reset) ELSE p1
           p3 == recalculate(p2, p2.queued_speed_change)
<1>1. p1 \in Positions /\ p1.state = "waiting" /\ p1.sensor = s
  BY DEF Positions
<1>2. p2 \in Positions /\ p2.state = "waiting" /\ p2.sensor = s
  <2> HIDE DEF p1
  <2>1. p1.queued_speed_reset \in Int
    BY <1>1 DEF Positions
  <2>2. QED BY <1>1, <2>1, ChangesSpeed
<1>3. p3 \in Positions /\ p3.state = "waiting" /\ p3.sensor = s
  <2> HIDE DEF p2
  <2>1. p2.queued_speed_change \in Int
    BY <1>2 DEF Positions
  <2>2. QED BY <1>2, <2>1, ChangesSpeed
<1>4. set_sensor(p, s, g) \in {p1, p2, p3}
  <2>1. CASE FirstSensor(p)
    BY <2>1 DEF set_sensor
  <2>2. CASE ~FirstSensor(p) /\ p2.queued_speed_change = NO_QUEUE
    BY <2>2 DEF set_sensor
  <2>3. CASE ~FirstSensor(p) /\ p2.queued_speed_change # NO_QUEUE
    BY <2>3 DEF set_sensor
  <2>4. QED BY <2>1, <2>2, <2>3
<1>5. QED BY <1>1, <1>2, <1>3, <1>4

LEMMA UpdatesSpeed ==
  ASSUME NEW p \in Positions, NEW spd \in Speeds \cup {0}
  PROVE  /\ update_speed(p, spd) \in Positions
         /\ update_speed(p, spd).state = p.state /\ update_speed(p, spd).sensor = p.sensor
<1>1. spd \in Int
  BY CoordAssumption
<1>2. \A q \in {[p EXCEPT !.queued_speed_reset = spd], [p EXCEPT !.spd_final = spd], [p EXCEPT !.queued_speed_change = spd]} :
        q \in Positions /\ q.state = p.state /\ q.sensor = p.sensor
  <2>1. \A q \in {[p EXCEPT !.queued_speed_reset = spd]} : q \in Positions /\ q.state = p.state /\ q.sensor = p.sensor
    BY <1>1 DEF Positions
  <2>2. \A q \in {[p EXCEPT !.spd_final = spd]} : q \in Positions /\ q.state = p.state /\ q.sensor = p.sensor
    BY <1>1 DEF Positions
  <2>3. \A q \in {[p EXCEPT !.queued_speed_change = spd]} : q \in Positions /\ q.state = p.state /\ q.sensor = p.sensor
    BY <1>1 DEF Positions
  <2>4. QED BY <2>1, <2>2, <2>3, Zenon
<1> DEFINE p1 == [p EXCEPT !.queued_speed_reset = spd]
           p2 == end_accel(p, spd)
           p3 == [p EXCEPT !.spd_final = spd]
           p4 == [p EXCEPT !.queued_speed_change = spd]
           p5 == recalculate(p, spd)
<1>3. update_speed(p, spd) \in {p1, p2, p3, p4, p5}
  <2>1. CASE p.spd_final = spd
    BY <2>1 DEF update_speed
  <2>2. CASE p.spd_final # spd /\ p.spd_init = 0
    BY <2>2 DEF update_speed
  <2>3. CASE p.spd_final # spd /\ p.spd_init # 0
    BY <2>3 DEF update_speed
  <2> HIDE DEF p1, p2, p3, p4, p5
  <2>4. QED BY <2>1, <2>2, <2>3
<1>4. /\ \A q \in {p1, p3, p4} : q \in Positions /\ q.state = p.state /\ q.sensor = p.sensor
      /\ \A q \in {p2, p5} : q \in Positions /\ q.state = p.state /\ q.sensor = p.sensor
  <2>1. \A q \in {p2, p5} : q \in Positions /\ q.state = p.state /\ q.sensor = p.sensor
    BY <1>1, ChangesSpeed
  <2>2. QED BY <1>2, <2>1
<1> HIDE DEF p1, p2, p3, p4, p5
<1>5. QED BY <1>3, <1>4

-----------------------------------------------------------------------------
(* The invariant                                                           *)

CoordTyped ==
  /\ QueueOK(sq) /\ pos \in [Trains -> Positions]
  /\ tasks \in [Trains -> {"none", "running", "killed"}] /\ gen \in [Trains -> Nat]
  /\ waiting \in [Trains -> [TrnNotifiers -> Sensors \cup {Nowhere}]]
  /\ panic \in BOOLEAN

\* What waits is of tasks that run or that are gone.
NoneToCome == \A s \in Sensors : \A i \in 1 .. Len(sq[s]) : sq[s][i].tid.gen <= gen[sq[s][i].tid.trn]

\* A notifier waits for a sensor exactly if it has an entry there.
WaitersListed ==
  \A t \in Trains, n \in TrnNotifiers, s \in Sensors : Has(sq[s], Tid(t, n)) <=> waiting[t][n] = s

\* The position of a train of which no task was killed is in step, whether the
\* train's task still runs or not.
TrainInStep(t) ==
  gen[t] = 0 =>
    /\ pos[t].sensor # Nowhere => (pos[t].state = "waiting" <=> waiting[t]["route"] # Nowhere)
    /\ waiting[t]["route"] \in {Nowhere, pos[t].sensor}

\* What makes the coordinator trap: a change of speed that recalculates a prediction
\* although there is no sensor for it, or something left behind by killed tasks.
TrapExplained == \E t \in Trains : pos[t].sensor = Nowhere /\ (gen[t] > 0 \/ pos[t].spd_init # 0)

CoordInv ==
  /\ CoordTyped /\ NoneToCome
  /\ panic \/ WaitersListed
  /\ panic => \E t \in Trains : gen[t] > 0
  /\ trapped => TrapExplained
  /\ \A t \in Trains : TrainInStep(t)

LEMMA NotASensor == Nowhere \notin Sensors
  BY CoordAssumption DEF Nowhere

LEMMA TidIs ==
  ASSUME CoordTyped, NEW t \in Trains, NEW n \in TrnNotifiers
  PROVE  /\ Tid(t, n) \in Tids /\ Tid(t, n).trn = t /\ Tid(t, n).notifier = n /\ Tid(t, n).gen = gen[t]
BY DEF Tid, Tids, CoordTyped

LEMMA OldHas ==
  NoneToCome => \A s \in Sensors : \A tid : Has(sq[s], tid) => tid.gen <= gen[tid.trn]
BY DEF NoneToCome, Has

\* As long as nothing is killed there is an entry for one who does not wait yet.
LEMMA RoomLeft ==
  ASSUME CoordInv, ~panic, \A t \in Trains : gen[t] = 0,
         NEW t \in Trains, NEW n \in TrnNotifiers, waiting[t][n] = Nowhere
  PROVE  Used(sq) # MAX_WAITING_PROCESSES
<1> DEFINE P == {p \in Sensors \X (1 .. MAX_WAITING_PROCESSES) : p[2] <= Len(sq[p[1]])}
           all == Trains \X TrnNotifiers
           T == all \ {<<t, n>>}
           tid(p) == sq[p[1]][p[2]].tid
           f == [p \in P |-> <<tid(p).trn, tid(p).notifier>>]
<1>1. CoordTyped /\ NoneToCome /\ WaitersListed
  BY DEF CoordInv
<1>2. ASSUME NEW p \in P
      PROVE  /\ p[1] \in Sensors /\ p[2] \in 1 .. Len(sq[p[1]]) /\ p = <<p[1], p[2]>>
             /\ tid(p) \in Tids /\ tid(p) = Tid(tid(p).trn, tid(p).notifier)
             /\ waiting[tid(p).trn][tid(p).notifier] = p[1]
  <2>1. /\ p[1] \in Sensors /\ p[2] \in 1 .. MAX_WAITING_PROCESSES /\ p[2] <= Len(sq[p[1]]) /\ p = <<p[1], p[2]>>
    OBVIOUS
  <2>2. sq[p[1]] \in Seq(Entries)
    BY <1>1, <2>1 DEF CoordTyped, QueueOK
  <2>3. p[2] \in 1 .. Len(sq[p[1]])
    BY <2>1, <2>2, CoordAssumption
  <2>4. tid(p) \in Tids
    <3>1. sq[p[1]][p[2]] \in Entries
      BY <2>2, <2>3
    <3>2. QED BY <3>1 DEF Entries
  <2> HIDE DEF P
  <2>5. tid(p).gen = 0 /\ gen[tid(p).trn] = 0
    <3>1. tid(p).gen <= gen[tid(p).trn]
      BY <1>1, <2>1, <2>3 DEF NoneToCome
    <3>2. QED BY <2>4, <3>1 DEF Tids
  <2>6. tid(p) = Tid(tid(p).trn, tid(p).notifier)
    BY <2>4, <2>5 DEF Tids, Tid
  <2>7. Has(sq[p[1]], tid(p))
    BY <2>3 DEF Has
  <2>8. waiting[tid(p).trn][tid(p).notifier] = p[1]
    <3>1. PICK u, m : u = tid(p).trn /\ m = tid(p).notifier
      OBVIOUS
    <3>2. u \in Trains /\ m \in TrnNotifiers /\ tid(p) = Tid(u, m)
      BY <2>4, <2>6, <3>1 DEF Tids
    <3> HIDE DEF tid
    <3>3. waiting[u][m] = p[1]
      BY <1>1, <2>1, <2>7, <3>2 DEF WaitersListed
    <3>4. QED BY <3>1, <3>3
  <2>9. QED BY <2>1, <2>3, <2>4, <2>6, <2>8
<1>3. f \in [P -> T]
  <2>1. ASSUME NEW p \in P PROVE <<tid(p).trn, tid(p).notifier>> \in T
    <3>1. tid(p).trn \in Trains /\ tid(p).notifier \in TrnNotifiers
      BY <1>2 DEF Tids
    <3>2. waiting[tid(p).trn][tid(p).notifier] # Nowhere
      BY <1>2, NotASensor
    <3> HIDE DEF tid
    <3>3. QED BY <3>1, <3>2
  <2>2. QED BY <2>1
<1>4. ASSUME NEW p \in P, NEW r \in P, f[p] = f[r] PROVE p = r
  <2>1. tid(p).trn = tid(r).trn /\ tid(p).notifier = tid(r).notifier
    BY <1>4
  <2>2. p[1] = r[1] /\ tid(p) = tid(r)
    <3>1. /\ tid(p) = Tid(tid(p).trn, tid(p).notifier) /\ waiting[tid(p).trn][tid(p).notifier] = p[1]
          /\ tid(r) = Tid(tid(r).trn, tid(r).notifier) /\ waiting[tid(r).trn][tid(r).notifier] = r[1]
      BY <1>2
    <3> HIDE DEF tid
    <3>2. QED BY <2>1, <3>1
  <2>3. OncePerTask(sq[p[1]])
    BY <1>1, <1>2 DEF CoordTyped, QueueOK, ListOK
  <2>4. p[2] = r[2]
    BY <1>2, <2>2, <2>3 DEF OncePerTask
  <2>5. QED BY <1>2, <2>2, <2>4
<1>5. f \in Injection(P, T)
  <2> HIDE DEF f, P, T
  <2>1. QED BY <1>3, <1>4 DEF Injection, IsInjective
<1> HIDE DEF f, P
<1>6. IsFiniteSet(TrnNotifiers) /\ Cardinality(TrnNotifiers) = 2
  <2>1. IsFiniteSet({"route"}) /\ Cardinality({"route"}) = 1
    BY FS_Singleton
  <2>2. /\ IsFiniteSet({"route"} \cup {"other"})
        /\ Cardinality({"route"} \cup {"other"}) = 1 + 1
    BY <2>1, FS_AddElement
  <2>3. {"route"} \cup {"other"} = TrnNotifiers
    BY DEF TrnNotifiers
  <2>4. QED BY <2>2, <2>3
<1>7. IsFiniteSet(all) /\ Cardinality(all) = Cardinality(Trains) * 2
  BY <1>6, CoordAssumption, FS_Product
<1>8. IsFiniteSet(T) /\ Cardinality(T) = Cardinality(all) - 1
  <2>1. <<t, n>> \in all
    OBVIOUS
  <2> HIDE DEF all
  <2>2. QED BY <1>7, <2>1, FS_RemoveElement
<1>9. IsFiniteSet(P) /\ Cardinality(P) <= Cardinality(T)
  <2> HIDE DEF T
  <2>1. QED BY <1>5, <1>8, FS_Injection
<1>10. Cardinality(P) \in Nat /\ Cardinality(T) \in Nat /\ Cardinality(Trains) \in Nat
  BY <1>8, <1>9, CoordAssumption, FS_CardinalityType
<1> HIDE DEF T, all
<1>11. Cardinality(P) < MAX_WAITING_PROCESSES
  BY <1>7, <1>8, <1>9, <1>10, CoordAssumption
<1>12. QED BY <1>11, CoordAssumption DEF Used, P

LEMMA CoordInvInit == CoordInit => CoordInv
<1> SUFFICES ASSUME CoordInit PROVE CoordInv
  OBVIOUS
<1>1. \A s \in Sensors : sq[s] = <<>>
  BY DEF CoordInit
<1>2. QueueOK(sq)
  <2>1. <<>> \in Seq(Entries) /\ ListOK(<<>>)
    BY DEF ListOK, InOrderOfTime, OncePerTask, AsksRight
  <2>2. QED BY <2>1 DEF CoordInit, QueueOK
<1>3. pos \in [Trains -> Positions]
  BY DEF CoordInit, NoPosition, Positions, NO_QUEUE
<1>4. CoordTyped
  BY <1>2, <1>3 DEF CoordTyped, CoordInit
<1>5. NoneToCome
  BY <1>1 DEF NoneToCome
<1>6. WaitersListed
  BY <1>1, NotASensor DEF WaitersListed, Has, CoordInit
<1>7. \A t \in Trains : TrainInStep(t)
  BY DEF TrainInStep, CoordInit, NoPosition, TrnNotifiers
<1>8. QED BY <1>4, <1>5, <1>6, <1>7 DEF CoordInv, CoordInit

LEMMA Registers == ASSUME CoordInv, ~panic, ~trapped, NEW t \in Trains, RegisterTrain(t) PROVE CoordInv'
<1>1. UNCHANGED <<sq, pos, gen, waiting, panic, trapped>> /\ tasks' \in [Trains -> {"none", "running", "killed"}]
  BY DEF RegisterTrain, CoordInv, CoordTyped
<1>2. CoordTyped'
  BY <1>1 DEF CoordInv, CoordTyped, QueueOK
<1>3. NoneToCome' /\ (WaitersListed)' /\ \A u \in Trains : TrainInStep(u)'
  BY <1>1 DEF CoordInv, NoneToCome, WaitersListed, TrainInStep, Has, Tid
<1>4. QED BY <1>1, <1>2, <1>3 DEF CoordInv

\* The tasks of a train are killed: its entries are of tasks that are gone.
LEMMA Kills == ASSUME CoordInv, ~panic, ~trapped, NEW t \in Trains, KillTrain(t) PROVE CoordInv'
<1>1. /\ UNCHANGED <<sq, pos, panic, trapped>> /\ tasks' \in [Trains -> {"none", "running", "killed"}]
      /\ gen' = [gen EXCEPT ![t] = gen[t] + 1]
      /\ waiting' = [waiting EXCEPT ![t] = [n \in TrnNotifiers |-> Nowhere]]
  BY DEF KillTrain, CoordInv, CoordTyped
<1>2. CoordTyped /\ NoneToCome /\ WaitersListed
  BY DEF CoordInv
<1>3. /\ gen' \in [Trains -> Nat] /\ gen'[t] = gen[t] + 1 /\ gen[t] \in Nat
      /\ \A u \in Trains : gen[u] <= gen'[u] /\ (u # t => gen'[u] = gen[u])
  BY <1>1, <1>2 DEF CoordTyped
<1>4. /\ waiting' \in [Trains -> [TrnNotifiers -> Sensors \cup {Nowhere}]]
      /\ \A n \in TrnNotifiers : waiting'[t][n] = Nowhere
      /\ \A u \in Trains : u # t => waiting'[u] = waiting[u]
  BY <1>1, <1>2 DEF CoordTyped
<1>5. CoordTyped'
  BY <1>1, <1>2, <1>3, <1>4 DEF CoordTyped, QueueOK
<1>6. NoneToCome'
  <2> SUFFICES ASSUME NEW s \in Sensors, NEW i \in 1 .. Len(sq[s])
               PROVE  sq[s][i].tid.gen <= gen'[sq[s][i].tid.trn]
    BY <1>1 DEF NoneToCome
  <2>1. sq[s][i] \in Entries
    BY <1>2 DEF CoordTyped, QueueOK
  <2>2. PICK u, g : u = sq[s][i].tid.trn /\ g = sq[s][i].tid.gen
    OBVIOUS
  <2>3. u \in Trains /\ g \in Nat /\ g <= gen[u]
    BY <1>2, <2>1, <2>2 DEF NoneToCome, Entries, Tids
  <2>4. gen[u] <= gen'[u] /\ gen[u] \in Nat /\ gen'[u] \in Nat
    BY <1>2, <1>3, <2>3 DEF CoordTyped
  <2>5. QED BY <2>2, <2>3, <2>4
<1>7. WaitersListed'
  <2> SUFFICES ASSUME NEW u \in Trains, NEW n \in TrnNotifiers, NEW s \in Sensors
               PROVE  Has(sq[s], Tid(u, n)') <=> waiting'[u][n] = s
    BY <1>1 DEF WaitersListed, Has
  <2>1. CASE u = t
    <3>1. waiting'[u][n] # s
      BY <1>4, <2>1, NotASensor
    <3>2. Tid(u, n)'.gen = gen[t] + 1 /\ Tid(u, n)'.trn = t
      BY <1>3, <2>1 DEF Tid
    <3>3. ~(Tid(u, n)'.gen <= gen[Tid(u, n)'.trn])
      BY <1>3, <3>2
    <3>4. QED BY <1>2, <3>1, <3>3, OldHas
  <2>2. CASE u # t
    <3>1. Tid(u, n)' = Tid(u, n) /\ waiting'[u][n] = waiting[u][n]
      BY <1>3, <1>4, <2>2 DEF Tid
    <3>2. QED BY <1>2, <3>1 DEF WaitersListed
  <2>3. QED BY <2>1, <2>2
<1>8. ASSUME NEW u \in Trains PROVE TrainInStep(u)'
  <2>1. CASE u = t
    <3>1. gen'[t] # 0
      BY <1>3
    <3>2. QED BY <2>1, <3>1 DEF TrainInStep
  <2>2. CASE u # t
    <3>1. gen'[u] = gen[u] /\ waiting'[u] = waiting[u] /\ pos' = pos
      BY <1>1, <1>3, <1>4, <2>2
    <3>2. QED BY <3>1 DEF CoordInv, TrainInStep
  <2>3. QED BY <2>1, <2>2
<1>9. QED BY <1>1, <1>5, <1>6, <1>7, <1>8 DEF CoordInv

\* A train is done: nobody of it waits.
LEMMA Finishes == ASSUME CoordInv, ~panic, ~trapped, NEW t \in Trains, TrainDone(t) PROVE CoordInv'
<1>1. /\ UNCHANGED <<gen, waiting, panic, trapped>> /\ tasks' \in [Trains -> {"none", "running", "killed"}]
      /\ sq' = sensor_queue_free_train(sq, t) /\ pos' = [pos EXCEPT ![t] = NoPosition]
      /\ \A n \in TrnNotifiers : waiting[t][n] = Nowhere
  BY DEF TrainDone, CoordInv, CoordTyped
<1>2. CoordTyped /\ NoneToCome /\ WaitersListed
  BY DEF CoordInv
<1>3. /\ QueueOK(sq')
      /\ \A s \in Sensors : \A tid : Has(sq'[s], tid) => Has(sq[s], tid)
      /\ \A s \in Sensors : \A tid : Has(sq[s], tid) /\ tid.trn # t => Has(sq'[s], tid)
  BY <1>1, <1>2, FreesTrain DEF CoordTyped
<1>4. /\ pos' \in [Trains -> Positions] /\ pos'[t].sensor = Nowhere
      /\ \A u \in Trains : u # t => pos'[u] = pos[u]
  <2>1. NoPosition \in Positions /\ NoPosition.sensor = Nowhere
    BY DEF NoPosition, Positions, NO_QUEUE
  <2>2. QED BY <1>1, <1>2, <2>1 DEF CoordTyped
<1>5. CoordTyped'
  BY <1>1, <1>2, <1>3, <1>4 DEF CoordTyped, QueueOK
<1>6. NoneToCome'
  <2> SUFFICES ASSUME NEW s \in Sensors, NEW i \in 1 .. Len(sq'[s])
               PROVE  sq'[s][i].tid.gen <= gen[sq'[s][i].tid.trn]
    BY <1>1 DEF NoneToCome
  <2>1. Has(sq'[s], sq'[s][i].tid)
    BY DEF Has
  <2>2. QED BY <1>2, <1>3, <2>1, OldHas
<1>7. WaitersListed'
  <2> SUFFICES ASSUME NEW u \in Trains, NEW n \in TrnNotifiers, NEW s \in Sensors
               PROVE  Has(sq'[s], Tid(u, n)) <=> waiting[u][n] = s
    BY <1>1 DEF WaitersListed, Has, Tid
  <2>1. Tid(u, n).trn = u
    BY DEF Tid
  <2>2. Has(sq[s], Tid(u, n)) <=> waiting[u][n] = s
    BY <1>2 DEF WaitersListed
  <2>3. CASE u = t
    BY <1>1, <1>3, <2>2, <2>3, NotASensor
  <2>4. CASE u # t
    BY <1>3, <2>1, <2>2, <2>4
  <2>5. QED BY <2>3, <2>4
<1>8. ASSUME NEW u \in Trains PROVE TrainInStep(u)'
  <2>1. CASE u = t
    BY <1>1, <1>4, <2>1 DEF TrainInStep, TrnNotifiers
  <2>2. CASE u # t
    BY <1>1, <1>4, <2>2 DEF CoordInv, TrainInStep
  <2>3. QED BY <2>1, <2>2
<1>9. QED BY <1>1, <1>5, <1>6, <1>7, <1>8 DEF CoordInv

\* A notifier waits for a sensor: it gets an entry, and its train's position is
\* set if it is the route notifier.
LEMMA Waits ==
  ASSUME CoordInv, ~panic, ~trapped, NEW t \in Trains, NEW n \in TrnNotifiers, NEW s \in Sensors, WaitSensor(t, n, s)
  PROVE  CoordInv'
<1> DEFINE Entry(time) == [tid |-> Tid(t, n), expected_time |-> time, pos_rqst |-> n = "route"]
           p == set_sensor(pos[t], s, gen[t])
           tid == Tid(t, n)
<1>0. CoordTyped /\ NoneToCome /\ WaitersListed
  BY DEF CoordInv
<1>1. /\ waiting[t][n] = Nowhere /\ waiting' = [waiting EXCEPT ![t][n] = s] /\ UNCHANGED <<tasks, gen, trapped>>
      /\ n = "route" => pos' = [pos EXCEPT ![t] = p]
      /\ n # "route" => pos' = pos
  BY DEF WaitSensor
<1>2. ~Has(sq[s], tid)
  BY <1>0, <1>1, NotASensor DEF WaitersListed
<1>3. \E time \in Times : sensor_queue_add_waiting_tid(sq, s, Entry(time))
  <2>1. CASE n # "route"
    BY <2>1 DEF WaitSensor, Times
  <2>2. CASE n = "route"
    <3>1. \A time : sensor_queue_adjust_waiting_tid(sq, s, tid, time) = sq
      <4>1. ~\E e \in ToSet(sq[s]) : e.tid = tid
        BY <1>2 DEF ToSet, Has
      <4>2. QED BY <4>1 DEF sensor_queue_adjust_waiting_tid
    <3> DEFINE q(time) == IF pos[t].queued_speed_change # p.queued_speed_change
                          THEN sensor_queue_adjust_waiting_tid(sq, s, tid, time) ELSE sq
    <3>2. PICK time \in Est \cup IF FirstSensor(pos[t]) THEN {TIME_NONE} ELSE {} :
            sensor_queue_add_waiting_tid(q(time), s, Entry(time))
      BY <2>2 DEF WaitSensor
    <3>3. q(time) = sq
      BY <3>1
    <3>4. time \in Times
      BY DEF Times
    <3> HIDE DEF q, Entry
    <3>5. QED BY <3>2, <3>3, <3>4
  <2>3. QED BY <2>1, <2>2
<1>4. PICK time \in Times : sensor_queue_add_waiting_tid(sq, s, Entry(time))
  BY <1>3
<1> HIDE DEF Entry
<1> DEFINE next == [sq EXCEPT ![s] = sensor_queue_insert(sq[s], Entry(time))]
<1>5. \/ Used(sq) = MAX_WAITING_PROCESSES /\ panic' = TRUE /\ sq' = sq
      \/ panic' = panic /\ sq' = next
  <2>1. IF Used(sq) = MAX_WAITING_PROCESSES THEN panic' = TRUE /\ sq' = sq ELSE panic' = panic /\ sq' = next
    BY <1>4 DEF sensor_queue_add_waiting_tid
  <2> HIDE DEF next
  <2>2. QED BY <2>1, Zenon
<1>6. Entry(time) \in Entries /\ Entry(time).tid = tid /\ (Entry(time).pos_rqst <=> tid.notifier = "route")
  <2>1. tid \in Tids /\ tid.notifier = n
    BY <1>0, TidIs
  <2> HIDE DEF tid
  <2>2. Entry(time) = [tid |-> tid, expected_time |-> time, pos_rqst |-> n = "route"]
    BY DEF Entry, tid
  <2>3. [tid |-> tid, expected_time |-> time, pos_rqst |-> n = "route"] \in Entries
    BY <2>1 DEF Entries
  <2>4. Entry(time) \in Entries
    BY <2>2, <2>3, Zenon
  <2>5. Entry(time).tid = tid /\ Entry(time).pos_rqst = (n = "route")
    BY <2>2
  <2>6. QED BY <2>1, <2>4, <2>5
<1>7. /\ ListOK(sensor_queue_insert(sq[s], Entry(time)))
      /\ \A x : Has(sensor_queue_insert(sq[s], Entry(time)), x) <=> Has(sq[s], x) \/ x = tid
  <2>1. ListOK(sq[s])
    BY <1>0 DEF CoordTyped, QueueOK
  <2>2. QED BY <1>2, <1>6, <2>1, Inserts
<1>8. /\ QueueOK(sq') /\ panic' \in BOOLEAN
      /\ \A u \in Sensors : \A x : Has(sq'[u], x) => Has(sq[u], x) \/ (u = s /\ x = tid)
      /\ panic' \/ \A u \in Sensors : \A x : Has(sq'[u], x) <=> Has(sq[u], x) \/ (u = s /\ x = tid)
  <2>1. CASE panic' = TRUE /\ sq' = sq
    BY <1>0, <2>1 DEF CoordTyped
  <2>2. CASE panic' = panic /\ sq' = next
    <3> DEFINE new == sensor_queue_insert(sq[s], Entry(time))
    <3>1. new \in Seq(Entries) /\ ListOK(new) /\ \A x : Has(new, x) <=> Has(sq[s], x) \/ x = tid
      BY <1>7 DEF ListOK
    <3>2. sq' = [sq EXCEPT ![s] = new]
      BY <2>2
    <3> HIDE DEF new, tid
    <3>3. sq \in [Sensors -> Seq(Entries)] /\ \A u \in Sensors : ListOK(sq[u])
      BY <1>0 DEF CoordTyped, QueueOK
    <3>4. sq' \in [Sensors -> Seq(Entries)] /\ sq'[s] = new /\ \A u \in Sensors \ {s} : sq'[u] = sq[u]
      BY <3>1, <3>2, <3>3
    <3>5. QueueOK(sq')
      BY <3>1, <3>3, <3>4 DEF QueueOK
    <3>6. \A u \in Sensors : \A x : Has(sq'[u], x) <=> Has(sq[u], x) \/ (u = s /\ x = tid)
      BY <3>1, <3>4
    <3>7. panic' \in BOOLEAN
      BY <1>0, <2>2 DEF CoordTyped
    <3>8. QED BY <3>5, <3>6, <3>7
  <2>3. QED BY <1>5, <2>1, <2>2
<1>9. /\ waiting' \in [Trains -> [TrnNotifiers -> Sensors \cup {Nowhere}]]
      /\ waiting'[t][n] = s
      /\ \A u \in Trains, m \in TrnNotifiers : <<u, m>> # <<t, n>> => waiting'[u][m] = waiting[u][m]
  <2>1. waiting' = [waiting EXCEPT ![t] = [waiting[t] EXCEPT ![n] = s]]
    BY <1>1
  <2>2. QED BY <1>0, <2>1 DEF CoordTyped
<1>10. /\ pos' \in [Trains -> Positions]
       /\ n = "route" => pos'[t].state = "waiting" /\ pos'[t].sensor = s
       /\ \A u \in Trains : u # t \/ n # "route" => pos'[u] = pos[u]
  <2>1. pos[t] \in Positions /\ gen[t] \in Nat /\ pos \in [Trains -> Positions]
    BY <1>0 DEF CoordTyped
  <2>2. p \in Positions /\ p.state = "waiting" /\ p.sensor = s
    BY <2>1, SetsSensor
  <2> HIDE DEF p
  <2>3. QED BY <1>1, <2>1, <2>2
<1>11. CoordTyped'
  BY <1>0, <1>1, <1>8, <1>9, <1>10 DEF CoordTyped
<1>12. NoneToCome'
  <2> SUFFICES ASSUME NEW u \in Sensors, NEW i \in 1 .. Len(sq'[u])
               PROVE  sq'[u][i].tid.gen <= gen[sq'[u][i].tid.trn]
    BY <1>1 DEF NoneToCome
  <2>1. Has(sq'[u], sq'[u][i].tid)
    BY DEF Has
  <2>2. gen[t] \in Nat /\ tid.gen = gen[t] /\ tid.trn = t
    BY <1>0, TidIs DEF CoordTyped
  <2>3. PICK x : x = sq'[u][i].tid
    OBVIOUS
  <2> HIDE DEF tid
  <2>4. Has(sq[u], x) \/ x = tid
    BY <1>8, <2>1, <2>3
  <2>5. ASSUME Has(sq[u], x) PROVE x.gen <= gen[x.trn]
    BY <1>0, <2>5, OldHas
  <2>6. ASSUME x = tid PROVE x.gen <= gen[x.trn]
    BY <2>2, <2>6
  <2>7. QED BY <2>3, <2>4, <2>5, <2>6
<1>13. panic' \/ WaitersListed'
  <2> SUFFICES ASSUME ~panic', NEW u \in Trains, NEW m \in TrnNotifiers, NEW x \in Sensors
               PROVE  Has(sq'[x], Tid(u, m)) <=> waiting'[u][m] = x
    BY <1>1 DEF WaitersListed, Has, Tid
  <2>1. Has(sq'[x], Tid(u, m)) <=> Has(sq[x], Tid(u, m)) \/ (x = s /\ Tid(u, m) = tid)
    BY <1>8
  <2>2. Has(sq[x], Tid(u, m)) <=> waiting[u][m] = x
    BY <1>0 DEF WaitersListed
  <2>3. Tid(u, m) = tid <=> u = t /\ m = n
    BY DEF Tid
  <2> HIDE DEF tid
  <2>4. CASE u = t /\ m = n
    BY <1>1, <1>9, <2>1, <2>2, <2>3, <2>4, NotASensor
  <2>5. CASE ~(u = t /\ m = n)
    BY <1>9, <2>1, <2>2, <2>3, <2>5
  <2>6. QED BY <2>4, <2>5
<1>14. panic' => \E u \in Trains : gen'[u] > 0
  <2> SUFFICES ASSUME panic', \A u \in Trains : ~(gen[u] > 0) PROVE FALSE
    BY <1>1
  <2>1. \A u \in Trains : gen[u] = 0
    BY <1>0 DEF CoordTyped
  <2>2. Used(sq) = MAX_WAITING_PROCESSES
    BY <1>5
  <2>3. QED BY <1>1, <2>1, <2>2, RoomLeft
<1>15. ASSUME NEW u \in Trains PROVE TrainInStep(u)'
  <2>1. "route" \in TrnNotifiers
    BY DEF TrnNotifiers
  <2>2. CASE u = t /\ n = "route"
    BY <1>9, <1>10, <2>1, <2>2, NotASensor DEF TrainInStep
  <2>3. CASE ~(u = t /\ n = "route")
    <3>1. pos'[u] = pos[u] /\ gen' = gen /\ waiting'[u]["route"] = waiting[u]["route"]
      BY <1>1, <1>9, <1>10, <2>1, <2>3
    <3>2. QED BY <3>1 DEF CoordInv, TrainInStep
  <2>4. QED BY <2>2, <2>3
<1>16. QED BY <1>1, <1>11, <1>12, <1>13, <1>14, <1>15 DEF CoordInv

\* A step that traps changes nothing else.
LEMMA Traps ==
  ASSUME CoordInv, UNCHANGED <<sq, pos, tasks, gen, waiting, panic>>, TrapExplained
  PROVE  CoordInv'
<1>1. CoordTyped'
  BY DEF CoordInv, CoordTyped, QueueOK
<1>2. NoneToCome'
  BY DEF CoordInv, NoneToCome
<1>3. panic' \/ WaitersListed'
  BY DEF CoordInv, WaitersListed, Has, Tid
<1>4. TrapExplained' /\ \A t \in Trains : TrainInStep(t)'
  BY DEF CoordInv, TrapExplained, TrainInStep
<1>5. panic' => \E t \in Trains : gen'[t] > 0
  BY DEF CoordInv
<1>6. QED BY <1>1, <1>2, <1>3, <1>4, <1>5 DEF CoordInv

\* A reply traps only over what killed tasks have left: a train of which none was
\* killed has a sensor while its route notifier has an entry.
LEMMA TrapsReplying ==
  ASSUME CoordInv, ~panic, ~trapped, NEW s \in Sensors, Hit(s), ReplyTraps(s)
  PROVE  CoordInv'
<1>1. CoordTyped /\ NoneToCome /\ WaitersListed
  BY DEF CoordInv
<1>2. UNCHANGED <<sq, pos, tasks, gen, waiting, panic>>
  BY DEF Hit
<1>3. PICK i \in 1 .. Len(sq[s]) : sq[s][i].pos_rqst /\ pos[sq[s][i].tid.trn].sensor = Nowhere
  <2>1. PICK e \in ToSet(sq[s]) : e.pos_rqst /\ pos[e.tid.trn].sensor = Nowhere
    BY DEF ReplyTraps, ModuleAssertFails
  <2>2. \E i \in 1 .. Len(sq[s]) : e = sq[s][i]
    BY DEF ToSet
  <2>3. QED BY <2>1, <2>2
<1>4. PICK t, tid : t = sq[s][i].tid.trn /\ tid = sq[s][i].tid
  OBVIOUS
<1>5. ListOK(sq[s]) /\ sq[s][i] \in Entries
  BY <1>1 DEF CoordTyped, QueueOK
<1>6. t \in Trains /\ tid \in Tids /\ tid.trn = t /\ tid.gen <= gen[t] /\ gen[t] \in Nat
  BY <1>1, <1>4, <1>5 DEF Entries, Tids, NoneToCome, CoordTyped
<1>7. tid.notifier = "route"
  BY <1>3, <1>4, <1>5 DEF ListOK, AsksRight
<1>8. gen[t] > 0
  <2> SUFFICES ASSUME gen[t] = 0 PROVE FALSE
    BY <1>6
  <2>1. tid = Tid(t, "route")
    BY <1>6, <1>7 DEF Tids, Tid
  <2>2. waiting[t]["route"] = s
    <3>1. Has(sq[s], Tid(t, "route"))
      BY <1>4, <2>1 DEF Has
    <3>2. "route" \in TrnNotifiers
      BY DEF TrnNotifiers
    <3>3. QED BY <1>1, <1>6, <3>1, <3>2 DEF WaitersListed
  <2>3. waiting[t]["route"] = Nowhere
    <3>1. pos[t].sensor = Nowhere
      BY <1>3, <1>4
    <3>2. QED BY <1>6, <3>1 DEF CoordInv, TrainInStep
  <2>4. QED BY <2>2, <2>3, NotASensor
<1>9. TrapExplained
  BY <1>3, <1>4, <1>6, <1>8 DEF TrapExplained
<1>10. QED BY <1>2, <1>9, Traps

\* A sensor is reported: all who wait for it are answered, and the trains whose
\* route notifiers are among them are hit.
LEMMA Reports == ASSUME CoordInv, ~panic, ~trapped, NEW s \in Sensors, Hit(s) PROVE CoordInv'
<1> DEFINE X == {t \in Trains : \E i \in 1 .. Len(sq[s]) : sq[s][i].pos_rqst /\ sq[s][i].tid.trn = t}
           q == [sq EXCEPT ![s] = <<>>]
<1>0. CoordTyped /\ NoneToCome /\ WaitersListed
  BY DEF CoordInv
<1> SUFFICES ASSUME ~ReplyTraps(s) PROVE CoordInv'
  BY TrapsReplying
<1>1. PICK time \in Est : sq' = AfterReplies(s, time).sq /\ pos' = AfterReplies(s, time).pos
  BY DEF Hit
<1>2. AfterReplies(s, time) \in Data /\ After(AfterReplies(s, time), [sq |-> q, pos |-> pos], X)
  BY <1>0, RepliesToAll DEF CoordTyped
<1>3. QueueOK(sq') /\ pos' \in [Trains -> Positions]
  BY <1>1, <1>2 DEF Data
<1>4. ASSUME NEW u \in Sensors, NEW x PROVE Has(sq'[u], x) <=> Has(sq[u], x) /\ u # s
  <2>1. Has(sq'[u], x) <=> Has(q[u], x)
    BY <1>1, <1>2 DEF After, SameTasks
  <2>2. q[u] = IF u = s THEN <<>> ELSE sq[u]
    BY <1>0 DEF CoordTyped, QueueOK
  <2>3. ~Has(<<>>, x)
    BY DEF Has
  <2> HIDE DEF q
  <2>4. QED BY <2>1, <2>2, <2>3
<1>5. \A t \in Trains : /\ pos'[t].sensor = pos[t].sensor
                        /\ pos'[t].state = IF t \in X THEN "hit" ELSE pos[t].state
  <2> HIDE DEF q, X
  <2>1. QED BY <1>1, <1>2 DEF After
<1>6. /\ UNCHANGED <<tasks, gen, panic, trapped>>
      /\ waiting' = [t \in Trains |-> [n \in TrnNotifiers |->
                       IF Tid(t, n) \in Answered(s) THEN Nowhere ELSE waiting[t][n]]]
  BY DEF Hit
<1>7. ASSUME NEW t \in Trains, NEW n \in TrnNotifiers
      PROVE  waiting'[t][n] = IF waiting[t][n] = s THEN Nowhere ELSE waiting[t][n]
  <2>1. waiting'[t][n] = IF Tid(t, n) \in Answered(s) THEN Nowhere ELSE waiting[t][n]
    BY <1>6
  <2>2. Tid(t, n) \in Answered(s) <=> Has(sq[s], Tid(t, n))
    BY DEF Answered, ToSet, Has
  <2>3. Has(sq[s], Tid(t, n)) <=> waiting[t][n] = s
    BY <1>0 DEF WaitersListed
  <2>4. QED BY <2>1, <2>2, <2>3
<1>8. CoordTyped'
  <2>1. waiting' \in [Trains -> [TrnNotifiers -> Sensors \cup {Nowhere}]]
    BY <1>0, <1>6 DEF CoordTyped
  <2>2. QED BY <1>0, <1>3, <1>6, <2>1 DEF CoordTyped
<1>9. NoneToCome'
  <2> SUFFICES ASSUME NEW u \in Sensors, NEW i \in 1 .. Len(sq'[u])
               PROVE  sq'[u][i].tid.gen <= gen[sq'[u][i].tid.trn]
    BY <1>6 DEF NoneToCome
  <2>1. Has(sq'[u], sq'[u][i].tid)
    BY DEF Has
  <2>2. Has(sq[u], sq'[u][i].tid)
    BY <1>4, <2>1
  <2>3. QED BY <1>0, <2>2, OldHas
<1>10. WaitersListed'
  <2> SUFFICES ASSUME NEW t \in Trains, NEW n \in TrnNotifiers, NEW u \in Sensors
               PROVE  Has(sq'[u], Tid(t, n)) <=> waiting'[t][n] = u
    BY <1>6 DEF WaitersListed, Has, Tid
  <2>1. Has(sq[u], Tid(t, n)) <=> waiting[t][n] = u
    BY <1>0 DEF WaitersListed
  <2>2. QED BY <1>4, <1>7, <2>1, NotASensor
<1>11. ASSUME NEW t \in Trains PROVE TrainInStep(t)'
  <2>1. "route" \in TrnNotifiers
    BY DEF TrnNotifiers
  <2>2. ASSUME gen[t] = 0 PROVE t \in X <=> waiting[t]["route"] = s
    <3>1. ListOK(sq[s])
      BY <1>0 DEF CoordTyped, QueueOK
    <3>2. ASSUME t \in X PROVE waiting[t]["route"] = s
      <4>1. PICK i \in 1 .. Len(sq[s]) : sq[s][i].pos_rqst /\ sq[s][i].tid.trn = t
        BY <3>2
      <4>2. sq[s][i] \in Entries
        BY <3>1 DEF ListOK
      <4>3. sq[s][i].tid.notifier = "route"
        BY <3>1, <4>1 DEF ListOK, AsksRight
      <4>4. sq[s][i].tid.gen <= gen[t] /\ sq[s][i].tid \in Tids
        BY <1>0, <4>1, <4>2 DEF NoneToCome, Entries
      <4>5. sq[s][i].tid = Tid(t, "route")
        <5>1. PICK x : x = sq[s][i].tid
          OBVIOUS
        <5>2. x \in Tids /\ x.gen = 0 /\ x.trn = t /\ x.notifier = "route"
          BY <2>2, <4>1, <4>3, <4>4, <5>1 DEF Tids
        <5>3. QED BY <2>2, <5>1, <5>2 DEF Tids, Tid
      <4>6. QED BY <1>0, <2>1, <4>5 DEF WaitersListed, Has
    <3>3. ASSUME waiting[t]["route"] = s PROVE t \in X
      <4>1. PICK i \in 1 .. Len(sq[s]) : sq[s][i].tid = Tid(t, "route")
        BY <1>0, <2>1, <3>3 DEF WaitersListed, Has
      <4>2. sq[s][i].tid.trn = t /\ sq[s][i].tid.notifier = "route"
        BY <4>1 DEF Tid
      <4>3. sq[s][i].pos_rqst
        BY <3>1, <4>2 DEF ListOK, AsksRight
      <4>4. QED BY <4>2, <4>3
    <3>4. QED BY <3>2, <3>3
  <2> HIDE DEF X
  <2>3. waiting'[t]["route"] = IF waiting[t]["route"] = s THEN Nowhere ELSE waiting[t]["route"]
    BY <1>7, <2>1
  <2>4. TrainInStep(t)
    BY DEF CoordInv
  <2>5. SUFFICES ASSUME gen[t] = 0
                 PROVE  /\ pos'[t].sensor # Nowhere => (pos'[t].state = "waiting" <=> waiting'[t]["route"] # Nowhere)
                        /\ waiting'[t]["route"] \in {Nowhere, pos'[t].sensor}
    BY <1>6 DEF TrainInStep
  <2>6. /\ pos[t].sensor # Nowhere => (pos[t].state = "waiting" <=> waiting[t]["route"] # Nowhere)
        /\ waiting[t]["route"] \in {Nowhere, pos[t].sensor}
    BY <1>5, <2>4, <2>5 DEF TrainInStep
  <2>7. CASE t \in X
    <3>1. pos'[t].state = "hit" /\ waiting'[t]["route"] = Nowhere
      BY <1>5, <2>2, <2>3, <2>5, <2>7
    <3>2. QED BY <3>1
  <2>8. CASE t \notin X
    <3>1. pos'[t].state = pos[t].state /\ waiting'[t]["route"] = waiting[t]["route"]
          /\ pos'[t].sensor = pos[t].sensor
      BY <1>5, <2>2, <2>3, <2>5, <2>8
    <3>2. QED BY <2>6, <3>1
  <2>9. QED BY <2>7, <2>8
<1>12. QED BY <1>6, <1>8, <1>9, <1>10, <1>11 DEF CoordInv

\* A change of speed: at most one entry has a new place in its list.
LEMMA ChangesSpeeds ==
  ASSUME CoordInv, ~panic, ~trapped, NEW t \in Trains, NEW spd \in Speeds \cup {0}, SetSpeed(t, spd)
  PROVE  CoordInv'
<1> DEFINE p == update_speed(pos[t], spd)
<1>0. CoordTyped /\ NoneToCome /\ WaitersListed
  BY DEF CoordInv
<1> SUFFICES ASSUME Recalculates(pos[t], spd) => ~ModuleAssertFails(pos[t].sensor) PROVE CoordInv'
  <2> SUFFICES ASSUME Recalculates(pos[t], spd), ModuleAssertFails(pos[t].sensor) PROVE CoordInv'
    OBVIOUS
  <2>1. UNCHANGED <<sq, pos, tasks, gen, waiting, panic>>
    BY DEF SetSpeed
  <2>2. TrapExplained
    BY DEF TrapExplained, ModuleAssertFails, Recalculates
  <2>3. QED BY <2>1, <2>2, Traps
<1>1. pos' = [pos EXCEPT ![t] = p] /\ UNCHANGED <<tasks, gen, waiting, panic, trapped>>
  BY DEF SetSpeed
<1>2. SameTasks(sq', sq)
  <2> DEFINE last == LastWaited(t, pos[t])
  <2>1. PICK time \in Est :
          sq' = IF Recalculates(pos[t], spd)
                THEN sensor_queue_adjust_waiting_tid(sq, pos[t].sensor, last, time) ELSE sq
    BY DEF SetSpeed
  <2>2. pos[t].sensor \in Sensors \cup {Nowhere} /\ QueueOK(sq)
    BY <1>0 DEF CoordTyped, Positions
  <2> HIDE DEF last
  <2>3. SameTasks(sensor_queue_adjust_waiting_tid(sq, pos[t].sensor, last, time), sq)
    BY <2>2, Adjusts
  <2>4. SameTasks(sq, sq)
    BY <2>2 DEF SameTasks
  <2>5. QED BY <2>1, <2>3, <2>4
<1>3. /\ pos' \in [Trains -> Positions]
      /\ \A u \in Trains : pos'[u].state = pos[u].state /\ pos'[u].sensor = pos[u].sensor
  <2>1. pos \in [Trains -> Positions] /\ pos[t] \in Positions
    BY <1>0 DEF CoordTyped
  <2>2. p \in Positions /\ p.state = pos[t].state /\ p.sensor = pos[t].sensor
    BY <2>1, UpdatesSpeed
  <2> HIDE DEF p
  <2>3. QED BY <1>1, <2>1, <2>2
<1>4. CoordTyped'
  BY <1>0, <1>1, <1>2, <1>3 DEF CoordTyped, SameTasks
<1>5. NoneToCome'
  <2> SUFFICES ASSUME NEW u \in Sensors, NEW i \in 1 .. Len(sq'[u])
               PROVE  sq'[u][i].tid.gen <= gen[sq'[u][i].tid.trn]
    BY <1>1 DEF NoneToCome
  <2>1. Has(sq'[u], sq'[u][i].tid)
    BY DEF Has
  <2>2. Has(sq[u], sq'[u][i].tid)
    BY <1>2, <2>1 DEF SameTasks
  <2>3. QED BY <1>0, <2>2, OldHas
<1>6. WaitersListed'
  <2> SUFFICES ASSUME NEW u \in Trains, NEW n \in TrnNotifiers, NEW s \in Sensors
               PROVE  Has(sq'[s], Tid(u, n)) <=> waiting[u][n] = s
    BY <1>1 DEF WaitersListed, Has, Tid
  <2>1. QED BY <1>0, <1>2 DEF SameTasks, WaitersListed
<1>7. ASSUME NEW u \in Trains PROVE TrainInStep(u)'
  BY <1>1, <1>3 DEF CoordInv, TrainInStep
<1>8. QED BY <1>1, <1>4, <1>5, <1>6, <1>7 DEF CoordInv

LEMMA CoordInvStep == CoordInv /\ [CoordNext]_coordVars => CoordInv'
<1> SUFFICES ASSUME CoordInv, [CoordNext]_coordVars PROVE CoordInv'
  OBVIOUS
<1>1. CASE UNCHANGED coordVars
  <2>1. UNCHANGED <<sq, pos, tasks, gen, waiting, panic, trapped>>
    BY <1>1 DEF coordVars
  <2>2. CoordTyped'
    BY <2>1 DEF CoordInv, CoordTyped, QueueOK
  <2>3. NoneToCome'
    BY <2>1 DEF CoordInv, NoneToCome
  <2>4. panic' \/ WaitersListed'
    BY <2>1 DEF CoordInv, WaitersListed, Has, Tid
  <2>5. \A t \in Trains : TrainInStep(t)'
    BY <2>1 DEF CoordInv, TrainInStep
  <2>6. (panic' => \E t \in Trains : gen'[t] > 0) /\ (trapped' => TrapExplained')
    BY <2>1 DEF CoordInv, TrapExplained
  <2>7. QED BY <2>2, <2>3, <2>4, <2>5, <2>6 DEF CoordInv
<1>2. CASE CoordNext
  <2>1. ~panic /\ ~trapped
    BY <1>2 DEF CoordNext
  <2>2. ASSUME NEW t \in Trains, RegisterTrain(t) PROVE CoordInv'
    BY <2>1, <2>2, Registers
  <2>3. ASSUME NEW t \in Trains, KillTrain(t) PROVE CoordInv'
    BY <2>1, <2>3, Kills
  <2>4. ASSUME NEW t \in Trains, TrainDone(t) PROVE CoordInv'
    BY <2>1, <2>4, Finishes
  <2>5. ASSUME NEW t \in Trains, NEW n \in TrnNotifiers, NEW s \in Sensors, WaitSensor(t, n, s) PROVE CoordInv'
    BY <2>1, <2>5, Waits
  <2>6. ASSUME NEW t \in Trains, NEW spd \in Speeds \cup {0}, SetSpeed(t, spd) PROVE CoordInv'
    BY <2>1, <2>6, ChangesSpeeds
  <2>7. ASSUME NEW s \in Sensors, Hit(s) PROVE CoordInv'
    BY <2>1, <2>7, Reports
  <2>8. CASE \E t \in Trains : \/ RegisterTrain(t) \/ KillTrain(t) \/ TrainDone(t)
                               \/ \E n \in TrnNotifiers, s \in Sensors : WaitSensor(t, n, s)
                               \/ \E spd \in Speeds \cup {0} : SetSpeed(t, spd)
    BY <2>2, <2>3, <2>4, <2>5, <2>6, <2>8, Zenon
  <2>9. CASE \E s \in Sensors : Hit(s)
    BY <2>7, <2>9, Zenon
  <2>10. \/ \E t \in Trains : \/ RegisterTrain(t) \/ KillTrain(t) \/ TrainDone(t)
                              \/ \E n \in TrnNotifiers, s \in Sensors : WaitSensor(t, n, s)
                              \/ \E spd \in Speeds \cup {0} : SetSpeed(t, spd)
         \/ \E s \in Sensors : Hit(s)
    BY <1>2, SMT DEF CoordNext
  <2>11. QED BY <2>8, <2>9, <2>10, Zenon
<1>3. QED BY <1>1, <1>2

-----------------------------------------------------------------------------
(* The theorems                                                            *)

LEMMA SoundQueue == CoordInv => QueueSound
<1> SUFFICES ASSUME CoordInv PROVE QueueSound
  OBVIOUS
<1>1. CoordTyped /\ (panic \/ WaitersListed) /\ (panic => \E t \in Trains : gen[t] > 0)
      /\ (trapped => TrapExplained)
  BY DEF CoordInv
<1>2. \A s \in Sensors : ListOK(sq[s])
  BY <1>1 DEF CoordTyped, QueueOK
<1>3. \A s \in Sensors : \A i \in 1 .. Len(sq[s]) - 1 : sq[s][i].expected_time <= sq[s][i + 1].expected_time
  BY <1>2 DEF ListOK, InOrderOfTime
<1>4. ASSUME ~panic, NEW t \in Trains, NEW n \in TrnNotifiers, NEW s \in Sensors
      PROVE  Cardinality({i \in 1 .. Len(sq[s]) : sq[s][i].tid = Tid(t, n)}) = IF waiting[t][n] = s THEN 1 ELSE 0
  <2> DEFINE I == {i \in 1 .. Len(sq[s]) : sq[s][i].tid = Tid(t, n)}
  <2>1. Has(sq[s], Tid(t, n)) <=> waiting[t][n] = s
    BY <1>1, <1>4 DEF WaitersListed
  <2>2. CASE waiting[t][n] = s
    <3>1. PICK i \in 1 .. Len(sq[s]) : sq[s][i].tid = Tid(t, n)
      BY <2>1, <2>2 DEF Has
    <3>2. OncePerTask(sq[s])
      BY <1>2 DEF ListOK
    <3>3. I = {i}
      BY <3>1, <3>2 DEF OncePerTask
    <3> HIDE DEF I
    <3>4. Cardinality(I) = 1
      BY <3>3, FS_Singleton
    <3>5. QED BY <2>2, <3>4 DEF I
  <2>3. CASE waiting[t][n] # s
    <3>1. I = {}
      BY <2>1, <2>3 DEF Has
    <3> HIDE DEF I
    <3>2. Cardinality(I) = 0
      BY <3>1, FS_EmptySet
    <3>3. QED BY <2>3, <3>2 DEF I
  <2>4. QED BY <2>2, <2>3
<1>5. QED BY <1>1, <1>3, <1>4 DEF QueueSound, TrapExplained

\* The lists of the sensor queue are in the order of the expected times; the pool of
\* entries suffices as long as no task of a train was killed; until it is used up
\* every notifier that waits for a sensor has one entry there, and none for which it
\* does not wait; and without a kill the uassert of sensor_queue_adjust_waiting_tid
\* fails only for a train that has reached a speed before it waited for a sensor
\* (sensor-queue.c, position.c, replyWaitingProcess).
THEOREM QueueAlwaysSound == CoordSpec => []QueueSound
<1>1. CoordSpec => []CoordInv
  BY CoordInvInit, CoordInvStep, PTL DEF CoordSpec
<1>2. QED BY <1>1, SoundQueue, PTL

\* The prediction waits for a sensor when the route notifier of the train does, and for
\* the same one, whatever order waits, sensors and speeds come in (position.c).
THEOREM PositionsStayInStep == CoordSpec => []PositionInStep
<1>1. CoordSpec => []CoordInv
  BY CoordInvInit, CoordInvStep, PTL DEF CoordSpec
<1>2. CoordInv => PositionInStep
  BY DEF CoordInv, TrainInStep, PositionInStep
<1>3. QED BY <1>1, <1>2, PTL
=============================================================================
