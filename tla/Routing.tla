------------------------------ MODULE Routing ------------------------------
(***************************************************************************)
(* routing.c on the real tracks: plan_direct_route searches the track with *)
(* Dijkstra's algorithm on a heap of 16-bit priorities, walks back from    *)
(* the end, and returns the part of the route to drive next: the switches  *)
(* to throw, the sensors to wait for, the speed changes, the segments to   *)
(* lock first and the decision point.  One action is one node taken from   *)
(* the heap; Plan is all that follows the search.                          *)
(*                                                                         *)
(* What the search does not read (the train, its speed, the offset, the    *)
(* direction) is chosen when the plan is made.  The answers of the track   *)
(* server are those of a fixed set of segments in use: each segment is     *)
(* asked for once, so any other answers are those of another set.          *)
(***************************************************************************)
EXTENDS TrackData, SpeedData, SequencesExt, FiniteSets

CONSTANTS
  Layout,    \* the tracks by their names: TrackData's
  Tracks,    \* the names of those in use
  Queries,   \* the pairs of a start node and an end node
  InUse,     \* the sets of segments in use by some train
  Offsets,   \* the offsets asked for, in mm
  Kinds      \* the calls made: "fwd", "rev" (plan_stopped_route), "progress"

VARIABLES
  query,          \* the arguments: track, start_node, end_node, segments in use
  dist, weighted_dist, prev, heap, segment_cache,   \* the locals of the search
  phase,          \* "search", "found", "no route"; after Plan "planned" or "lost"
  route           \* the arguments chosen for Plan and the route returned

vars == <<query, dist, weighted_dist, prev, heap, segment_cache, phase, route>>

INT32_MAX == 2147483647
NULL == -1
SENSOR_NONE == -1
MM_TO_UM == 1000
IN_USE_PENALTY == 15
REVERSE_OFFSET == 120
MIN_ROLL_DIST == 50 * MM_TO_UM
BRANCHES_CAP == 128    \* deque_init(&branches, 7)
SEGMENTS_CAP == 8      \* deque_init(&actions->segments, 3)
Uint16(x) == x % 65536

\* The heap is that of priority-queue.c
PQ == INSTANCE PriorityQueue
        WITH Items <- 0 .. TRACK_MAX - 1, Priorities <- 0 .. 65535, MAX_PQ_ELEMENTS <- 256,
             None <- NULL, popped <- NULL

track == Layout[query.track]
Array == 0 .. TRACK_MAX - 1   \* the nodes that dist[] and the heap have room for

-----------------------------------------------------------------------------
(* The search                                                              *)

\* priority_queue_init: heapify at hi, hi - 1, ..., lo, in halves, so that TLC's
\* recursion is shallow
RECURSIVE HeapifyDown(_, _, _)
HeapifyDown(h, lo, hi) ==
  IF PQ!Size(h) = 0 \/ lo > hi THEN h
  ELSE IF lo = hi THEN PQ!Heapify(h, lo)
  ELSE LET mid == (lo + hi) \div 2 IN HeapifyDown(HeapifyDown(h, mid + 1, hi), lo, mid)

Init ==
  \E t \in Tracks, q \in Queries, u \in InUse :
    /\ query = [track |-> t, start |-> q[1], end |-> q[2], inUse |-> u]
    /\ dist = [n \in Array |-> IF n = q[1] THEN 0 ELSE INT32_MAX]
    /\ weighted_dist = dist
    /\ prev = [n \in Array |-> NULL]
    /\ heap = HeapifyDown([n \in Array |-> [value |-> n, priority |-> Uint16(dist[n])]],
                          0, (TRACK_MAX \div 2) - 1)
    /\ segment_cache = [s \in 0 .. N_SEGMENTS - 1 |-> "none"]
    /\ phase = "search"
    /\ route = <<>>

\* track_server_segment_is_locked: the request asks whether the segment is free
\* and the call returns whether the answer was yes
segment_is_locked(s) == s \notin query.inUse

\* The alternative path to the end of edge e of node, applied to the arrays a.
\* A node that has left the heap, or that never fitted in it, keeps its path.
RelaxLongest(a, node, e, mult) ==  \* faulty: the penalties add up along the path
  LET alt == a.weighted_dist[node] + mult * e.dist
      at == {i \in DOMAIN a.heap : a.heap[i].value = e.dest}
  IN IF e.dest \notin Array \/ at = {} THEN a
     ELSE IF alt >= a.weighted_dist[e.dest] THEN a
     ELSE [dist |-> [a.dist EXCEPT ![e.dest] = a.dist[node] + e.dist],
           weighted_dist |-> [a.weighted_dist EXCEPT ![e.dest] = alt],
           prev |-> [a.prev EXCEPT ![e.dest] = node],
           heap |-> LET i == CHOOSE j \in at : TRUE
                    IN PQ!BubbleUp([a.heap EXCEPT ![i].priority = Uint16(alt)], i)]
RelaxAgain(a, node, e, mult) ==  \* faulty: a node already visited is relaxed too
  LET alt == a.dist[node] + mult * e.dist
      at == {i \in DOMAIN a.heap : a.heap[i].value = e.dest}
  IN IF e.dest \notin Array THEN a
     ELSE IF alt > a.weighted_dist[e.dest] THEN a
     ELSE [dist |-> [a.dist EXCEPT ![e.dest] = alt],
           weighted_dist |-> [a.weighted_dist EXCEPT ![e.dest] = alt],
           prev |-> [a.prev EXCEPT ![e.dest] = node],
           heap |-> IF at = {} THEN a.heap
                    ELSE LET i == CHOOSE j \in at : TRUE
                         IN PQ!BubbleUp([a.heap EXCEPT ![i].priority = Uint16(alt)], i)]
Relax(a, node, e, mult) ==
  LET alt == a.dist[node] + mult * e.dist
      at == {i \in DOMAIN a.heap : a.heap[i].value = e.dest}
  IN IF e.dest \notin Array \/ at = {} THEN a
     ELSE IF alt >= a.weighted_dist[e.dest] THEN a
     ELSE [dist |-> [a.dist EXCEPT ![e.dest] = a.dist[node] + e.dist],
           weighted_dist |-> [a.weighted_dist EXCEPT ![e.dest] = alt],
           prev |-> [a.prev EXCEPT ![e.dest] = node],
           heap |-> LET i == CHOOSE j \in at : TRUE
                    IN PQ!BubbleUp([a.heap EXCEPT ![i].priority = Uint16(alt)], i)]

\* Take the node with the least priority.  The end, in either direction, is
\* recognised before the test that the node can be reached at all.
node == heap[0].value
Popped == LET last == Cardinality(DOMAIN heap) - 1
          IN PQ!Heapify([i \in 0 .. last - 1 |-> IF i = 0 THEN heap[last] ELSE heap[i]], 0)
IsEnd(n) == n = query.end \/ track[n].reverse = query.end

Reach ==
  /\ phase = "search" /\ heap # <<>> /\ IsEnd(node)
  /\ phase' = "found"
  /\ query' = [query EXCEPT !.end = node]
  /\ heap' = Popped
  /\ UNCHANGED <<dist, weighted_dist, prev, segment_cache, route>>

GiveUp ==
  /\ phase = "search" /\ heap # <<>> /\ ~IsEnd(node) /\ dist[node] = INT32_MAX
  /\ phase' = "no route"
  /\ heap' = Popped
  /\ UNCHANGED <<query, dist, weighted_dist, prev, segment_cache, route>>

Visit ==
  /\ phase = "search" /\ heap # <<>> /\ ~IsEnd(node) /\ dist[node] # INT32_MAX
  /\ LET s == track[node].segmentId
         ask == track[node].edge # <<>> /\ segment_cache[s] = "none"
         cache == IF ask THEN [segment_cache EXCEPT ![s] =
                                 IF segment_is_locked(s) THEN "locked" ELSE "unlocked"]
                  ELSE segment_cache
         mult == IF cache[s] = "locked" THEN IN_USE_PENALTY ELSE 1
         a == FoldLeft(LAMBDA b, e : Relax(b, node, e, mult),
                       [dist |-> dist, weighted_dist |-> weighted_dist, prev |-> prev,
                        heap |-> Popped], track[node].edge)
     IN /\ segment_cache' = cache
        /\ dist' = a.dist /\ weighted_dist' = a.weighted_dist /\ prev' = a.prev /\ heap' = a.heap
  /\ UNCHANGED <<query, phase, route>>

-----------------------------------------------------------------------------
(* The plan                                                                *)

\* DIST_TRAVELLED, in 32 bits: INT32_MAX millimetres wrap to -1000 micrometres
Um(n) == IF dist[n] = INT32_MAX THEN -MM_TO_UM ELSE dist[n] * MM_TO_UM
DIST_TRAVELLED(n1, n2) == Um(n2) - Um(n1)

\* The nodes from after stop (from the first when stop is NULL) to n
RECURSIVE BackTo(_, _)
BackTo(n, stop) == IF n \in {stop, NULL} THEN <<>> ELSE Append(BackTo(prev[n], stop), n)

Sensors(nodes) == SelectSeq(nodes, LAMBDA n : track[n].type = "SENSOR")
Seg(n) == track[n].segmentId
First(S) == CHOOSE i \in S : \A j \in S : i <= j

\* The segments left on the way over the sensors s: each is pushed when the next
\* sensor has another one ahead, and dropped when the deque is full
Leaves(s) == SelectSeq([i \in 1 .. Len(s) - 1 |-> i], LAMBDA i : Seg(s[i]) # Seg(s[i + 1]))
SegmentsAhead(s) ==  \* faulty: the segment entered is pushed, not the one left
  LET at == Leaves(s) IN [j \in 1 .. Min({Len(at), SEGMENTS_CAP}) |-> Seg(s[at[j] + 1])]
Segments(s) ==
  LET at == Leaves(s) IN [j \in 1 .. Min({Len(at), SEGMENTS_CAP}) |-> Seg(s[at[j]])]

\* gather_branches: the switches before the sensor last, the furthest first,
\* since each is pushed to the front of the path
Turn(nodes, i) ==
  [num |-> track[nodes[i]].num,
   dir |-> IF i < Len(nodes) /\ track[nodes[i]].edge[DIR_CURVED].dest = nodes[i + 1] THEN "CRV" ELSE "STRT"]
gather_branches(nodes, last) ==
  LET before == CHOOSE i \in 1 .. Len(nodes) : nodes[i] = last
      at == SelectSeq([i \in 1 .. before |-> i], LAMBDA i : track[nodes[i]].type = "BRANCH")
  IN Reverse([j \in 1 .. Len(at) |-> Turn(nodes, at[j])])

\* switch_throw of track.c: a switch of a middle pair turns its partner too
Switches == 1 .. 18 \cup 153 .. 156
SW1_PAIRS == <<154, 153, 156, 155>>
switch_throw_same(dirs, n, d) ==  \* faulty: the partner is turned the same way
  IF n >= 153 THEN [dirs EXCEPT ![n] = d, ![SW1_PAIRS[n - 152]] = d] ELSE [dirs EXCEPT ![n] = d]
switch_throw(dirs, n, d) ==
  IF n >= 153 THEN [dirs EXCEPT ![n] = d, ![SW1_PAIRS[n - 152]] = IF d = "STRT" THEN "CRV" ELSE "STRT"]
  ELSE [dirs EXCEPT ![n] = d]

\* Entries of the deque branches that the walk back pushes
BranchEntries(nodes) ==
  LET count(type) == Cardinality({i \in DOMAIN nodes : track[nodes[i]].type = type})
  IN 3 * count("BRANCH") + 2 * count("SENSOR")

\* Three quarters of the way to the last sensor, offset included, as two shifts
\* (\div rounds down, as >> does)
DecisionDistHalf(x) == x + (x \div 2)   \* faulty: half as much again
DecisionDist(x) == (x \div 2) + (x \div 4)

DecisionTicks(trn, start_spd, spd, d) ==
  LET accel_dist == get_distance_from_acceleration(trn, start_spd, spd)
  IN CASE d <= 0 -> 0
       [] d > 0 /\ start_spd = spd -> get_time_from_velocity_um(trn, d, spd)
       [] d > 0 /\ start_spd # spd /\ accel_dist < d ->
            get_time_from_acceleration(trn, start_spd, spd) + get_time_from_velocity_um(trn, d - accel_dist, spd)
       [] OTHER -> estimate_initial_time_acceleration(trn, spd, d)

\* C's division rounds to zero: a train already too near gets a negative delay
calculate_stopping_delay(trn, stopping_dist, sensor_dist, spd) ==
  LET d == sensor_dist - stopping_dist
      ticks == (((IF d < 0 THEN -d ELSE d) * 1000) \div get_velocity(trn, spd)) \div 10
  IN IF d < 0 THEN -ticks ELSE ticks

\* The arguments of plan_direct_route, and the distances that follow from them
Args(kind, trn, spd, offset) ==
  LET start_spd == IF kind = "progress" THEN spd ELSE 0
  IN [kind |-> kind, trn |-> trn, spd |-> spd, offset |-> offset, start_spd |-> start_spd,
      off |-> (offset - (IF kind = "rev" THEN REVERSE_OFFSET ELSE 0)) * MM_TO_UM,
      stopping_dist |-> get_stopping_distance(trn, spd),
      accel_dist |-> get_distance_from_acceleration(trn, start_spd, spd)]

\* Which of the four plans is made.  The front of sensor_path, when it has only
\* the first sensor, reads a cleared slot of the deque: sensor 0.
NextSensor(sensors) == IF Len(sensors) = 1 THEN 0 ELSE sensors[2]
PlanCase(a, total, next_sensor) ==
  IF a.start_spd = 0
  THEN IF total < a.accel_dist + MIN_ROLL_DIST + a.stopping_dist \/ next_sensor = query.end THEN "short" ELSE "accel"
  ELSE IF DIST_TRAVELLED(next_sensor, query.end) + a.off < a.stopping_dist THEN "stop" ELSE "const"

\* The sensors at which the loop of a case ends, by their places
Ends(a, case, sensors) ==
  {i \in 1 .. Len(sensors) :
     CASE case \in {"short", "stop"} -> sensors[i] = query.end
       [] case = "accel" -> DIST_TRAVELLED(sensors[1], sensors[i]) + a.off > a.accel_dist
       [] case = "const" -> i > 1 /\ Seg(sensors[i - 1]) # Seg(sensors[i])}

SpeedChange(spd, sensor, delay) == [spd |-> spd, sensor |-> sensor, delay |-> delay]
SpeedChanges(a, case, ts, total) ==
  CASE case = "short" -> <<SpeedChange(7, SENSOR_NONE, 0),
                           SpeedChange(0, SENSOR_NONE, get_short_move_delay(a.trn, total))>>
    [] case = "accel" -> <<SpeedChange(a.spd, SENSOR_NONE, 0),
                           SpeedChange(a.spd, SENSOR_NONE, get_time_from_acceleration(a.trn, 0, a.spd) + 10)>>
    [] case = "stop" -> <<SpeedChange(0, ts, calculate_stopping_delay(a.trn, a.stopping_dist, total, a.spd))>>
    [] OTHER -> <<>>

DecisionPoint(a, ts, d) ==
  [sensor_num |-> ts, dist |-> d, ticks |-> DecisionTicks(a.trn, a.start_spd, a.spd, d)]

\* The route returned, over the sensors up to last
RouteOf(a, case, nodes, sensors, last, total) ==
  [state |-> IF case \in {"short", "stop"} THEN "FINAL_SEGMENT" ELSE "NORMAL_SEGMENT",
   case |-> case, trn |-> a.trn, kind |-> a.kind, offset |-> a.offset, nodes |-> nodes, last |-> last,
   path |-> IF case = "short" THEN <<sensors[1]>> ELSE sensors,
   switches |-> gather_branches(nodes, last),
   segments |-> Segments(sensors),
   speed_changes |-> SpeedChanges(a, case, sensors[1], total),
   decision_pt |-> IF last = query.end THEN [sensor_num |-> SENSOR_NONE, dist |-> 0, ticks |-> 0]
                   ELSE DecisionPoint(a, sensors[1], DecisionDist(DIST_TRAVELLED(sensors[1], last) + a.off)),
   total_path_dist |-> dist[query.end]]

\* Everything after the search.  When no sensor is the one that the loop looks
\* for, it pops the empty deque for ever; so does the walk back past its end.
PlanOf(kind, trn, spd, offset) ==
  LET a == Args(kind, trn, spd, offset)
      nodes == BackTo(query.end, IF kind = "rev" THEN query.start ELSE NULL)
      sensors == Sensors(nodes)
      total == DIST_TRAVELLED(sensors[1], query.end) + a.off
      case == PlanCase(a, total, NextSensor(sensors))
      ends == Ends(a, case, sensors)
  IN IF sensors = <<>> \/ (kind = "rev" /\ prev[nodes[1]] = NULL) \/ ends = {} THEN [state |-> "LOST"]
     ELSE RouteOf(a, case, nodes, SubSeq(sensors, 1, First(ends)), sensors[First(ends)], total)

Plan(kind, trn, spd, offset) ==
  /\ phase = "found"
  /\ route' = PlanOf(kind, trn, spd, offset)
  /\ phase' = IF route'.state = "LOST" THEN "lost" ELSE "planned"
  /\ UNCHANGED <<query, dist, weighted_dist, prev, heap, segment_cache>>

\* ERR_NO_ROUTE is returned, or the caller goes on with the route
Return == phase \in {"no route", "planned", "lost"} /\ UNCHANGED vars

Next ==
  \/ Reach \/ GiveUp \/ Visit
  \/ \E kind \in Kinds, i \in 1 .. Len(ALL_TRNS), spd \in {7, 9}, o \in Offsets : Plan(kind, ALL_TRNS[i], spd, o)
  \/ Return
Spec == Init /\ [][Next]_vars
-----------------------------------------------------------------------------
(* Properties                                                              *)

\* The data of a track is sound, whatever edits track-data.c has seen: the two
\* directions of a place name each other, every edge has a mirror of the same
\* length between the reversed nodes, the segment ahead of a node is the one
\* behind the node that its edge leads to, in the other direction, so that the
\* segment a train frees at a sensor (reverse->segmentId) is the one it locked
\* to get there, and every segment has a place in the track server's array.
TrackSound ==
  phase = "found" => LET t == track IN \A n \in DOMAIN t :
    /\ t[t[n].reverse].reverse = n /\ t[n].reverse # n
    /\ t[n].segmentId \in 0 .. N_SEGMENTS - 1
    /\ \A e \in Range(t[n].edge) :
         LET m == t[e.dest].reverse
         IN /\ Edge(t[n].reverse, e.dist) \in Range(t[m].edge)
            /\ t[n].segmentId = t[m].segmentId

\* The priority of a node in the heap is its weighted distance, although the
\* heap keeps 16 bits of it (heap_node.priority): with the lengths and the
\* penalty in use no distance is cut, and the order of the visits is right.
PrioritiesExact ==
  \A i \in DOMAIN heap :
    LET w == weighted_dist[heap[i].value]
    IN heap[i].priority = IF w = INT32_MAX THEN 65535 ELSE w

\* A search that ends, at the end node or at nodes it cannot reach, has found
\* paths: every node reached is one edge away from its predecessor, which was
\* visited before.  If no segment was penalised they are the shortest: no edge
\* out of a visited node leads to a shorter path, and no node still queued is
\* nearer than a visited one.
Visited == Array \ {heap[i].value : i \in DOMAIN heap}
SearchExact ==
  phase \in {"found", "no route"} =>
    LET done == Visited
        edges(n) == Range(track[n].edge)
    IN /\ \A n \in Array \ {query.start} : dist[n] # INT32_MAX =>
            prev[n] \in done /\ Edge(n, dist[n] - dist[prev[n]]) \in edges(prev[n])
       /\ (\A s \in DOMAIN segment_cache : segment_cache[s] # "locked") =>
            \A u \in done \ {query.end} : dist[u] # INT32_MAX =>
              /\ \A e \in edges(u) : e.dest \in Array => dist[e.dest] <= dist[u] + e.dist
              /\ \A v \in Array \ done : dist[u] <= dist[v]

\* When the switches of a route have been thrown in its order, every branch that
\* the train will meet on this part of its way leads to the next node of the
\* path, although a throw of a middle switch also turns its partner, and the
\* deque that the walk back fills has room for all of them.
Planned == phase = "planned"
Upto(nodes, last) == 1 .. (CHOOSE i \in 1 .. Len(nodes) : nodes[i] = last) - 1
SwitchesSet ==
  Planned => LET dirs == FoldLeft(LAMBDA f, w : switch_throw(f, w.num, w.dir),
                                  [n \in Switches |-> "UNKNOWN"], route.switches)
             IN /\ BranchEntries(route.nodes) <= BRANCHES_CAP
                /\ \A i \in Upto(route.nodes, route.last) :
                     LET n == track[route.nodes[i]]
                     IN n.type = "BRANCH" =>
                          n.edge[IF dirs[n.num] = "CRV" THEN DIR_CURVED ELSE DIR_AHEAD].dest
                            = route.nodes[i + 1]

\* A train locks what it drives on: every stretch between two sensors of this
\* part of the route lies in a segment that the route asks for.  The one stretch
\* left out ends at the destination, when the segment goes on beyond it.
StretchesLocked ==
  Planned => LET way == route.nodes
                 from == CHOOSE i \in 1 .. Len(way) : way[i] = route.path[1]
             IN \A i \in Upto(way, route.last) : i >= from =>
                  \/ \E j \in DOMAIN route.segments : route.segments[j] = Seg(way[i])
                  \/ route.last = query.end /\ Seg(way[i]) = Seg(query.end)

\* The decision point lies in the segment before the last sensor of this part of
\* the route: when the lock on what follows is refused there and the train stops,
\* it stands in the one segment that it keeps (train.c frees all but the segment
\* of the last sensor's reverse), and no notifier is left waiting for a sensor of
\* the path.  A reversed train hits sensors with its other end, REVERSE_OFFSET
\* ahead.  Holds without an offset.
DecisionInLastSegment ==
  (Planned /\ route.decision_pt.sensor_num # SENSOR_NONE /\ route.offset = 0) =>
    LET ts == route.path[1]
        at == (IF route.kind = "rev" THEN REVERSE_OFFSET * MM_TO_UM ELSE 0)
              + (IF route.decision_pt.dist > 0 THEN route.decision_pt.dist ELSE 0)
        reached == {i \in DOMAIN route.nodes : DIST_TRAVELLED(ts, route.nodes[i]) <= at}
        i == CHOOSE j \in reached : \A m \in reached : m <= j
    IN /\ at < DIST_TRAVELLED(ts, route.last)
       /\ at > DIST_TRAVELLED(ts, route.path[Len(route.path) - 1])
       /\ Seg(route.nodes[i]) = Seg(track[route.last].reverse)
=============================================================================
