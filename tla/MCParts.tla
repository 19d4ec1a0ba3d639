------------------------------ MODULE MCParts ------------------------------
(* The data structures, the console server and the snake server, each by   *)
(* itself: a behaviour runs one of them, the one that Init chooses, and    *)
(* the others stay as they are initialised.                                *)
EXTENDS Deque, PriorityQueue, TaskAlloc, ConsoleServer, NameServer, Snake

VARIABLE using   \* the part that runs

\* Two names share a bucket with a third
Buckets == [n \in Names |-> IF n = "c" THEN 2 ELSE 1]

MCInit ==
  /\ using \in {"deque", "heap", "names", "slabs", "console", "snake"}
  /\ Init
  /\ IF using = "heap" THEN HeapInit ELSE heap = [i \in {} |-> 0] /\ popped = None
  /\ NamesInit
  /\ AllocInit /\ (using # "slabs" => \A s \in Slab : task_count_in_slab[s] = 0)
  /\ ConsoleInit
  /\ SnakeInit
MCNext ==
  \/ using = "deque" /\ Next /\ UNCHANGED <<using, heapVars, nameVars, allocVars, consoleVars, snakeVars>>
  \/ using = "heap" /\ HeapNext /\ UNCHANGED <<using, vars, nameVars, allocVars, consoleVars, snakeVars>>
  \/ using = "names" /\ NamesNext /\ UNCHANGED <<using, vars, heapVars, allocVars, consoleVars, snakeVars>>
  \/ using = "slabs" /\ AllocNext /\ UNCHANGED <<using, vars, heapVars, nameVars, consoleVars, snakeVars>>
  \/ using = "console" /\ ConsoleNext /\ UNCHANGED <<using, vars, heapVars, nameVars, allocVars, snakeVars>>
  \/ using = "snake" /\ SnakeNext /\ UNCHANGED <<using, vars, heapVars, nameVars, allocVars, consoleVars>>
MCSpec ==
  /\ MCInit
  /\ [][MCNext]_<<using, vars, heapVars, nameVars, allocVars, consoleVars, snakeVars>>
=============================================================================
