----------------------------- MODULE NameServer -----------------------------
(***************************************************************************)
(* nameserver.c: a hash table with chaining, whose entries are taken from  *)
(* an array and never given back.  A step is one message handled.  Entry i *)
(* of the array is storage[i]; 0 is the NULL pointer.                      *)
(***************************************************************************)
EXTENDS Integers, FiniteSets

CONSTANTS
  Names,
  Tids,         \* a set of natural numbers
  Hash,         \* the bucket of each name
  MAX_ENTRIES   \* the size of the array

VARIABLES
  hash_table,   \* the first entry of each bucket, or 0
  storage,      \* the entries in use: name, tid and next
  answer,          \* the answer to the last WhoIs
  failed        \* the assertion that there is room for an entry has failed

nameVars == <<hash_table, storage, answer, failed>>

Used == DOMAIN storage
Matches(i, n) == storage[i].name = n

\* The entries of a bucket, in the order of the list, up to one for the name:
\* the walk of nameserver_add_entry and of nameserver_get_entry ends at the
\* entry found or, if there is none, at the last.  0 stands for an empty list.
Walk(n) ==
  LET end[i \in Used] ==
        IF Matches(i, n) \/ storage[i].next = 0 THEN i ELSE end[storage[i].next]
  IN IF hash_table[Hash[n]] = 0 THEN 0 ELSE end[hash_table[Hash[n]]]

\* nameserver_get_entry
GetLast(n) == LET i == Walk(n) IN IF i # 0 THEN storage[i].tid ELSE -1  \* faulty: no comparison
GetEntry(n) == LET i == Walk(n) IN IF i # 0 /\ Matches(i, n) THEN storage[i].tid ELSE -1

HasRoom(k) == k <= MAX_ENTRIES
\* nameserver_add_entry
AddEntry(n, t) ==
  LET i == Walk(n)
      new == Cardinality(Used) + 1
      entry == [name |-> n, tid |-> t, next |-> 0]
  IN IF i # 0 /\ Matches(i, n)
     THEN /\ storage' = [storage EXCEPT ![i].tid = t]
          /\ UNCHANGED <<hash_table, failed>>
     ELSE IF ~HasRoom(new) THEN failed' = TRUE /\ UNCHANGED <<hash_table, storage>>
     ELSE /\ storage' = [j \in Used \cup {new} |->
                           IF j = new THEN entry
                           ELSE IF j = i THEN [storage[j] EXCEPT !.next = new] ELSE storage[j]]
          /\ hash_table' = IF i = 0 THEN [hash_table EXCEPT ![Hash[n]] = new] ELSE hash_table
          /\ UNCHANGED failed

Register(n, t) == ~failed /\ AddEntry(n, t) /\ UNCHANGED answer
WhoIs(n) == ~failed /\ answer' = GetEntry(n) /\ UNCHANGED <<hash_table, storage, failed>>

NamesInit ==
  /\ hash_table = [b \in {Hash[n] : n \in Names} |-> 0]
  /\ storage = [i \in {} |-> 0]
  /\ answer = -1
  /\ failed = FALSE
NamesNext == \E n \in Names : WhoIs(n) \/ \E t \in Tids : Register(n, t)
NamesSpec == NamesInit /\ [][NamesNext]_nameVars

-----------------------------------------------------------------------------
(* Properties                                                              *)

\* nameserver.h: on return of RegisterAs "all WhoIs() calls by any task will
\* return the task id of the caller until the registration is overwritten".
R == INSTANCE Registry WITH reg <- [n \in Names |-> GetEntry(n)], ret <- answer
NamesRefine == R!RSpec
=============================================================================
