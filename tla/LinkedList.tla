----------------------------- MODULE LinkedList -----------------------------
(***************************************************************************)
(* The list module of the C tutorial (list.h): nodes between two dummies,  *)
(* doubly linked, with insertion at the tail and removal at the head, over *)
(* addresses that malloc gives again after free. list_remove_head calls    *)
(* malloc, too, for a node that it forgets.                                *)
(***************************************************************************)
EXTENDS Integers, Sequences, FiniteSets

CONSTANTS Addresses, Items,
          NULL, MaxInserts   \* bound on the insertions

Links == Addresses \cup {NULL}
Nodes == [pred : Links, next : Links, datum : Items \cup {"DH", "DT", "leaked"}]

ASSUME ListAssumption ==
  NULL \notin Addresses \cup Nodes /\ Cardinality(Addresses) > 2 /\ MaxInserts \in Nat

VARIABLES heap,    \* the nodes by address, NULL where there is none
          ends,    \* l->head and l->tail
          length,
          inserts,
          queue    \* history: the data in the list

listVars == <<heap, ends, length, inserts, queue>>

Node(pred, next, datum) == [pred |-> pred, next |-> next, datum |-> datum]
FreeAddresses == {a \in Addresses : heap[a] = NULL}

ListInit ==
  \E h, t \in Addresses :
    /\ h # t /\ ends = [head |-> h, tail |-> t]
    /\ heap = [a \in Addresses |->
                 CASE a = h -> Node(NULL, t, "DH")
                   [] a = t -> Node(h, NULL, "DT")
                   [] OTHER -> NULL]
    /\ length = 0 /\ inserts = 0 /\ queue = <<>>

\* Mutant: the old last node is not told.
OneWay(a, v) ==
  [heap EXCEPT ![a] = Node(heap[ends.tail].pred, ends.tail, v), ![ends.tail].pred = a]

Linked(a, v) ==
  [heap EXCEPT ![a] = Node(heap[ends.tail].pred, ends.tail, v),
               ![heap[ends.tail].pred].next = a,
               ![ends.tail].pred = a]

ListInsertTail(v) ==
  /\ inserts < MaxInserts /\ inserts' = inserts + 1
  /\ \E a \in FreeAddresses : heap' = Linked(a, v)
  /\ length' = length + 1 /\ queue' = Append(queue, v)
  /\ UNCHANGED ends

\* The node that was first is freed, one from malloc stays.
Unlinked(old) ==
  [heap EXCEPT ![ends.head].next = heap[old].next,
               ![heap[old].next].pred = ends.head,
               ![old] = NULL]

ListRemoveHead ==
  IF length = 0 THEN UNCHANGED listVars
  ELSE LET old == heap[ends.head].next
       IN /\ \E a \in FreeAddresses :
               heap' = [Unlinked(old) EXCEPT ![a] = Node(NULL, NULL, "leaked")]
          /\ length' = length - 1 /\ queue' = Tail(queue)
          /\ UNCHANGED <<ends, inserts>>

ListNext == (\E v \in Items : ListInsertTail(v)) \/ ListRemoveHead

ListSpec == ListInit /\ [][ListNext]_listVars

----------------------------------------------------------------------------
Ahead(n) ==
  LET node[k \in 0 .. n] == IF k = 0 THEN ends.head ELSE heap[node[k - 1]].next
  IN node
Back(n) ==
  LET node[k \in 0 .. n] == IF k = 0 THEN ends.tail ELSE heap[node[k - 1]].pred
  IN node

(* list_visit_items meets the data that were inserted and not removed, in   *)
(* their order, and ends; the way back is the same nodes, whichever         *)
(* addresses were used before (list.h:47-54, 65-97).                        *)
ListIsQueue ==
  LET n == Len(queue) + 1
  IN /\ length = Len(queue)
     /\ \A k \in 0 .. n : Ahead(n)[k] = Back(n)[n - k] /\ heap[Ahead(n)[k]] # NULL
     /\ Ahead(n)[n] = ends.tail
     /\ \A k \in 1 .. Len(queue) : heap[Ahead(n)[k]].datum = queue[k]
=============================================================================
