----------------------------- MODULE BigListOps -----------------------------
(***************************************************************************)
(* What the operations of src/server/biglist.h do to the items in a list.  *)
(* BigList.tla has the slots and the nodes, and implements this module.    *)
(*                                                                         *)
(* find, add and remove read `items', the array of the first node, for     *)
(* every node of the list.  So a list is                                   *)
(*   head    the items in the first node, BIGLIST_SIZE at most, and        *)
(*   over    how often each item is in the nodes behind it.                *)
(* Only the iterator and clear reach the items in over.                    *)
(***************************************************************************)
EXTENDS Naturals, FiniteSets

CONSTANT BIGLIST_SIZE

ASSUME BigListAssumption == BIGLIST_SIZE \in Nat \ {0}

Lists(S) == [head : SUBSET S, over : [S -> Nat]]

EmptyList(S) == [head |-> {}, over |-> [x \in S |-> 0]]

(* find(item) *)
Found(list, x) == x \in list.head

(* add(item): it returns ~Found(list, x).  A full first node sends the     *)
(* item to a new node, whether it is in an older one or not.               *)
Add(list, x) ==
    IF Found(list, x) THEN list
    ELSE IF Cardinality(list.head) < BIGLIST_SIZE
    THEN [list EXCEPT !.head = @ \cup {x}]
    ELSE [list EXCEPT !.over[x] = @ + 1]

(* remove(item): it returns Found(list, x). *)
Remove(list, x) == [list EXCEPT !.head = @ \ {x}]

(* What an iterator visits. *)
Members(list) == list.head \cup {x \in DOMAIN list.over : list.over[x] > 0}

(* row->used = false at the first row with x that an iterator comes to *)
ClearRow(list, x) ==
    IF Found(list, x) THEN Remove(list, x)
    ELSE [list EXCEPT !.over[x] = IF @ > 0 THEN @ - 1 ELSE @]

(* A list that never outgrew its first node. *)
Flat(list) == \A x \in DOMAIN list.over : list.over[x] = 0
=============================================================================
