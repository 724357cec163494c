------------------------------- MODULE BigList -------------------------------
(***************************************************************************)
(* The list of src/server/biglist.h, slot by slot: a linked list of arrays *)
(* of BIGLIST_SIZE slots.  A slot that is not used keeps its old item.     *)
(* One thread calls the operations, one call per step.                     *)
(***************************************************************************)
EXTENDS BigListOps, Sequences

CONSTANTS Items,      \* what may be listed: chatclient *, chatroom *, user *
          NoItem,     \* the item of a slot that was never used
          MaxNodes    \* bound: the nodes add allocates

ASSUME BigListMCAssumption == MaxNodes \in Nat \ {0}

VARIABLES nodes,      \* the arrays, in the order of the next pointers
          last        \* the last call and what it returned

list_vars == <<nodes, last>>

Index == 0 .. BIGLIST_SIZE - 1

NewNode == [k \in Index |-> [used |-> FALSE, item |-> NoItem]]

ListInit ==
    /\ nodes = <<NewNode>>
    /\ last = <<"new", NoItem, FALSE>>

(* items[k] in a member function: the array of `this', the first node, in  *)
(* whichever node the loop is.                                             *)
items == nodes[1]

Holds(x) == \E k \in Index : items[k].used /\ items[k].item = x

Find(x) ==
    /\ last' = <<"find", x, Holds(x)>>
    /\ UNCHANGED nodes

(* add: "Already added" *)
AddAgain(x) ==
    /\ Holds(x)
    /\ last' = <<"add", x, FALSE>>
    /\ UNCHANGED nodes

(* add: empty1, empty2 is the first slot that is not used.  The loop sets  *)
(* empty1 in its first round, so the slot is in the first node.            *)
AddToSlot(x) ==
    /\ ~Holds(x)
    /\ \E k \in Index :
          /\ ~items[k].used
          /\ \A j \in 0 .. k - 1 : items[j].used
          /\ nodes' = [nodes EXCEPT ![1][k] = [used |-> TRUE, item |-> x]]
    /\ last' = <<"add", x, TRUE>>

(* add: no slot is empty, a new node goes between the first and its next *)
AddNode(x) ==
    /\ ~Holds(x)
    /\ \A k \in Index : items[k].used
    /\ Len(nodes) < MaxNodes
    /\ nodes' = <<items, [NewNode EXCEPT ![0] = [used |-> TRUE, item |-> x]]>>
                \o Tail(nodes)
    /\ last' = <<"add", x, TRUE>>

(* remove: one round for every node, but each looks at the first array and *)
(* frees the first slot there that holds the item.                         *)
RemoveItem(x) ==
    LET holding == {k \in Index : items[k].used /\ items[k].item = x}
        freed == {k \in holding : Cardinality({j \in holding : j < k}) < Len(nodes)}
    IN  /\ holding # {}
        /\ nodes' = [nodes EXCEPT ![1] =
                        [k \in Index |-> IF k \in freed THEN [items[k] EXCEPT !.used = FALSE]
                                                       ELSE items[k]]]
        /\ last' = <<"remove", x, TRUE>>

RemoveNothing(x) ==
    /\ ~Holds(x)
    /\ last' = <<"remove", x, FALSE>>
    /\ UNCHANGED nodes

(* The rows an iterator stops at, in its order. *)
Rows == {row \in (1 .. Len(nodes)) \X Index : nodes[row[1]][row[2]].used}
Before(a, b) == a[1] < b[1] \/ (a[1] = b[1] /\ a[2] < b[2])
ItemAt(row) == nodes[row[1]][row[2]].item

(* A caller walks with biglist_iterator to the first row with x and sets   *)
(* row->used = false (removechatroom, exit_all_chatrooms).                 *)
ClearFirstRow(x) ==
    /\ \E row \in Rows :
          /\ ItemAt(row) = x
          /\ \A other \in Rows : ItemAt(other) = x => ~Before(other, row)
          /\ nodes' = [nodes EXCEPT ![row[1]][row[2]].used = FALSE]
    /\ last' = <<"row", x, TRUE>>

(* A faulty variant: the nodes behind the first are kept. *)
ClearKeepsNodes ==
    /\ nodes' = [nodes EXCEPT ![1] = [k \in Index |-> [items[k] EXCEPT !.used = FALSE]]]
    /\ last' = <<"clear", NoItem, TRUE>>

(* clear(true): nothing is used, the nodes behind the first are deleted *)
Clear ==
    /\ nodes' = <<[k \in Index |-> [items[k] EXCEPT !.used = FALSE]]>>
    /\ last' = <<"clear", NoItem, TRUE>>

ListNext ==
    \/ \E x \in Items :
          \/ Find(x)
          \/ AddAgain(x) \/ AddToSlot(x) \/ AddNode(x)
          \/ RemoveItem(x) \/ RemoveNothing(x)
          \/ ClearFirstRow(x)
    \/ Clear

ListSpec == ListInit /\ [][ListNext]_list_vars

-----------------------------------------------------------------------------
ListTypeOK ==
    /\ nodes \in Seq([Index -> [used : BOOLEAN, item : Items \cup {NoItem}]])
    /\ Len(nodes) \in 1 .. MaxNodes
    /\ last \in {"new", "find", "add", "remove", "row", "clear"}
              \X (Items \cup {NoItem}) \X BOOLEAN
    /\ \A row \in Rows : ItemAt(row) \in Items

(* The list as BigListOps sees it. *)
RowsWith(x) == {row \in Rows : ItemAt(row) = x}
contents ==
    [head |-> {x \in Items : Holds(x)},
     over |-> [x \in Items |-> Cardinality({row \in RowsWith(x) : row[1] > 1})]]

(* Each call does to the items what BigListOps says and returns what it    *)
(* says, also with a full first node and more nodes behind it.             *)
CallOfOps ==
    LET call == last'[1]
        x == last'[2]
        value == last'[3]
    IN  /\ call = "find" => contents' = contents /\ value = Found(contents, x)
        /\ call = "add" => contents' = Add(contents, x) /\ value = ~Found(contents, x)
        /\ call = "remove" => contents' = Remove(contents, x) /\ value = Found(contents, x)
        /\ call = "row" => contents' = ClearRow(contents, x) /\ x \in Members(contents)
        /\ call = "clear" => contents' = EmptyList(Items)

ImplementsOps == contents = EmptyList(Items) /\ [][CallOfOps]_list_vars
=============================================================================
