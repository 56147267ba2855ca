--------------------------------- MODULE Ms ---------------------------------
(***************************************************************************)
(* The array-backed multiset of crates/engine/src/ms.rs (the reference     *)
(* implementation's ms.c): append at the end, removal by swapping the last *)
(* item into the hole, and a round-robin `take`.  It holds the connections *)
(* waiting on a tube, the tubes a connection watches and the global tube   *)
(* list, so its order decides who is served next and what list-tubes       *)
(* prints.                                                                 *)
(*                                                                         *)
(* A value with a cursor is [items, last]; the watch lists and the tube    *)
(* list never call `take`, so they are plain sequences here.               *)
(***************************************************************************)
EXTENDS Integers, Sequences, Functions

MsEmpty == [items |-> <<>>, last |-> 0]

\* Index of the first occurrence of x, which occurs in q.
position(q, x) ==
    CHOOSE i \in 1..Len(q) : q[i] = x /\ \A k \in 1..(i - 1) : q[k] # x

\* Vec::swap_remove: the last item moves into position i.
swap_remove(q, i) ==
    [k \in 1..(Len(q) - 1) |-> IF k = i THEN q[Len(q)] ELSE q[k]]

\* Removal at position i of a list that keeps its order.
remove_at(q, i) == [k \in 1..(Len(q) - 1) |-> IF k < i THEN q[k] ELSE q[k + 1]]

\* swap_remove of the first occurrence of x, if there is one.
list_swap_remove(q, x) ==
    IF x \in Range(q) THEN swap_remove(q, position(q, x)) ELSE q

\* Removal of x from a list ordered by insertion (the list_seq-keyed maps).
list_remove(q, x) ==
    IF x \in Range(q) THEN remove_at(q, position(q, x)) ELSE q

ms_append(m, x) == [m EXCEPT !.items = Append(@, x)]

ms_remove(m, x) == [m EXCEPT !.items = list_swap_remove(@, x)]

\* `take` reduces the cursor modulo the length, removes the item there and
\* moves the cursor past it.  m is not empty.
ms_cursor(m) == m.last % Len(m.items)

ms_taken(m) == m.items[ms_cursor(m) + 1]

ms_take(m) ==
    [items |-> swap_remove(m.items, ms_cursor(m) + 1), last |-> ms_cursor(m) + 1]

\* `clear_in_delete_order`: index 0 is deleted until nothing is left, so the
\* first item goes first and the others follow from the back.
delete_order(q) ==
    [k \in 1..Len(q) |-> IF k = 1 THEN q[1] ELSE q[Len(q) - k + 2]]
=============================================================================
