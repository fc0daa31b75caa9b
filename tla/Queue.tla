------------------------------- MODULE Queue --------------------------------
(***************************************************************************)
(* The circular buffer of src/queue.c as operators on a record.  A queue   *)
(* has size items, the first of them at data[next].                        *)
(***************************************************************************)
EXTENDS Integers, Sequences

CONSTANT Null    \* the pointer an empty slot holds, and what an empty queue returns

\* A queue of the given capacity (the failures of malloc are left out).
queue_init(capacity) ==
    [size |-> 0, next |-> 0, capacity |-> capacity,
     data |-> [i \in 0..(capacity - 1) |-> Null]]

queue_at_capacity(q) == q.size >= q.capacity

\* An index that ran past the end is moved back by one length.
Wrap(q, pos) == IF pos >= q.capacity THEN pos - q.capacity ELSE pos

\* Mutation: the new item is put one place too far.
queue_add_Shifted(q, value) ==
    IF queue_at_capacity(q) THEN q
    ELSE [q EXCEPT !.data[Wrap(q, q.next + q.size + 1)] = value, !.size = @ + 1]

\* A queue at capacity is left as it is (the caller gets -1).
queue_add(q, value) ==
    IF queue_at_capacity(q) THEN q
    ELSE [q EXCEPT !.data[Wrap(q, q.next + q.size)] = value, !.size = @ + 1]

\* What queue_remove returns, and what queue_peek returns without removing.
queue_peek(q) == IF q.size > 0 THEN q.data[q.next] ELSE Null

queue_remove_NoWrap(q) ==   \* mutation: next is never moved back
    IF q.size > 0 THEN [q EXCEPT !.next = @ + 1, !.size = @ - 1] ELSE q

\* The queue after queue_remove.
queue_remove(q) ==
    IF q.size > 0 THEN [q EXCEPT !.next = Wrap(q, q.next + 1), !.size = @ - 1]
    ELSE q

\* The items of a queue, first to last: what the buffer stands for.
Contents(q) == [i \in 1..q.size |-> q.data[Wrap(q, q.next + i - 1)]]
=============================================================================
