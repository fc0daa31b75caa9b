----------------------------- MODULE QueueProofs ----------------------------
(***************************************************************************)
(* What src/queue.c computes, for every capacity: the ring buffer behaves  *)
(* as the sequence of its contents.                                        *)
(***************************************************************************)
EXTENDS Queue, SequenceTheorems, TLAPS

\* The queues of items of V: at most capacity items, the first at a slot of data.
IsQueue(q, V) ==
    /\ q = [size |-> q.size, next |-> q.next, capacity |-> q.capacity, data |-> q.data]
    /\ q.capacity \in Nat \ {0}
    /\ q.size \in 0..q.capacity
    /\ q.next \in 0..(q.capacity - 1)
    /\ q.data \in [0..(q.capacity - 1) -> V]

LEMMA ContentsType ==
    ASSUME NEW V, NEW q, IsQueue(q, V)
    PROVE  /\ Contents(q) \in Seq(V)
           /\ Len(Contents(q)) = q.size
           /\ \A i \in 1..q.size : Contents(q)[i] = q.data[Wrap(q, q.next + i - 1)]
<1>1. \A i \in 1..q.size : q.data[Wrap(q, q.next + i - 1)] \in V
    BY DEF IsQueue, Wrap
<1>2. q.size \in Nat
    BY DEF IsQueue
<1> QED
    BY <1>1, <1>2 DEF Contents

(* queue_init allocates an empty queue: its contents are the empty sequence. *)
THEOREM InitIsEmpty ==
    ASSUME NEW V, Null \in V, NEW capacity \in Nat \ {0}
    PROVE  /\ IsQueue(queue_init(capacity), V)
           /\ Contents(queue_init(capacity)) = <<>>
<1>1. IsQueue(queue_init(capacity), V)
    BY DEF IsQueue, queue_init
<1>2. Len(Contents(queue_init(capacity))) = 0
    BY <1>1, ContentsType DEF queue_init
<1> QED
    BY <1>1, <1>2, ContentsType, EmptySeq

(* queue_add puts the item behind all others, wherever the ring wraps, and leaves a
   queue at capacity as it is. *)
THEOREM AddAppends ==
    ASSUME NEW V, NEW v \in V, NEW q, IsQueue(q, V)
    PROVE  /\ IsQueue(queue_add(q, v), V)
           /\ queue_add(q, v).capacity = q.capacity
           /\ Contents(queue_add(q, v)) =
                IF queue_at_capacity(q) THEN Contents(q) ELSE Append(Contents(q), v)
<1>1. CASE queue_at_capacity(q)
    BY <1>1 DEF queue_add
<1>2. CASE ~queue_at_capacity(q)
    <2> DEFINE r == queue_add(q, v)
               slot == Wrap(q, q.next + q.size)
    <2>1. /\ slot \in 0..(q.capacity - 1)
          /\ r.size = q.size + 1 /\ r.next = q.next /\ r.capacity = q.capacity
          /\ r.data = [q.data EXCEPT ![slot] = v]
          /\ r = [size |-> r.size, next |-> r.next, capacity |-> r.capacity, data |-> r.data]
        <3>1. slot \in 0..(q.capacity - 1)
            BY <1>2 DEF queue_at_capacity, IsQueue, Wrap
        <3>2. r = [q EXCEPT !.data = [q.data EXCEPT ![slot] = v], !.size = q.size + 1]
            BY <1>2 DEF queue_add
        <3> HIDE DEF r, slot
        <3> QED
            BY <3>1, <3>2 DEF IsQueue
    <2>2. IsQueue(r, V)
        BY <1>2, <2>1 DEF IsQueue, queue_at_capacity
    <2>3. \A i \in 1..q.size : Wrap(q, q.next + i - 1) # slot
                               /\ Wrap(q, q.next + i - 1) \in 0..(q.capacity - 1)
        BY <1>2 DEF IsQueue, Wrap, queue_at_capacity
    <2>4. \A i \in 1..r.size : Contents(r)[i] = r.data[Wrap(q, q.next + i - 1)]
        <3> HIDE DEF r
        <3>1. \A i : Wrap(r, r.next + i - 1) = Wrap(q, q.next + i - 1)
            BY <2>1 DEF Wrap
        <3> QED
            BY <3>1, <2>2, ContentsType
    <2>5. Contents(r) \in Seq(V) /\ Len(Contents(r)) = q.size + 1
        <3> HIDE DEF r
        <3> QED
            BY <2>1, <2>2, ContentsType
    <2>6. Contents(q) \in Seq(V) /\ Len(Contents(q)) = q.size /\ q.size \in Nat
        BY ContentsType DEF IsQueue
    <2>7. \A i \in 1..q.size : Contents(r)[i] = Contents(q)[i]
        <3> HIDE DEF r, slot
        <3> TAKE i \in 1..q.size
        <3>1. i \in 1..r.size
            BY <2>1, <2>6
        <3>2. Contents(r)[i] = r.data[Wrap(q, q.next + i - 1)]
            BY <3>1, <2>4
        <3>3. r.data[Wrap(q, q.next + i - 1)] = q.data[Wrap(q, q.next + i - 1)]
            BY <2>1, <2>3 DEF IsQueue
        <3> QED
            BY <3>2, <3>3, ContentsType
    <2>8. Contents(r)[q.size + 1] = v
        <3> HIDE DEF r
        <3>1. q.size + 1 \in 1..r.size /\ q.next + (q.size + 1) - 1 = q.next + q.size
            BY <2>1, <2>6 DEF IsQueue
        <3>2. Contents(r)[q.size + 1] = r.data[slot]
            BY <3>1, <2>4
        <3> HIDE DEF slot
        <3> QED
            BY <3>2, <2>1 DEF IsQueue
    <2>9. Contents(r) = Append(Contents(q), v)
        <3> HIDE DEF r
        <3> QED
            BY <2>5, <2>6, <2>7, <2>8
    <2> QED
        BY <1>2, <2>1, <2>2, <2>9
<1> QED
    BY <1>1, <1>2

(* queue_peek and queue_remove give the oldest item, and queue_remove leaves the
   others in their order; an empty queue gives NULL and stays empty. *)
THEOREM RemoveTakesHead ==
    ASSUME NEW V, NEW q, IsQueue(q, V)
    PROVE  /\ IsQueue(queue_remove(q), V)
           /\ queue_remove(q).capacity = q.capacity
           /\ q.size > 0 => /\ queue_peek(q) = Head(Contents(q))
                            /\ Contents(queue_remove(q)) = Tail(Contents(q))
           /\ q.size = 0 => queue_peek(q) = Null /\ queue_remove(q) = q
<1>1. CASE q.size = 0
    BY <1>1 DEF queue_remove, queue_peek
<1>2. CASE q.size > 0
    <2> DEFINE r == queue_remove(q)
    <2>1. /\ r.size = q.size - 1 /\ r.next = Wrap(q, q.next + 1)
          /\ r.capacity = q.capacity /\ r.data = q.data
          /\ r = [size |-> r.size, next |-> r.next, capacity |-> r.capacity, data |-> r.data]
        BY <1>2 DEF queue_remove, IsQueue
    <2>2. IsQueue(r, V)
        BY <1>2, <2>1 DEF IsQueue, Wrap
    <2>3. Contents(q) \in Seq(V) /\ Len(Contents(q)) = q.size /\ q.size \in Nat
        BY ContentsType DEF IsQueue
    <2>4. Contents(r) \in Seq(V) /\ Len(Contents(r)) = q.size - 1
        <3> HIDE DEF r
        <3> QED
            BY <2>1, <2>2, ContentsType
    <2>5. \A i \in 1..(q.size - 1) : Wrap(r, r.next + i - 1) = Wrap(q, q.next + i)
        <3> HIDE DEF r
        <3> QED
            BY <2>1 DEF IsQueue, Wrap
    <2>6. \A i \in 1..(q.size - 1) : Contents(r)[i] = Contents(q)[i + 1]
        <3> HIDE DEF r
        <3>1. \A i \in 1..(q.size - 1) : Contents(r)[i] = q.data[Wrap(q, q.next + i)]
            BY <2>1, <2>2, <2>5, ContentsType
        <3>2. \A i \in 1..(q.size - 1) : Contents(q)[i + 1] = q.data[Wrap(q, q.next + i)]
            <4> TAKE i \in 1..(q.size - 1)
            <4>1. i + 1 \in 1..q.size /\ q.next + (i + 1) - 1 = q.next + i
                BY <2>3 DEF IsQueue
            <4> QED
                BY <4>1, ContentsType
        <3> QED
            BY <3>1, <3>2
    <2>7. Contents(r) = Tail(Contents(q))
        <3> HIDE DEF r
        <3> QED
            BY <1>2, <2>3, <2>4, <2>6
    <2>8. queue_peek(q) = Head(Contents(q))
        <3>1. 1 \in 1..q.size /\ Wrap(q, q.next + 1 - 1) = q.next
            BY <1>2, <2>3 DEF IsQueue, Wrap
        <3>2. Contents(q)[1] = q.data[q.next]
            BY <3>1, ContentsType
        <3> QED
            BY <1>2, <2>3, <3>2 DEF queue_peek
    <2> QED
        BY <1>2, <2>1, <2>2, <2>7, <2>8
<1> QED
    BY <1>1, <1>2 DEF IsQueue
=============================================================================
