----------------------------- MODULE SockQueue ------------------------------
(***************************************************************************)
(* The queues of a listening socket, src/sockqueue.c, as operators.  A     *)
(* queue is the list of nodes reached from base (empty: base is NULL) and  *)
(* the counter size, which the code does not keep equal to its length.     *)
(***************************************************************************)
EXTENDS Integers, Sequences, SequencesExt

CONSTANTS MAX_QUEUE,   \* the size at which sockqueue_push refuses
          Garbage      \* the content of memory that malloc returned

sockqueue_init == [list |-> <<>>, size |-> 0]
sockqueue_is_empty(q) == q.size = 0

sockqueue_push_Unlimited(q, sock) ==   \* mutation: MAX_QUEUE is not tested
    [list |-> Append(q.list, sock), size |-> q.size + 1]

\* sockqueue_push: what it returns, and the queue after it.
PushIndex(q) == IF q.size = MAX_QUEUE THEN -1
                ELSE IF q.list = <<>> THEN 0 ELSE q.size
sockqueue_push(q, sock) ==
    IF q.size = MAX_QUEUE THEN q
    ELSE [list |-> Append(q.list, sock), size |-> q.size + 1]

\* sockqueue_remove follows base: with an empty list and a size that is not 0, NULL.
RemoveCrashes(q) == ~sockqueue_is_empty(q) /\ q.list = <<>>

\* The socket sockqueue_remove copies out (*sock is not written if it returns -1) ...
RemoveTakes(q, index) ==
    IF sockqueue_is_empty(q) \/ index + 1 > Len(q.list) THEN Garbage ELSE q.list[index + 1]

sockqueue_remove_KeepsRest(q, index) ==   \* mutation: index 0 unlinks nothing
    IF sockqueue_is_empty(q) \/ index + 1 > Len(q.list) \/ index = 0 THEN q
    ELSE [list |-> RemoveAt(q.list, index + 1), size |-> q.size - 1]

\* ... and the queue after it: index 0 drops the whole list and keeps size.
sockqueue_remove(q, index) ==
    IF sockqueue_is_empty(q) \/ index + 1 > Len(q.list) THEN q
    ELSE IF index = 0 THEN [q EXCEPT !.list = <<>>]
    ELSE [list |-> RemoveAt(q.list, index + 1), size |-> q.size - 1]
=============================================================================
