--------------------------- MODULE DeferredQueue ---------------------------
(***************************************************************************)
(* What the deferred request queue of arcfour_isr.h promises: a bounded    *)
(* FIFO.  An accepted request is taken exactly once and in order, or       *)
(* discarded by a clear; a request is refused only when the queue is full; *)
(* a count is the number of requests waiting at the moment it is taken.    *)
(***************************************************************************)
EXTENDS Integers, Sequences

CONSTANTS
    Actor,      \* the contexts of execution that call the queue
    Request,    \* the requests
    NoRequest,  \* an empty request structure
    Capacity    \* how many requests may wait

VARIABLES
    queue,      \* the requests waiting, oldest first
    hand,       \* hand[a]: the request a has taken and not yet finished
    ret         \* ret[a]: what the last request or count of a returned

qvars == <<queue, hand, ret>>

QueueInit ==
    /\ queue = <<>>
    /\ hand = [a \in Actor |-> NoRequest]
    /\ ret = [a \in Actor |-> 0]

Accept(a, r) ==
    /\ Len(queue) < Capacity
    /\ queue' = Append(queue, r)
    /\ ret' = [ret EXCEPT ![a] = 0]
    /\ UNCHANGED hand

Refuse(a) ==
    /\ Len(queue) = Capacity
    /\ ret' = [ret EXCEPT ![a] = -1]
    /\ UNCHANGED <<queue, hand>>

Take(a) ==
    /\ queue # <<>>
    /\ hand[a] = NoRequest
    /\ hand' = [hand EXCEPT ![a] = Head(queue)]
    /\ queue' = Tail(queue)
    /\ UNCHANGED ret

Finish(a) ==
    /\ hand' = [hand EXCEPT ![a] = NoRequest]
    /\ UNCHANGED <<queue, ret>>

Discard ==
    /\ queue' = <<>>
    /\ UNCHANGED <<hand, ret>>

Count(a) ==
    /\ ret' = [ret EXCEPT ![a] = Len(queue)]
    /\ UNCHANGED <<queue, hand>>

QueueNext ==
    \/ Discard
    \/ \E a \in Actor :
          \/ \E r \in Request : Accept(a, r)
          \/ Refuse(a) \/ Take(a) \/ Finish(a) \/ Count(a)

QueueSpec == QueueInit /\ [][QueueNext]_qvars
=============================================================================
