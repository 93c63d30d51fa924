------------------------------ MODULE EventFifo ------------------------------
(***************************************************************************)
(* What EventQueue promises its users: a FIFO queue of at most Capacity    *)
(* events whose owner runs them one after the other, each of them once.    *)
(* An event that is added from the owner itself, or from a thread that the *)
(* operating system does not know, skips the queue and runs at once.       *)
(***************************************************************************)
EXTENDS Naturals, Sequences

CONSTANTS
  Queued,       \* the events of threads that must go through the queue
  Direct,       \* the events of threads that skip it
  Capacity      \* APP_MAX_QUEUEABLE_EVENTS

VARIABLES
  queue,        \* the events that are accepted and wait
  ran           \* the events that were run, in order

vars == <<queue, ran>>

Seen == {queue[i] : i \in DOMAIN queue} \cup {ran[i] : i \in DOMAIN ran}

Init ==
  /\ queue = <<>>
  /\ ran = <<>>

Accept(e) ==
  /\ e \notin Seen
  /\ Len(queue) < Capacity
  /\ queue' = Append(queue, e)
  /\ UNCHANGED ran

RunHead ==
  /\ queue # <<>>
  /\ ran' = Append(ran, Head(queue))
  /\ queue' = Tail(queue)

RunDirectly(e) ==
  /\ e \notin Seen
  /\ ran' = Append(ran, e)
  /\ UNCHANGED queue

Next ==
  \/ \E e \in Queued : Accept(e)
  \/ RunHead
  \/ \E e \in Direct : RunDirectly(e)

Spec == Init /\ [][Next]_vars
=============================================================================
