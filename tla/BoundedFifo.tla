---------------------------- MODULE BoundedFifo ----------------------------
(***************************************************************************)
(* What a RequestQueue (inc/RequestQueue.hpp) promises to the thread that  *)
(* enqueues and the thread that dequeues: requests leave in the order they *)
(* entered, none is lost or seen twice, and one is turned away only while  *)
(* the queue is full.  RequestQueue implements this module; ServerThreads  *)
(* uses it as its queue.                                                   *)
(***************************************************************************)
EXTENDS Naturals, Sequences

CONSTANTS
  Capacity,   \* how many requests the queue can hold
  Requests    \* the requests the server thread may enqueue

VARIABLES
  accepted,   \* the requests for which enqueue() returned 0, in order
  taken,      \* the requests dequeue() has returned, in order
  refused     \* the requests for which enqueue() returned -1

fifoVars == <<accepted, taken, refused>>

Held == Len(accepted) - Len(taken)

Init ==
  /\ accepted = << >>
  /\ taken = << >>
  /\ refused = {}

Enqueue(r) ==
  /\ Held < Capacity
  /\ accepted' = Append(accepted, r)
  /\ UNCHANGED <<taken, refused>>

Refuse(r) ==
  /\ Held = Capacity
  /\ refused' = refused \cup {r}
  /\ UNCHANGED <<accepted, taken>>

Dequeue ==
  /\ Held > 0
  /\ taken' = Append(taken, accepted[Len(taken) + 1])
  /\ UNCHANGED <<accepted, refused>>

Next ==
  \/ \E r \in Requests : Enqueue(r) \/ Refuse(r)
  \/ Dequeue

Spec == Init /\ [][Next]_fifoVars
=============================================================================
