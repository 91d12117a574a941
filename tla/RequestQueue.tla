---------------------------- MODULE RequestQueue ----------------------------
(***************************************************************************)
(* The ring buffer of src/RequestQueue.cpp, at the granularity at which    *)
(* its two users can interleave: every load or store of the atomics start  *)
(* and end, and every access to a slot of items, is a step.                *)
(*                                                                         *)
(* The server thread is the producer: it calls enqueue() from a CoAP       *)
(* handler.  The request thread is the consumer: it calls dequeue() after  *)
(* count() returned a non-zero value (src/main.cpp:88).  A request is      *)
(* known by its number, in the order in which the handlers issue them;     *)
(* number 0 is the content of a slot that was never written.               *)
(***************************************************************************)
EXTENDS Naturals, Sequences

CONSTANTS
  MaxSize,      \* the constructor's _maxSize: the slots of the ring
  MaxRequests   \* bound on the calls of enqueue()

ASSUME MaxSizeAssumption == MaxSize \in Nat \ {0}
ASSUME MaxRequestsAssumption == MaxRequests \in Nat

VARIABLES
  items,      \* the slots
  start,      \* slot of the first item, MaxSize in the middle of a wrap
  end,        \* slot after the last item, MaxSize in the middle of a wrap
  ppc,        \* where the producer is in enqueue()
  cpc,        \* where the consumer is in its loop and in dequeue()
  item,       \* dequeue()'s local copy of the slot
  sent,       \* number of calls of enqueue() so far
  accepted,   \* history: requests made visible to the consumer, in order
  taken,      \* history: requests the consumer has removed, in order
  refused,    \* history: requests enqueue() returned -1 for
  overrun     \* history: enqueue() let a request into a full ring

vars == <<items, start, end, ppc, cpc, item, sent,
          accepted, taken, refused, overrun>>
producerVars == <<end, ppc, sent, accepted, refused, overrun>>
consumerVars == <<start, cpc, item, taken>>

Slots == 0 .. MaxSize - 1
Requests == 1 .. MaxRequests
NoRequest == 0

Init ==
  /\ items = [i \in Slots |-> NoRequest]
  /\ start = 0
  /\ end = 0
  /\ ppc = "idle"
  /\ cpc = "poll"
  /\ item = NoRequest
  /\ sent = 0
  /\ accepted = << >>
  /\ taken = << >>
  /\ refused = {}
  /\ overrun = FALSE

----------------------------------------------------------------------------
(* Mistakes a change of the code could make.  No specification uses them:  *)
(* each replaces one definition below to show which property notices it.   *)

FullNoWrap == start = end + 1

FullOneEarly == start = (end + 2) % MaxSize

EnqueueNoCheck ==
  /\ ppc = "idle"
  /\ sent < MaxRequests
  /\ sent' = sent + 1
  /\ ppc' = "write"
  /\ UNCHANGED <<items, end, accepted, refused, overrun, consumerVars>>

EnqueueNoWrap ==
  /\ ppc = "wrap"
  /\ ppc' = "idle"
  /\ UNCHANGED <<items, end, sent, accepted, refused, overrun, consumerVars>>

PollBlind ==
  /\ cpc = "poll"
  /\ cpc' = "dequeue"
  /\ UNCHANGED <<items, start, item, taken, producerVars>>

CountFreeSlots == IF start > end THEN start - end - 1 ELSE end - start

DequeueCopyNext ==
  /\ cpc = "copy"
  /\ item' = items[(start + 1) % MaxSize]
  /\ cpc' = "advance"
  /\ UNCHANGED <<items, start, taken, producerVars>>

----------------------------------------------------------------------------
(* enqueue(), on the server thread *)

Full == start = (end + 1) % MaxSize

EnqueueRefused ==
  /\ ppc = "idle"
  /\ sent < MaxRequests
  /\ Full
  /\ sent' = sent + 1
  /\ refused' = refused \cup {sent + 1}
  /\ UNCHANGED <<items, end, ppc, accepted, overrun, consumerVars>>

\* The last slot is still in use when start is about to become 0: the
\* ring is full, although start, now MaxSize, does not compare equal.
EnqueueBegin ==
  /\ ppc = "idle"
  /\ sent < MaxRequests
  /\ ~Full
  /\ sent' = sent + 1
  /\ ppc' = "write"
  /\ overrun' = (overrun \/ (start = MaxSize /\ end = MaxSize - 1))
  /\ UNCHANGED <<items, end, accepted, refused, consumerVars>>

EnqueueWrite ==
  /\ ppc = "write"
  /\ items' = [items EXCEPT ![end] = sent]
  /\ ppc' = "advance"
  /\ UNCHANGED <<end, sent, accepted, refused, overrun, consumerVars>>

\* end++ publishes the slot: from here on the consumer may take it.
EnqueueAdvance ==
  /\ ppc = "advance"
  /\ end' = end + 1
  /\ accepted' = Append(accepted, sent)
  /\ ppc' = "wrap"
  /\ UNCHANGED <<items, sent, refused, overrun, consumerVars>>

EnqueueWrap ==
  /\ ppc = "wrap"
  /\ end' = IF end >= MaxSize THEN 0 ELSE end
  /\ ppc' = "idle"
  /\ UNCHANGED <<items, sent, accepted, refused, overrun, consumerVars>>

----------------------------------------------------------------------------
(* count() and dequeue(), on the request thread *)

Count == (end + MaxSize - start) % MaxSize

Poll ==
  /\ cpc = "poll"
  /\ Count # 0
  /\ cpc' = "dequeue"
  /\ UNCHANGED <<items, start, item, taken, producerVars>>

\* The runtime_error leaves the thread function: the process terminates.
DequeueThrow ==
  /\ cpc = "dequeue"
  /\ start = end
  /\ cpc' = "thrown"
  /\ UNCHANGED <<items, start, item, taken, producerVars>>

DequeueBegin ==
  /\ cpc = "dequeue"
  /\ start # end
  /\ cpc' = "copy"
  /\ UNCHANGED <<items, start, item, taken, producerVars>>

DequeueCopy ==
  /\ cpc = "copy"
  /\ item' = items[start]
  /\ cpc' = "advance"
  /\ UNCHANGED <<items, start, taken, producerVars>>

DequeueAdvance ==
  /\ cpc = "advance"
  /\ start' = start + 1
  /\ taken' = Append(taken, item)
  /\ cpc' = "wrap"
  /\ UNCHANGED <<items, item, producerVars>>

DequeueWrap ==
  /\ cpc = "wrap"
  /\ start' = IF start >= MaxSize THEN 0 ELSE start
  /\ cpc' = "poll"
  /\ UNCHANGED <<items, item, taken, producerVars>>

----------------------------------------------------------------------------
Producer ==
  \/ EnqueueRefused
  \/ EnqueueBegin
  \/ EnqueueWrite
  \/ EnqueueAdvance
  \/ EnqueueWrap

Consumer ==
  \/ Poll
  \/ DequeueThrow
  \/ DequeueBegin
  \/ DequeueCopy
  \/ DequeueAdvance
  \/ DequeueWrap

Next == (cpc # "thrown" /\ Producer) \/ Consumer

Spec == Init /\ [][Next]_vars

(***************************************************************************)
(* Neither thread blocks inside the queue, and the request thread polls    *)
(* for ever.  Nothing obliges a handler to issue requests.                 *)
(***************************************************************************)
Fairness ==
  /\ WF_vars(EnqueueWrite \/ EnqueueAdvance \/ EnqueueWrap)
  /\ WF_vars(Consumer)

FairSpec == Spec /\ Fairness

(***************************************************************************)
(* Between start++ and start = 0 of a wrapping dequeue() the producer sees *)
(* start = MaxSize.  Timely is the scheduling under which the class is the *)
(* queue it claims to be: no enqueue() begins in that window on a ring     *)
(* that is full.                                                           *)
(***************************************************************************)
TimelyNext == Next /\ ~overrun'

TimelySpec == Init /\ [][TimelyNext]_vars

----------------------------------------------------------------------------
(* Properties *)

Held == Len(accepted) - Len(taken)

\* Types: start and end leave the slots only for the value MaxSize, in the
\* middle of a wrap (RequestQueue.cpp:19-22, 33-36).
TypeOK ==
  /\ items \in [Slots -> Requests \cup {NoRequest}]
  /\ start \in 0 .. MaxSize
  /\ end \in 0 .. MaxSize
  /\ ppc \in {"idle", "write", "advance", "wrap"}
  /\ cpc \in {"poll", "dequeue", "copy", "advance", "wrap", "thrown"}
  /\ item \in Requests \cup {NoRequest}
  /\ sent \in 0 .. MaxRequests
  /\ accepted \in Seq(Requests)
  /\ taken \in Seq(Requests \cup {NoRequest})
  /\ refused \subseteq Requests
  /\ overrun \in BOOLEAN

\* Slots are plain structs: as long as no overrun happened, the producer
\* never assigns a slot (RequestQueue.cpp:18) while the consumer copies it
\* (RequestQueue.cpp:32).
NoSlotRace ==
  ~overrun => ~(ppc = "write" /\ cpc = "copy" /\ start = end)

\* As long as no overrun happened, a dequeue() guarded by count() finds an
\* item: the throw of RequestQueue.cpp:29 is not reached.
NeverThrows == ~overrun => cpc # "thrown"

\* As long as no overrun happened, count() between two calls is the number
\* of accepted requests that still wait: none was dropped or added.
NothingLost ==
  ~overrun /\ ppc = "idle" /\ cpc = "poll" => Count = Held

\* What the class comment claims without a condition (RequestQueue.hpp:39):
\* "inherently thread-safe when only using a single consumer and producer".
ThreadSafe ==
  ppc = "idle" /\ cpc = "poll" => Count = Held

\* The ring implements a FIFO of MaxSize - 1 requests: order kept, nothing
\* lost or doubled, and -1 only when full.  FifoUntilOverrun says that every
\* step is one of the FIFO's, or a stutter, as long as no overrun happened;
\* FifoSpec says it of scheduling without overruns.
Fifo == INSTANCE BoundedFifo WITH Capacity <- MaxSize - 1
FifoUntilOverrun == Fifo!Init /\ [][Fifo!Next \/ overrun']_(Fifo!fifoVars)
FifoSpec == Fifo!Spec

\* Every request that enqueue() accepted reaches the request thread, unless
\* an overrun loses it.
EveryAcceptedTaken ==
  \A n \in Requests : Len(accepted) >= n ~> (Len(taken) >= n \/ overrun)

----------------------------------------------------------------------------
(* The inductive invariant behind NoSlotRace, NeverThrows, NothingLost and *)
(* FifoUntilOverrun.  First and Last are start and end with the pending wrap done. *)

First == IF start = MaxSize THEN 0 ELSE start
Last == IF end = MaxSize THEN 0 ELSE end
SlotOf(k) == IF First + k >= MaxSize THEN First + k - MaxSize ELSE First + k

\* The waiting requests are exactly the slots from First to Last, in order.
RingHoldsBacklog ==
  /\ Held \in 0 .. MaxSize - 1
  /\ Last = SlotOf(Held)
  /\ \A k \in 0 .. Held - 1 : items[SlotOf(k)] = accepted[Len(taken) + 1 + k]
  /\ \A k \in 1 .. Len(taken) : taken[k] = accepted[k]

\* The producer has room for the request it is adding.
ProducerPosition ==
  /\ end = MaxSize => ppc = "wrap"
  /\ ppc \in {"write", "advance"} => Held < MaxSize - 1 /\ sent > 0
  /\ ppc = "advance" => items[end] = sent

\* The consumer is inside dequeue() only with a request to take.
ConsumerPosition ==
  /\ start = MaxSize => cpc = "wrap"
  /\ cpc \in {"dequeue", "copy", "advance"} => Held > 0
  /\ cpc = "advance" => item = accepted[Len(taken) + 1]
  /\ cpc # "thrown"

\* Together with TypeOK, inductive until an overrun (enqueue() and
\* dequeue() of RequestQueue.cpp preserve it step by step).
RingInv ==
  ~overrun => RingHoldsBacklog /\ ProducerPosition /\ ConsumerPosition
=============================================================================
