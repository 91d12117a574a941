------------------------ MODULE RequestQueue_proofs ------------------------
(***************************************************************************)
(* Theorems about the ring buffer, for every size and number of requests.  *)
(*                                                                         *)
(* TypeOK and RingInv are inductive; NoSlotRace, NeverThrows and           *)
(* NothingLost follow from them, and so does, while no overrun happens,    *)
(* the refinement of BoundedFifo.                                          *)
(***************************************************************************)
EXTENDS RequestQueue, SequenceTheorems, TLAPS

(* Arithmetic of the wrap: what % MaxSize does to the sums the code forms. *)

\* Below maxSize, % maxSize changes nothing.
LEMMA ModSmall ==
  ASSUME NEW n \in Nat \ {0}, NEW a \in 0 .. n - 1
  PROVE  /\ a % n = a
         /\ (a + n) % n = a
         /\ (a + n + n) % n = a
  OBVIOUS

\* (end + 1) % maxSize is the slot after end.
LEMMA ModNext ==
  ASSUME NEW n \in Nat \ {0}, NEW e \in 0 .. n - 1
  PROVE  (e + 1) % n = IF e + 1 = n THEN 0 ELSE e + 1
  <1>1. CASE e + 1 = n
    BY <1>1, ModSmall
  <1>2. CASE e + 1 # n
    <2>1. e + 1 \in 0 .. n - 1
      BY <1>2
    <2>2. QED
      BY <2>1, <1>2, ModSmall
  <1>3. QED
    BY <1>1, <1>2

----------------------------------------------------------------------------
(* Types *)

\* The type invariant is inductive only with the positions of the two wraps.
WrapOK ==
  /\ end = MaxSize => ppc = "wrap"
  /\ start = MaxSize => cpc = "wrap"
  /\ ppc \in {"write", "advance"} => sent > 0

\* The constructor's state has the types.
LEMMA InitTypeOK == Init => TypeOK /\ WrapOK
  <1> SUFFICES ASSUME Init
               PROVE  TypeOK /\ WrapOK
    OBVIOUS
  <1>1. accepted \in Seq(Requests) /\ taken \in Seq(Requests \cup {NoRequest})
    BY DEF Init
  <1>2. items \in [Slots -> Requests \cup {NoRequest}]
    BY DEF Init
  <1>3. overrun \in BOOLEAN /\ refused \subseteq Requests
    BY DEF Init
  <1>4. QED
    BY <1>1, <1>2, <1>3, MaxSizeAssumption, MaxRequestsAssumption
       DEF Init, TypeOK, WrapOK, Requests, NoRequest

\* Every step of enqueue(), count() and dequeue() keeps the types.
LEMMA NextTypeOK == TypeOK /\ WrapOK /\ [Next]_vars => TypeOK' /\ WrapOK'
  <1> SUFFICES ASSUME TypeOK, WrapOK, [Next]_vars
               PROVE  TypeOK' /\ WrapOK'
    OBVIOUS
  <1> USE MaxSizeAssumption, MaxRequestsAssumption
      DEF TypeOK, WrapOK, Slots, Requests, NoRequest, producerVars, consumerVars
  <1>1. CASE EnqueueRefused
    BY <1>1 DEF EnqueueRefused
  <1>2. CASE EnqueueBegin
    BY <1>2 DEF EnqueueBegin
  <1>3. CASE EnqueueWrite
    BY <1>3 DEF EnqueueWrite
  <1>4. CASE EnqueueAdvance
    BY <1>4 DEF EnqueueAdvance
  <1>5. CASE EnqueueWrap
    BY <1>5 DEF EnqueueWrap
  <1>6. CASE Poll
    BY <1>6 DEF Poll
  <1>7. CASE DequeueThrow
    BY <1>7 DEF DequeueThrow
  <1>8. CASE DequeueBegin
    BY <1>8 DEF DequeueBegin
  <1>9. CASE DequeueCopy
    BY <1>9 DEF DequeueCopy
  <1>10. CASE DequeueAdvance
    BY <1>10 DEF DequeueAdvance
  <1>11. CASE DequeueWrap
    BY <1>11 DEF DequeueWrap
  <1>12. CASE UNCHANGED vars
    BY <1>12 DEF vars
  <1>13. QED
    BY <1>1, <1>2, <1>3, <1>4, <1>5, <1>6, <1>7, <1>8, <1>9, <1>10, <1>11, <1>12
       DEF Next, Producer, Consumer

\* Whatever the interleaving, overruns included, the variables keep their
\* types and the ring is never indexed outside its slots.
THEOREM TypeCorrect == Spec => [](TypeOK /\ WrapOK)
  BY InitTypeOK, NextTypeOK, PTL DEF Spec

----------------------------------------------------------------------------
(* The ring invariant *)

\* The empty ring satisfies the invariant.
LEMMA InitRingInv == Init => RingInv
  BY MaxSizeAssumption
     DEF Init, RingInv, RingHoldsBacklog, ProducerPosition, ConsumerPosition,
         Held, First, Last, SlotOf, Slots

\* Different positions in the backlog are different slots.
LEMMA SlotsDistinct ==
  ASSUME start \in 0 .. MaxSize, NEW j \in 0 .. MaxSize - 1, NEW k \in 0 .. MaxSize - 1
  PROVE  SlotOf(j) \in Slots /\ (j # k => SlotOf(j) # SlotOf(k))
  BY MaxSizeAssumption DEF SlotOf, First, Slots

\* The slot at end is free, so writing it disturbs no waiting request.
LEMMA EnqueueWriteRingInv ==
  ASSUME TypeOK, WrapOK, RingInv, EnqueueWrite, ~overrun'
  PROVE  RingInv'
  <1> USE MaxSizeAssumption, MaxRequestsAssumption
  <1>1. ~overrun /\ RingHoldsBacklog /\ ProducerPosition /\ ConsumerPosition
    BY DEF EnqueueWrite, RingInv
  <1>2. /\ ppc = "write" /\ ppc' = "advance"
        /\ end \in Slots /\ end = SlotOf(Held)
        /\ Held \in 0 .. MaxSize - 2
    BY <1>1 DEF EnqueueWrite, RingHoldsBacklog, ProducerPosition, Last, WrapOK,
                TypeOK, Slots, Held
  <1>3. /\ items' = [items EXCEPT ![end] = sent]
        /\ UNCHANGED <<start, end, sent, accepted, taken, cpc, item>>
    BY DEF EnqueueWrite, consumerVars
  <1>4. Held' = Held /\ First' = First /\ Last' = Last
    BY <1>3 DEF Held, First, Last
  <1>5. \A k \in Nat : SlotOf(k)' = SlotOf(k)
    BY <1>4 DEF SlotOf
  <1>6. \A k \in 0 .. Held - 1 : items'[SlotOf(k)] = items[SlotOf(k)]
    <2> TAKE k \in 0 .. Held - 1
    <2>1. SlotOf(k) \in Slots /\ SlotOf(k) # end
      BY <1>2, SlotsDistinct DEF TypeOK
    <2>2. QED
      BY <1>3, <2>1 DEF TypeOK
  <1>7. RingHoldsBacklog'
    BY <1>1, <1>2, <1>3, <1>4, <1>5, <1>6 DEF RingHoldsBacklog
  <1>8. ProducerPosition'
    BY <1>1, <1>2, <1>3, <1>4 DEF ProducerPosition, TypeOK
  <1>9. ConsumerPosition'
    BY <1>1, <1>3, <1>4 DEF ConsumerPosition
  <1>10. QED
    BY <1>7, <1>8, <1>9 DEF RingInv

\* end++ makes the slot just written the last of the backlog.
LEMMA EnqueueAdvanceRingInv ==
  ASSUME TypeOK, WrapOK, RingInv, EnqueueAdvance, ~overrun'
  PROVE  RingInv'
  <1> USE MaxSizeAssumption, MaxRequestsAssumption
  <1>1. ~overrun /\ RingHoldsBacklog /\ ProducerPosition /\ ConsumerPosition
    BY DEF EnqueueAdvance, RingInv
  <1>2. /\ ppc = "advance" /\ ppc' = "wrap"
        /\ end \in Slots /\ end = SlotOf(Held) /\ items[end] = sent
        /\ Held \in 0 .. MaxSize - 2
    BY <1>1 DEF EnqueueAdvance, RingHoldsBacklog, ProducerPosition, Last, WrapOK,
                TypeOK, Slots, Held
  <1>3. /\ end' = end + 1
        /\ accepted' = Append(accepted, sent)
        /\ UNCHANGED <<items, start, sent, taken, cpc, item>>
    BY DEF EnqueueAdvance, consumerVars
  <1>4. /\ Held' = Held + 1
        /\ Len(accepted) = Len(taken) + Held
        /\ \A n \in 1 .. Len(accepted) : accepted'[n] = accepted[n]
        /\ accepted'[Len(accepted) + 1] = sent
    BY <1>3 DEF Held, TypeOK
  <1>5. First' = First /\ \A k \in Nat : SlotOf(k)' = SlotOf(k)
    BY <1>3 DEF SlotOf, First
  <1>6. RingHoldsBacklog'
    <2>1. Held' \in 0 .. MaxSize - 1
      BY <1>2, <1>4
    <2>2. Last' = SlotOf(Held)'
      BY <1>2, <1>3, <1>4 DEF Last, SlotOf, First, TypeOK, Slots
    <2>3. \A k \in 0 .. Held' - 1 :
            items'[SlotOf(k)'] = accepted'[Len(taken') + 1 + k]
      <3> TAKE k \in 0 .. Held' - 1
      <3>1. CASE k = Held
        BY <3>1, <1>2, <1>3, <1>4, <1>5 DEF TypeOK
      <3>2. CASE k \in 0 .. Held - 1
        <4>1. Len(taken) + 1 + k \in 1 .. Len(accepted)
          BY <3>2, <1>2, <1>4 DEF TypeOK
        <4>2. items[SlotOf(k)] = accepted[Len(taken) + 1 + k]
          BY <3>2, <1>1 DEF RingHoldsBacklog
        <4>3. SlotOf(k)' = SlotOf(k)
          BY <3>2, <1>5
        <4>4. QED
          BY <4>1, <4>2, <4>3, <1>3, <1>4
      <3>3. QED
        BY <3>1, <3>2, <1>2, <1>4
    <2>4. \A k \in 1 .. Len(taken') : taken'[k] = accepted'[k]
      BY <1>1, <1>2, <1>3, <1>4 DEF RingHoldsBacklog, TypeOK
    <2>5. QED
      BY <2>1, <2>2, <2>3, <2>4 DEF RingHoldsBacklog
  <1>7. ProducerPosition'
    BY <1>2 DEF ProducerPosition
  <1>8. ConsumerPosition'
    <2>1. cpc = "advance" => item = accepted'[Len(taken) + 1]
      BY <1>1, <1>2, <1>4 DEF ConsumerPosition, TypeOK
    <2>2. QED
      BY <2>1, <1>1, <1>2, <1>3, <1>4 DEF ConsumerPosition
  <1>9. QED
    BY <1>6, <1>7, <1>8 DEF RingInv

\* The check of enqueue() passes, without an overrun, only if there is room.
LEMMA EnqueueBeginRingInv ==
  ASSUME TypeOK, WrapOK, RingInv, EnqueueBegin, ~overrun'
  PROVE  RingInv'
  <1> USE MaxSizeAssumption, MaxRequestsAssumption
  <1>1. ~overrun /\ RingHoldsBacklog /\ ProducerPosition /\ ConsumerPosition
    BY DEF EnqueueBegin, RingInv
  <1>2. UNCHANGED <<items, start, end, accepted, taken, cpc, item>>
    BY DEF EnqueueBegin, consumerVars
  <1>3. /\ ppc' = "write"
        /\ end \in Slots /\ end = SlotOf(Held)
        /\ Held \in 0 .. MaxSize - 1
    BY <1>1 DEF EnqueueBegin, RingHoldsBacklog, ProducerPosition, Last, TypeOK,
                Slots, Held
  <1>4. Held < MaxSize - 1
    <2>1. start # IF end + 1 = MaxSize THEN 0 ELSE end + 1
      BY <1>3, ModNext DEF EnqueueBegin, Full, Slots
    <2>2. ~(start = MaxSize /\ end = MaxSize - 1)
      BY DEF EnqueueBegin
    <2>3. QED
      BY <2>1, <2>2, <1>3 DEF SlotOf, First, Slots, TypeOK
  <1>5. RingHoldsBacklog'
    BY <1>1, <1>2 DEF RingHoldsBacklog, Held, Last, SlotOf, First
  <1>6. ProducerPosition'
    BY <1>2, <1>3, <1>4 DEF ProducerPosition, EnqueueBegin, Held, Slots, TypeOK
  <1>7. ConsumerPosition'
    BY <1>1, <1>2 DEF ConsumerPosition, Held
  <1>8. QED
    BY <1>5, <1>6, <1>7 DEF RingInv

\* Until an overrun, a step of enqueue() preserves the ring invariant.
LEMMA ProducerRingInv ==
  ASSUME TypeOK, WrapOK, RingInv, Producer, ~overrun'
  PROVE  RingInv'
  <1> USE MaxSizeAssumption, MaxRequestsAssumption
      DEF TypeOK, WrapOK, Slots, Requests, NoRequest, consumerVars
  <1> USE DEF RingInv, RingHoldsBacklog, ProducerPosition, ConsumerPosition,
              Held, First, Last, SlotOf
  <1>1. CASE EnqueueRefused
    BY <1>1 DEF EnqueueRefused
  <1>2. CASE EnqueueWrap
    BY <1>2 DEF EnqueueWrap
  <1>3. QED
    BY <1>1, <1>2, EnqueueBeginRingInv, EnqueueWriteRingInv, EnqueueAdvanceRingInv
       DEF Producer

\* start++ takes the request just copied off the backlog.
LEMMA DequeueAdvanceRingInv ==
  ASSUME TypeOK, WrapOK, RingInv, DequeueAdvance, ~overrun'
  PROVE  RingInv'
  <1> USE MaxSizeAssumption, MaxRequestsAssumption
  <1>1. ~overrun /\ RingHoldsBacklog /\ ProducerPosition /\ ConsumerPosition
    BY DEF DequeueAdvance, RingInv, producerVars
  <1>2. /\ cpc = "advance" /\ cpc' = "wrap"
        /\ start \in Slots /\ First = start
        /\ Held \in 1 .. MaxSize - 1
        /\ item = accepted[Len(taken) + 1]
    BY <1>1 DEF DequeueAdvance, RingHoldsBacklog, ConsumerPosition, First, WrapOK,
                TypeOK, Slots, Held
  <1>3. /\ start' = start + 1
        /\ taken' = Append(taken, item)
        /\ UNCHANGED <<items, end, ppc, sent, accepted>>
    BY DEF DequeueAdvance, producerVars
  <1>4. /\ Held' = Held - 1
        /\ Len(taken') = Len(taken) + 1
        /\ \A n \in 1 .. Len(taken) : taken'[n] = taken[n]
        /\ taken'[Len(taken) + 1] = item
        /\ Len(taken) \in Nat
    BY <1>3 DEF Held, TypeOK
  <1>5. \A k \in 0 .. MaxSize - 2 : SlotOf(k)' = SlotOf(k + 1)
    BY <1>2, <1>3 DEF SlotOf, First, Slots, TypeOK
  <1>6. RingHoldsBacklog'
    <2>1. Held' \in 0 .. MaxSize - 1
      BY <1>2, <1>4
    <2>2. Last' = SlotOf(Held)'
      <3>1. Last' = SlotOf(Held)
        BY <1>1, <1>3 DEF Last, RingHoldsBacklog
      <3>2. SlotOf(Held)' = SlotOf(Held)
        BY <1>2, <1>3, <1>4 DEF SlotOf, First, Slots, TypeOK
      <3>3. QED
        BY <3>1, <3>2
    <2>3. \A k \in 0 .. Held' - 1 :
            items'[SlotOf(k)'] = accepted'[Len(taken') + 1 + k]
      <3> TAKE k \in 0 .. Held' - 1
      <3>1. k + 1 \in 0 .. Held - 1 /\ k \in 0 .. MaxSize - 2
        BY <1>2, <1>4
      <3>2. items[SlotOf(k + 1)] = accepted[Len(taken) + 1 + (k + 1)]
        BY <3>1, <1>1 DEF RingHoldsBacklog
      <3>3. Len(taken') + 1 + k = Len(taken) + 1 + (k + 1)
        BY <1>4, <3>1
      <3>4. QED
        BY <3>1, <3>2, <3>3, <1>3, <1>5
    <2>4. \A k \in 1 .. Len(taken') : taken'[k] = accepted'[k]
      BY <1>1, <1>2, <1>3, <1>4 DEF RingHoldsBacklog
    <2>5. QED
      BY <2>1, <2>2, <2>3, <2>4 DEF RingHoldsBacklog
  <1>7. ProducerPosition'
    BY <1>1, <1>2, <1>3, <1>4 DEF ProducerPosition
  <1>8. ConsumerPosition'
    BY <1>2 DEF ConsumerPosition
  <1>9. QED
    BY <1>6, <1>7, <1>8 DEF RingInv

\* While the request thread is not in a wrap, count() is the backlog.
LEMMA CountIsHeld ==
  ASSUME TypeOK, RingHoldsBacklog, start # MaxSize
  PROVE  Count = Held
  <1> USE MaxSizeAssumption
  <1>1. Held \in 0 .. MaxSize - 1 /\ start \in 0 .. MaxSize - 1
    BY DEF RingHoldsBacklog, TypeOK
  <1>2. \/ end + MaxSize - start = Held
        \/ end + MaxSize - start = Held + MaxSize
        \/ end + MaxSize - start = Held + MaxSize + MaxSize
    BY <1>1 DEF RingHoldsBacklog, Last, SlotOf, First, TypeOK
  <1>3. QED
    BY <1>1, <1>2, ModSmall DEF Count

\* Until an overrun, a step of count() and dequeue() preserves it too.
LEMMA ConsumerRingInv ==
  ASSUME TypeOK, WrapOK, RingInv, Consumer, ~overrun'
  PROVE  RingInv'
  <1> USE MaxSizeAssumption, MaxRequestsAssumption
  <1>1. ~overrun /\ RingHoldsBacklog /\ ProducerPosition /\ ConsumerPosition
    BY DEF Consumer, Poll, DequeueThrow, DequeueBegin, DequeueCopy,
           DequeueAdvance, DequeueWrap, RingInv, producerVars
  <1>2. CASE DequeueAdvance
    BY <1>2, DequeueAdvanceRingInv
  <1>3. CASE ~DequeueAdvance
    <2>1. /\ UNCHANGED <<items, taken, accepted, end, ppc, sent>>
          /\ First' = First
      <3>1. UNCHANGED <<items, taken, accepted, end, ppc, sent>>
        BY <1>3 DEF Consumer, Poll, DequeueThrow, DequeueBegin, DequeueCopy,
                    DequeueWrap, producerVars
      <3>2. CASE DequeueWrap
        BY <3>1, <3>2 DEF DequeueWrap, First, TypeOK
      <3>3. CASE ~DequeueWrap
        BY <1>3, <3>3 DEF Consumer, Poll, DequeueThrow, DequeueBegin, DequeueCopy,
                          First, producerVars
      <3>4. QED
        BY <3>1, <3>2, <3>3
    <2>2. RingHoldsBacklog' /\ ProducerPosition'
      BY <1>1, <2>1 DEF RingHoldsBacklog, ProducerPosition, Held, Last, SlotOf
    <2>3. ConsumerPosition'
      <3>1. CASE Poll
        <4>1. Held > 0
          BY <1>1, <3>1, CountIsHeld DEF Poll, ConsumerPosition, RingHoldsBacklog
        <4>2. QED
          BY <1>1, <2>1, <3>1, <4>1 DEF Poll, ConsumerPosition, Held
      <3>2. ~DequeueThrow
        BY <1>1 DEF DequeueThrow, ConsumerPosition, RingHoldsBacklog, Last, SlotOf,
                    First, TypeOK, Held
      <3>3. CASE DequeueBegin
        BY <1>1, <3>3 DEF DequeueBegin, ConsumerPosition, Held, producerVars
      <3>4. CASE DequeueCopy
        <4>1. start = SlotOf(0) /\ 0 \in 0 .. Held - 1
          BY <1>1, <3>4 DEF DequeueCopy, ConsumerPosition, RingHoldsBacklog, SlotOf,
                            First, TypeOK
        <4>2. items[start] = accepted[Len(taken) + 1 + 0]
          BY <1>1, <4>1 DEF RingHoldsBacklog
        <4>3. item' = accepted[Len(taken) + 1]
          BY <3>4, <4>2 DEF DequeueCopy, TypeOK
        <4>4. QED
          BY <1>1, <3>4, <2>1, <4>3 DEF DequeueCopy, ConsumerPosition, Held
      <3>5. CASE DequeueWrap
        BY <3>5 DEF DequeueWrap, ConsumerPosition, TypeOK
      <3>6. QED
        BY <1>3, <3>1, <3>2, <3>3, <3>4, <3>5 DEF Consumer
    <2>4. QED
      BY <2>2, <2>3 DEF RingInv
  <1>4. QED
    BY <1>2, <1>3

\* No step, overruns included, breaks the conditional invariant.
LEMMA RingInvNext ==
  ASSUME TypeOK, WrapOK, RingInv, [Next]_vars
  PROVE  RingInv'
  <1>1. CASE overrun'
    BY <1>1 DEF RingInv
  <1>2. CASE ~overrun' /\ Next
    BY <1>2, ProducerRingInv, ConsumerRingInv DEF Next
  <1>3. CASE ~overrun' /\ UNCHANGED vars
    BY <1>3 DEF vars, RingInv, RingHoldsBacklog, ProducerPosition,
                ConsumerPosition, Held, First, Last, SlotOf
  <1>4. QED
    BY <1>1, <1>2, <1>3

\* Until an overrun, the slots from start to end hold exactly the accepted
\* requests that wait, in order, and both threads are where they may be.
THEOREM RingCorrect == Spec => []RingInv
  <1>1. TypeOK /\ WrapOK /\ RingInv /\ [Next]_vars => RingInv'
    BY RingInvNext
  <1>2. QED
    BY InitRingInv, TypeCorrect, <1>1, PTL DEF Spec

\* Until an overrun the two threads never touch one slot at once
\* (RequestQueue.cpp:18, 32).
THEOREM SlotsRaceFree == Spec => []NoSlotRace
  <1>1. TypeOK /\ WrapOK /\ RingInv => NoSlotRace
    <2> SUFFICES ASSUME TypeOK, WrapOK, RingInv, ~overrun,
                        ppc = "write", cpc = "copy", start = end
                 PROVE  FALSE
      BY DEF NoSlotRace
    <2>1. Held \in 1 .. MaxSize - 2 /\ Last = SlotOf(Held)
      BY MaxSizeAssumption
         DEF RingInv, RingHoldsBacklog, ProducerPosition, ConsumerPosition
    <2>2. QED
      BY <2>1, MaxSizeAssumption DEF Last, SlotOf, First, WrapOK, TypeOK
  <1>2. QED
    BY <1>1, TypeCorrect, RingCorrect, PTL

\* Until an overrun, dequeue() does not throw (RequestQueue.cpp:28-30).
THEOREM DequeueFindsItem == Spec => []NeverThrows
  <1>1. RingInv => NeverThrows
    BY DEF RingInv, ConsumerPosition, NeverThrows
  <1>2. QED
    BY <1>1, RingCorrect, PTL

\* Until an overrun, count() between calls is the number of waiting
\* requests (RequestQueue.cpp:41-43).
THEOREM CountCorrect == Spec => []NothingLost
  <1>1. TypeOK /\ WrapOK /\ RingInv => NothingLost
    BY CountIsHeld DEF NothingLost, RingInv, WrapOK
  <1>2. QED
    BY <1>1, TypeCorrect, RingCorrect, PTL

----------------------------------------------------------------------------
(* Refinement of BoundedFifo under timely scheduling *)

\* The constructor's ring is the empty FIFO.
LEMMA InitFifo == Init => Fifo!Init
  BY DEF Init, Fifo!Init

\* end++ is the FIFO's Enqueue, start++ its Dequeue, a failing full test its
\* Refuse; every other step is a stutter.
LEMMA StepFifo ==
  ASSUME TypeOK, WrapOK, RingInv, [TimelyNext]_vars, RingInv'
  PROVE  [Fifo!Next]_(Fifo!fifoVars)
  <1> USE MaxSizeAssumption, MaxRequestsAssumption
  <1> USE DEF Fifo!fifoVars, Fifo!Held, Held
  <1>1. CASE UNCHANGED <<accepted, taken, refused>>
    BY <1>1
  <1>2. CASE EnqueueRefused /\ ~overrun'
    <2>1. /\ ppc = "idle" /\ RingHoldsBacklog /\ ProducerPosition
          /\ start = IF end + 1 = MaxSize THEN 0 ELSE end + 1
      <3>1. RingHoldsBacklog /\ ProducerPosition /\ ppc = "idle"
        BY <1>2 DEF EnqueueRefused, RingInv
      <3>2. end \in 0 .. MaxSize - 1
        BY <3>1 DEF ProducerPosition, TypeOK
      <3>3. QED
        BY <1>2, <3>1, <3>2, ModNext DEF EnqueueRefused, Full
    <2>2. Len(accepted) - Len(taken) = MaxSize - 1
      <3>1. Held \in 0 .. MaxSize - 1 /\ end = SlotOf(Held)
        BY <2>1 DEF RingHoldsBacklog, ProducerPosition, Last
      <3>2. start # MaxSize /\ end \in 0 .. MaxSize - 1
        BY <2>1 DEF ProducerPosition, TypeOK
      <3>3. Held = MaxSize - 1
        BY <2>1, <3>1, <3>2 DEF SlotOf, First
      <3>4. QED
        BY <3>3
    <2>3. Fifo!Refuse(sent + 1) /\ sent + 1 \in Requests
      BY <1>2, <2>2 DEF EnqueueRefused, Fifo!Refuse, consumerVars, TypeOK, Requests
    <2>4. QED
      BY <2>3 DEF Fifo!Next
  <1>3. CASE EnqueueAdvance /\ ~overrun'
    <2>1. Len(accepted) - Len(taken) < MaxSize - 1 /\ sent \in Requests
      BY <1>3 DEF EnqueueAdvance, RingInv, ProducerPosition, TypeOK, Requests
    <2>2. Fifo!Enqueue(sent)
      BY <1>3, <2>1 DEF EnqueueAdvance, Fifo!Enqueue, consumerVars
    <2>3. QED
      BY <2>1, <2>2 DEF Fifo!Next
  <1>4. CASE DequeueAdvance /\ ~overrun'
    <2>1. Len(accepted) - Len(taken) > 0 /\ item = accepted[Len(taken) + 1]
      BY <1>4 DEF DequeueAdvance, RingInv, ConsumerPosition, producerVars
    <2>2. Fifo!Dequeue
      BY <1>4, <2>1 DEF DequeueAdvance, Fifo!Dequeue, producerVars
    <2>3. QED
      BY <2>2 DEF Fifo!Next
  <1>5. QED
    BY <1>1, <1>2, <1>3, <1>4 DEF TimelyNext, Next, Producer, Consumer, vars,
       EnqueueBegin, EnqueueWrite, EnqueueWrap, Poll, DequeueThrow, DequeueBegin,
       DequeueCopy, DequeueWrap, producerVars, consumerVars

\* Until an overrun the class is the queue its comment describes
\* (RequestQueue.hpp:39): order kept, nothing lost or doubled, and
\* enqueue() fails only when the queue is full.
THEOREM FifoSteps == Spec => FifoUntilOverrun
  <1>1. TypeOK /\ WrapOK /\ RingInv /\ RingInv' /\ [Next]_vars
          => [Fifo!Next \/ overrun']_(Fifo!fifoVars)
    <2>1. SUFFICES ASSUME TypeOK, WrapOK, RingInv, RingInv', [Next]_vars, ~overrun'
                   PROVE  [Fifo!Next]_(Fifo!fifoVars)
      OBVIOUS
    <2>2. [TimelyNext]_vars
      BY <2>1 DEF TimelyNext
    <2>3. QED
      BY <2>1, <2>2, StepFifo
  <1>2. QED
    BY <1>1, InitFifo, TypeCorrect, RingCorrect, PTL DEF Spec, FifoUntilOverrun

\* Without overruns it is that queue for ever (RequestQueue.hpp:39).
THEOREM ImplementsFifo == TimelySpec => FifoSpec
  <1>1. [TimelyNext]_vars => [Next]_vars
    BY DEF TimelyNext
  <1>2. TypeOK /\ WrapOK /\ RingInv /\ RingInv' /\ [TimelyNext]_vars
          => [Fifo!Next]_(Fifo!fifoVars)
    BY StepFifo
  <1>3. TimelySpec => Spec
    BY <1>1, PTL DEF TimelySpec, Spec
  <1>4. QED
    BY <1>2, <1>3, InitFifo, TypeCorrect, RingCorrect, PTL
       DEF TimelySpec, FifoSpec, Fifo!Spec
=============================================================================
