------------------------ MODULE ServerThreads_proofs ------------------------
(***************************************************************************)
(* Theorems about the threads of main(), for any queue size and any number *)
(* of requests.                                                            *)
(***************************************************************************)
EXTENDS ServerThreads, SequenceTheorems, TLAPS

USE QueueSizeAssumption, MaxRequestsAssumption, GetStoresAssumption
USE DEF queueVars

\* The actions of the three threads that leave the queue and the value alone.
Quiet == \/ MainTest \/ ExecReturn \/ JoinQueue \/ JoinUpdate
         \/ QueueTest \/ QueueSleep \/ QueueWake
         \/ UpdateTest \/ UpdateValues \/ UpdateWake
         \/ Signal

\* Next with the quiet actions together.
LEMMA NextCases ==
  Next <=> Quiet \/ HandlePut \/ GetBegin \/ GetEnqueue \/ QueueDequeue \/ Treat
BY DEF Next, Main, RequestThread, UpdateThread, Quiet

\* What a quiet action leaves unchanged.
LEMMA QuietSteps ==
  ASSUME Quiet
  PROVE  /\ UNCHANGED <<value, answer, sent, gets, accepted, taken, refused>>
         /\ qpc' = "treat" <=> qpc = "treat"
         /\ mpc' = "get" <=> mpc = "get"
BY DEF Quiet, MainTest, ExecReturn, JoinQueue, JoinUpdate, QueueTest,
       QueueSleep, QueueWake, UpdateTest, UpdateValues, UpdateWake, Signal

\* Appending a request to a queue keeps the type and the earlier requests.
LEMMA AppendRequest ==
  ASSUME NEW s \in Seq(Requests), NEW r \in Requests
  PROVE  /\ Append(s, r) \in Seq(Requests)
         /\ Len(Append(s, r)) = Len(s) + 1
         /\ \A i \in 1 .. Len(s) : Append(s, r)[i] = s[i]
         /\ Append(s, r)[Len(s) + 1] = r
OBVIOUS

----------------------------------------------------------------------------
(* Types and joins *)

\* main() starts with an empty queue and the threads before their loops.
LEMMA InitTypeOK == Init => TypeOK
<1> SUFFICES ASSUME Init PROVE TypeOK
  OBVIOUS
<1>1. accepted \in Seq(Requests) /\ taken \in Seq(Requests) /\ refused \subseteq Requests
  BY DEF Init, Queue!Init
<1>2. gets \subseteq [id : 1 .. MaxRequests, answer : Values, data : Values]
  BY DEF Init
<1>3. value \in Values /\ answer \in Values /\ sent \in 0 .. MaxRequests
  BY DEF Init, Values
<1>4. QED
  BY <1>1, <1>2, <1>3 DEF Init, TypeOK

\* Every step of the threads and the signal keeps the types.
LEMMA NextTypeOK == TypeOK /\ QueueInv /\ [Next]_vars => TypeOK'
<1> SUFFICES ASSUME TypeOK, QueueInv, [Next]_vars PROVE TypeOK'
  OBVIOUS
<1> USE DEF TypeOK
<1>1. CASE Quiet
  <2>1. exitNow' \in BOOLEAN
    BY <1>1 DEF Quiet, MainTest, ExecReturn, JoinQueue, JoinUpdate, QueueTest,
       QueueSleep, QueueWake, UpdateTest, UpdateValues, UpdateWake, Signal
  <2>2. /\ mpc' \in {"test", "exec", "get", "joinQueue", "joinUpdate", "exited"}
        /\ qpc' \in {"test", "poll", "treat", "sleep", "done"}
        /\ upc' \in {"test", "update", "sleep", "done"}
    BY <1>1 DEF Quiet, MainTest, ExecReturn, JoinQueue, JoinUpdate, QueueTest,
       QueueSleep, QueueWake, UpdateTest, UpdateValues, UpdateWake, Signal
  <2>3. QED
    BY <1>1, <2>1, <2>2, QuietSteps
<1>2. CASE HandlePut
  <2> DEFINE request == [id |-> sent + 1, method |-> "PUT", data |-> sent + 1]
  <2>1. request \in Requests /\ sent + 1 \in 0 .. MaxRequests
    BY <1>2 DEF HandlePut, Requests, Values
  <2>2. Queue!Enqueue(request) \/ Queue!Refuse(request)
    BY <1>2 DEF HandlePut
  <2> HIDE DEF request
  <2>3. accepted' \in Seq(Requests) /\ taken' \in Seq(Requests) /\ refused' \subseteq Requests
    BY <2>1, <2>2, AppendRequest DEF Queue!Enqueue, Queue!Refuse
  <2>4. QED
    BY <1>2, <2>1, <2>3 DEF HandlePut
<1>3. CASE GetBegin
  BY <1>3 DEF GetBegin
<1>4. CASE GetEnqueue
  <2> DEFINE request == [id |-> sent, method |-> "GET", data |-> value]
  <2>1. request \in Requests /\ sent \in 1 .. MaxRequests
    BY <1>4 DEF GetEnqueue, Requests, Values, QueueInv
  <2>2. Queue!Enqueue(request) \/ Queue!Refuse(request)
    BY <1>4 DEF GetEnqueue
  <2> HIDE DEF request
  <2>3. accepted' \in Seq(Requests) /\ taken' \in Seq(Requests) /\ refused' \subseteq Requests
    BY <2>1, <2>2, AppendRequest DEF Queue!Enqueue, Queue!Refuse
  <2>4. gets' \subseteq [id : 1 .. MaxRequests, answer : Values, data : Values]
    BY <1>4, <2>1 DEF GetEnqueue
  <2>5. QED
    BY <1>4, <2>3, <2>4 DEF GetEnqueue
<1>5. CASE QueueDequeue
  <2>1. Len(taken) + 1 \in 1 .. Len(accepted)
    BY <1>5 DEF QueueDequeue, Queue!Dequeue, Queue!Held, QueueInv
  <2>2. accepted[Len(taken) + 1] \in Requests
    BY <2>1
  <2>3. QED
    BY <1>5, <2>2 DEF QueueDequeue, Queue!Dequeue
<1>6. CASE Treat
  <2>1. Item \in Requests
    BY <1>6 DEF Treat, Item, QueueInv
  <2>2. value' \in Values
    BY <1>6, <2>1 DEF Treat, Requests
  <2>3. QED
    BY <1>6, <2>2 DEF Treat
<1>7. CASE UNCHANGED vars
  BY <1>7 DEF vars
<1>8. QED
  BY <1>1, <1>2, <1>3, <1>4, <1>5, <1>6, <1>7, NextCases

\* A join is passed only when the thread has ended, and it stays ended.
LEMMA NextJoinInv == JoinInv /\ [Next]_vars => JoinInv'
<1> SUFFICES ASSUME JoinInv, [Next]_vars PROVE JoinInv'
  OBVIOUS
<1> USE DEF JoinInv
<1>1. CASE Main
  BY <1>1 DEF Main, MainTest, ExecReturn, HandlePut, GetBegin, GetEnqueue,
     JoinQueue, JoinUpdate
<1>2. CASE RequestThread
  BY <1>2 DEF RequestThread, QueueTest, QueueDequeue, Treat, QueueSleep, QueueWake
<1>3. CASE UpdateThread
  BY <1>3 DEF UpdateThread, UpdateTest, UpdateValues, UpdateWake
<1>4. CASE Signal
  BY <1>4 DEF Signal
<1>5. CASE UNCHANGED vars
  BY <1>5 DEF vars
<1>6. QED
  BY <1>1, <1>2, <1>3, <1>4, <1>5 DEF Next

\* The queue hands requests over in order.
LEMMA NextQueueInv == TypeOK /\ QueueInv /\ [Next]_vars => QueueInv'
<1> SUFFICES ASSUME TypeOK, QueueInv, [Next]_vars PROVE QueueInv'
  OBVIOUS
<1> USE DEF QueueInv
<1>1. CASE Quiet
  BY <1>1, QuietSteps
<1>2. CASE HandlePut
  <2> DEFINE request == [id |-> sent + 1, method |-> "PUT", data |-> sent + 1]
  <2>1. request \in Requests /\ sent \in Nat
    BY <1>2 DEF HandlePut, Requests, Values, TypeOK
  <2>2. /\ Queue!Enqueue(request) \/ Queue!Refuse(request)
        /\ UNCHANGED <<qpc, mpc>> /\ sent' = sent + 1
    BY <1>2 DEF HandlePut
  <2> HIDE DEF request
  <2>3. QED
    BY <2>1, <2>2, AppendRequest DEF Queue!Enqueue, Queue!Refuse, TypeOK
<1>3. CASE GetBegin
  BY <1>3 DEF GetBegin, TypeOK
<1>4. CASE GetEnqueue
  <2> DEFINE request == [id |-> sent, method |-> "GET", data |-> value]
  <2>1. request \in Requests /\ sent \in Nat
    BY <1>4 DEF GetEnqueue, Requests, Values, TypeOK
  <2>2. /\ Queue!Enqueue(request) \/ Queue!Refuse(request)
        /\ UNCHANGED <<qpc, sent>> /\ mpc' = "exec"
    BY <1>4 DEF GetEnqueue
  <2> HIDE DEF request
  <2>3. QED
    BY <2>1, <2>2, AppendRequest DEF Queue!Enqueue, Queue!Refuse, TypeOK
<1>5. CASE QueueDequeue
  <2>1. Len(taken) + 1 \in 1 .. Len(accepted)
    BY <1>5 DEF QueueDequeue, Queue!Dequeue, Queue!Held, TypeOK
  <2>2. accepted[Len(taken) + 1] \in Requests
    BY <2>1 DEF TypeOK
  <2>3. QED
    BY <1>5, <2>1, <2>2, AppendRequest DEF QueueDequeue, Queue!Dequeue, TypeOK
<1>6. CASE Treat
  BY <1>6 DEF Treat
<1>7. CASE UNCHANGED vars
  BY <1>7 DEF vars
<1>8. QED
  BY <1>1, <1>2, <1>3, <1>4, <1>5, <1>6, <1>7, NextCases

\* Types, and the order of the queue, hold in every state.
THEOREM TypeCorrect == Spec => [](TypeOK /\ QueueInv)
<1>1. Init => QueueInv
  BY DEF Init, Queue!Init, QueueInv
<1>2. QED
  BY InitTypeOK, <1>1, NextTypeOK, NextQueueInv, PTL DEF Spec

\* When main() returns and destroys the server and the queue, both other
\* threads have left their loops for good (main.cpp:80-83).
THEOREM NoUseAfterDestruction == Spec => []DestroyedUnused
<1>1. Init => JoinInv
  BY DEF Init, JoinInv
<1>2. JoinInv => DestroyedUnused
  BY DEF JoinInv, DestroyedUnused
<1>3. QED
  BY <1>1, <1>2, NextJoinInv, PTL DEF Spec

----------------------------------------------------------------------------
(* The value, when GET does not store *)

\* Treated counts a prefix of the accepted requests.
LEMMA TreatedRange ==
  ASSUME TypeOK, QueueInv
  PROVE  Treated \in 0 .. Len(accepted)
BY DEF TypeOK, QueueInv, Treated

\* Only Treat changes the value or completes a request.
LEMMA OtherSteps ==
  ASSUME TypeOK, QueueInv, [Next]_vars, ~Treat
  PROVE  /\ Treated' = Treated
         /\ value' = value
         /\ Len(accepted) <= Len(accepted')
         /\ \A i \in 1 .. Len(accepted) : accepted'[i] = accepted[i]
<1> USE DEF TypeOK, QueueInv, Treated
<1>1. CASE Quiet
  BY <1>1, QuietSteps
<1>2. CASE HandlePut
  <2> DEFINE request == [id |-> sent + 1, method |-> "PUT", data |-> sent + 1]
  <2>1. /\ request \in Requests
        /\ Queue!Enqueue(request) \/ Queue!Refuse(request)
        /\ UNCHANGED <<qpc, value>>
    BY <1>2 DEF HandlePut, Requests, Values
  <2> HIDE DEF request
  <2>2. QED
    BY <2>1, AppendRequest DEF Queue!Enqueue, Queue!Refuse
<1>3. CASE GetBegin
  BY <1>3 DEF GetBegin
<1>4. CASE GetEnqueue
  <2> DEFINE request == [id |-> sent, method |-> "GET", data |-> value]
  <2>1. /\ request \in Requests
        /\ Queue!Enqueue(request) \/ Queue!Refuse(request)
        /\ UNCHANGED <<qpc, value>>
    BY <1>4 DEF GetEnqueue, Requests
  <2> HIDE DEF request
  <2>2. CASE Queue!Enqueue(request)
    BY <2>1, <2>2, AppendRequest DEF Queue!Enqueue
  <2>3. CASE Queue!Refuse(request)
    BY <2>1, <2>3 DEF Queue!Refuse
  <2>4. QED
    BY <2>1, <2>2, <2>3
<1>5. CASE QueueDequeue
  BY <1>5 DEF QueueDequeue, Queue!Dequeue
<1>6. CASE UNCHANGED vars
  BY <1>6 DEF vars
<1>7. QED
  BY <1>1, <1>2, <1>3, <1>4, <1>5, <1>6, NextCases

\* Treat completes the oldest waiting request, and stores it if it is a PUT.
LEMMA TreatStep ==
  ASSUME ~GetStores, TypeOK, QueueInv, Treat
  PROVE  /\ Treated + 1 \in 1 .. Len(accepted)
         /\ Treated' = Treated + 1
         /\ UNCHANGED <<accepted, sent, answer, mpc, gets>>
         /\ accepted[Treated + 1] \in Requests
         /\ value' = IF accepted[Treated + 1].method = "PUT"
                      THEN accepted[Treated + 1].data ELSE value
<1>1. /\ qpc = "treat" /\ qpc' = "poll" /\ taken' = taken
      /\ UNCHANGED <<accepted, sent, answer, mpc, gets>>
      /\ value' = IF Stores(Item) THEN Item.data ELSE value
  BY DEF Treat
<1>2. /\ Len(taken) \in 1 .. Len(accepted)
      /\ Treated + 1 = Len(taken)
      /\ Treated' = Len(taken)
  BY <1>1 DEF QueueInv, TypeOK, Treated
<1>3. Item = accepted[Treated + 1] /\ accepted[Treated + 1] \in Requests
  BY <1>2 DEF Item, QueueInv, TypeOK
<1>4. QED
  BY <1>1, <1>2, <1>3 DEF Stores

\* Each step leaves the payload of the last treated PUT as the value.
LEMMA NextLastPutWins ==
  ASSUME ~GetStores, TypeOK, QueueInv, LastPutWins, [Next]_vars
  PROVE  LastPutWins'
<1>1. CASE Treat
  <2>1. CASE accepted[Treated + 1].method = "PUT"
    BY <1>1, <2>1, TreatStep, TreatedRange DEF LastPutWins
  <2>2. CASE accepted[Treated + 1].method # "PUT"
    BY <1>1, <2>2, TreatStep, TreatedRange DEF LastPutWins
  <2>3. QED
    BY <2>1, <2>2
<1>2. CASE ~Treat
  <2>1. /\ Treated' = Treated /\ value' = value
        /\ \A i \in 1 .. Treated : accepted'[i] = accepted[i]
    BY <1>2, OtherSteps, TreatedRange DEF TypeOK
  <2>2. QED
    BY <2>1, TreatedRange DEF LastPutWins
<1>3. QED
  BY <1>1, <1>2

\* PUTs take effect in the order in which they were accepted, and nothing
\* else changes the value (ResourceMethod.cpp:67, 183-189; main.cpp:88-91).
THEOREM PutsInOrder ==
  ASSUME ~GetStores
  PROVE  Spec => []LastPutWins
<1>1. Init => LastPutWins
  BY DEF Init, Queue!Init, LastPutWins, Treated
<1>2. QED
  BY <1>1, NextLastPutWins, TypeCorrect, PTL DEF Spec

----------------------------------------------------------------------------
(* The age of the value, when GET does not store *)

\* Numbers are natural.
LEMMA AcceptedIds ==
  ASSUME TypeOK
  PROVE  \A i \in 1 .. Len(accepted) : accepted[i].id \in Nat
<1>1. SUFFICES ASSUME NEW i \in 1 .. Len(accepted)
               PROVE  accepted[i].id \in Nat
  OBVIOUS
<1>2. accepted[i] \in Requests
  BY DEF TypeOK
<1>3. QED
  BY <1>2 DEF Requests

\* A step that queues nothing and treats nothing keeps the order.
LEMMA NextValueInvQuiet ==
  ASSUME TypeOK, ValueInv, UNCHANGED <<accepted, value, Treated>>,
         sent' >= sent, sent' \in Nat,
         mpc' = "get" => \/ mpc = "get" /\ answer' = answer /\ sent' = sent
                         \/ answer' = value /\ sent' = sent + 1
  PROVE  ValueInv'
<1>1. \A i \in 1 .. Len(accepted) :
        /\ accepted[i].id <= sent'
        /\ mpc' = "get" => accepted[i].id < sent'
  BY AcceptedIds DEF ValueInv, TypeOK
<1>2. value' <= sent' /\ (mpc' = "get" => answer' <= value')
  BY DEF ValueInv, TypeOK, Values
<1>3. QED
  BY <1>1, <1>2 DEF ValueInv

\* A request that is queued has the largest number so far.
LEMMA NextValueInvQueued ==
  ASSUME NEW request \in Requests, TypeOK, QueueInv, ValueInv,
         accepted' = Append(accepted, request),
         UNCHANGED <<value, Treated>>,
         sent' \in Nat, request.id = sent', sent' >= sent, mpc' # "get",
         \A k \in 1 .. Len(accepted) : accepted[k].id < sent',
         request.method = "PUT" => request.data = request.id /\ value < request.data
  PROVE  ValueInv'
<1>1. /\ Len(accepted') = Len(accepted) + 1
      /\ \A i \in 1 .. Len(accepted) : accepted'[i] = accepted[i]
      /\ accepted'[Len(accepted) + 1] = request
      /\ Len(accepted) \in Nat
  BY AppendRequest DEF TypeOK
<1>2. \A i \in 1 .. Len(accepted) : accepted[i].id \in Nat
  BY AcceptedIds
<1>3. value' <= sent'
  BY DEF ValueInv, TypeOK, Values
<1>4. \A i, j \in 1 .. Len(accepted') : i < j => accepted'[i].id < accepted'[j].id
  <2>1. SUFFICES ASSUME NEW i \in 1 .. Len(accepted'), NEW j \in 1 .. Len(accepted'), i < j
                 PROVE  accepted'[i].id < accepted'[j].id
    OBVIOUS
  <2>2. i \in 1 .. Len(accepted) /\ accepted'[i] = accepted[i]
    BY <1>1, <2>1
  <2>3. CASE j = Len(accepted) + 1
    BY <1>1, <2>2, <2>3
  <2>4. CASE j # Len(accepted) + 1
    <3>1. j \in 1 .. Len(accepted) /\ accepted'[j] = accepted[j]
      BY <1>1, <2>4
    <3>2. QED
      BY <3>1, <2>1, <2>2 DEF ValueInv
  <2>5. QED
    BY <2>3, <2>4
<1>5. \A i \in 1 .. Len(accepted') :
        /\ accepted'[i].id <= sent'
        /\ accepted'[i].method = "PUT" => accepted'[i].data = accepted'[i].id
  <2>1. SUFFICES ASSUME NEW i \in 1 .. Len(accepted')
                 PROVE  /\ accepted'[i].id <= sent'
                        /\ accepted'[i].method = "PUT" => accepted'[i].data = accepted'[i].id
    OBVIOUS
  <2>2. CASE i = Len(accepted) + 1
    BY <1>1, <2>2
  <2>3. CASE i # Len(accepted) + 1
    <3>1. i \in 1 .. Len(accepted) /\ accepted'[i] = accepted[i]
      BY <1>1, <2>3
    <3>2. accepted[i].id < sent' /\ accepted[i].id \in Nat
      BY <3>1, <1>2
    <3>3. accepted[i].method = "PUT" => accepted[i].data = accepted[i].id
      BY <3>1 DEF ValueInv
    <3>4. QED
      BY <3>1, <3>2, <3>3
  <2>4. QED
    BY <2>2, <2>3
<1>6. \A i \in Treated' + 1 .. Len(accepted') :
        accepted'[i].method = "PUT" => value' < accepted'[i].data
  <2>1. SUFFICES ASSUME NEW i \in Treated' + 1 .. Len(accepted'),
                        accepted'[i].method = "PUT"
                 PROVE  value' < accepted'[i].data
    OBVIOUS
  <2>2. CASE i = Len(accepted) + 1
    BY <1>1, <2>1, <2>2
  <2>3. CASE i # Len(accepted) + 1
    <3>1. i \in Treated + 1 .. Len(accepted) /\ accepted'[i] = accepted[i]
      BY <1>1, <2>3, TreatedRange
    <3>2. QED
      BY <3>1, <2>1 DEF ValueInv
  <2>4. QED
    BY <2>2, <2>3
<1>7. QED
  BY <1>3, <1>4, <1>5, <1>6 DEF ValueInv

\* The oldest waiting PUT is newer than the value, and older than the rest.
LEMMA NextValueInvTreat ==
  ASSUME ~GetStores, TypeOK, QueueInv, ValueInv, Treat
  PROVE  ValueInv' /\ value <= value'
<1> DEFINE n == Treated + 1
<1>1. /\ n \in 1 .. Len(accepted) /\ Treated' = n /\ Treated \in Nat
      /\ UNCHANGED <<accepted, sent, answer, mpc>>
      /\ accepted[n].id \in Nat
      /\ value' = IF accepted[n].method = "PUT" THEN accepted[n].data ELSE value
  BY TreatStep, TreatedRange, AcceptedIds
<1>2. value \in Nat /\ sent \in Nat /\ answer \in Nat
  BY DEF TypeOK, Values
<1> HIDE DEF n
<1>3. CASE accepted[n].method = "PUT"
  <2>1. value' = accepted[n].id /\ value < accepted[n].id /\ accepted[n].id <= sent
    <3>1. n \in Treated + 1 .. Len(accepted)
      BY <1>1 DEF n
    <3>2. QED
      BY <1>1, <1>3, <3>1 DEF ValueInv
  <2>2. \A i \in n + 1 .. Len(accepted) :
          accepted[i].method = "PUT" => value' < accepted[i].data
    <3>1. SUFFICES ASSUME NEW i \in n + 1 .. Len(accepted), accepted[i].method = "PUT"
                   PROVE  value' < accepted[i].data
      OBVIOUS
    <3>2. i \in 1 .. Len(accepted) /\ n < i
      BY <1>1
    <3>3. accepted[n].id < accepted[i].id /\ accepted[i].data = accepted[i].id
      BY <1>1, <3>1, <3>2 DEF ValueInv
    <3>4. QED
      BY <2>1, <3>3
  <2>3. value' <= sent /\ (mpc = "get" => answer <= value') /\ value <= value'
    BY <1>1, <1>2, <2>1 DEF ValueInv
  <2>4. QED
    BY <1>1, <2>2, <2>3 DEF ValueInv
<1>4. CASE accepted[n].method # "PUT"
  <2>1. \A i \in n + 1 .. Len(accepted) : i \in Treated + 1 .. Len(accepted)
    BY <1>1 DEF n
  <2>2. QED
    BY <1>1, <1>2, <1>4, <2>1 DEF ValueInv
<1>5. QED
  BY <1>3, <1>4

\* No step lets the value move backwards, or a waiting PUT be older than it.
LEMMA NextValueInv ==
  ASSUME ~GetStores, TypeOK, QueueInv, ValueInv, [Next]_vars
  PROVE  ValueInv'
<1>1. CASE Treat
  BY <1>1, NextValueInvTreat
<1>2. CASE HandlePut
  <2> DEFINE request == [id |-> sent + 1, method |-> "PUT", data |-> sent + 1]
  <2>1. /\ request \in Requests /\ sent \in Nat
        /\ request.id = sent + 1 /\ request.data = sent + 1
        /\ Queue!Enqueue(request) \/ Queue!Refuse(request)
        /\ UNCHANGED <<qpc, value>> /\ sent' = sent + 1 /\ mpc' = "exec"
    BY <1>2 DEF HandlePut, Requests, Values, TypeOK
  <2>2. value < sent + 1 /\ \A k \in 1 .. Len(accepted) : accepted[k].id < sent + 1
    BY <2>1, AcceptedIds DEF ValueInv, TypeOK, Values
  <2> HIDE DEF request
  <2>3. CASE Queue!Enqueue(request)
    <3>1. accepted' = Append(accepted, request) /\ Treated' = Treated
      BY <2>1, <2>3 DEF Queue!Enqueue, Treated
    <3>2. QED
      BY <2>1, <2>2, <3>1, NextValueInvQueued
  <2>4. CASE Queue!Refuse(request)
    <3>1. accepted' = accepted /\ Treated' = Treated
      BY <2>1, <2>4 DEF Queue!Refuse, Treated
    <3>2. QED
      BY <2>1, <3>1, NextValueInvQuiet
  <2>5. QED
    BY <2>1, <2>3, <2>4
<1>3. CASE GetBegin
  <2>1. /\ UNCHANGED <<accepted, value, Treated>>
        /\ sent' = sent + 1 /\ answer' = value /\ sent \in Nat
    BY <1>3 DEF GetBegin, TypeOK, Treated
  <2>2. QED
    BY <2>1, NextValueInvQuiet
<1>4. CASE GetEnqueue
  <2> DEFINE request == [id |-> sent, method |-> "GET", data |-> value]
  <2>1. /\ request \in Requests /\ sent \in Nat
        /\ request.id = sent /\ request.method = "GET"
        /\ Queue!Enqueue(request) \/ Queue!Refuse(request)
        /\ UNCHANGED <<qpc, value, sent>> /\ mpc = "get" /\ mpc' = "exec"
    BY <1>4 DEF GetEnqueue, Requests, Values, TypeOK, QueueInv
  <2>2. \A k \in 1 .. Len(accepted) : accepted[k].id < sent
    BY <2>1 DEF ValueInv
  <2> HIDE DEF request
  <2>3. CASE Queue!Enqueue(request)
    <3>1. accepted' = Append(accepted, request) /\ Treated' = Treated
      BY <2>1, <2>3 DEF Queue!Enqueue, Treated
    <3>2. QED
      BY <2>1, <2>2, <3>1, NextValueInvQueued
  <2>4. CASE Queue!Refuse(request)
    <3>1. accepted' = accepted /\ Treated' = Treated
      BY <2>1, <2>4 DEF Queue!Refuse, Treated
    <3>2. QED
      BY <2>1, <3>1, NextValueInvQuiet
  <2>5. QED
    BY <2>1, <2>3, <2>4
<1>5. CASE ~Treat /\ UNCHANGED <<accepted, sent, answer>> /\ (mpc' = "get" <=> mpc = "get")
  <2>1. Treated' = Treated /\ value' = value /\ sent \in Nat
    BY <1>5, OtherSteps DEF TypeOK
  <2>2. QED
    BY <1>5, <2>1, NextValueInvQuiet
<1>6. CASE QueueDequeue \/ Quiet \/ UNCHANGED vars
  <2>1. UNCHANGED <<accepted, sent, answer>> /\ (mpc' = "get" <=> mpc = "get")
    BY <1>6, QuietSteps DEF QueueDequeue, Queue!Dequeue, vars
  <2>2. QED
    BY <2>1, <1>1, <1>5
<1>7. QED
  BY <1>1, <1>2, <1>3, <1>4, <1>6, NextCases

\* Joins, queue order and the age of the value, in every state.
THEOREM ThreadsCorrect ==
  ASSUME ~GetStores
  PROVE  Spec => []ThreadsInv
<1>1. Init => JoinInv /\ ValueInv
  BY DEF Init, Queue!Init, JoinInv, ValueInv, Treated
<1>2. QED
  BY <1>1, NextJoinInv, NextValueInv, TypeCorrect, PTL DEF Spec, ThreadsInv

\* A GET logs, or hands to its command, nothing older than its answer:
\* between the two reads the value only gets newer (ResourceMethod.cpp:45-49).
THEOREM LogFollowsAnswer ==
  ASSUME ~GetStores
  PROVE  Spec => []LogNotOlderThanAnswer
<1>1. Init => LogNotOlderThanAnswer
  BY DEF Init, LogNotOlderThanAnswer
<1>2. TypeOK /\ ThreadsInv /\ LogNotOlderThanAnswer /\ [Next]_vars
        => LogNotOlderThanAnswer'
  <2> SUFFICES ASSUME TypeOK, ThreadsInv, LogNotOlderThanAnswer, [Next]_vars
               PROVE  LogNotOlderThanAnswer'
    OBVIOUS
  <2>1. CASE GetEnqueue
    <3>1. answer <= value
      BY <2>1 DEF GetEnqueue, ThreadsInv, ValueInv
    <3>2. \/ gets' = gets
          \/ gets' = gets \cup {[id |-> sent, answer |-> answer, data |-> value]}
      BY <2>1 DEF GetEnqueue
    <3>3. QED
      BY <3>1, <3>2 DEF LogNotOlderThanAnswer
  <2>2. CASE UNCHANGED gets
    BY <2>2 DEF LogNotOlderThanAnswer
  <2>3. QED
    BY <2>1, <2>2, NextCases, QuietSteps
       DEF HandlePut, GetBegin, QueueDequeue, Treat, vars
<1>3. QED
  BY <1>1, <1>2, TypeCorrect, ThreadsCorrect, PTL DEF Spec
=============================================================================
