--------------------------- MODULE Observe_proofs ---------------------------
(***************************************************************************)
(* Theorems about observing a resource, for any clients, any queue size    *)
(* and any number of PUTs and registrations: types, and that every step is *)
(* one of Observation when GET does not store.  Which observers are told   *)
(* the last value is a liveness property and is left to the runs.          *)
(*                                                                         *)
(* A step of Observation must tell a value between the last one told and   *)
(* the present one, and change the value to a newer one.  Hence the        *)
(* invariant: the PUTs that wait are newer than the value and in order,    *)
(* and an answer between the two reads of the GET handler is not older     *)
(* than what any client was told.                                          *)
(***************************************************************************)
EXTENDS Observe, TLAPS

USE QueueSizeAssumption, BoundsAssumption, FlagsAssumption
USE DEF requestVars, getVars, clientVars, inputVars

IsPut(i) == waiting[i].method = "PUT"

OrderInv ==
  /\ value <= puts
  /\ qpc = "store" => item.method = "PUT" /\ value < item.data /\ item.data <= puts
  /\ \A i \in 1 .. Len(waiting) :
       IsPut(i) => /\ value < waiting[i].data /\ waiting[i].data <= puts
                   /\ qpc = "store" => item.data < waiting[i].data
  /\ \A i, j \in 1 .. Len(waiting) :
       i < j /\ IsPut(i) /\ IsPut(j) => waiting[i].data < waiting[j].data

Between == mpc \in {"registerQueue", "notifyQueue"}

ToldInv ==
  /\ \A c \in Clients : seen[c] <= value
  /\ Between => answer <= value /\ \A c \in Clients : seen[c] <= answer

----------------------------------------------------------------------------
(* The steps, grouped by what they change *)

Rounds == Register \/ RoundBegin \/ RoundNext \/ RoundEnd \/ HandlerReads

LEMMA NextCases ==
  Next <=> Rounds \/ HandlePut \/ HandlerAnswers \/ HandlerFails \/ Take \/ Store \/ Notify
BY DEF Next, Round, Handler, RequestThread, SetValue, Rounds

LEMMA RoundSteps ==
  ASSUME Rounds
  PROVE  UNCHANGED <<waiting, value, item, qpc, observers, seen, puts>>
BY DEF Rounds, Register, RoundBegin, RoundNext, RoundEnd, HandlerReads

\* What appending to the queue and taking from it do.
LEMMA Appended ==
  ASSUME NEW s \in Seq(Items), NEW e \in Items
  PROVE  /\ Append(s, e) \in Seq(Items) /\ Len(Append(s, e)) = Len(s) + 1
         /\ \A i \in 1 .. Len(s) : Append(s, e)[i] = s[i]
         /\ Append(s, e)[Len(s) + 1] = e
         /\ Len(s) \in Nat
OBVIOUS

LEMMA Taken ==
  ASSUME NEW s \in Seq(Items), s # << >>
  PROVE  /\ Tail(s) \in Seq(Items) /\ Len(Tail(s)) = Len(s) - 1
         /\ \A i \in 1 .. Len(s) - 1 : Tail(s)[i] = s[i + 1]
         /\ Head(s) = s[1] /\ Head(s) \in Items
         /\ Len(s) \in Nat \ {0}
OBVIOUS

----------------------------------------------------------------------------
(* Types *)

LEMMA InitTypeOK == Init => TypeOK
<1> SUFFICES ASSUME Init PROVE TypeOK
  OBVIOUS
<1>1. 0 \in Values
  BY DEF Values
<1>2. waiting \in Seq(Items) /\ Len(waiting) <= QueueSize - 1
  BY DEF Init
<1>3. item \in Items /\ value \in Values /\ answer \in Values
  BY <1>1 DEF Init, Items
<1>4. seen \in [Clients -> Values]
  BY <1>1 DEF Init
<1>5. puts \in 0 .. MaxPuts /\ gets \in 0 .. MaxGets
  BY DEF Init
<1> QED
  BY <1>2, <1>3, <1>4, <1>5 DEF Init, TypeOK

LEMMA NextTypeOK == TypeOK /\ [Next]_vars => TypeOK'
<1> SUFFICES ASSUME TypeOK, [Next]_vars PROVE TypeOK'
  OBVIOUS
<1>0. \A d \in Values : [method |-> "GET", data |-> d] \in Items
                        /\ [method |-> "PUT", data |-> d] \in Items
  BY DEF Items
<1>1. CASE Rounds
  <2>1. /\ mpc' \in {"loop", "round", "register", "registerQueue", "notify", "notifyQueue"}
        /\ client' \in Clients /\ answer' \in Values
    BY <1>1 DEF TypeOK, Rounds, Register, RoundBegin, RoundNext, RoundEnd, HandlerReads
  <2>2. CASE Register
    <3>1. gets' \in 0 .. MaxGets
      BY <2>2 DEF TypeOK, Register
    <3> QED
      BY <1>1, <2>1, <2>2, <3>1, RoundSteps DEF TypeOK, Register
  <2>3. CASE RoundBegin
    BY <1>1, <2>1, <2>3, RoundSteps DEF TypeOK, RoundBegin
  <2>4. CASE RoundNext
    <3>1. round' \subseteq Clients
      BY <2>4 DEF TypeOK, RoundNext
    <3> QED
      BY <1>1, <2>1, <2>4, <3>1, RoundSteps DEF TypeOK, RoundNext
  <2>5. CASE RoundEnd
    <3>1. dirty' \in BOOLEAN
      BY <2>5 DEF RoundEnd
    <3> QED
      BY <1>1, <2>1, <2>5, <3>1, RoundSteps DEF TypeOK, RoundEnd
  <2>6. CASE HandlerReads
    BY <1>1, <2>1, <2>6, RoundSteps DEF TypeOK, HandlerReads
  <2> QED
    BY <1>1, <2>2, <2>3, <2>4, <2>5, <2>6 DEF Rounds
<1>2. CASE HandlePut
  <2> DEFINE e == [method |-> "PUT", data |-> puts + 1]
  <2>1. puts + 1 \in Values /\ puts' = puts + 1
    BY <1>2 DEF HandlePut, TypeOK, Values
  <2>2. e \in Items
    BY <1>0, <2>1
  <2>3. waiting' = IF HasRoom THEN Append(waiting, e) ELSE waiting
    BY <1>2 DEF HandlePut
  <2> HIDE DEF e
  <2>4. waiting' \in Seq(Items) /\ Len(waiting') <= QueueSize - 1
    BY <2>2, <2>3, Appended DEF TypeOK, HasRoom
  <2> QED
    BY <1>2, <2>1, <2>4 DEF HandlePut, TypeOK, Values
<1>3. CASE HandlerAnswers
  <2> DEFINE e == [method |-> "GET", data |-> value]
  <2>1. e \in Items /\ HasRoom /\ waiting' = Append(waiting, e)
    BY <1>0, <1>3 DEF HandlerAnswers, TypeOK
  <2> HIDE DEF e
  <2>2. waiting' \in Seq(Items) /\ Len(waiting') <= QueueSize - 1
    BY <2>1, Appended DEF TypeOK, HasRoom
  <2>3. mpc' \in {"loop", "round"}
    BY <1>3 DEF HandlerAnswers, HandlerReturns
  <2> QED
    BY <1>3, <2>2, <2>3 DEF HandlerAnswers, HandlerReturns, TypeOK
<1>4. CASE HandlerFails
  BY <1>4 DEF HandlerFails, HandlerReturns, TypeOK
<1>5. CASE Take
  <2>1. /\ waiting' \in Seq(Items) /\ Len(waiting') <= QueueSize - 1 /\ item' \in Items
        /\ qpc' \in {"poll", "store"}
    BY <1>5, Taken DEF Take, TypeOK
  <2> QED
    BY <1>5, <2>1 DEF Take, TypeOK
<1>6. CASE Store
  BY <1>6 DEF Store, TypeOK, Items
<1>7. CASE Notify
  <2>1. dirty' \in BOOLEAN /\ missed' \subseteq Clients
    BY <1>7 DEF Notify, Mark
  <2> QED
    BY <1>7, <2>1 DEF Notify, TypeOK
<1>8. CASE UNCHANGED vars
  BY <1>8 DEF vars, TypeOK
<1> QED
  BY <1>1, <1>2, <1>3, <1>4, <1>5, <1>6, <1>7, <1>8, NextCases

\* The types of the two threads' variables and of libcoap's, whether GET
\* stores or not.
THEOREM TypeCorrect == Spec => []TypeOK
<1> QED
  BY InitTypeOK, NextTypeOK, PTL DEF Spec

----------------------------------------------------------------------------
(* Order *)

LEMMA InitOrder == Init => OrderInv /\ ToldInv
BY DEF Init, OrderInv, ToldInv, Between

LEMMA NextOrder == ~GetStores /\ TypeOK /\ OrderInv /\ [Next]_vars => OrderInv'
<1> SUFFICES ASSUME ~GetStores, TypeOK, OrderInv, [Next]_vars PROVE OrderInv'
  OBVIOUS
<1>0. /\ value \in Nat /\ puts \in Nat /\ item.data \in Nat /\ waiting \in Seq(Items)
      /\ Len(waiting) \in Nat /\ \A i \in 1 .. Len(waiting) : waiting[i].data \in Nat
  <2>1. waiting \in Seq(Items) /\ \A e \in Items : e.data \in Nat
    BY DEF TypeOK, Items, Values
  <2>2. Len(waiting) \in Nat /\ \A i \in 1 .. Len(waiting) : waiting[i] \in Items
    BY <2>1
  <2> QED
    BY <2>1, <2>2 DEF TypeOK, Values
<1>1. CASE Rounds \/ HandlerFails \/ Notify \/ UNCHANGED vars
  <2>1. UNCHANGED <<waiting, value, item, puts>> /\ (qpc' = "store" => qpc = "store")
    BY <1>1, RoundSteps DEF HandlerFails, HandlerReturns, Notify, vars
  <2> QED
    BY <2>1 DEF OrderInv, IsPut
<1>2. CASE HandlePut
  <2> DEFINE e == [method |-> "PUT", data |-> puts + 1]
  <2>1. /\ UNCHANGED <<value, item, qpc>> /\ puts' = puts + 1
        /\ waiting' = IF HasRoom THEN Append(waiting, e) ELSE waiting
    BY <1>2 DEF HandlePut
  <2>2. CASE waiting' = waiting
    BY <1>0, <2>1, <2>2 DEF OrderInv, IsPut
  <2>3. CASE waiting' = Append(waiting, e)
    <3>1. e \in Items /\ e.data = puts + 1 /\ e.method = "PUT"
      BY <1>2 DEF HandlePut, TypeOK, Items, Values
    <3> HIDE DEF e
    <3>2. /\ Len(waiting') = Len(waiting) + 1 /\ waiting'[Len(waiting) + 1] = e
          /\ \A i \in 1 .. Len(waiting) : waiting'[i] = waiting[i]
      BY <1>0, <2>3, <3>1, Appended
    <3>3. ASSUME NEW i \in 1 .. Len(waiting'), IsPut(i)'
          PROVE  /\ value' < waiting'[i].data /\ waiting'[i].data <= puts'
                 /\ qpc' = "store" => item'.data < waiting'[i].data
      <4>1. CASE i = Len(waiting) + 1
        BY <1>0, <2>1, <3>1, <3>2, <4>1 DEF OrderInv
      <4>2. CASE i # Len(waiting) + 1
        <5>1. i \in 1 .. Len(waiting)
          BY <1>0, <3>2, <4>2
        <5> QED
          BY <1>0, <2>1, <3>2, <3>3, <5>1 DEF OrderInv, IsPut
      <4> QED
        BY <4>1, <4>2
    <3>4. ASSUME NEW i \in 1 .. Len(waiting'), NEW j \in 1 .. Len(waiting'), i < j,
                 IsPut(i)', IsPut(j)'
          PROVE  waiting'[i].data < waiting'[j].data
      <4>1. i \in 1 .. Len(waiting)
        BY <1>0, <3>2, <3>4
      <4>2. CASE j = Len(waiting) + 1
        BY <1>0, <3>1, <3>2, <3>4, <4>1, <4>2 DEF OrderInv, IsPut
      <4>3. CASE j # Len(waiting) + 1
        <5>1. j \in 1 .. Len(waiting)
          BY <1>0, <3>2, <4>3
        <5> QED
          BY <3>2, <3>4, <4>1, <5>1 DEF OrderInv, IsPut
      <4> QED
        BY <4>2, <4>3
    <3>5. /\ value' <= puts'
          /\ qpc' = "store" => item'.method = "PUT" /\ value' < item'.data /\ item'.data <= puts'
      BY <1>0, <2>1 DEF OrderInv
    <3> QED
      BY <3>3, <3>4, <3>5 DEF OrderInv
  <2> QED
    BY <2>1, <2>2, <2>3
<1>3. CASE HandlerAnswers
  <2> DEFINE e == [method |-> "GET", data |-> value]
  <2>1. UNCHANGED <<value, item, qpc, puts>> /\ waiting' = Append(waiting, e)
    BY <1>3 DEF HandlerAnswers, HandlerReturns
  <2>2. e \in Items /\ e.method = "GET"
    BY DEF TypeOK, Items
  <2> HIDE DEF e
  <2>3. /\ Len(waiting') = Len(waiting) + 1 /\ waiting'[Len(waiting) + 1] = e
        /\ \A i \in 1 .. Len(waiting) : waiting'[i] = waiting[i]
    BY <1>0, <2>1, <2>2, Appended
  <2>4. \A i \in 1 .. Len(waiting') :
          IsPut(i)' => i \in 1 .. Len(waiting) /\ IsPut(i) /\ waiting'[i] = waiting[i]
    BY <1>0, <2>2, <2>3 DEF IsPut
  <2> QED
    BY <2>1, <2>4 DEF OrderInv
<1>4. CASE Take
  <2>1. /\ UNCHANGED <<value, puts>> /\ qpc = "poll" /\ waiting # << >>
        /\ item' = Head(waiting) /\ waiting' = Tail(waiting)
        /\ qpc' = "store" => item'.method = "PUT"
    BY <1>4 DEF Take, Stores
  <2>2. /\ Len(waiting') = Len(waiting) - 1 /\ item' = waiting[1] /\ Len(waiting) > 0
        /\ \A i \in 1 .. Len(waiting') : waiting'[i] = waiting[i + 1]
    BY <1>0, <2>1, Taken
  <2>3. \A i \in 1 .. Len(waiting') : i + 1 \in 1 .. Len(waiting) /\ 1 < i + 1
    BY <1>0, <2>2
  <2>4. \A i \in 1 .. Len(waiting') : IsPut(i)' <=> IsPut(i + 1)
    BY <2>2 DEF IsPut
  <2>5. 1 \in 1 .. Len(waiting) /\ (qpc' = "store" => IsPut(1))
    BY <1>0, <2>1, <2>2 DEF IsPut
  <2>6. ASSUME NEW i \in 1 .. Len(waiting'), IsPut(i)'
        PROVE  /\ value' < waiting'[i].data /\ waiting'[i].data <= puts'
               /\ qpc' = "store" => item'.data < waiting'[i].data
    BY <2>1, <2>2, <2>3, <2>4, <2>5, <2>6 DEF OrderInv
  <2>7. ASSUME NEW i \in 1 .. Len(waiting'), NEW j \in 1 .. Len(waiting'), i < j,
               IsPut(i)', IsPut(j)'
        PROVE  waiting'[i].data < waiting'[j].data
    <3> DEFINE k == i + 1
    <3> DEFINE l == j + 1
    <3>1. k \in 1 .. Len(waiting) /\ l \in 1 .. Len(waiting) /\ k < l
      BY <1>0, <2>2, <2>7
    <3>2. waiting'[i] = waiting[k] /\ waiting'[j] = waiting[l]
      BY <2>2, <2>7
    <3>3. IsPut(k) /\ IsPut(l)
      BY <2>4, <2>7
    <3> HIDE DEF k, l
    <3>4. waiting[k].data < waiting[l].data
      BY <3>1, <3>3 DEF OrderInv
    <3> QED
      BY <3>2, <3>4
  <2>8. qpc' = "store" => item'.method = "PUT" /\ value' < item'.data /\ item'.data <= puts'
    BY <2>1, <2>2, <2>5 DEF OrderInv
  <2> QED
    BY <2>1, <2>6, <2>7, <2>8 DEF OrderInv
<1>5. CASE Store
  <2>1. /\ UNCHANGED <<waiting, item, puts>> /\ qpc = "store" /\ qpc' # "store"
        /\ value' = item.data
    BY <1>5 DEF Store
  <2> QED
    BY <1>0, <2>1 DEF OrderInv, IsPut
<1> QED
  BY <1>1, <1>2, <1>3, <1>4, <1>5, NextCases

LEMMA NextTold == TypeOK /\ OrderInv /\ ToldInv /\ [Next]_vars => ToldInv'
<1> SUFFICES ASSUME TypeOK, OrderInv, ToldInv, [Next]_vars PROVE ToldInv'
  OBVIOUS
<1>0. /\ value \in Nat /\ answer \in Nat /\ item.data \in Nat
      /\ \A c \in Clients : seen[c] \in Nat
  BY DEF TypeOK, Items, Values
<1>1. CASE HandlerReads
  BY <1>0, <1>1 DEF HandlerReads, ToldInv, Between
<1>2. CASE Register \/ RoundBegin \/ RoundNext \/ RoundEnd
  <2>1. UNCHANGED <<value, seen>> /\ ~Between'
    BY <1>2 DEF Register, RoundBegin, RoundNext, RoundEnd, Between
  <2> QED
    BY <2>1 DEF ToldInv
<1>3. CASE HandlerAnswers
  <2>1. Between /\ ~Between' /\ value' = value /\ seen' = [seen EXCEPT ![client] = answer]
    BY <1>3 DEF HandlerAnswers, HandlerReturns, Between
  <2> QED
    BY <2>1 DEF ToldInv, TypeOK
<1>4. CASE HandlerFails
  <2>1. ~Between' /\ UNCHANGED <<value, seen>>
    BY <1>4 DEF HandlerFails, HandlerReturns, Between
  <2> QED
    BY <2>1 DEF ToldInv
<1>5. CASE HandlePut \/ Take \/ Notify \/ UNCHANGED vars
  <2>1. UNCHANGED <<value, seen, mpc, answer>>
    BY <1>5 DEF HandlePut, Take, Notify, vars
  <2> QED
    BY <2>1 DEF ToldInv, Between
<1>6. CASE Store
  <2>1. value < value' /\ value' \in Nat /\ UNCHANGED <<seen, mpc, answer>>
    BY <1>0, <1>6 DEF Store, OrderInv
  <2> QED
    BY <1>0, <2>1 DEF ToldInv, Between
<1> QED
  BY <1>1, <1>2, <1>3, <1>4, <1>5, <1>6, NextCases DEF Rounds

LEMMA Ordered == ~GetStores => (Spec => [](TypeOK /\ OrderInv /\ ToldInv))
<1> SUFFICES ASSUME ~GetStores PROVE Spec => [](TypeOK /\ OrderInv /\ ToldInv)
  OBVIOUS
<1> DEFINE I == TypeOK /\ OrderInv /\ ToldInv
<1>1. Init => I
  BY InitTypeOK, InitOrder
<1>2. I /\ [Next]_vars => I'
  BY NextTypeOK, NextOrder, NextTold
<1> QED
  BY <1>1, <1>2, PTL DEF Spec

----------------------------------------------------------------------------
(* Observation *)

\* Every step changes the value to a newer one, tells a client a value that
\* is not older than the last it was told, or gives an observer up.
LEMMA StepObserved ==
  TypeOK /\ OrderInv /\ ToldInv /\ [Next]_vars => [Promise!Next]_(Promise!observationVars)
<1> SUFFICES ASSUME TypeOK, OrderInv, ToldInv, [Next]_vars
             PROVE  Promise!Next \/ UNCHANGED <<value, observers, seen>>
  BY DEF Promise!observationVars
<1>0. /\ value \in Values /\ answer \in Values /\ client \in Clients
      /\ item.data \in Values /\ \A c \in Clients : seen[c] \in Values
  BY DEF TypeOK, Items
<1>1. CASE Rounds \/ HandlePut \/ Take \/ Notify \/ UNCHANGED vars
  BY <1>1, RoundSteps DEF HandlePut, Take, Notify, vars
<1>2. CASE HandlerAnswers
  <2>1. answer \in seen[client] .. value
    BY <1>0, <1>2 DEF HandlerAnswers, ToldInv, Between, Values
  <2>2. Promise!Tell(client, answer)
    BY <1>2, <2>1 DEF HandlerAnswers, HandlerReturns, Promise!Tell
  <2> QED
    BY <1>0, <2>1, <2>2 DEF Promise!Next
<1>3. CASE HandlerFails
  <2>1. Promise!Drop(client)
    BY <1>3 DEF HandlerFails, HandlerReturns, Promise!Drop
  <2> QED
    BY <1>0, <2>1 DEF Promise!Next
<1>4. CASE Store
  <2>1. value' \in value + 1 .. MaxPuts
    BY <1>0, <1>4 DEF Store, OrderInv, Values
  <2> QED
    BY <1>4, <2>1 DEF Store, Promise!Next, Promise!Change
<1> QED
  BY <1>1, <1>2, <1>3, <1>4, NextCases

\* While GET does not store, a client is only told values that the resource
\* had and never an older one after a newer one, whatever meets on the two
\* threads and in the queue (Resource.cpp:147-154, ResourceMethod.cpp:44-64).
THEOREM TellsInOrder == ~GetStores => (Spec => ToldInOrder)
<1> SUFFICES ASSUME ~GetStores
             PROVE  Spec => ToldInOrder
  OBVIOUS
<1>1. Init => Promise!Init
  BY DEF Init, Promise!Init
<1>2. Spec => [](TypeOK /\ OrderInv /\ ToldInv)
  BY Ordered
<1>3. Spec => Init /\ [][Next]_vars
  BY DEF Spec
<1> QED
  BY <1>1, <1>2, <1>3, StepObserved, PTL DEF ToldInOrder
=============================================================================
