------------------------------ MODULE Observe ------------------------------
(***************************************************************************)
(* An observable resource without a data file, its observers, and the two  *)
(* threads and the queue between them:                                     *)
(*                                                                         *)
(*   - PUT is queued on the main thread and stored by the request thread   *)
(*     (ResourceMethod.cpp:65-74, 188), whose setValue() tells libcoap     *)
(*     that the observers have to be notified (Resource.cpp:147-154);      *)
(*   - libcoap notifies on the main thread: for each observer it calls the *)
(*     GET handler (ResourceMethod.cpp:44-64), which queues a request too. *)
(*                                                                         *)
(* So every stored value comes back to the queue once per observer, and a  *)
(* queue that is full costs an observer its place.  ServerThreads has the  *)
(* same handlers with clients only; the queue is the FIFO that it uses,    *)
(* here without its history, so that a loop of notifications is a loop.    *)
(*                                                                         *)
(* External: libcoap (v4.3.0, Dockerfile:9) keeps the observers, notifies  *)
(* in rounds, clears the resource's mark after the round, and removes an   *)
(* observer whose answer is an error.                                      *)
(***************************************************************************)
EXTENDS Naturals, Sequences

CONSTANTS
  Clients,      \* the clients that may observe
  QueueSize,    \* the option --queue: slots of the ring
  MaxPuts,      \* bound on the PUTs that arrive
  MaxGets,      \* bound on the registrations that arrive
  GetStores     \* whether the GET method is configured with "store"

ASSUME QueueSizeAssumption == QueueSize \in Nat \ {0}
ASSUME BoundsAssumption == MaxPuts \in Nat /\ MaxGets \in Nat
ASSUME FlagsAssumption == GetStores \in BOOLEAN

VARIABLES
  value,      \* the resource's value: the number of the PUT it comes from
  waiting,    \* the items in the queue
  item,       \* the item that the request thread treats
  qpc,        \* position of the request thread
  mpc,        \* position of the main thread
  client,     \* the client whose GET is handled
  answer,     \* the GET handler's copy of the value
  dirty,      \* libcoap: the observers have to be notified
  round,      \* libcoap: the observers that this round has still to notify
  observers,  \* libcoap: the observers
  seen,       \* the value that each client was told last
  missed,     \* history: the clients past which the last mark was set
  puts,       \* number of PUTs that have arrived
  gets        \* number of registrations that have arrived

requestVars == <<value, item, qpc, dirty, missed>>
getVars == <<client, answer>>
clientVars == <<observers, seen>>
inputVars == <<puts, gets>>
vars == <<waiting, mpc, round, requestVars, getVars, clientVars, inputVars>>

Values == 0 .. MaxPuts
Items == [method : {"GET", "PUT"}, data : Values]

Init ==
  /\ value = 0
  /\ waiting = << >>
  /\ item = [method |-> "GET", data |-> 0] /\ qpc = "poll"
  /\ mpc = "loop" /\ client \in Clients /\ answer = 0
  /\ dirty = FALSE /\ missed = {} /\ round = {} /\ observers = {}
  /\ seen = [c \in Clients |-> 0]
  /\ puts = 0 /\ gets = 0

\* A mistake a change could make: every slot of the ring is used.
HasRoomToTheEnd == Len(waiting) < QueueSize

\* enqueue(): the ring holds one item less than it has slots.
HasRoom == Len(waiting) < QueueSize - 1

\* The clients for which this round has still to read the value.
InRound == mpc \in {"round", "notify", "notifyQueue"}
Ahead == IF mpc = "notify" THEN round \cup {client} ELSE round

\* The mark is set: by coap_resource_notify_observers(), on the thread of its
\* caller and under no lock.  A round that is under way clears it when it
\* ends, though the clients it has passed know nothing of it.
Mark ==
  /\ dirty' = TRUE
  /\ missed' = IF InRound THEN Clients \ Ahead ELSE {}

----------------------------------------------------------------------------
(* Mistakes a change of the code could make, one for a definition below. *)

StoresEverything(i) == TRUE

\* The observers are notified before the value is assigned.
StoreNotified ==
  /\ qpc = "store"
  /\ Mark
  /\ qpc' = "notify"
  /\ UNCHANGED <<value, item, waiting, mpc, round, getVars, clientVars, inputVars>>

NotifyStored ==
  /\ qpc = "notify"
  /\ value' = item.data
  /\ qpc' = "poll"
  /\ UNCHANGED <<item, dirty, missed, waiting, mpc, round, getVars, clientVars, inputVars>>

SetValueNotifyFirst == StoreNotified \/ NotifyStored

----------------------------------------------------------------------------
(* Main thread: requests of clients *)

\* 2.00 when there is room, else 5.00 and the value is not stored.
HandlePut ==
  /\ mpc = "loop"
  /\ puts < MaxPuts
  /\ puts' = puts + 1
  /\ waiting' = IF HasRoom THEN Append(waiting, [method |-> "PUT", data |-> puts + 1])
                ELSE waiting
  /\ UNCHANGED <<gets, mpc, round, requestVars, getVars, clientVars>>

Register ==
  /\ mpc = "loop"
  /\ gets < MaxGets
  /\ gets' = gets + 1
  /\ client' \in Clients
  /\ mpc' = "register"
  /\ UNCHANGED <<waiting, round, puts, answer, requestVars, clientVars>>

----------------------------------------------------------------------------
(* Main thread: libcoap's rounds of notifications *)

RoundBegin ==
  /\ mpc = "loop"
  /\ dirty
  /\ round' = observers
  /\ mpc' = "round"
  /\ UNCHANGED <<waiting, requestVars, getVars, clientVars, inputVars>>

RoundNext ==
  /\ mpc = "round"
  /\ client' \in round
  /\ round' = round \ {client'}
  /\ mpc' = "notify"
  /\ UNCHANGED <<waiting, answer, requestVars, clientVars, inputVars>>

RoundEnd ==
  /\ mpc = "round"
  /\ round = {}
  /\ dirty' = FALSE
  /\ mpc' = "loop"
  /\ UNCHANGED <<value, item, qpc, missed, waiting, round, getVars, clientVars, inputVars>>

----------------------------------------------------------------------------
(* Main thread: methodHandler() for GET, for a request or a notification *)

\* The value for the answer ...
HandlerReads ==
  /\ mpc \in {"register", "notify"}
  /\ answer' = value
  /\ mpc' = IF mpc = "register" THEN "registerQueue" ELSE "notifyQueue"
  /\ UNCHANGED <<waiting, client, round, requestVars, clientVars, inputVars>>

HandlerReturns ==
  /\ mpc' = IF mpc = "registerQueue" THEN "loop" ELSE "round"
  /\ UNCHANGED <<round, requestVars, getVars, inputVars>>

\* ... and again for the queue; 2.05 with the first one ...
HandlerAnswers ==
  /\ mpc \in {"registerQueue", "notifyQueue"}
  /\ HasRoom
  /\ waiting' = Append(waiting, [method |-> "GET", data |-> value])
  /\ observers' = observers \cup {client}
  /\ seen' = [seen EXCEPT ![client] = answer]
  /\ HandlerReturns

\* ... or 5.00, with which libcoap gives up the observer.
HandlerFails ==
  /\ mpc \in {"registerQueue", "notifyQueue"}
  /\ ~HasRoom
  /\ observers' = observers \ {client}
  /\ UNCHANGED <<waiting, seen>>
  /\ HandlerReturns

----------------------------------------------------------------------------
(* Request thread: handleRequestQueueItem() and setValue() *)

Stores(i) == i.method = "PUT" \/ GetStores

Take ==
  /\ qpc = "poll"
  /\ waiting # << >>
  /\ item' = Head(waiting)
  /\ waiting' = Tail(waiting)
  /\ qpc' = IF Stores(item') THEN "store" ELSE "poll"
  /\ UNCHANGED <<value, dirty, missed, mpc, round, getVars, clientVars, inputVars>>

Store ==
  /\ qpc = "store"
  /\ value' = item.data
  /\ qpc' = "notify"
  /\ UNCHANGED <<item, dirty, missed, waiting, mpc, round, getVars, clientVars, inputVars>>

Notify ==
  /\ qpc = "notify"
  /\ Mark
  /\ qpc' = "poll"
  /\ UNCHANGED <<value, item, waiting, mpc, round, getVars, clientVars, inputVars>>

----------------------------------------------------------------------------
Round == RoundBegin \/ RoundNext \/ RoundEnd
Handler == HandlerReads \/ HandlerAnswers \/ HandlerFails
SetValue == Store \/ Notify
RequestThread == Take \/ SetValue

Next == HandlePut \/ Register \/ Round \/ Handler \/ RequestThread

Spec == Init /\ [][Next]_vars

\* Both threads run (main.cpp:76-93); no client need send a request.
Fairness == WF_vars(Round \/ Handler) /\ WF_vars(RequestThread)

FairSpec == Spec /\ Fairness

----------------------------------------------------------------------------
(* Properties *)

\* Types of the two threads' variables and of libcoap's.
TypeOK ==
  /\ value \in Values
  /\ waiting \in Seq(Items) /\ Len(waiting) <= QueueSize - 1
  /\ item \in Items /\ qpc \in {"poll", "store", "notify"}
  /\ mpc \in {"loop", "round", "register", "registerQueue", "notify", "notifyQueue"}
  /\ client \in Clients /\ answer \in Values
  /\ dirty \in BOOLEAN /\ missed \subseteq Clients
  /\ round \subseteq Clients /\ observers \subseteq Clients
  /\ seen \in [Clients -> Values]
  /\ puts \in 0 .. MaxPuts /\ gets \in 0 .. MaxGets

Promise == INSTANCE Observation WITH MaxValue <- MaxPuts

\* Whatever meets on the two threads, a client is only told values that the
\* resource had, never an older one after a newer one, although the answer is
\* read before the request is queued (ResourceMethod.cpp:45-61) and the value
\* stored by another thread (Resource.cpp:148-150).
ToldInOrder == Promise!Init /\ [][Promise!Next]_(Promise!observationVars)

\* An observer that does not know the value is told it or given up with an
\* answer 5.00, except where setValue() set the mark (Resource.cpp:153) when
\* the round had already read the value for it: the end of the round clears
\* the mark, and no later one tells the value.
ToldUnlessMissed ==
  \A c \in Clients :
    (c \in observers /\ seen[c] # value)
      ~> (seen[c] = value \/ c \notin observers \/ c \in missed)

\* What README.md:19 promises, "Resource observation": an observer is told
\* the value that stays, or given up.  The exception above breaks it.
ObservationKept == Promise!Spec

\* Notifications come to an end: the requests that they queue make no new
\* ones (ResourceMethod.cpp:49, 160-163), so that once clients are quiet the
\* queue runs empty and stays so.
Settles == <>[](waiting = << >> /\ ~dirty /\ qpc = "poll")
=============================================================================
