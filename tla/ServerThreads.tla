--------------------------- MODULE ServerThreads ---------------------------
(***************************************************************************)
(* The threads of src/main.cpp around one resource without a data file:    *)
(*                                                                         *)
(*   - the main thread runs coap_io_process(), which calls the handlers    *)
(*     (ResourceMethod::methodHandler) that answer a request and enqueue   *)
(*     it for the rest of its treatment;                                   *)
(*   - the request thread dequeues and treats requests, which may take as  *)
(*     long as a command runs and may store a new value;                   *)
(*   - the value update thread polls the data files;                       *)
(*   - SIGINT, at any moment, sets _exit_now, which all three poll.        *)
(*                                                                         *)
(* The queue between the first two is the BoundedFifo that RequestQueue    *)
(* implements.  A request is a record; the payload of the request number n *)
(* is the value n, and the configured initial value is 0, so that a larger *)
(* value is a newer one.                                                   *)
(***************************************************************************)
EXTENDS Naturals, Sequences

CONSTANTS
  QueueSize,    \* the option --queue: slots of the ring
  MaxRequests,  \* bound on the requests that arrive
  GetStores     \* whether the GET method is configured with "store"

ASSUME QueueSizeAssumption == QueueSize \in Nat \ {0}
ASSUME MaxRequestsAssumption == MaxRequests \in Nat
ASSUME GetStoresAssumption == GetStores \in BOOLEAN

VARIABLES
  exitNow,    \* _exit_now
  mpc,        \* position of the main thread
  qpc,        \* position of the request thread
  upc,        \* position of the value update thread
  value,      \* the resource's value
  answer,     \* methodHandler's copy of the value, sent to the client
  sent,       \* number of requests that have arrived
  gets,       \* history: the GET requests accepted, with answer and log value
  accepted, taken, refused   \* the queue

vars == <<exitNow, mpc, qpc, upc, value, answer, sent, gets,
          accepted, taken, refused>>
queueVars == <<accepted, taken, refused>>

Values == 0 .. MaxRequests
Requests == [id : 1 .. MaxRequests, method : {"GET", "PUT"}, data : Values]

Queue == INSTANCE BoundedFifo WITH Capacity <- QueueSize - 1

Init ==
  /\ exitNow = FALSE
  /\ mpc = "test"
  /\ qpc = "test"
  /\ upc = "test"
  /\ value = 0
  /\ answer = 0
  /\ sent = 0
  /\ gets = {}
  /\ Queue!Init

----------------------------------------------------------------------------
(* Mistakes a change of the code could make, one for a definition below. *)

GetBeginUncounted ==
  /\ mpc = "exec"
  /\ sent < MaxRequests
  /\ answer' = value
  /\ mpc' = "get"
  /\ UNCHANGED <<exitNow, qpc, upc, value, sent, gets, queueVars>>

GetEnqueueThenRead ==
  LET request == [id |-> sent, method |-> "GET", data |-> answer]
  IN /\ mpc = "get"
     /\ \/ /\ Queue!Enqueue(request)
           /\ gets' = gets \cup {[id |-> sent, answer |-> value, data |-> answer]}
        \/ /\ Queue!Refuse(request)
           /\ UNCHANGED gets
     /\ mpc' = "exec"
     /\ UNCHANGED <<exitNow, qpc, upc, value, answer, sent>>

JoinQueueAtOnce ==
  /\ mpc = "joinQueue"
  /\ mpc' = "joinUpdate"
  /\ UNCHANGED <<exitNow, qpc, upc, value, answer, sent, gets, queueVars>>

QueueDequeueTwo ==
  /\ qpc = "poll"
  /\ Queue!Held > 1
  /\ Queue!Dequeue
  /\ qpc' = "treat"
  /\ UNCHANGED <<exitNow, mpc, upc, value, answer, sent, gets>>

QueueWakePolling ==
  /\ qpc = "sleep"
  /\ qpc' = "poll"
  /\ UNCHANGED <<exitNow, mpc, upc, value, answer, sent, gets, queueVars>>

StoresAll(request) == TRUE

----------------------------------------------------------------------------
(* Main thread: while(_exit_now == false) { coap.exec(200); } *)

MainTest ==
  /\ mpc = "test"
  /\ mpc' = IF exitNow THEN "joinQueue" ELSE "exec"
  /\ UNCHANGED <<exitNow, qpc, upc, value, answer, sent, gets, queueVars>>

ExecReturn ==
  /\ mpc = "exec"
  /\ mpc' = "test"
  /\ UNCHANGED <<exitNow, qpc, upc, value, answer, sent, gets, queueVars>>

\* PUT and POST: 2.00 once the request is queued, 5.00 when it cannot be.
HandlePut ==
  LET request == [id |-> sent + 1, method |-> "PUT", data |-> sent + 1]
  IN /\ mpc = "exec"
     /\ sent < MaxRequests
     /\ sent' = sent + 1
     /\ Queue!Enqueue(request) \/ Queue!Refuse(request)
     /\ UNCHANGED <<exitNow, mpc, qpc, upc, value, answer, gets>>

\* GET reads the value for its answer, and reads it again for the queue:
\* the request thread may store a value between the two.
GetBegin ==
  /\ mpc = "exec"
  /\ sent < MaxRequests
  /\ sent' = sent + 1
  /\ answer' = value
  /\ mpc' = "get"
  /\ UNCHANGED <<exitNow, qpc, upc, value, gets, queueVars>>

GetEnqueue ==
  LET request == [id |-> sent, method |-> "GET", data |-> value]
  IN /\ mpc = "get"
     /\ \/ /\ Queue!Enqueue(request)
           /\ gets' = gets \cup {[id |-> sent, answer |-> answer, data |-> value]}
        \/ /\ Queue!Refuse(request)
           /\ UNCHANGED gets
     /\ mpc' = "exec"
     /\ UNCHANGED <<exitNow, qpc, upc, value, answer, sent>>

JoinQueue ==
  /\ mpc = "joinQueue"
  /\ qpc = "done"
  /\ mpc' = "joinUpdate"
  /\ UNCHANGED <<exitNow, qpc, upc, value, answer, sent, gets, queueVars>>

JoinUpdate ==
  /\ mpc = "joinUpdate"
  /\ upc = "done"
  /\ mpc' = "exited"
  /\ UNCHANGED <<exitNow, qpc, upc, value, answer, sent, gets, queueVars>>

----------------------------------------------------------------------------
(* Request thread: _requestQueueThread *)

QueueTest ==
  /\ qpc = "test"
  /\ qpc' = IF exitNow THEN "done" ELSE "poll"
  /\ UNCHANGED <<exitNow, mpc, upc, value, answer, sent, gets, queueVars>>

QueueDequeue ==
  /\ qpc = "poll"
  /\ Queue!Dequeue
  /\ qpc' = "treat"
  /\ UNCHANGED <<exitNow, mpc, upc, value, answer, sent, gets>>

\* The request being treated, a local of the thread.
Item == taken[Len(taken)]

Stores(request) == request.method = "PUT" \/ GetStores

\* handleRequestQueueItem: formatters and command (whose effects are outside
\* the process), then setValue() with the data queued with the request.
Treat ==
  /\ qpc = "treat"
  /\ value' = IF Stores(Item) THEN Item.data ELSE value
  /\ qpc' = "poll"
  /\ UNCHANGED <<exitNow, mpc, upc, answer, sent, gets, queueVars>>

QueueSleep ==
  /\ qpc = "poll"
  /\ Queue!Held = 0
  /\ qpc' = "sleep"
  /\ UNCHANGED <<exitNow, mpc, upc, value, answer, sent, gets, queueVars>>

QueueWake ==
  /\ qpc = "sleep"
  /\ qpc' = "test"
  /\ UNCHANGED <<exitNow, mpc, upc, value, answer, sent, gets, queueVars>>

----------------------------------------------------------------------------
(* Value update thread: _valueUpdateThread; no data file, nothing to read *)

UpdateTest ==
  /\ upc = "test"
  /\ upc' = IF exitNow THEN "done" ELSE "update"
  /\ UNCHANGED <<exitNow, mpc, qpc, value, answer, sent, gets, queueVars>>

UpdateValues ==
  /\ upc = "update"
  /\ upc' = "sleep"
  /\ UNCHANGED <<exitNow, mpc, qpc, value, answer, sent, gets, queueVars>>

UpdateWake ==
  /\ upc = "sleep"
  /\ upc' = "test"
  /\ UNCHANGED <<exitNow, mpc, qpc, value, answer, sent, gets, queueVars>>

----------------------------------------------------------------------------
(* _signal_handler *)

Signal ==
  /\ ~exitNow
  /\ mpc # "exited"
  /\ exitNow' = TRUE
  /\ UNCHANGED <<mpc, qpc, upc, value, answer, sent, gets, queueVars>>

----------------------------------------------------------------------------
Main == MainTest \/ ExecReturn \/ HandlePut \/ GetBegin \/ GetEnqueue
        \/ JoinQueue \/ JoinUpdate
RequestThread == QueueTest \/ QueueDequeue \/ Treat \/ QueueSleep \/ QueueWake
UpdateThread == UpdateTest \/ UpdateValues \/ UpdateWake

Next == Main \/ RequestThread \/ UpdateThread \/ Signal

Spec == Init /\ [][Next]_vars

(***************************************************************************)
(* Each thread keeps running: the sleeps end, coap_io_process() returns    *)
(* after its timeout, and a command takes its input and leaves no process  *)
(* behind, so that cmdTimeout bounds it (CommandRunner).  Clients need not *)
(* send requests and nobody need send a signal.                            *)
(***************************************************************************)
Fairness ==
  /\ WF_vars(MainTest \/ ExecReturn \/ GetEnqueue \/ JoinQueue \/ JoinUpdate)
  /\ WF_vars(RequestThread)
  /\ WF_vars(UpdateThread)

FairSpec == Spec /\ Fairness

----------------------------------------------------------------------------
(* Properties *)

\* Types of the variables of main() and of the resource.
TypeOK ==
  /\ exitNow \in BOOLEAN
  /\ mpc \in {"test", "exec", "get", "joinQueue", "joinUpdate", "exited"}
  /\ qpc \in {"test", "poll", "treat", "sleep", "done"}
  /\ upc \in {"test", "update", "sleep", "done"}
  /\ value \in Values
  /\ answer \in Values
  /\ sent \in 0 .. MaxRequests
  /\ gets \subseteq [id : 1 .. MaxRequests, answer : Values, data : Values]
  /\ accepted \in Seq(Requests)
  /\ taken \in Seq(Requests)
  /\ refused \subseteq Requests

\* main() destroys the server, its resources and the queue when it returns
\* (main.cpp:80-83): by then no other thread uses them and none will.
DestroyedUnused == mpc = "exited" => qpc = "done" /\ upc = "done"

\* Number of requests whose treatment is complete.
Treated == IF qpc = "treat" THEN Len(taken) - 1 ELSE Len(taken)

\* The value is the payload of the last PUT that was accepted among those
\* treated so far, whatever else was accepted before or after it
\* (README.md:18: PUT and POST "set the current value of the resource").
LastPutWins ==
  \/ /\ value = 0
     /\ \A i \in 1 .. Treated : accepted[i].method # "PUT"
  \/ \E i \in 1 .. Treated :
       /\ accepted[i].method = "PUT"
       /\ value = accepted[i].data
       /\ \A j \in i + 1 .. Treated : accepted[j].method # "PUT"

\* What a GET logs or hands to its command (ResourceMethod.cpp:49) is never
\* older than what it answered (ResourceMethod.cpp:45).
LogNotOlderThanAnswer == \A g \in gets : g.answer <= g.data

\* After SIGINT the process ends, whatever is queued at that moment
\* (tests/expect/misc/sigint_exit.exp).
SignalEndsProcess == exitNow ~> mpc = "exited"

\* While no signal arrives, each accepted request is treated.
AcceptedIsTreated ==
  \A n \in 1 .. MaxRequests : Len(accepted) >= n ~> (Treated >= n \/ exitNow)

----------------------------------------------------------------------------
(* The inductive invariant behind DestroyedUnused, LastPutWins and         *)
(* LogNotOlderThanAnswer, the last two when GET does not store.            *)

\* main() goes on past a join only when that thread has ended.
JoinInv ==
  /\ mpc \in {"joinUpdate", "exited"} => qpc = "done"
  /\ mpc = "exited" => upc = "done"

\* What was taken is a prefix of what was accepted.
QueueInv ==
  /\ Len(taken) <= Len(accepted)
  /\ \A i \in 1 .. Len(taken) : taken[i] = accepted[i]
  /\ qpc = "treat" => Len(taken) > 0
  /\ mpc = "get" => sent > 0

\* Requests are queued in the order of their numbers, and a PUT that waits
\* is newer than the value: the value never moves backwards.
ValueInv ==
  /\ \A i, j \in 1 .. Len(accepted) : i < j => accepted[i].id < accepted[j].id
  /\ \A i \in 1 .. Len(accepted) :
       /\ accepted[i].id <= sent
       /\ mpc = "get" => accepted[i].id < sent
       /\ accepted[i].method = "PUT" => accepted[i].data = accepted[i].id
  /\ \A i \in Treated + 1 .. Len(accepted) :
       accepted[i].method = "PUT" => value < accepted[i].data
  /\ value <= sent
  /\ mpc = "get" => answer <= value

\* The three together: joins, queue order and age of the value
\* (main.cpp:76-93, ResourceMethod.cpp:45-49, 188).
ThreadsInv == JoinInv /\ QueueInv /\ ValueInv
=============================================================================
