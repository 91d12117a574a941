--------------------------- MODULE BlockTransfer ---------------------------
(***************************************************************************)
(* Block-wise PUT and POST: Resource::handleCoAPRequest() and              *)
(* Resource::sessionGetData() of src/Resource.cpp, for one session and one *)
(* resource, hence one libcoap cache entry, with a client and a network.   *)
(*                                                                         *)
(* The client (external, as RFC 7959 has it) sends one body after another; *)
(* it sends a block when the one before was answered 2.31, again when no   *)
(* answer comes, and abandons a body on an error or after too many tries.  *)
(* The network loses and duplicates messages, and reorders them when       *)
(* Reorder is TRUE.  A block is known by the body it belongs to; the value *)
(* 0 is a block of zeros.                                                  *)
(***************************************************************************)
EXTENDS Naturals, Sequences, SequencesExt

CONSTANTS
  MaxBodies,  \* bound on the bodies the client sends
  MaxBlocks,  \* bound on the blocks of a body
  MaxTries,   \* bound on the transmissions of a block
  Reorder     \* whether messages may overtake each other

ASSUME BoundsAssumption ==
  /\ MaxBodies \in Nat /\ MaxBlocks \in Nat \ {0} /\ MaxTries \in Nat \ {0}
ASSUME ReorderAssumption == Reorder \in BOOLEAN

VARIABLES
  totals,   \* the client's bodies so far: the number of blocks of each
  block,    \* the block of the last body it is sending, from 0
  tries,    \* transmissions of that block so far
  sending,  \* whether the last body is still being sent
  outcome,  \* what the client knows of each body
  net,      \* requests on their way
  replies,  \* the codes on their way that answer the client's current block
  entry,    \* whether libcoap has a cache entry for the session and resource
  hasData,  \* whether the entry's application data is not NULL
  soFar,    \* *data_so_far, the blocks of the body
  handed    \* history: the bodies that were queued for treatment

clientVars == <<totals, block, tries, sending, outcome>>
serverVars == <<entry, hasData, soFar, handed>>
vars == <<clientVars, net, replies, serverVars>>

Bodies == 1 .. MaxBodies
Messages == [body : Bodies, block : 0 .. MaxBlocks - 1, total : 1 .. MaxBlocks]
Codes == {"2.00", "2.31", "5.00"}

Current == Len(totals)
Message == [body |-> Current, block |-> block, total |-> totals[Current]]

Init ==
  /\ totals = << >> /\ block = 0 /\ tries = 0 /\ sending = FALSE
  /\ outcome = << >>
  /\ net = << >>
  /\ replies = {}
  /\ entry = FALSE /\ hasData = FALSE /\ soFar = << >>
  /\ handed = << >>

----------------------------------------------------------------------------
(* Mistakes a change of the code could make, one for a definition below. *)

PlacedAppend(m) == Append(soFar, m.body)

BufferOfAlwaysClear(m) == << >>

KeepsDataTrue(m) == TRUE

AcknowledgeBlindly(queued) == "2.00"

----------------------------------------------------------------------------
(* The client and the network *)

ClientBegin ==
  /\ ~sending
  /\ Current < MaxBodies
  /\ \E n \in 1 .. MaxBlocks : totals' = Append(totals, n)
  /\ outcome' = Append(outcome, "unknown")
  /\ sending' = TRUE
  /\ block' = 0
  /\ tries' = 0
  /\ replies' = {}
  /\ UNCHANGED <<net, serverVars>>

ClientSend ==
  /\ sending
  /\ tries < MaxTries
  /\ tries' = tries + 1
  /\ net' = Append(net, Message)
  /\ UNCHANGED <<totals, block, sending, outcome, replies, serverVars>>

ClientContinue ==
  /\ sending
  /\ "2.31" \in replies
  /\ block' = block + 1
  /\ tries' = 0
  /\ replies' = {}
  /\ UNCHANGED <<totals, sending, outcome, net, serverVars>>

ClientEnd ==
  /\ sending
  /\ \E code \in replies \ {"2.31"} :
       outcome' = [outcome EXCEPT ![Current] = code]
  /\ sending' = FALSE
  /\ UNCHANGED <<totals, block, tries, net, replies, serverVars>>

ClientGiveUp ==
  /\ sending
  /\ tries = MaxTries
  /\ sending' = FALSE
  /\ UNCHANGED <<totals, block, tries, outcome, net, replies, serverVars>>

Lose ==
  /\ \E i \in 1 .. Len(net) : net' = RemoveAt(net, i)
  /\ UNCHANGED <<clientVars, replies, serverVars>>

----------------------------------------------------------------------------
(* handleCoAPRequest() and sessionGetData(), on the server thread *)

Arrives(m) ==
  \E i \in 1 .. Len(net) :
    /\ Reorder \/ i = 1
    /\ m = net[i]
    /\ net' = RemoveAt(net, i)

\* The client matches an answer with the block it waits for, if any.
Reply(m, code) ==
  replies' = IF sending /\ m = Message THEN replies \cup {code} ELSE replies

IsLast(m) == m.block = m.total - 1

\* The buffer a block goes to: a first block clears it.
BufferOf(m) == IF m.block = 0 THEN << >> ELSE soFar

\* resize(total), then copy the block to its offset.
Placed(m) ==
  LET buffer == BufferOf(m)
  IN [i \in 1 .. m.total |-> IF i = m.block + 1 THEN m.body
                             ELSE IF i <= Len(buffer) THEN buffer[i] ELSE 0]

\* The application data is set to NULL with the last block.
KeepsData(m) == ~IsLast(m)

\* methodHandler(): the queue has room for the request, or it does not.
Acknowledge(queued) == IF queued THEN "2.00" ELSE "5.00"

Hand(m, body) ==
  \E queued \in BOOLEAN :
    /\ handed' = IF queued THEN Append(handed, body) ELSE handed
    /\ Reply(m, Acknowledge(queued))

ReceiveSingle(m) ==
  /\ m.total = 1
  /\ Hand(m, <<m.body>>)
  /\ UNCHANGED <<entry, hasData, soFar>>

\* "CoAP cache entry NULL on non-first block"
ReceiveWithoutEntry(m) ==
  /\ m.total > 1
  /\ ~entry
  /\ m.block # 0
  /\ Reply(m, "5.00")
  /\ UNCHANGED serverVars

\* "data_so_far NULL on block"
ReceiveWithoutData(m) ==
  /\ m.total > 1
  /\ entry
  /\ m.block # 0
  /\ ~hasData
  /\ Reply(m, "5.00")
  /\ UNCHANGED serverVars

ReceiveBlock(m) ==
  /\ m.total > 1
  /\ m.block = 0 \/ (entry /\ hasData)
  /\ entry' = TRUE
  /\ hasData' = KeepsData(m)
  /\ soFar' = IF KeepsData(m) THEN Placed(m) ELSE << >>
  /\ IF IsLast(m)
       THEN Hand(m, Placed(m))
       ELSE Reply(m, "2.31") /\ UNCHANGED handed

Receive ==
  /\ \E m \in ToSet(net) :
       /\ Arrives(m)
       /\ \/ ReceiveSingle(m)
          \/ ReceiveWithoutEntry(m)
          \/ ReceiveWithoutData(m)
          \/ ReceiveBlock(m)
  /\ UNCHANGED clientVars

Client == ClientBegin \/ ClientSend \/ ClientContinue \/ ClientEnd \/ ClientGiveUp

Next == Client \/ Lose \/ Receive

Spec == Init /\ [][Next]_vars

----------------------------------------------------------------------------
(* Properties *)

\* Types of the client's state, the messages and the cache entry.
TypeOK ==
  /\ totals \in Seq(1 .. MaxBlocks) /\ Len(totals) <= MaxBodies
  /\ block \in 0 .. MaxBlocks - 1
  /\ tries \in 0 .. MaxTries
  /\ sending \in BOOLEAN
  /\ outcome \in Seq(Codes \cup {"unknown"}) /\ Len(outcome) = Current
  /\ net \in Seq(Messages)
  /\ replies \subseteq Codes
  /\ entry \in BOOLEAN
  /\ hasData \in BOOLEAN
  /\ soFar \in Seq(0 .. MaxBodies) /\ Len(soFar) <= MaxBlocks
  /\ handed \in Seq(Seq(0 .. MaxBodies))

Whole(b) == [i \in 1 .. totals[b] |-> b]

\* What is handed to methodHandler() is a whole body as the client has it,
\* whatever was lost, repeated or abandoned before (Resource.cpp:288-301).
\* It is what the comment at Resource.cpp:289 says: "We've gathered all
\* blocks".
GatheredAllBlocks ==
  \A i \in 1 .. Len(handed) : \E b \in 1 .. Current : handed[i] = Whole(b)

\* A 2.31 means that this block and the ones before it are in the buffer
\* (Resource.cpp:282-286), until the client sends the next one.
ContinueMeansStored ==
  sending /\ "2.31" \in replies =>
    /\ hasData
    /\ \A i \in 1 .. block + 1 : i <= Len(soFar) /\ soFar[i] = Current

\* A client that was told 2.00 (COAP_RESPONSE_CODE_OK) has its body in the queue
\* (ResourceMethod.cpp:67-73).
OkMeansHanded ==
  \A b \in 1 .. Current :
    outcome[b] = "2.00" => \E i \in 1 .. Len(handed) : handed[i] = Whole(b)

\* A body in blocks is handed over at most once, however often its last
\* block arrives (Resource.cpp:291).
HandedOnce ==
  \A i, j \in 1 .. Len(handed) :
    i < j /\ handed[i] = handed[j] => Len(handed[i]) = 1

\* Resource.cpp:278 calls a block that finds no buffer an error whose cause
\* is to be found: "TODO: Find the cause of this occasional error".
BufferPresent ==
  \A m \in ToSet(net) :
    (Reorder \/ m = net[1]) /\ m.total > 1 /\ m.block # 0 => ~entry \/ hasData
=============================================================================
