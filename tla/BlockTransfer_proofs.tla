------------------------ MODULE BlockTransfer_proofs ------------------------
(***************************************************************************)
(* Theorems about block-wise bodies, for any number of bodies, blocks and  *)
(* retransmissions: types, and, when messages keep their order, what is    *)
(* handed over, how often, and that the answers to the client are true.    *)
(*                                                                         *)
(* Why order matters.  A block after the first is only sent when the one   *)
(* before it was stored.  In order, all that is then on its way is of the  *)
(* same body and not more than one block behind (NetInv).  So the buffer   *)
(* holds what comes before any block that arrives, unless the body was     *)
(* handed over and the buffer is gone (StoredInv), which stays so for the  *)
(* late copies of its last block (DoneInv).                                *)
(***************************************************************************)
EXTENDS BlockTransfer, SequenceTheorems, TLAPS

USE BoundsAssumption, ReorderAssumption

\* What the client has sent, and what it is told.
ClientInv ==
  /\ sending => Current > 0 /\ block < totals[Current]
  /\ sending /\ "2.31" \in replies => block + 1 < totals[Current]

\* m can be before n on the way: of an earlier body, if n is a first block, or
\* of the same body, the same block or the one before it.
Before(m, n) ==
  IF n.block = 0 THEN m.body < n.body \/ (m.body = n.body /\ m.block = 0)
  ELSE m.body = n.body /\ m.block <= n.block /\ n.block <= m.block + 1

Ordered(s) == \A i, j \in 1 .. Len(s) : i < j => Before(s[i], s[j])

\* Messages are the client's, in order; once the client was told to continue,
\* all of them are about the last block but one, or the last.
NetInv ==
  /\ Ordered(net)
  /\ \A m \in ToSet(net) :
       /\ m.body <= Current /\ m.total = totals[m.body] /\ m.block < m.total
       /\ m.body = Current => m.block <= block
       /\ sending /\ block > 0 => m.body = Current /\ block <= m.block + 1
       /\ sending /\ "2.31" \in replies => m = Message

\* The buffer begins with k blocks of body b.
Holds(b, k) == \A i \in 1 .. k : i <= Len(soFar) /\ soFar[i] = b

StoredInv ==
  /\ \A m \in ToSet(net) : m.block > 0 => ~hasData \/ Holds(m.body, m.block)
  /\ sending /\ block > 0 => ~hasData \/ Holds(Current, block)
  /\ sending /\ "2.31" \in replies => hasData /\ Holds(Current, block + 1)

\* Body b was handed over, and in blocks.
Done(b) == totals[b] > 1 /\ Whole(b) \in ToSet(handed)

DoneInv ==
  /\ \A m \in ToSet(net) : Done(m.body) => m.block > 0 /\ ~hasData
  /\ sending /\ Done(Current) => block > 0 /\ ~hasData

HandedInv ==
  /\ GatheredAllBlocks /\ OkMeansHanded /\ HandedOnce
  /\ sending /\ "2.00" \in replies => Whole(Current) \in ToSet(handed)

Inv == TypeOK /\ ClientInv /\ NetInv /\ StoredInv /\ DoneInv /\ HandedInv

----------------------------------------------------------------------------
(* The network's sequence *)

LEMMA ElementsOfSeq ==
  ASSUME NEW S, NEW s \in Seq(S)
  PROVE  /\ ToSet(s) \subseteq S
         /\ \A e : e \in ToSet(s) <=> \E i \in 1 .. Len(s) : s[i] = e
<1>1. DOMAIN s = 1 .. Len(s) /\ \A i \in 1 .. Len(s) : s[i] \in S
  BY LenProperties, ElementOfSeq
<1> QED
  BY <1>1 DEF ToSet

LEMMA FunctionIsSeq ==
  ASSUME NEW S, NEW n \in Nat, NEW f \in [1 .. n -> S]
  PROVE  f \in Seq(S) /\ Len(f) = n
OBVIOUS

LEMMA Removed ==
  ASSUME NEW S, NEW s \in Seq(S), NEW i \in 1 .. Len(s)
  PROVE  /\ RemoveAt(s, i) \in Seq(S) /\ Len(RemoveAt(s, i)) = Len(s) - 1
         /\ \A j \in 1 .. Len(s) - 1 : RemoveAt(s, i)[j] = IF j < i THEN s[j] ELSE s[j + 1]
<1> DEFINE a == SubSeq(s, 1, i - 1)
<1> DEFINE b == SubSeq(s, i + 1, Len(s))
<1>0. Len(s) \in Nat /\ i \in Nat /\ i >= 1 /\ i <= Len(s)
  BY LenProperties
<1>1. \A j \in 1 .. Len(s) : s[j] \in S
  BY ElementOfSeq
<1>2. /\ a \in Seq(S) /\ Len(a) = IF 1 <= i - 1 THEN i - 1 - 1 + 1 ELSE 0
      /\ \A j \in 1 .. i - 1 - 1 + 1 : a[j] = s[1 + j - 1]
  <2>1. i - 1 \in Int /\ \A j \in 1 .. i - 1 : s[j] \in S
    BY <1>0, <1>1
  <2> QED
    BY <2>1, SubSeqProperties
<1>3. /\ b \in Seq(S) /\ Len(b) = IF i + 1 <= Len(s) THEN Len(s) - (i + 1) + 1 ELSE 0
      /\ \A j \in 1 .. Len(s) - (i + 1) + 1 : b[j] = s[i + 1 + j - 1]
  <2>1. i + 1 \in Int /\ Len(s) \in Int /\ \A j \in i + 1 .. Len(s) : s[j] \in S
    BY <1>0, <1>1
  <2> QED
    BY <2>1, SubSeqProperties
<1> HIDE DEF a, b
<1>4. Len(a) = i - 1 /\ Len(b) = Len(s) - i
  BY <1>0, <1>2, <1>3
<1>5. /\ a \o b \in Seq(S) /\ Len(a \o b) = Len(a) + Len(b)
      /\ \A j \in 1 .. Len(a) + Len(b) : (a \o b)[j] = IF j <= Len(a) THEN a[j] ELSE b[j - Len(a)]
  BY <1>2, <1>3, ConcatProperties
<1>6. ASSUME NEW j \in 1 .. Len(s) - 1
      PROVE  (a \o b)[j] = IF j < i THEN s[j] ELSE s[j + 1]
  <2>1. CASE j < i
    <3>1. (a \o b)[j] = a[j] /\ a[j] = s[1 + j - 1]
      BY <1>0, <1>2, <1>4, <1>5, <2>1
    <3> QED
      BY <1>0, <2>1, <3>1
  <2>2. CASE ~(j < i)
    <3>1. (a \o b)[j] = b[j - Len(a)] /\ j - Len(a) = j - i + 1
      BY <1>0, <1>4, <1>5, <2>2
    <3>2. b[j - i + 1] = s[i + 1 + (j - i + 1) - 1]
      BY <1>0, <1>3, <2>2
    <3>3. i + 1 + (j - i + 1) - 1 = j + 1
      BY <1>0
    <3> QED
      BY <2>2, <3>1, <3>2, <3>3
  <2> QED
    BY <2>1, <2>2
<1>7. RemoveAt(s, i) = a \o b
  BY DEF RemoveAt, a, b
<1> QED
  BY <1>0, <1>4, <1>5, <1>6, <1>7

\* Losing or delivering a message leaves the others in order; the first one
\* can be before all of them.
LEMMA RemovedInOrder ==
  ASSUME NEW S, NEW s \in Seq(S), NEW i \in 1 .. Len(s)
  PROVE  /\ RemoveAt(s, i) \in Seq(S) /\ ToSet(RemoveAt(s, i)) \subseteq ToSet(s)
         /\ Ordered(s) => /\ Ordered(RemoveAt(s, i))
                          /\ i = 1 => \A n \in ToSet(RemoveAt(s, i)) : Before(s[1], n)
<1> DEFINE t == RemoveAt(s, i)
<1> DEFINE At(j) == IF j < i THEN j ELSE j + 1
<1>1. /\ t \in Seq(S) /\ Len(t) = Len(s) - 1 /\ Len(s) \in Nat
      /\ \A j \in 1 .. Len(s) - 1 : t[j] = IF j < i THEN s[j] ELSE s[j + 1]
  BY Removed, LenProperties
<1> HIDE DEF t
<1>2. \A j \in 1 .. Len(t) : At(j) \in 1 .. Len(s) /\ t[j] = s[At(j)]
  BY <1>1
<1>3. \A j, k \in 1 .. Len(t) : j < k => At(j) < At(k)
  BY <1>1
<1>4. i = 1 => \A j \in 1 .. Len(t) : 1 < At(j) /\ 1 \in 1 .. Len(s)
  BY <1>1
<1> HIDE DEF At
<1>5. ToSet(t) \subseteq ToSet(s)
  BY <1>1, <1>2, ElementsOfSeq
<1>6. Ordered(s) => Ordered(t)
  BY <1>2, <1>3 DEF Ordered
<1>7. Ordered(s) /\ i = 1 => \A n \in ToSet(t) : Before(s[1], n)
  BY <1>1, <1>2, <1>4, ElementsOfSeq DEF Ordered
<1> QED
  BY <1>1, <1>5, <1>6, <1>7 DEF t

LEMMA AppendedInOrder ==
  ASSUME NEW S, NEW s \in Seq(S), NEW e \in S
  PROVE  /\ Append(s, e) \in Seq(S) /\ ToSet(Append(s, e)) = ToSet(s) \cup {e}
         /\ Ordered(s) /\ (\A m \in ToSet(s) : Before(m, e)) => Ordered(Append(s, e))
<1> DEFINE t == Append(s, e)
<1>1. /\ t \in Seq(S) /\ Len(t) = Len(s) + 1 /\ Len(s) \in Nat
      /\ \A j \in 1 .. Len(s) : t[j] = s[j]
      /\ t[Len(s) + 1] = e
  BY AppendProperties, LenProperties
<1> HIDE DEF t
<1>2. \A j \in 1 .. Len(t) : j \in 1 .. Len(s) \/ j = Len(s) + 1
  BY <1>1
<1>3. \A j \in 1 .. Len(s) : j \in 1 .. Len(t)
  BY <1>1
<1>4. ToSet(t) = ToSet(s) \cup {e}
  <2>1. \A x : x \in ToSet(t) <=> x \in ToSet(s) \/ x = e
    <3>1. Len(s) + 1 \in 1 .. Len(t)
      BY <1>1
    <3> QED
      BY <1>1, <1>2, <1>3, <3>1, ElementsOfSeq
  <2> QED
    BY <2>1
<1>5. ASSUME Ordered(s), \A m \in ToSet(s) : Before(m, e)
      PROVE  Ordered(t)
  <2> SUFFICES ASSUME NEW i \in 1 .. Len(t), NEW j \in 1 .. Len(t), i < j
               PROVE  Before(t[i], t[j])
    BY DEF Ordered
  <2>1. i \in 1 .. Len(s) /\ t[i] = s[i]
    BY <1>1
  <2>2. CASE j \in 1 .. Len(s)
    BY <1>1, <1>5, <2>1, <2>2 DEF Ordered
  <2>3. CASE j = Len(s) + 1
    BY <1>1, <1>5, <2>1, <2>3, ElementsOfSeq
  <2> QED
    BY <1>2, <2>2, <2>3
<1> QED
  BY <1>1, <1>4, <1>5 DEF t

----------------------------------------------------------------------------
(* What the types say, and what a step of the server does *)

LEMMA TypeFacts ==
  ASSUME TypeOK
  PROVE  /\ Current \in Nat /\ Current <= MaxBodies
         /\ \A b \in 1 .. Current : totals[b] \in 1 .. MaxBlocks
         /\ \A m \in ToSet(net) :
              m \in Messages /\ m.body \in Bodies /\ m.block \in Nat /\ m.total \in 1 .. MaxBlocks
         /\ block \in Nat /\ tries \in Nat
<1>1. Current \in Nat /\ \A b \in 1 .. Current : totals[b] \in 1 .. MaxBlocks
  BY LenProperties, ElementOfSeq DEF TypeOK, Current
<1>2. ToSet(net) \subseteq Messages
  BY ElementsOfSeq DEF TypeOK
<1> QED
  BY <1>1, <1>2 DEF TypeOK, Messages, Current

\* Message m is received: the others stay on their way, in order.
Receiving(m) ==
  /\ m \in ToSet(net) /\ net' \in Seq(Messages) /\ ToSet(net') \subseteq ToSet(net)
  /\ Ordered(net) /\ ~Reorder => Ordered(net') /\ \A n \in ToSet(net') : Before(m, n)
  /\ UNCHANGED clientVars
  /\ ReceiveSingle(m) \/ ReceiveWithoutEntry(m) \/ ReceiveWithoutData(m) \/ ReceiveBlock(m)

LEMMA ReceiveCases == TypeOK /\ Receive => \E m \in ToSet(net) : Receiving(m)
<1> SUFFICES ASSUME TypeOK, Receive PROVE \E m \in ToSet(net) : Receiving(m)
  OBVIOUS
<1>1. PICK m \in ToSet(net) :
        /\ Arrives(m)
        /\ ReceiveSingle(m) \/ ReceiveWithoutEntry(m) \/ ReceiveWithoutData(m) \/ ReceiveBlock(m)
  BY DEF Receive
<1>2. PICK i \in 1 .. Len(net) : (Reorder \/ i = 1) /\ m = net[i] /\ net' = RemoveAt(net, i)
  BY <1>1 DEF Arrives
<1>3. /\ net' \in Seq(Messages) /\ ToSet(net') \subseteq ToSet(net)
      /\ Ordered(net) /\ ~Reorder => Ordered(net') /\ \A n \in ToSet(net') : Before(m, n)
  BY <1>2, RemovedInOrder DEF TypeOK
<1>4. UNCHANGED clientVars
  BY DEF Receive
<1>5. Receiving(m)
  BY <1>1, <1>3, <1>4 DEF Receiving
<1> QED
  BY <1>5

\* Which steps answer, and with what.
LEMMA Replies ==
  ASSUME NEW m, Receiving(m)
  PROVE  /\ replies' \subseteq replies \cup Codes
         /\ "2.31" \in replies' /\ "2.31" \notin replies =>
              sending /\ m = Message /\ ReceiveBlock(m) /\ ~IsLast(m)
         /\ "2.00" \in replies' /\ "2.00" \notin replies => sending /\ m = Message
<1>1. ASSUME NEW code, Reply(m, code)
      PROVE  /\ replies' \subseteq replies \cup {code}
             /\ \A c \in replies' : c \in replies \/ (c = code /\ sending /\ m = Message)
  BY <1>1 DEF Reply
<1>2. CASE ReceiveWithoutEntry(m) \/ ReceiveWithoutData(m)
  <2>1. Reply(m, "5.00")
    BY <1>2 DEF ReceiveWithoutEntry, ReceiveWithoutData
  <2> QED
    BY <1>1, <2>1 DEF Codes
<1>3. ASSUME NEW body, Hand(m, body)
      PROVE  Reply(m, "2.00") \/ Reply(m, "5.00")
  BY <1>3 DEF Hand, Acknowledge
<1>4. CASE ReceiveSingle(m) \/ (ReceiveBlock(m) /\ IsLast(m))
  <2>1. Reply(m, "2.00") \/ Reply(m, "5.00")
    BY <1>3, <1>4 DEF ReceiveSingle, ReceiveBlock
  <2> QED
    BY <1>1, <2>1 DEF Codes
<1>5. CASE ReceiveBlock(m) /\ ~IsLast(m)
  <2>1. Reply(m, "2.31")
    BY <1>5 DEF ReceiveBlock
  <2> QED
    BY <1>1, <1>5, <2>1 DEF Codes
<1> QED
  BY <1>2, <1>4, <1>5 DEF Receiving

\* The buffer with block m in it: m's body as far as it was there before.
LEMMA PlacedProperties ==
  ASSUME TypeOK, NEW m \in Messages
  PROVE  /\ Placed(m) \in Seq(0 .. MaxBodies) /\ Len(Placed(m)) = m.total
         /\ m.block < m.total /\ (m.block = 0 \/ Holds(m.body, m.block)) =>
              \A i \in 1 .. m.block + 1 : Placed(m)[i] = m.body
<1>1. /\ m.body \in 1 .. MaxBodies /\ m.block \in Nat /\ m.total \in Nat
      /\ soFar \in Seq(0 .. MaxBodies) /\ Len(soFar) \in Nat
  BY LenProperties DEF TypeOK, Messages, Bodies
<1>2. /\ BufferOf(m) \in Seq(0 .. MaxBodies) /\ Len(BufferOf(m)) \in Nat
      /\ \A i \in 1 .. Len(BufferOf(m)) : BufferOf(m)[i] \in 0 .. MaxBodies
      /\ m.block # 0 => BufferOf(m) = soFar
  <2>1. BufferOf(m) \in Seq(0 .. MaxBodies) /\ (m.block # 0 => BufferOf(m) = soFar)
    BY <1>1, EmptySeq DEF BufferOf
  <2> QED
    BY <2>1, LenProperties, ElementOfSeq
<1> DEFINE At(i) == IF i = m.block + 1 THEN m.body
                    ELSE IF i <= Len(BufferOf(m)) THEN BufferOf(m)[i] ELSE 0
<1>3. \A i \in 1 .. m.total : At(i) \in 0 .. MaxBodies
  BY <1>1, <1>2
<1>4. Placed(m) = [i \in 1 .. m.total |-> At(i)]
  BY DEF Placed
<1>5. m.block = 0 \/ Holds(m.body, m.block) => \A i \in 1 .. m.block + 1 : At(i) = m.body
  BY <1>1, <1>2 DEF Holds
<1> HIDE DEF At
<1>6. Placed(m) \in Seq(0 .. MaxBodies) /\ Len(Placed(m)) = m.total
  <2>1. Placed(m) \in [1 .. m.total -> 0 .. MaxBodies]
    BY <1>3, <1>4
  <2> QED
    BY <1>1, <2>1, FunctionIsSeq
<1>7. m.block < m.total => \A i \in 1 .. m.block + 1 : i \in 1 .. m.total
  BY <1>1
<1> QED
  BY <1>4, <1>5, <1>6, <1>7

----------------------------------------------------------------------------
(* Types and the client *)

LEMMA InitTyped == Init => TypeOK /\ ClientInv
<1> SUFFICES ASSUME Init PROVE TypeOK /\ ClientInv
  OBVIOUS
<1>1. totals \in Seq(1 .. MaxBlocks) /\ Len(totals) = 0 /\ Len(totals) <= MaxBodies
  BY DEF Init
<1>2. outcome \in Seq(Codes \cup {"unknown"}) /\ Len(outcome) = Current /\ net \in Seq(Messages)
  BY DEF Init, Current
<1>3. soFar \in Seq(0 .. MaxBodies) /\ Len(soFar) <= MaxBlocks /\ handed \in Seq(Seq(0 .. MaxBodies))
  BY DEF Init
<1>4. block \in 0 .. MaxBlocks - 1 /\ tries \in 0 .. MaxTries /\ replies \subseteq Codes
  BY DEF Init
<1>5. sending = FALSE /\ entry = FALSE /\ hasData = FALSE
  BY DEF Init
<1> QED
  BY <1>1, <1>2, <1>3, <1>4, <1>5 DEF TypeOK, ClientInv

LEMMA NextTyped == TypeOK /\ ClientInv /\ [Next]_vars => TypeOK' /\ ClientInv'
<1> SUFFICES ASSUME TypeOK, ClientInv, [Next]_vars PROVE TypeOK' /\ ClientInv'
  OBVIOUS
<1>0. /\ Current \in Nat /\ Current <= MaxBodies
      /\ \A b \in 1 .. Current : totals[b] \in 1 .. MaxBlocks
      /\ block \in Nat /\ tries \in Nat
  BY TypeFacts
<1>1. CASE ClientBegin
  <2>1. PICK n \in 1 .. MaxBlocks : totals' = Append(totals, n)
    BY <1>1 DEF ClientBegin
  <2>2. /\ totals' \in Seq(1 .. MaxBlocks) /\ Current' = Current + 1 /\ Current' <= MaxBodies
        /\ totals'[Current'] = n
    BY <1>0, <1>1, <2>1, AppendProperties DEF ClientBegin, TypeOK, Current
  <2>3. outcome' \in Seq(Codes \cup {"unknown"}) /\ Len(outcome') = Current'
    BY <1>1, <2>2, AppendProperties DEF ClientBegin, TypeOK
  <2>4. TypeOK'
    BY <1>1, <2>2, <2>3 DEF ClientBegin, serverVars, TypeOK, Current
  <2>5. ClientInv'
    BY <1>0, <1>1, <2>2 DEF ClientBegin, ClientInv
  <2> QED
    BY <2>4, <2>5
<1>2. CASE ClientSend
  <2>1. Message \in Messages
    BY <1>0, <1>2 DEF ClientSend, ClientInv, TypeOK, Message, Messages, Bodies
  <2>2. net' \in Seq(Messages)
    BY <1>2, <2>1, AppendProperties DEF ClientSend, TypeOK
  <2> QED
    BY <1>0, <1>2, <2>2 DEF ClientSend, serverVars, TypeOK, ClientInv, Current
<1>3. CASE ClientContinue
  <2>1. block + 1 < totals[Current] /\ totals[Current] \in 1 .. MaxBlocks
    BY <1>0, <1>3 DEF ClientContinue, ClientInv
  <2> QED
    BY <1>0, <1>3, <2>1 DEF ClientContinue, serverVars, TypeOK, ClientInv, Current
<1>4. CASE ClientEnd
  <2>1. PICK code \in replies \ {"2.31"} : outcome' = [outcome EXCEPT ![Current] = code]
    BY <1>4 DEF ClientEnd
  <2>2. outcome' \in Seq(Codes \cup {"unknown"}) /\ Len(outcome') = Current
    <3>1. code \in Codes \cup {"unknown"} /\ Current \in 1 .. Len(outcome)
      BY <1>0, <1>4, <2>1 DEF ClientEnd, ClientInv, TypeOK
    <3> QED
      BY <2>1, <3>1, ExceptSeq DEF TypeOK
  <2> QED
    BY <1>4, <2>2 DEF ClientEnd, serverVars, TypeOK, ClientInv, Current
<1>5. CASE ClientGiveUp
  BY <1>5 DEF ClientGiveUp, serverVars, TypeOK, ClientInv, Current
<1>6. CASE Lose
  <2>1. net' \in Seq(Messages)
    BY <1>6, RemovedInOrder DEF Lose, TypeOK
  <2> QED
    BY <1>6, <2>1 DEF Lose, clientVars, serverVars, TypeOK, ClientInv, Current
<1>7. CASE Receive
  <2>1. PICK m \in ToSet(net) : Receiving(m)
    BY <1>7, ReceiveCases
  <2>2. /\ m \in Messages /\ m.total \in 1 .. MaxBlocks /\ m.body \in 1 .. MaxBodies
        /\ m.block \in Nat
    BY TypeFacts DEF Bodies
  <2>3. /\ UNCHANGED clientVars /\ net' \in Seq(Messages) /\ replies' \subseteq Codes
    BY <2>1, Replies DEF Receiving, TypeOK
  <2>4. ClientInv'
    <3>1. m = Message => m.block = block /\ m.total = totals[Current]
      BY DEF Message
    <3> QED
      <4>1. UNCHANGED <<totals, block, sending>> /\ Current' = Current
        BY <2>3 DEF clientVars, Current
      <4>2. sending => Current > 0 /\ block < totals[Current] /\ totals[Current] \in 1 .. MaxBlocks
        BY <1>0 DEF ClientInv
      <4>3. ASSUME sending, "2.31" \in replies' PROVE block + 1 < totals[Current]
        <5>1. CASE "2.31" \in replies
          BY <4>3, <5>1 DEF ClientInv
        <5>2. CASE "2.31" \notin replies
          <6>1. m.block # m.total - 1 /\ m.block = block /\ m.total = totals[Current]
            BY <2>1, <3>1, <4>3, <5>2, Replies DEF IsLast
          <6> QED
            BY <1>0, <4>2, <4>3, <6>1
        <5> QED
          BY <5>1, <5>2
      <4> QED
        BY <4>1, <4>2, <4>3 DEF ClientInv
  <2>5. Placed(m) \in Seq(0 .. MaxBodies) /\ Len(Placed(m)) = m.total
    BY <2>2, PlacedProperties
  <2>6. /\ entry' \in BOOLEAN /\ hasData' \in BOOLEAN
        /\ soFar' \in Seq(0 .. MaxBodies) /\ Len(soFar') <= MaxBlocks
    <3>1. CASE ReceiveBlock(m) /\ KeepsData(m)
      BY <2>2, <2>5, <3>1 DEF ReceiveBlock, TypeOK
    <3>2. CASE ReceiveBlock(m) /\ ~KeepsData(m)
      <4>1. soFar' = << >> /\ entry' = TRUE /\ hasData' = FALSE
        BY <3>2 DEF ReceiveBlock, KeepsData
      <4>2. soFar' \in Seq(0 .. MaxBodies) /\ Len(soFar') = 0
        BY <4>1, EmptySeq
      <4>3. Len(soFar') <= MaxBlocks
        BY <4>2
      <4> QED
        BY <4>1, <4>2, <4>3, Zenon
    <3>3. CASE ~ReceiveBlock(m)
      BY <2>1, <3>3 DEF Receiving, ReceiveSingle, ReceiveWithoutEntry, ReceiveWithoutData,
         serverVars, TypeOK
    <3> QED
      BY <3>1, <3>2, <3>3
  <2>7. handed' \in Seq(Seq(0 .. MaxBodies))
    <3>1. ASSUME NEW body \in Seq(0 .. MaxBodies), Hand(m, body)
          PROVE  handed' \in Seq(Seq(0 .. MaxBodies))
      <4> DEFINE S == Seq(0 .. MaxBodies)
      <4>1. handed \in Seq(S) /\ body \in S
        BY DEF TypeOK
      <4>2. handed' = Append(handed, body) \/ handed' = handed
        BY <3>1 DEF Hand
      <4> HIDE DEF S
      <4>3. handed' \in Seq(S)
        BY <4>1, <4>2, AppendProperties
      <4> QED
        BY <4>3 DEF S
    <3>2. <<m.body>> \in Seq(0 .. MaxBodies)
      BY <2>2
    <3> QED
      BY <2>1, <2>5, <3>1, <3>2 DEF Receiving, ReceiveSingle, ReceiveWithoutEntry,
         ReceiveWithoutData, ReceiveBlock, serverVars, TypeOK
  <2>8. TypeOK'
    BY <2>3, <2>6, <2>7 DEF clientVars, TypeOK, Current
  <2> QED
    BY <2>4, <2>8
<1>8. CASE UNCHANGED vars
  BY <1>8 DEF vars, clientVars, serverVars, TypeOK, ClientInv, Current
<1> QED
  BY <1>1, <1>2, <1>3, <1>4, <1>5, <1>6, <1>7, <1>8 DEF Next, Client

\* A new body leaves the earlier ones as they are.
LEMMA BeginFacts ==
  ASSUME TypeOK, ClientBegin
  PROVE  /\ Current' = Current + 1 /\ totals'[Current'] \in 1 .. MaxBlocks
         /\ \A b \in 1 .. Current : totals'[b] = totals[b] /\ Whole(b)' = Whole(b)
         /\ outcome' = Append(outcome, "unknown")
         /\ sending' = TRUE /\ block' = 0 /\ replies' = {} /\ UNCHANGED <<net, serverVars>>
<1>1. PICK n \in 1 .. MaxBlocks : totals' = Append(totals, n)
  BY DEF ClientBegin
<1>2. /\ Current' = Current + 1 /\ totals'[Current'] = n /\ Current \in Nat
      /\ \A b \in 1 .. Current : totals'[b] = totals[b]
  BY <1>1, AppendProperties, LenProperties DEF TypeOK, Current
<1>3. \A b \in 1 .. Current : Whole(b)' = Whole(b)
  BY <1>2 DEF Whole
<1> QED
  BY <1>2, <1>3 DEF ClientBegin

\* The steps that only send, lose or receive, or end a body.
LEMMA KeepsBody ==
  ASSUME UNCHANGED totals
  PROVE  Current' = Current /\ \A b : Whole(b)' = Whole(b)
BY DEF Current, Whole

----------------------------------------------------------------------------
(* The order of messages *)

LEMMA NetStep ==
  ASSUME TypeOK, ClientInv, NetInv, ~Reorder, [Next]_vars
  PROVE  NetInv'
<1>0. /\ Current \in Nat /\ block \in Nat
      /\ \A b \in 1 .. Current : totals[b] \in 1 .. MaxBlocks
      /\ \A m \in ToSet(net) :
           m \in Messages /\ m.body \in Nat /\ m.body >= 1 /\ m.block \in Nat /\ m.total \in Nat
  BY TypeFacts DEF Bodies
<1>1. CASE ClientBegin
  <2>1. /\ Current' = Current + 1 /\ \A b \in 1 .. Current : totals'[b] = totals[b]
        /\ block' = 0 /\ replies' = {} /\ UNCHANGED net
    BY <1>1, BeginFacts
  <2>2. \A m \in ToSet(net) :
          /\ m.body <= Current' /\ m.total = totals'[m.body] /\ m.block < m.total
          /\ m.body # Current'
    BY <1>0, <2>1 DEF NetInv
  <2> QED
    BY <2>1, <2>2 DEF NetInv
<1>2. CASE ClientSend
  <2>1. /\ UNCHANGED <<totals, block, sending, replies>> /\ Current' = Current
        /\ sending /\ net' = Append(net, Message)
    BY <1>2, KeepsBody DEF ClientSend
  <2>2. /\ Message \in Messages /\ Message.body = Current /\ Message.block = block
        /\ Message.total = totals[Current] /\ Current > 0 /\ block < totals[Current]
    BY <1>0, <1>2 DEF ClientSend, ClientInv, TypeOK, Message, Messages, Bodies, Current
  <2>3. Message' = Message
    BY <2>1 DEF Message
  <2> HIDE DEF Message
  <2>4. \A m \in ToSet(net) : Before(m, Message)
    BY <1>0, <2>1, <2>2 DEF NetInv, Before
  <2>5. Ordered(net') /\ ToSet(net') = ToSet(net) \cup {Message}
    BY <2>1, <2>2, <2>4, AppendedInOrder DEF TypeOK, NetInv
  <2>6. ASSUME NEW m \in ToSet(net')
        PROVE  /\ m.body <= Current /\ m.total = totals[m.body] /\ m.block < m.total
               /\ m.body = Current => m.block <= block
               /\ sending /\ block > 0 => m.body = Current /\ block <= m.block + 1
               /\ sending /\ "2.31" \in replies => m = Message
    <3>1. CASE m \in ToSet(net)
      BY <3>1 DEF NetInv
    <3>2. CASE m = Message
      BY <1>0, <2>2, <3>2
    <3> QED
      BY <2>5, <3>1, <3>2
  <2> QED
    BY <2>1, <2>3, <2>5, <2>6 DEF NetInv
<1>3. CASE ClientContinue
  <2>1. /\ UNCHANGED <<totals, sending, net>> /\ Current' = Current
        /\ sending /\ "2.31" \in replies /\ block' = block + 1 /\ replies' = {}
    BY <1>3, KeepsBody DEF ClientContinue
  <2>2. \A m \in ToSet(net) : m.body = Current /\ m.block = block
    BY <2>1 DEF NetInv, Message
  <2> QED
    BY <1>0, <2>1, <2>2 DEF NetInv
<1>4. CASE ClientEnd \/ ClientGiveUp
  <2>1. UNCHANGED <<totals, block, net>> /\ Current' = Current /\ ~sending'
    BY <1>4, KeepsBody DEF ClientEnd, ClientGiveUp
  <2> QED
    BY <2>1 DEF NetInv
<1>5. CASE Lose
  <2>1. UNCHANGED <<totals, block, sending, replies>> /\ Current' = Current /\ Message' = Message
    BY <1>5, KeepsBody DEF Lose, clientVars, Message
  <2>2. ToSet(net') \subseteq ToSet(net) /\ Ordered(net')
    BY <1>5, RemovedInOrder DEF Lose, TypeOK, NetInv
  <2> QED
    BY <2>1, <2>2 DEF NetInv
<1>6. CASE Receive
  <2>1. PICK m \in ToSet(net) : Receiving(m)
    BY <1>6, ReceiveCases
  <2>2. UNCHANGED <<totals, block, sending>> /\ Current' = Current /\ Message' = Message
    BY <2>1, KeepsBody DEF Receiving, clientVars, Message
  <2>3. /\ ToSet(net') \subseteq ToSet(net) /\ Ordered(net')
        /\ \A n \in ToSet(net') : Before(m, n)
    BY <2>1 DEF Receiving, NetInv
  <2>4. ASSUME sending, "2.31" \in replies', NEW n \in ToSet(net')
        PROVE  n = Message
    <3>1. CASE "2.31" \in replies
      BY <2>3, <2>4, <3>1 DEF NetInv
    <3>2. CASE "2.31" \notin replies
      <4>1. m.body = Current /\ m.block = block
        BY <2>1, <2>4, <3>2, Replies DEF Message
      <4>2. /\ n \in Messages /\ n.body <= Current /\ n.total = totals[n.body]
            /\ n.body = Current => n.block <= block
        BY <1>0, <2>3 DEF NetInv
      <4>3. n.body \in Nat /\ n.block \in Nat /\ Before(m, n)
        BY <1>0, <2>3
      <4>4. n.body = Current /\ n.block = block
        BY <1>0, <4>1, <4>2, <4>3 DEF Before
      <4> QED
        BY <4>2, <4>4 DEF Message, Messages
    <3> QED
      BY <3>1, <3>2
  <2> QED
    BY <2>2, <2>3, <2>4 DEF NetInv
<1>7. CASE UNCHANGED vars
  BY <1>7 DEF vars, clientVars, serverVars, NetInv, Current, Message
<1> QED
  BY <1>1, <1>2, <1>3, <1>4, <1>5, <1>6, <1>7 DEF Next, Client

----------------------------------------------------------------------------
(* The buffer *)

\* A block that is not the last is stored after the ones before it.
LEMMA BlockStored ==
  ASSUME TypeOK, NetInv, StoredInv, NEW m \in ToSet(net), ReceiveBlock(m), ~IsLast(m)
  PROVE  hasData' /\ Holds(m.body, m.block + 1)'
<1>1. m \in Messages /\ m.block \in Nat /\ m.total \in Nat /\ m.block < m.total
  BY TypeFacts DEF NetInv
<1>2. hasData' = TRUE /\ soFar' = Placed(m) /\ (m.block = 0 \/ hasData)
  BY DEF ReceiveBlock, KeepsData
<1>3. m.block = 0 \/ Holds(m.body, m.block)
  BY <1>1, <1>2 DEF StoredInv
<1>4. /\ Len(Placed(m)) = m.total
      /\ \A i \in 1 .. m.block + 1 : Placed(m)[i] = m.body
  BY <1>1, <1>3, PlacedProperties
<1> QED
  BY <1>1, <1>2, <1>4 DEF Holds

\* What m leaves in the buffer for the blocks that can follow it.
LEMMA BlockFollows ==
  ASSUME TypeOK, NetInv, StoredInv, NEW m \in ToSet(net), Receiving(m),
         NEW k \in Nat, k > 0, m.block <= k, k <= m.block + 1, ~hasData \/ Holds(m.body, k)
  PROVE  ~hasData' \/ Holds(m.body, k)'
<1>0. m.block \in Nat
  BY TypeFacts
<1>1. CASE ReceiveBlock(m) /\ IsLast(m)
  BY <1>1 DEF ReceiveBlock, KeepsData
<1>2. CASE ReceiveBlock(m) /\ ~IsLast(m)
  <2>1. Holds(m.body, m.block + 1)'
    BY <1>2, BlockStored
  <2> QED
    BY <1>0, <2>1 DEF Holds
<1>3. CASE ~ReceiveBlock(m)
  BY <1>3 DEF Receiving, ReceiveSingle, ReceiveWithoutEntry, ReceiveWithoutData, serverVars, Holds
<1> QED
  BY <1>1, <1>2, <1>3

LEMMA StoredStep ==
  ASSUME TypeOK, ClientInv, NetInv, StoredInv, ~Reorder, [Next]_vars
  PROVE  StoredInv'
<1>0. /\ Current \in Nat /\ block \in Nat
      /\ \A m \in ToSet(net) : m \in Messages /\ m.body \in Nat /\ m.block \in Nat
  BY TypeFacts DEF Bodies
<1>1. CASE ClientBegin
  <2>1. block' = 0 /\ replies' = {} /\ UNCHANGED <<net, hasData, soFar>>
    BY <1>1, BeginFacts DEF serverVars
  <2> QED
    BY <2>1 DEF StoredInv, Holds
<1>2. CASE ClientSend
  <2>1. /\ UNCHANGED <<block, sending, replies, hasData, soFar>> /\ Current' = Current
        /\ sending /\ net' = Append(net, Message)
    BY <1>2, KeepsBody DEF ClientSend, serverVars
  <2>2. Message \in Messages /\ Message.body = Current /\ Message.block = block
    BY <1>0, <1>2 DEF ClientSend, ClientInv, TypeOK, Message, Messages, Bodies, Current
  <2> HIDE DEF Message
  <2>3. ToSet(net') = ToSet(net) \cup {Message}
    BY <2>1, <2>2, AppendedInOrder DEF TypeOK
  <2>4. \A b, k : Holds(b, k)' <=> Holds(b, k)
    BY <2>1 DEF Holds
  <2> QED
    BY <2>1, <2>2, <2>3, <2>4 DEF StoredInv
<1>3. CASE ClientContinue
  <2>1. /\ UNCHANGED <<sending, net, hasData, soFar>> /\ Current' = Current
        /\ sending /\ "2.31" \in replies /\ block' = block + 1 /\ replies' = {}
    BY <1>3, KeepsBody DEF ClientContinue, serverVars
  <2>2. \A b, k : Holds(b, k)' <=> Holds(b, k)
    BY <2>1 DEF Holds
  <2> QED
    BY <2>1, <2>2 DEF StoredInv
<1>4. CASE ClientEnd \/ ClientGiveUp
  <2>1. UNCHANGED <<net, hasData, soFar>> /\ ~sending'
    BY <1>4 DEF ClientEnd, ClientGiveUp, serverVars
  <2> QED
    BY <2>1 DEF StoredInv, Holds
<1>5. CASE Lose
  <2>1. UNCHANGED <<block, sending, replies, hasData, soFar>> /\ Current' = Current
    BY <1>5, KeepsBody DEF Lose, clientVars, serverVars
  <2>2. ToSet(net') \subseteq ToSet(net)
    BY <1>5, RemovedInOrder DEF Lose, TypeOK
  <2> QED
    BY <2>1, <2>2 DEF StoredInv, Holds
<1>6. CASE Receive
  <2>1. PICK m \in ToSet(net) : Receiving(m)
    BY <1>6, ReceiveCases
  <2>2. UNCHANGED <<totals, block, sending>> /\ Current' = Current
    BY <2>1, KeepsBody DEF Receiving, clientVars
  <2>3. /\ ToSet(net') \subseteq ToSet(net)
        /\ \A n \in ToSet(net') : Before(m, n)
    BY <2>1 DEF Receiving, NetInv
  <2>4. ASSUME NEW n \in ToSet(net'), n.block > 0
        PROVE  ~hasData' \/ Holds(n.body, n.block)'
    <3>1. m.body = n.body /\ m.block <= n.block /\ n.block <= m.block + 1 /\ n.block \in Nat
      BY <1>0, <2>3, <2>4 DEF Before
    <3>2. ~hasData \/ Holds(m.body, n.block)
      BY <2>3, <2>4, <3>1 DEF StoredInv
    <3> QED
      BY <2>1, <2>4, <3>1, <3>2, BlockFollows
  <2>5. ASSUME sending, block > 0
        PROVE  ~hasData' \/ Holds(Current, block)'
    <3>1. m.body = Current /\ m.block <= block /\ block <= m.block + 1
      BY <2>5 DEF NetInv
    <3>2. ~hasData \/ Holds(m.body, block)
      BY <2>5, <3>1 DEF StoredInv
    <3>3. ~hasData' \/ Holds(m.body, block)'
      BY <1>0, <2>1, <2>2, <2>5, <3>1, <3>2, BlockFollows
    <3> QED
      BY <2>2, <3>1, <3>3 DEF Holds
  <2>6. ASSUME sending, "2.31" \in replies'
        PROVE  hasData' /\ Holds(Current, block + 1)'
    <3>1. m = Message
      BY <2>1, <2>6, Replies DEF NetInv
    <3>2. m.body = Current /\ m.block = block /\ m.total = totals[Current]
      BY <3>1 DEF Message
    <3>3. CASE ReceiveBlock(m) /\ ~IsLast(m)
      BY <2>2, <3>2, <3>3, BlockStored DEF Holds
    <3>4. CASE ~(ReceiveBlock(m) /\ ~IsLast(m))
      <4>1. "2.31" \in replies
        BY <2>1, <2>6, <3>4, Replies
      <4>2. ~IsLast(m) /\ hasData /\ Holds(Current, block + 1)
        <5>1. block + 1 < totals[Current] /\ totals[Current] \in Nat
          BY <1>0, <2>6, <4>1, TypeFacts DEF ClientInv
        <5> QED
          BY <1>0, <2>6, <3>2, <4>1, <5>1 DEF IsLast, StoredInv
      <4>3. UNCHANGED <<hasData, soFar>>
        BY <2>1, <3>4, <4>2 DEF Receiving, ReceiveSingle, ReceiveWithoutEntry, ReceiveWithoutData,
           serverVars
      <4> QED
        BY <2>2, <4>2, <4>3 DEF Holds
    <3> QED
      BY <3>3, <3>4
  <2> QED
    BY <2>2, <2>4, <2>5, <2>6 DEF StoredInv
<1>7. CASE UNCHANGED vars
  BY <1>7 DEF vars, clientVars, serverVars, StoredInv, Holds, Current
<1> QED
  BY <1>1, <1>2, <1>3, <1>4, <1>5, <1>6, <1>7 DEF Next, Client

----------------------------------------------------------------------------
(* What is handed over *)

LEMMA SameBody ==
  ASSUME NEW b, NEW c, NEW k \in Nat \ {0}, NEW l \in Nat \ {0},
         [i \in 1 .. k |-> b] = [i \in 1 .. l |-> c]
  PROVE  b = c
<1>1. [i \in 1 .. k |-> b][1] = b /\ [i \in 1 .. l |-> c][1] = c
  OBVIOUS
<1> QED
  BY <1>1

LEMMA HandedElements ==
  ASSUME TypeOK
  PROVE  \A w : w \in ToSet(handed) <=> \E i \in 1 .. Len(handed) : handed[i] = w
<1> DEFINE S == Seq(0 .. MaxBodies)
<1>1. handed \in Seq(S)
  BY DEF TypeOK
<1> HIDE DEF S
<1> QED
  BY <1>1, ElementsOfSeq

\* A whole body is a sequence of its number of blocks, and no other body.
LEMMA WholeProperties ==
  ASSUME TypeOK, NEW b \in 1 .. Current
  PROVE  /\ Whole(b) \in Seq(0 .. MaxBodies) /\ Len(Whole(b)) = totals[b]
         /\ \A c \in 1 .. Current : Whole(c) = Whole(b) => c = b
<1>1. \A c \in 1 .. Current : totals[c] \in Nat /\ totals[c] >= 1 /\ c \in 0 .. MaxBodies
  BY TypeFacts
<1>2. ASSUME NEW c \in 1 .. Current
      PROVE  Whole(c) \in Seq(0 .. MaxBodies) /\ Len(Whole(c)) = totals[c]
  <2>1. Whole(c) \in [1 .. totals[c] -> 0 .. MaxBodies]
    BY <1>1 DEF Whole
  <2> QED
    BY <1>1, <2>1, FunctionIsSeq
<1>3. \A c \in 1 .. Current : Whole(c) = Whole(b) => c = b
  BY <1>1, SameBody DEF Whole
<1> QED
  BY <1>2, <1>3

\* The body of m is handed over, whole; if it came in blocks, m was the last
\* one and the buffer is gone.
Hands(m) ==
  /\ handed' = Append(handed, Whole(m.body))
  /\ m.total > 1 => m.block > 0 /\ hasData /\ ~hasData'

LEMMA Handing ==
  ASSUME TypeOK, NetInv, StoredInv, NEW m \in ToSet(net), Receiving(m)
  PROVE  /\ handed' = handed \/ Hands(m)
         /\ "2.00" \in replies' /\ "2.00" \notin replies => sending /\ m = Message /\ Hands(m)
<1>0. /\ m \in Messages /\ m.body \in 1 .. Current /\ m.total = totals[m.body]
      /\ m.block \in Nat /\ m.total \in Nat /\ m.total >= 1 /\ m.block < m.total
  BY TypeFacts DEF NetInv, Bodies
<1>1. ASSUME NEW body, Hand(m, body)
      PROVE  /\ handed' = handed \/ handed' = Append(handed, body)
             /\ "2.00" \in replies' /\ "2.00" \notin replies => handed' = Append(handed, body)
  <2>1. PICK queued \in BOOLEAN :
          /\ handed' = IF queued THEN Append(handed, body) ELSE handed
          /\ Reply(m, Acknowledge(queued))
    BY <1>1 DEF Hand
  <2>2. CASE queued
    BY <2>1, <2>2
  <2>3. CASE ~queued
    BY <2>1, <2>3 DEF Acknowledge, Reply
  <2> QED
    BY <2>2, <2>3
<1>2. CASE ReceiveSingle(m)
  <2>1. <<m.body>> = Whole(m.body)
    BY <1>0, <1>2 DEF ReceiveSingle, Whole
  <2>2. Hand(m, Whole(m.body)) /\ m.total = 1
    BY <1>2, <2>1 DEF ReceiveSingle
  <2> QED
    BY <1>1, <2>2, Replies DEF Hands
<1>3. CASE ReceiveBlock(m) /\ IsLast(m)
  <2>1. m.block > 0 /\ hasData /\ ~hasData' /\ m.block + 1 = m.total
    <3>1. m.total > 1 /\ (m.block = 0 \/ hasData) /\ m.block = m.total - 1
      BY <1>3 DEF ReceiveBlock, IsLast
    <3>2. hasData' = FALSE
      BY <1>3 DEF ReceiveBlock, KeepsData
    <3>3. m.block > 0 /\ m.block + 1 = m.total
      BY <1>0, <3>1
    <3> QED
      BY <3>1, <3>2, <3>3
  <2>2. Holds(m.body, m.block)
    BY <2>1 DEF StoredInv
  <2>3. /\ Placed(m) \in Seq(0 .. MaxBodies) /\ Len(Placed(m)) = m.total
        /\ \A i \in 1 .. m.total : Placed(m)[i] = m.body
    BY <1>0, <2>1, <2>2, PlacedProperties
  <2>4. Placed(m) = [i \in 1 .. m.total |-> m.body]
    BY <2>3 DEF Placed
  <2>5. Hand(m, Whole(m.body))
    BY <1>0, <1>3, <2>4 DEF ReceiveBlock, Whole
  <2> QED
    BY <1>1, <2>1, <2>5, Replies DEF Hands
<1>4. CASE ReceiveBlock(m) /\ ~IsLast(m)
  BY <1>4 DEF ReceiveBlock, Reply
<1>5. CASE ReceiveWithoutEntry(m) \/ ReceiveWithoutData(m)
  BY <1>5 DEF ReceiveWithoutEntry, ReceiveWithoutData, serverVars, Reply
<1> QED
  BY <1>2, <1>3, <1>4, <1>5 DEF Receiving

LEMMA DoneStep ==
  ASSUME TypeOK, ClientInv, NetInv, StoredInv, DoneInv, HandedInv, ~Reorder, [Next]_vars
  PROVE  DoneInv'
<1>0. /\ Current \in Nat /\ block \in Nat
      /\ \A b \in 1 .. Current : totals[b] \in 1 .. MaxBlocks
      /\ \A m \in ToSet(net) : m.body \in 1 .. Current /\ m.block \in Nat
  BY TypeFacts DEF Bodies, NetInv
<1>1. CASE ClientBegin
  <2>1. /\ Current' = Current + 1 /\ UNCHANGED <<net, hasData, handed>>
        /\ \A b \in 1 .. Current : totals'[b] = totals[b] /\ Whole(b)' = Whole(b)
    BY <1>1, BeginFacts DEF serverVars
  <2>2. \A b \in 1 .. Current : Done(b)' <=> Done(b)
    BY <2>1 DEF Done
  <2>3. ASSUME Done(Current)' PROVE FALSE
    <3>1. Whole(Current)' \in ToSet(handed)
      BY <2>1, <2>3 DEF Done
    <3>2. PICK i \in 1 .. Len(handed) : handed[i] = Whole(Current)'
      BY <3>1, HandedElements
    <3>3. PICK b \in 1 .. Current : handed[i] = Whole(b)
      BY DEF HandedInv, GatheredAllBlocks
    <3>4. [j \in 1 .. totals[b] |-> b] = [j \in 1 .. totals'[Current'] |-> Current']
      BY <3>2, <3>3 DEF Whole
    <3>5. totals[b] \in Nat \ {0} /\ totals'[Current'] \in Nat \ {0}
      BY <1>0, <1>1, BeginFacts
    <3>6. b = Current'
      BY <3>4, <3>5, SameBody
    <3> QED
      BY <1>0, <2>1, <3>6
  <2> QED
    BY <1>0, <2>1, <2>2, <2>3 DEF DoneInv
<1>2. CASE ClientSend
  <2>1. /\ UNCHANGED <<totals, block, sending, hasData, handed>> /\ Current' = Current
        /\ sending /\ net' = Append(net, Message) /\ \A b : Whole(b)' = Whole(b)
    BY <1>2, KeepsBody DEF ClientSend, serverVars
  <2>2. Message \in Messages /\ Message.body = Current /\ Message.block = block
    BY <1>0, <1>2 DEF ClientSend, ClientInv, TypeOK, Message, Messages, Bodies, Current
  <2> HIDE DEF Message
  <2>3. ToSet(net') = ToSet(net) \cup {Message}
    BY <2>1, <2>2, AppendedInOrder DEF TypeOK
  <2>4. \A b : Done(b)' <=> Done(b)
    BY <2>1 DEF Done
  <2> QED
    BY <2>1, <2>2, <2>3, <2>4 DEF DoneInv
<1>3. CASE ClientContinue
  <2>1. /\ UNCHANGED <<totals, sending, net, hasData, handed>> /\ Current' = Current
        /\ block' = block + 1 /\ \A b : Whole(b)' = Whole(b)
    BY <1>3, KeepsBody DEF ClientContinue, serverVars
  <2>2. \A b : Done(b)' <=> Done(b)
    BY <2>1 DEF Done
  <2> QED
    BY <1>0, <2>1, <2>2 DEF DoneInv
<1>4. CASE ClientEnd \/ ClientGiveUp
  <2>1. UNCHANGED <<totals, net, hasData, handed>> /\ ~sending' /\ \A b : Whole(b)' = Whole(b)
    BY <1>4, KeepsBody DEF ClientEnd, ClientGiveUp, serverVars
  <2>2. \A b : Done(b)' <=> Done(b)
    BY <2>1 DEF Done
  <2> QED
    BY <2>1, <2>2 DEF DoneInv
<1>5. CASE Lose
  <2>1. /\ UNCHANGED <<totals, block, sending, hasData, handed>> /\ Current' = Current
        /\ \A b : Whole(b)' = Whole(b)
    BY <1>5, KeepsBody DEF Lose, clientVars, serverVars
  <2>2. ToSet(net') \subseteq ToSet(net)
    BY <1>5, RemovedInOrder DEF Lose, TypeOK
  <2>3. \A b : Done(b)' <=> Done(b)
    BY <2>1 DEF Done
  <2> QED
    BY <2>1, <2>2, <2>3 DEF DoneInv
<1>6. CASE Receive
  <2>1. PICK m \in ToSet(net) : Receiving(m)
    BY <1>6, ReceiveCases
  <2>2. UNCHANGED <<totals, block, sending>> /\ Current' = Current /\ \A b : Whole(b)' = Whole(b)
    BY <2>1, KeepsBody DEF Receiving, clientVars
  <2>3. /\ ToSet(net') \subseteq ToSet(net)
        /\ \A n \in ToSet(net') : Before(m, n)
    BY <2>1 DEF Receiving, NetInv
  <2>4. m.total = totals[m.body]
    BY DEF NetInv
  <2>5. ASSUME Done(m.body)
        PROVE  m.block > 0 /\ UNCHANGED <<hasData, handed>>
    <3>1. m.block > 0 /\ ~hasData /\ m.total > 1 /\ totals[m.body] \in Nat
      BY <1>0, <2>4, <2>5 DEF DoneInv, Done
    <3>2. ~ReceiveSingle(m) /\ ~ReceiveBlock(m)
      BY <1>0, <3>1 DEF ReceiveSingle, ReceiveBlock
    <3> QED
      BY <2>1, <3>1, <3>2 DEF Receiving, ReceiveWithoutEntry, ReceiveWithoutData, serverVars
  <2>6. \A b \in 1 .. Current : Done(b)' => Done(b) \/ (b = m.body /\ ~Done(b) /\ Hands(m))
    <3> SUFFICES ASSUME NEW b \in 1 .. Current, Done(b)', ~Done(b)
                 PROVE  b = m.body /\ Hands(m)
      OBVIOUS
    <3>1. totals[b] > 1 /\ Whole(b) \in ToSet(handed') /\ Whole(b) \notin ToSet(handed)
      BY <2>2 DEF Done
    <3>2. Hands(m)
      BY <2>1, <3>1, Handing
    <3>3. ToSet(handed') = ToSet(handed) \cup {Whole(m.body)}
      <4>1. handed \in Seq(Seq(0 .. MaxBodies)) /\ Whole(m.body) \in Seq(0 .. MaxBodies)
        BY <1>0, WholeProperties DEF TypeOK
      <4> QED
        BY <3>2, <4>1, AppendedInOrder DEF Hands
    <3>4. b = m.body
      BY <1>0, <3>1, <3>3, WholeProperties
    <3> QED
      BY <3>2, <3>4
  <2>7. ASSUME NEW n \in ToSet(net'), Done(n.body)'
        PROVE  n.block > 0 /\ ~hasData'
    <3>0. n.body \in 1 .. Current /\ Before(m, n) /\ n.block \in Nat
      BY <1>0, <2>3
    <3>1. CASE Done(n.body)
      <4>1. n.block > 0 /\ ~hasData
        BY <2>3, <3>1 DEF DoneInv
      <4>2. m.body = n.body
        BY <3>0, <4>1 DEF Before
      <4> QED
        BY <2>5, <3>1, <4>1, <4>2
    <3>2. CASE ~Done(n.body)
      <4>1. n.body = m.body /\ Hands(m) /\ totals[n.body] > 1
        BY <2>2, <2>6, <2>7, <3>0, <3>2 DEF Done
      <4>2. m.block > 0 /\ ~hasData'
        BY <2>4, <4>1 DEF Hands
      <4> QED
        BY <1>0, <3>0, <4>1, <4>2 DEF Before
    <3> QED
      BY <3>1, <3>2
  <2>8. ASSUME sending, Done(Current)'
        PROVE  block > 0 /\ ~hasData'
    <3>0. Current \in 1 .. Current
      BY <1>0, <2>8 DEF ClientInv
    <3>1. CASE Done(Current)
      <4>1. block > 0 /\ ~hasData
        BY <2>8, <3>1 DEF DoneInv
      <4>2. m.body = Current
        BY <2>8, <4>1 DEF NetInv
      <4> QED
        BY <2>5, <3>1, <4>1, <4>2
    <3>2. CASE ~Done(Current)
      <4>1. /\ Current = m.body /\ Hands(m)
        BY <2>2, <2>6, <2>8, <3>0, <3>2
      <4>2. totals[m.body] > 1
        BY <2>2, <2>8, <4>1 DEF Done
      <4>3. m.block > 0 /\ ~hasData' /\ m.block <= block
        BY <2>4, <4>1, <4>2 DEF Hands, NetInv
      <4> QED
        BY <1>0, <4>3
    <3> QED
      BY <3>1, <3>2
  <2> QED
    BY <2>2, <2>7, <2>8 DEF DoneInv
<1>7. CASE UNCHANGED vars
  <2>1. /\ UNCHANGED <<totals, block, sending, net, hasData, handed>> /\ Current' = Current
        /\ \A b : Whole(b)' = Whole(b)
    BY <1>7, KeepsBody DEF vars, clientVars, serverVars
  <2>2. \A b : Done(b)' <=> Done(b)
    BY <2>1 DEF Done
  <2> QED
    BY <2>1, <2>2 DEF DoneInv
<1> QED
  BY <1>1, <1>2, <1>3, <1>4, <1>5, <1>6, <1>7 DEF Next, Client

\* A step that appends nothing to handed, and tells no client 2.00.
LEMMA NothingHanded ==
  ASSUME TypeOK, HandedInv, UNCHANGED handed, UNCHANGED outcome, UNCHANGED totals,
         sending' => sending, "2.00" \in replies' => "2.00" \in replies
  PROVE  HandedInv'
<1>1. Current' = Current /\ \A b : Whole(b)' = Whole(b)
  BY KeepsBody
<1> QED
  BY <1>1 DEF HandedInv, GatheredAllBlocks, OkMeansHanded, HandedOnce

LEMMA HandedStep ==
  ASSUME TypeOK, ClientInv, NetInv, StoredInv, DoneInv, HandedInv, [Next]_vars
  PROVE  HandedInv'
<1>0. /\ Current \in Nat /\ Len(handed) \in Nat
      /\ \A b \in 1 .. Current : totals[b] \in 1 .. MaxBlocks
      /\ \A m \in ToSet(net) : m.body \in 1 .. Current /\ m.block \in Nat
  BY TypeFacts, LenProperties DEF Bodies, NetInv, TypeOK
<1>1. CASE ClientBegin
  <2>1. /\ Current' = Current + 1 /\ UNCHANGED handed /\ replies' = {}
        /\ \A b \in 1 .. Current : Whole(b)' = Whole(b)
        /\ outcome' = Append(outcome, "unknown")
    BY <1>1, BeginFacts DEF serverVars
  <2>2. GatheredAllBlocks'
    <3>1. \A i \in 1 .. Len(handed) : \E b \in 1 .. Current' : handed[i] = Whole(b)'
      BY <1>0, <2>1 DEF HandedInv, GatheredAllBlocks
    <3> QED
      BY <2>1, <3>1 DEF GatheredAllBlocks
  <2>3. OkMeansHanded'
    <3>1. /\ \A b \in 1 .. Current : outcome'[b] = outcome[b]
          /\ outcome'[Current'] = "unknown"
      <4>1. outcome \in Seq(Codes \cup {"unknown"}) /\ Len(outcome) = Current
        BY DEF TypeOK
      <4>2. /\ \A b \in 1 .. Len(outcome) : Append(outcome, "unknown")[b] = outcome[b]
            /\ Append(outcome, "unknown")[Len(outcome) + 1] = "unknown"
        BY <4>1, AppendProperties
      <4> QED
        BY <2>1, <4>1, <4>2
    <3>2. ASSUME NEW b \in 1 .. Current', outcome'[b] = "2.00"
          PROVE  \E i \in 1 .. Len(handed) : handed[i] = Whole(b)'
      <4>1. b \in 1 .. Current
        <5>1. b # Current'
          BY <3>1, <3>2
        <5>2. b \in 1 .. Current + 1 /\ b # Current + 1
          BY <2>1, <3>2, <5>1
        <5> QED
          BY <1>0, <5>2
      <4> QED
        BY <2>1, <3>1, <3>2, <4>1 DEF HandedInv, OkMeansHanded
    <3> QED
      BY <2>1, <3>2 DEF OkMeansHanded
  <2> QED
    BY <2>1, <2>2, <2>3 DEF HandedInv, HandedOnce
<1>2. CASE ClientSend \/ ClientContinue \/ ClientGiveUp \/ Lose \/ UNCHANGED vars
  <2>1. /\ UNCHANGED <<handed, outcome, totals>>
        /\ sending' => sending
        /\ "2.00" \in replies' => "2.00" \in replies
    BY <1>2 DEF ClientSend, ClientContinue, ClientGiveUp, Lose, vars, clientVars, serverVars
  <2> QED
    BY <2>1, NothingHanded
<1>3. CASE ClientEnd
  <2>1. PICK code \in replies \ {"2.31"} : outcome' = [outcome EXCEPT ![Current] = code]
    BY <1>3 DEF ClientEnd
  <2>2. /\ UNCHANGED <<totals, handed>> /\ sending /\ ~sending' /\ Current' = Current
        /\ \A b : Whole(b)' = Whole(b)
    BY <1>3, KeepsBody DEF ClientEnd, serverVars
  <2>3. ASSUME NEW b \in 1 .. Current, outcome'[b] = "2.00"
        PROVE  \E i \in 1 .. Len(handed) : handed[i] = Whole(b)
    <3>1. CASE b = Current
      <4>1. "2.00" \in replies
        <5>1. Current \in 1 .. Len(outcome)
          BY <1>0, <2>2 DEF ClientInv, TypeOK
        <5>2. outcome'[Current] = code
          BY <2>1, <5>1, ExceptSeq DEF TypeOK
        <5> QED
          BY <2>3, <3>1, <5>2
      <4> QED
        BY <2>2, <3>1, <4>1, HandedElements DEF HandedInv
    <3>2. CASE b # Current
      <4>1. outcome'[b] = outcome[b]
        BY <2>1, <3>2 DEF TypeOK
      <4> QED
        BY <2>3, <4>1 DEF HandedInv, OkMeansHanded
    <3> QED
      BY <3>1, <3>2
  <2> QED
    BY <2>2, <2>3 DEF HandedInv, GatheredAllBlocks, OkMeansHanded, HandedOnce
<1>4. CASE Receive
  <2>1. PICK m \in ToSet(net) : Receiving(m)
    BY <1>4, ReceiveCases
  <2>2. /\ UNCHANGED <<totals, sending, outcome>> /\ Current' = Current
        /\ \A b : Whole(b)' = Whole(b)
    BY <2>1, KeepsBody DEF Receiving, clientVars
  <2>3. m.total = totals[m.body]
    BY DEF NetInv
  <2>4. CASE ~Hands(m)
    BY <2>1, <2>2, <2>4, Handing, NothingHanded
  <2>5. CASE Hands(m)
    <3>1. /\ Len(handed') = Len(handed) + 1 /\ handed'[Len(handed) + 1] = Whole(m.body)
          /\ \A i \in 1 .. Len(handed) : handed'[i] = handed[i]
          /\ ToSet(handed') = ToSet(handed) \cup {Whole(m.body)}
      <4> DEFINE S == Seq(0 .. MaxBodies)
      <4>1. handed \in Seq(S) /\ Whole(m.body) \in S /\ handed' = Append(handed, Whole(m.body))
        BY <1>0, <2>5, WholeProperties DEF TypeOK, Hands
      <4> HIDE DEF S
      <4> QED
        BY <4>1, AppendProperties, AppendedInOrder
    <3>2. \A i \in 1 .. Len(handed') : i \in 1 .. Len(handed) \/ i = Len(handed) + 1
      BY <1>0, <3>1
    <3>3. GatheredAllBlocks'
      <4>1. \A i \in 1 .. Len(handed') : \E b \in 1 .. Current : handed'[i] = Whole(b)
        BY <1>0, <3>1, <3>2 DEF HandedInv, GatheredAllBlocks
      <4> QED
        BY <2>2, <4>1 DEF GatheredAllBlocks
    <3>4. OkMeansHanded'
      <4>1. ASSUME NEW b \in 1 .. Current, outcome[b] = "2.00"
            PROVE  \E i \in 1 .. Len(handed') : handed'[i] = Whole(b)
        <5>1. PICK i \in 1 .. Len(handed) : handed[i] = Whole(b)
          BY <4>1 DEF HandedInv, OkMeansHanded
        <5>2. i \in 1 .. Len(handed') /\ handed'[i] = Whole(b)
          BY <1>0, <3>1, <5>1
        <5> QED
          BY <5>2
      <4> QED
        BY <2>2, <4>1 DEF OkMeansHanded
    <3>5. ASSUME NEW i \in 1 .. Len(handed), handed[i] = Whole(m.body)
          PROVE  Len(Whole(m.body)) = 1
      <4>1. Whole(m.body) \in ToSet(handed)
        BY <3>5, HandedElements
      <4>2. ~(totals[m.body] > 1)
        <5> SUFFICES ASSUME totals[m.body] > 1 PROVE FALSE
          OBVIOUS
        <5>1. ~hasData
          BY <4>1 DEF DoneInv, Done
        <5> QED
          BY <2>3, <2>5, <5>1 DEF Hands
      <4>3. totals[m.body] = 1 /\ m.body \in 1 .. Current
        BY <1>0, <4>2
      <4>4. Len(Whole(m.body)) = totals[m.body]
        BY <4>3, WholeProperties
      <4> QED
        BY <4>3, <4>4
    <3>6. HandedOnce'
      <4> SUFFICES ASSUME NEW i \in 1 .. Len(handed'), NEW j \in 1 .. Len(handed'),
                          i < j, handed'[i] = handed'[j]
                   PROVE  Len(handed'[i]) = 1
        BY DEF HandedOnce
      <4>1. i \in 1 .. Len(handed) /\ handed'[i] = handed[i]
        BY <1>0, <3>1
      <4>2. CASE j \in 1 .. Len(handed)
        BY <3>1, <4>1, <4>2 DEF HandedInv, HandedOnce
      <4>3. CASE j = Len(handed) + 1
        BY <3>1, <3>5, <4>1, <4>3
      <4> QED
        BY <3>2, <4>2, <4>3
    <3>7. sending /\ "2.00" \in replies' => Whole(Current) \in ToSet(handed')
      <4>1. m = Message => m.body = Current
        BY DEF Message
      <4> QED
        BY <2>1, <3>1, <4>1, Handing DEF HandedInv
    <3> QED
      BY <2>2, <3>3, <3>4, <3>6, <3>7 DEF HandedInv
  <2> QED
    BY <2>4, <2>5
<1> QED
  BY <1>1, <1>2, <1>3, <1>4 DEF Next, Client

----------------------------------------------------------------------------
(* Theorems *)

LEMMA InitInvariant == Init => Inv
<1> SUFFICES ASSUME Init PROVE Inv
  OBVIOUS
<1>1. TypeOK /\ ClientInv
  BY InitTyped
<1>2. ToSet(net) = {} /\ Len(net) = 0
  BY DEF Init, ToSet
<1>3. Len(handed) = 0 /\ ToSet(handed) = {} /\ Current = 0 /\ sending = FALSE
  BY DEF Init, ToSet, Current
<1>4. NetInv /\ StoredInv /\ DoneInv
  BY <1>2, <1>3 DEF NetInv, Ordered, StoredInv, DoneInv
<1>5. HandedInv
  BY <1>3 DEF HandedInv, GatheredAllBlocks, OkMeansHanded, HandedOnce
<1> QED
  BY <1>1, <1>4, <1>5 DEF Inv

LEMMA Invariant == ~Reorder => (Spec => []Inv)
<1> SUFFICES ASSUME ~Reorder PROVE Spec => []Inv
  OBVIOUS
<1>1. Init => Inv
  BY InitInvariant
<1>2. Inv /\ [Next]_vars => Inv'
  BY NextTyped, NetStep, StoredStep, DoneStep, HandedStep DEF Inv
<1> QED
  BY <1>1, <1>2, PTL DEF Spec

\* Whatever the network does, the state keeps its types: the buffer is never
\* longer than a body, and a block is never placed outside it
\* (Resource.cpp:282-286).
THEOREM TypeCorrect == Spec => []TypeOK
<1>1. Init => TypeOK /\ ClientInv
  BY InitTyped
<1>2. TypeOK /\ ClientInv /\ [Next]_vars => (TypeOK /\ ClientInv)'
  BY NextTyped
<1> QED
  BY <1>1, <1>2, PTL DEF Spec

\* When messages keep their order, only whole bodies are handed to the method:
\* a block lost, repeated or left over from an abandoned body never ends up in
\* another one (Resource.cpp:288-301).
THEOREM WholeBodies == ~Reorder => (Spec => []GatheredAllBlocks)
<1> SUFFICES ASSUME ~Reorder PROVE Spec => []GatheredAllBlocks
  OBVIOUS
<1>1. Inv => GatheredAllBlocks
  BY DEF Inv, HandedInv
<1> QED
  BY <1>1, Invariant, PTL

\* When messages keep their order, a client that is told 2.31 finds its blocks
\* in the buffer until it sends the next (Resource.cpp:282-286).
THEOREM ContinueIsTrue == ~Reorder => (Spec => []ContinueMeansStored)
<1> SUFFICES ASSUME ~Reorder PROVE Spec => []ContinueMeansStored
  OBVIOUS
<1>1. Inv => ContinueMeansStored
  BY DEF Inv, StoredInv, Holds, ContinueMeansStored
<1> QED
  BY <1>1, Invariant, PTL

\* When messages keep their order, a client that is told 2.00 has its whole
\* body in the queue (ResourceMethod.cpp:67-73).
THEOREM OkIsTrue == ~Reorder => (Spec => []OkMeansHanded)
<1> SUFFICES ASSUME ~Reorder PROVE Spec => []OkMeansHanded
  OBVIOUS
<1>1. Inv => OkMeansHanded
  BY DEF Inv, HandedInv
<1> QED
  BY <1>1, Invariant, PTL

\* When messages keep their order, a body sent in blocks is handed over at most
\* once: the late copy of its last block finds no buffer (Resource.cpp:291).
THEOREM HandsOnce == ~Reorder => (Spec => []HandedOnce)
<1> SUFFICES ASSUME ~Reorder PROVE Spec => []HandedOnce
  OBVIOUS
<1>1. Inv => HandedOnce
  BY DEF Inv, HandedInv
<1> QED
  BY <1>1, Invariant, PTL
=============================================================================
