------------------------ MODULE CommandRunner_proofs ------------------------
(***************************************************************************)
(* Theorems about the treatment of a queue item, for any payload, command, *)
(* output, number of formatters and size of the pipes: types, the entry of *)
(* a command is all or nothing, no command is left behind, and the value   *)
(* is stored as configured, or not at all when the process ends.           *)
(*                                                                         *)
(* The invariant follows the request thread: how many entries the log has  *)
(* at each position and which of them is stored (TurnInv, StoreInv), where *)
(* each line of the output is, in the entry, in the pipe or not written    *)
(* (OutputInv), and when a command may run (ChildInv).                     *)
(***************************************************************************)
EXTENDS CommandRunner, SequenceTheorems, TLAPS

USE BoundsAssumption

InTurn == rpc \in {"spawn", "write", "wait", "read", "formatted", "crashed"}
InCommand == rpc \in {"spawn", "write", "wait", "read", "crashed"}

\* The turns that have an entry, and the entries of a turn.
Turns == IF InTurn THEN formatted + 1 ELSE formatted
Copies == IF config.cmd /\ config.cmdLogInput THEN 2 ELSE 1

TurnInv ==
  /\ InTurn => formatted < config.formats
  /\ InCommand => config.cmd
  /\ Len(streams) = IF Copies = 2 THEN Turns + Turns ELSE Turns
  /\ rpc = "done" => formatted = config.formats

StoreInv ==
  /\ rpc # "done" =>
       stores = IF config.type = "GET" /\ config.store /\ formatted > 0
                THEN <<FirstResult>> ELSE << >>
  /\ StoredOnce

\* The lines from the first to the last, as ReadLine and ChildWrite move them.
Lines(first, last) == [i \in 1 .. last - first + 1 |-> first + i - 1]

OutputInv ==
  /\ rpc \in {"spawn", "write", "wait"} => Last(streams) = Input
  /\ rpc \in {"write", "wait"} => stdout = Lines(1, written)
  /\ rpc = "read" => LET n == Len(Last(streams)) IN
       /\ n <= written /\ Last(streams) = Lines(1, n)
       /\ stdout = Lines(n + 1, written)
       /\ \A i \in 1 .. n : command.output[i] = "text"
  /\ OutputWhole

ChildInv ==
  /\ written <= Len(command.output)
  /\ rpc \in {"write", "wait", "read"} /\ child = "ended" => written = Len(command.output)
  /\ rpc = "read" => child = "ended"
  /\ rpc \in {"spawn", "crashed"} => child \in {"none", "ended"}
  /\ NoCommandLeft

Inv == TypeOK /\ TurnInv /\ StoreInv /\ OutputInv /\ ChildInv

----------------------------------------------------------------------------
(* Sequences: what the steps do to the log's entries and to the pipe *)

\* The last entry is replaced, as the steps of executeCmd() do.
LEMMA LastReplaced ==
  ASSUME NEW S, NEW s \in Seq(S), s # << >>, NEW e \in S
  PROVE  LET t == Append(Front(s), e)
         IN  t \in Seq(S) /\ Len(t) = Len(s) /\ Last(t) = e
<1>1. Len(s) \in Nat \ {0}
  BY EmptySeq
<1>2. \A i \in 1 .. Len(s) - 1 : s[i] \in S
  BY <1>1, ElementOfSeq
<1>3. Front(s) \in Seq(S)
  BY <1>1, <1>2, SubSeqProperties DEF Front
<1>4. Len(Front(s)) = Len(s) - 1
  <2>1. Len(Front(s)) = IF 1 <= Len(s) - 1 THEN Len(s) - 1 - 1 + 1 ELSE 0
    <3>1. Len(s) - 1 \in Int
      BY <1>1
    <3>2. Len(SubSeq(s, 1, Len(s) - 1)) = IF 1 <= Len(s) - 1 THEN Len(s) - 1 - 1 + 1 ELSE 0
      BY <1>1, <1>2, SubSeqProperties
    <3> QED
      BY <3>2, Zenon DEF Front
  <2> QED
    BY <1>1, <2>1
<1> QED
  BY <1>1, <1>3, <1>4, AppendProperties DEF Last

LEMMA LastInSeq ==
  ASSUME NEW S, NEW s \in Seq(S), s # << >>
  PROVE  Last(s) \in S
BY EmptySeq, ElementOfSeq DEF Last

LEMMA LinesProperties ==
  ASSUME NEW S, NEW f \in Nat \ {0}, NEW l \in Nat, f <= l + 1, f .. l \subseteq S
  PROVE  /\ Lines(f, l) \in Seq(S) /\ Len(Lines(f, l)) = l - f + 1
         /\ \A i \in 1 .. l - f + 1 : Lines(f, l)[i] = f + i - 1
<1>1. Lines(f, l) \in [1 .. l - f + 1 -> S] /\ l - f + 1 \in Nat
  BY DEF Lines
<1> QED
  BY <1>1 DEF Lines

LEMMA LinesAppended ==
  ASSUME NEW f \in Nat \ {0}, NEW l \in Nat, f <= l + 1
  PROVE  Append(Lines(f, l), l + 1) = Lines(f, l + 1)
<1> DEFINE s == Lines(f, l)
<1> DEFINE t == Lines(f, l + 1)
<1>1. s \in Seq(Nat) /\ Len(s) = l - f + 1 /\ \A i \in 1 .. l - f + 1 : s[i] = f + i - 1
  BY LinesProperties, f .. l \subseteq Nat
<1>2. t \in Seq(Nat) /\ Len(t) = l + 1 - f + 1 /\ \A i \in 1 .. l + 1 - f + 1 : t[i] = f + i - 1
  <2> DEFINE m == l + 1
  <2>1. m \in Nat /\ f <= m + 1 /\ f .. m \subseteq Nat
    OBVIOUS
  <2> HIDE DEF m
  <2>2. /\ Lines(f, m) \in Seq(Nat) /\ Len(Lines(f, m)) = m - f + 1
        /\ \A i \in 1 .. m - f + 1 : Lines(f, m)[i] = f + i - 1
    BY <2>1, LinesProperties
  <2> QED
    BY <2>2 DEF m
<1> HIDE DEF s, t
<1> DEFINE a == Append(s, l + 1)
<1>3. /\ a \in Seq(Nat) /\ Len(a) = Len(s) + 1
      /\ \A i \in 1 .. Len(s) : a[i] = s[i]
      /\ a[Len(s) + 1] = l + 1
  BY <1>1, AppendProperties, l + 1 \in Nat
<1> HIDE DEF a
<1>4. ASSUME NEW i \in 1 .. Len(a)
      PROVE  a[i] = t[i]
  <2>1. CASE i = Len(s) + 1
    BY <1>1, <1>2, <1>3, <2>1
  <2>2. CASE i # Len(s) + 1
    <3>1. i \in 1 .. Len(s)
      BY <1>1, <1>3, <2>2
    <3> QED
      BY <1>1, <1>2, <1>3, <3>1
  <2> QED
    BY <2>1, <2>2
<1>5. a = t
  BY <1>1, <1>2, <1>3, <1>4, SeqEqual
<1> QED
  BY <1>5 DEF a, s, t

LEMMA LinesTaken ==
  ASSUME NEW f \in Nat \ {0}, NEW l \in Nat, f <= l + 1, Lines(f, l) # << >>
  PROVE  f <= l /\ Head(Lines(f, l)) = f /\ Tail(Lines(f, l)) = Lines(f + 1, l)
<1> DEFINE s == Lines(f, l)
<1> DEFINE t == Lines(f + 1, l)
<1>1. s \in Seq(Nat) /\ Len(s) = l - f + 1 /\ \A i \in 1 .. l - f + 1 : s[i] = f + i - 1
  BY LinesProperties, f .. l \subseteq Nat
<1>2. f <= l
  <2>1. s # << >> /\ Len(s) # 0
    BY <1>1, EmptySeq
  <2> QED
    BY <1>1, <2>1
<1>3. /\ t \in Seq(Nat) /\ Len(t) = l - (f + 1) + 1
      /\ \A i \in 1 .. l - (f + 1) + 1 : t[i] = f + 1 + i - 1
  <2>1. f + 1 \in Nat \ {0} /\ f + 1 <= l + 1 /\ f + 1 .. l \subseteq Nat
    BY <1>2
  <2> QED
    BY <2>1, LinesProperties
<1> HIDE DEF s, t
<1>4. /\ Tail(s) \in Seq(Nat) /\ Len(Tail(s)) = Len(s) - 1 /\ Head(s) = s[1]
      /\ \A i \in 1 .. Len(Tail(s)) : Tail(s)[i] = s[i + 1]
  BY <1>1, <1>2, HeadTailProperties
<1>5. ASSUME NEW i \in 1 .. Len(Tail(s))
      PROVE  Tail(s)[i] = t[i]
  <2>1. Tail(s)[i] = s[i + 1] /\ i + 1 \in 1 .. l - f + 1
    BY <1>1, <1>4
  <2> QED
    BY <1>1, <1>3, <1>4, <2>1
<1>6. Tail(s) = t
  <2>1. Len(Tail(s)) = Len(t)
    BY <1>1, <1>3, <1>4
  <2> QED
    BY <1>3, <1>4, <1>5, <2>1, SeqEqual
<1> QED
  BY <1>1, <1>2, <1>4, <1>6 DEF s, t

LEMMA LinesLast ==
  ASSUME NEW f \in Nat \ {0}, NEW l \in Nat, f <= l + 1, Lines(f, l) = << >>
  PROVE  l + 1 = f
<1>1. Len(Lines(f, l)) = l - f + 1
  BY LinesProperties, f .. l \subseteq Nat
<1>2. Len(Lines(f, l)) = 0
  BY EmptySeq
<1> QED
  BY <1>1, <1>2

LEMMA NoLines == Lines(1, 0) = << >>
<1>1. Lines(1, 0) \in Seq(Nat) /\ Len(Lines(1, 0)) = 0 - 1 + 1
  BY LinesProperties, 1 .. 0 \subseteq Nat
<1> QED
  BY <1>1, EmptySeq

----------------------------------------------------------------------------
(* What the types say of commands, entries and the log *)

Entry == Seq(0 .. MaxLines)

LEMMA OutputProperties ==
  ASSUME NEW c \in Commands
  PROVE  /\ Len(c.output) \in 0 .. MaxLines
         /\ \A i \in 1 .. Len(c.output) : c.output[i] \in {"text", "empty"}
<1>1. c.output \in Outputs
  BY DEF Commands
<1>2. PICK n \in 0 .. MaxLines : c.output \in [1 .. n -> {"text", "empty"}]
  BY <1>1 DEF Outputs
<1>3. c.output \in Seq({"text", "empty"}) /\ Len(c.output) = n
  BY <1>2
<1> QED
  BY <1>2, <1>3

LEMMA EntriesProperties ==
  /\ Input \in Entry /\ << >> \in Entry
  /\ Entries \in Seq(Entry) /\ Len(Entries) = Copies
  /\ \A i \in 1 .. Copies : Entries[i] = Input
<1>1. Input \in Entry /\ << >> \in Entry
  BY DEF Input, Entry
<1> HIDE DEF Input, Entry
<1>2. CASE config.cmd /\ config.cmdLogInput
  BY <1>1, <1>2 DEF Entries, Copies
<1>3. CASE ~(config.cmd /\ config.cmdLogInput)
  BY <1>1, <1>3 DEF Entries, Copies
<1> QED
  BY <1>1, <1>2, <1>3

\* A turn has an entry, and a command's turn is the first.
LEMMA TurnProperties ==
  ASSUME TypeOK, TurnInv
  PROVE  /\ formatted \in Nat /\ streams \in Seq(Entry) /\ stores \in Seq(Entry)
         /\ Copies \in {1, 2} /\ FirstResult = streams[Copies]
         /\ Len(streams) \in Nat /\ (Copies <= Len(streams) \/ (formatted = 0 /\ ~InTurn))
         /\ InTurn => /\ streams # << >> /\ Last(streams) \in Entry
                      /\ formatted = 0 => Last(streams) = FirstResult
         /\ InCommand => formatted = 0
<1>1. /\ formatted \in Nat /\ streams \in Seq(Entry) /\ stores \in Seq(Entry)
      /\ Copies \in {1, 2} /\ FirstResult = streams[Copies]
  BY DEF TypeOK, Configs, Entry, Copies, FirstResult
<1>2. /\ Len(streams) \in Nat
      /\ Len(streams) = IF Copies = 2 THEN Turns + Turns ELSE Turns
  BY <1>1, LenProperties DEF TurnInv
<1>3. Copies <= Len(streams) \/ (formatted = 0 /\ ~InTurn)
  BY <1>1, <1>2 DEF Turns
<1>4. InTurn => Len(streams) > 0
  BY <1>1, <1>3
<1>5. InTurn => streams # << >> /\ Last(streams) \in Entry
  BY <1>1, <1>4, LastInSeq, EmptySeq
<1>6. InTurn /\ formatted = 0 => Last(streams) = FirstResult
  BY <1>1, <1>2 DEF Turns, Last
<1>7. InCommand => formatted = 0
  BY <1>1 DEF TypeOK, Configs, TurnInv, InTurn, InCommand
<1> QED
  BY <1>1, <1>2, <1>3, <1>5, <1>6, <1>7

----------------------------------------------------------------------------
(* The steps *)

LEMMA InitInv == Init => Inv
<1> SUFFICES ASSUME Init PROVE Inv
  OBVIOUS
<1>1. << >> \in Outputs
  <2>1. << >> \in [1 .. 0 -> {"text", "empty"}] /\ 0 \in 0 .. MaxLines
    OBVIOUS
  <2> QED
    BY <2>1 DEF Outputs
<1>2. Idle \in Commands /\ Len(Idle.output) = 0
  BY <1>1 DEF Idle, Commands
<1>3. TypeOK
  <2>1. config \in Configs /\ 0 \in 0 .. config.formats
    BY DEF Init, Configs
  <2>2. streams \in Seq(Seq(0 .. MaxLines)) /\ stores \in Seq(Seq(0 .. MaxLines))
    BY DEF Init
  <2>3. stdout \in Seq(1 .. MaxLines) /\ Len(stdout) <= PipeSize
    BY DEF Init
  <2>4. toWrite \in 0 .. data /\ stdin \in 0 .. PipeSize /\ written \in 0 .. MaxLines
    BY DEF Init
  <2> QED
    BY <1>2, <2>1, <2>2, <2>3, <2>4 DEF Init, TypeOK
<1>4. config.type \in {"GET", "PUT"} /\ config.formats \in Nat
  BY DEF Init, Configs
<1> QED
  BY <1>2, <1>3, <1>4 DEF Init, Inv, TurnInv, InTurn, InCommand, Turns, StoreInv, StoredOnce,
     OutputInv, OutputWhole, ChildInv, NoCommandLeft

\* The steps that leave the log and the stored values alone and stay where
\* they are, come to the wait or end the process: they move what is in the
\* pipes.
Moves ==
  \/ SpawnThrows \/ WriteStdin \/ CloseStdin \/ WriteRaisesSigpipe \/ Expire
  \/ ChildRead \/ ChildTurns \/ ChildEnd

LEMMA MovesStep == Inv /\ Moves => Inv'
<1> SUFFICES ASSUME Inv, Moves PROVE Inv'
  OBVIOUS
<1>1. UNCHANGED <<config, data, formatted, streams, stores, command, stdout, written>>
  BY DEF Moves, SpawnThrows, WriteStdin, CloseStdin, WriteRaisesSigpipe, Expire, ChildRead, ChildTurns,
     ChildEnd, item, results, process, pipes
<1>2. \/ rpc' = rpc
      \/ rpc = "write" /\ rpc' = "wait"
      \/ rpc \in {"spawn", "write"} /\ rpc' = "crashed"
  BY DEF Moves, SpawnThrows, WriteStdin, CloseStdin, WriteRaisesSigpipe, Expire, ChildRead, ChildTurns, ChildEnd
<1>3. TypeOK'
  <2>1. toWrite' \in 0 .. data' /\ stdin' \in 0 .. PipeSize
    <3>1. toWrite \in Int /\ data \in Int /\ stdin \in Int
      BY DEF Inv, TypeOK
    <3> QED
      BY <1>1, <3>1 DEF Moves, SpawnThrows, WriteStdin, CloseStdin, WriteRaisesSigpipe, Expire, ChildRead,
         ChildTurns, ChildEnd, Inv, TypeOK, item, results, process, pipes
  <2>2. /\ timer' \in {"off", "running", "expired"} /\ eof' \in BOOLEAN /\ holder' \in BOOLEAN
        /\ child' \in {"none", "reading", "writing", "ended"}
    BY DEF Moves, SpawnThrows, WriteStdin, CloseStdin, WriteRaisesSigpipe, Expire, ChildRead, ChildTurns,
       ChildEnd, Inv, TypeOK, Commands, item, results, process, pipes
  <2> QED
    BY <1>1, <1>2, <2>1, <2>2 DEF Inv, TypeOK
<1>4. TurnInv'
  BY <1>1, <1>2 DEF Inv, TurnInv, InTurn, InCommand, Turns, Copies
<1>5. StoreInv'
  <2>1. rpc \in {"spawn", "write"} => stores = << >>
    <3>1. rpc \in {"spawn", "write"} => formatted = 0
      BY TurnProperties DEF Inv, InCommand
    <3> QED
      BY <3>1 DEF Inv, StoreInv
  <2> QED
    BY <1>1, <1>2, <2>1 DEF Inv, StoreInv, StoredOnce, FirstResult
<1>6. OutputInv'
  BY <1>1, <1>2 DEF Inv, OutputInv, OutputWhole, IsFirstParagraph, Lines
<1>7. ChildInv'
  <2>1. CASE UNCHANGED child
    <3>1. rpc' = "crashed" => child = "ended" \/ rpc \in {"spawn", "crashed"}
      BY DEF Moves, SpawnThrows, WriteStdin, CloseStdin, WriteRaisesSigpipe, Expire, ChildRead, ChildTurns, ChildEnd
    <3> QED
      BY <1>1, <1>2, <2>1, <3>1 DEF Inv, ChildInv, NoCommandLeft
  <2>2. CASE ChildTurns \/ ChildEnd
    BY <1>1, <2>2 DEF ChildTurns, ChildEnd, Inv, ChildInv, NoCommandLeft
  <2> QED
    BY <2>1, <2>2 DEF Moves, SpawnThrows, WriteStdin, CloseStdin, WriteRaisesSigpipe, Expire, ChildRead, process
<1> QED
  BY <1>3, <1>4, <1>5, <1>6, <1>7 DEF Inv

LEMMA FormatStep == Inv /\ Format => Inv'
<1> SUFFICES ASSUME Inv, Format PROVE Inv'
  OBVIOUS
<1>1. /\ UNCHANGED <<config, data, formatted, stores, toWrite, timer, command, child, written,
                     holder, stdin, eof, stdout>>
      /\ rpc = "format" /\ formatted < config.formats
      /\ rpc' = IF config.cmd THEN "spawn" ELSE "formatted"
      /\ streams' = streams \o Entries
  BY DEF Format, item, process, pipes
<1>2. /\ formatted \in Nat /\ streams \in Seq(Entry) /\ Copies \in {1, 2}
      /\ FirstResult = streams[Copies]
      /\ Len(streams) \in Nat /\ (Copies <= Len(streams) \/ formatted = 0)
  BY TurnProperties DEF Inv
<1>3. /\ streams' \in Seq(Entry) /\ Len(streams') = Len(streams) + Copies
      /\ \A i \in 1 .. Len(streams) : streams'[i] = streams[i]
      /\ Last(streams') = Input
  <2>1. /\ streams' \in Seq(Entry) /\ Len(streams') = Len(streams) + Copies
        /\ \A i \in 1 .. Len(streams) + Copies :
             streams'[i] = IF i <= Len(streams) THEN streams[i] ELSE Entries[i - Len(streams)]
    BY <1>1, <1>2, EntriesProperties, ConcatProperties
  <2>2. Len(streams') \in 1 .. Len(streams) + Copies /\ ~(Len(streams') <= Len(streams))
        /\ Len(streams') - Len(streams) = Copies /\ Copies \in 1 .. Copies
    BY <1>2, <2>1
  <2>3. Last(streams') = Input
    BY <2>1, <2>2, EntriesProperties DEF Last
  <2>4. \A i \in 1 .. Len(streams) : streams'[i] = streams[i]
    BY <1>2, <2>1
  <2> QED
    BY <2>1, <2>3, <2>4
<1>4. TypeOK'
  BY <1>1, <1>3 DEF Inv, TypeOK, Entry
<1>5. TurnInv'
  BY <1>1, <1>2, <1>3 DEF Inv, TurnInv, InTurn, InCommand, Turns, Copies
<1>6. StoreInv'
  <2>1. formatted > 0 => FirstResult' = FirstResult
    BY <1>1, <1>2, <1>3 DEF FirstResult, Copies
  <2> QED
    BY <1>1, <2>1 DEF Inv, StoreInv, StoredOnce
<1>7. OutputInv' /\ ChildInv'
  BY <1>1, <1>3 DEF Inv, OutputInv, OutputWhole, ChildInv, NoCommandLeft
<1> QED
  BY <1>4, <1>5, <1>6, <1>7 DEF Inv

LEMMA EndTurnStep == Inv /\ EndTurn => Inv'
<1> SUFFICES ASSUME Inv, EndTurn PROVE Inv'
  OBVIOUS
<1>1. /\ UNCHANGED <<config, data, streams, toWrite, timer, command, child, written, holder,
                     stdin, eof, stdout>>
      /\ rpc = "formatted" /\ rpc' = "format"
      /\ stores' = stores \o StoredByTurn /\ formatted' = formatted + 1
  BY DEF EndTurn, item, process, pipes
<1>2. /\ formatted \in Nat /\ formatted < config.formats /\ config.formats \in Nat
      /\ stores \in Seq(Entry) /\ Last(streams) \in Entry
      /\ formatted = 0 => Last(streams) = FirstResult
      /\ stores = IF config.type = "GET" /\ config.store /\ formatted > 0
                  THEN <<FirstResult>> ELSE << >>
  BY <1>1, TurnProperties DEF Inv, TurnInv, StoreInv, InTurn, TypeOK, Configs
<1>3. /\ stores' \in Seq(Entry)
      /\ stores' = IF config.type = "GET" /\ config.store THEN <<FirstResult>> ELSE << >>
  <2>1. CASE config.type = "GET" /\ config.store /\ formatted = 0
    <3>1. stores' = << >> \o <<Last(streams)>> /\ <<Last(streams)>> \in Seq(Entry)
      BY <1>1, <1>2, <2>1 DEF StoredByTurn
    <3> QED
      BY <1>2, <2>1, <3>1, ConcatEmptySeq
  <2>2. CASE ~(config.type = "GET" /\ config.store /\ formatted = 0)
    <3>1. stores' = stores
      BY <1>1, <1>2, <2>2, ConcatEmptySeq DEF StoredByTurn
    <3>2. config.type = "GET" /\ config.store => formatted > 0
      BY <1>2, <2>2
    <3> QED
      BY <1>2, <3>1, <3>2
  <2> QED
    BY <2>1, <2>2
<1>4. TypeOK'
  BY <1>1, <1>2, <1>3 DEF Inv, TypeOK, Entry
<1>5. TurnInv'
  BY <1>1, <1>2 DEF Inv, TurnInv, InTurn, InCommand, Turns, Copies
<1>6. StoreInv'
  <2>1. FirstResult' = FirstResult /\ formatted' > 0
    BY <1>1, <1>2 DEF FirstResult
  <2> QED
    BY <1>1, <1>3, <2>1 DEF StoreInv, StoredOnce
<1>7. OutputInv' /\ ChildInv'
  BY <1>1 DEF Inv, OutputInv, OutputWhole, ChildInv, NoCommandLeft
<1> QED
  BY <1>4, <1>5, <1>6, <1>7 DEF Inv

LEMMA FinishStep == Inv /\ Finish => Inv'
<1> SUFFICES ASSUME Inv, Finish PROVE Inv'
  OBVIOUS
<1>1. /\ UNCHANGED <<config, data, formatted, streams, toWrite, timer, command, child, written,
                     holder, stdin, eof, stdout>>
      /\ rpc = "format" /\ rpc' = "done" /\ formatted = config.formats
      /\ stores' = IF config.type = "PUT" /\ config.store THEN Append(stores, Input) ELSE stores
  BY DEF Finish, item, process, pipes
<1>2. /\ config.formats \in Nat /\ config.type \in {"GET", "PUT"} /\ stores \in Seq(Entry)
      /\ stores = IF config.type = "GET" /\ config.store /\ formatted > 0
                  THEN <<FirstResult>> ELSE << >>
  BY <1>1 DEF Inv, StoreInv, TypeOK, Configs, Entry
<1>3. TypeOK'
  <2>1. stores' \in Seq(Entry)
    BY <1>1, <1>2, AppendProperties, EntriesProperties
  <2> QED
    BY <1>1, <2>1 DEF Inv, TypeOK, Entry
<1>4. TurnInv'
  BY <1>1 DEF Inv, TurnInv, InTurn, InCommand, Turns, Copies
<1>5. StoreInv'
  <2>1. config.type = "PUT" /\ config.store => stores' = <<Input>>
    <3>1. Append(<< >>, Input) = <<Input>>
      BY DEF Input
    <3> QED
      BY <1>1, <1>2, <3>1
  <2>2. FirstResult' = FirstResult /\ (formatted > 0 <=> config.formats # 0)
    BY <1>1, <1>2 DEF FirstResult
  <2> QED
    BY <1>1, <1>2, <2>1, <2>2 DEF StoreInv, StoredOnce
<1>6. OutputInv' /\ ChildInv'
  BY <1>1 DEF Inv, OutputInv, OutputWhole, ChildInv, NoCommandLeft
<1> QED
  BY <1>3, <1>4, <1>5, <1>6 DEF Inv

LEMMA SpawnStep == Inv /\ Spawn => Inv'
<1> SUFFICES ASSUME Inv, Spawn PROVE Inv'
  OBVIOUS
<1>1. /\ UNCHANGED <<config, data, formatted, streams, stores, timer>>
      /\ rpc = "spawn" /\ rpc' = "write" /\ command' \in Commands
      /\ child' = "reading" /\ written' = 0 /\ holder' = FALSE
      /\ stdin' = 0 /\ eof' = FALSE /\ stdout' = << >>
      /\ toWrite' = IF config.cmdStdin THEN data ELSE 0
  BY DEF Spawn, item, results
<1>2. Len(command'.output) \in 0 .. MaxLines
  BY <1>1, OutputProperties
<1>3. TypeOK'
  <2>1. toWrite' \in 0 .. data /\ 0 \in 0 .. PipeSize /\ 0 \in 0 .. MaxLines
    BY <1>1 DEF Inv, TypeOK
  <2>2. stdout' \in Seq(1 .. MaxLines) /\ Len(stdout') <= PipeSize
    BY <1>1
  <2> QED
    BY <1>1, <2>1, <2>2 DEF Inv, TypeOK
<1>4. TurnInv' /\ StoreInv'
  BY <1>1 DEF Inv, TurnInv, InTurn, InCommand, Turns, Copies, StoreInv, StoredOnce, FirstResult
<1>5. OutputInv'
  BY <1>1, NoLines DEF Inv, OutputInv, OutputWhole
<1>6. ChildInv'
  BY <1>1, <1>2 DEF ChildInv, NoCommandLeft
<1> QED
  BY <1>3, <1>4, <1>5, <1>6 DEF Inv

\* In a command's turn the log's last entry is replaced, and nothing is
\* stored before the turn is over.
LEMMA EntryReplaced ==
  ASSUME Inv, InCommand, InTurn', NEW e \in Entry,
         UNCHANGED <<config, formatted, stores>>, streams' = Append(Front(streams), e)
  PROVE  /\ streams' \in Seq(Entry) /\ Last(streams') = e
         /\ TurnInv' /\ StoreInv'
<1>1. /\ formatted = 0 /\ streams \in Seq(Entry) /\ streams # << >> /\ InTurn
  BY TurnProperties DEF Inv, InTurn, InCommand
<1>2. streams' \in Seq(Entry) /\ Len(streams') = Len(streams) /\ Last(streams') = e
  BY <1>1, LastReplaced
<1>3. TurnInv'
  BY <1>1, <1>2 DEF Inv, TurnInv, InTurn, InCommand, Turns, Copies
<1>4. StoreInv'
  BY <1>1 DEF Inv, StoreInv, StoredOnce, InTurn, InCommand
<1> QED
  BY <1>2, <1>3, <1>4

LEMMA WaitExitedStep == Inv /\ WaitExited => Inv'
<1> SUFFICES ASSUME Inv, WaitExited PROVE Inv'
  OBVIOUS
<1>1. /\ UNCHANGED <<config, data, formatted, stores, toWrite, command, child, written, holder,
                     stdin, eof, stdout>>
      /\ rpc = "wait" /\ rpc' = "read" /\ child = "ended" /\ timer' = "off"
      /\ streams' = Append(Front(streams), << >>)
  BY DEF WaitExited, item, process, pipes
<1>2. streams' \in Seq(Entry) /\ Last(streams') = << >> /\ TurnInv' /\ StoreInv'
  BY <1>1, EntriesProperties, EntryReplaced DEF InTurn, InCommand
<1>3. TypeOK'
  BY <1>1, <1>2 DEF Inv, TypeOK, Entry
<1>4. OutputInv'
  <2>1. Len(Last(streams')) = 0 /\ 0 <= written /\ 0 + 1 = 1
    BY <1>2 DEF Inv, TypeOK
  <2>2. stdout' = Lines(1, written')
    BY <1>1 DEF Inv, OutputInv
  <2> QED
    BY <1>1, <1>2, <2>1, <2>2, NoLines DEF OutputInv, OutputWhole
<1>5. ChildInv'
  BY <1>1 DEF Inv, ChildInv, NoCommandLeft
<1> QED
  BY <1>2, <1>3, <1>4, <1>5 DEF Inv

LEMMA WaitTimeoutStep == Inv /\ WaitTimeout => Inv'
<1> SUFFICES ASSUME Inv, WaitTimeout PROVE Inv'
  OBVIOUS
<1>1. /\ UNCHANGED <<config, data, formatted, streams, stores, toWrite, command, written, holder,
                     stdin, eof>>
      /\ rpc = "wait" /\ rpc' = "formatted" /\ timer' = "off"
      /\ child' = "ended" /\ stdout' = << >>
  BY DEF WaitTimeout, item, results
<1>2. TypeOK'
  <2>1. stdout' \in Seq(1 .. MaxLines) /\ Len(stdout') <= PipeSize
    BY <1>1
  <2> QED
    BY <1>1, <2>1 DEF Inv, TypeOK
<1>3. TurnInv' /\ StoreInv'
  BY <1>1 DEF Inv, TurnInv, InTurn, InCommand, Turns, Copies, StoreInv, StoredOnce, FirstResult
<1>4. OutputInv' /\ ChildInv'
  BY <1>1 DEF Inv, OutputInv, OutputWhole, ChildInv, NoCommandLeft
<1> QED
  BY <1>2, <1>3, <1>4 DEF Inv

\* While the output is read, the lines are shared by the entry and the pipe.
LEMMA ReadLines ==
  ASSUME Inv, rpc = "read", NEW n, n = Len(Last(streams))
  PROVE  /\ n \in Nat /\ written \in Nat /\ n <= written /\ written = Len(command.output)
         /\ Last(streams) = [i \in 1 .. n |-> i] /\ Last(streams) = Lines(1, n)
         /\ stdout = Lines(n + 1, written)
         /\ \A i \in 1 .. n : command.output[i] = "text"
<1>1. n \in Nat /\ written \in Nat
  BY TurnProperties, LenProperties DEF Inv, InTurn, Entry, TypeOK
<1>2. Lines(1, n) = [i \in 1 .. n |-> i]
  BY <1>1 DEF Lines
<1> QED
  BY <1>1, <1>2 DEF Inv, OutputInv, ChildInv

LEMMA ReadLineStep == Inv /\ ReadLine => Inv'
<1> SUFFICES ASSUME Inv, ReadLine PROVE Inv'
  OBVIOUS
<1> DEFINE n == Len(Last(streams))
<1>1. /\ UNCHANGED <<config, data, formatted, stores, toWrite, timer, command, child, written,
                     holder, stdin, eof>>
      /\ rpc = "read" /\ stdout # << >> /\ stdout' = Tail(stdout)
  BY DEF ReadLine, item, process
<1>2. /\ n \in Nat /\ written \in Nat /\ n <= written /\ written = Len(command.output)
      /\ Last(streams) = [i \in 1 .. n |-> i] /\ Last(streams) = Lines(1, n)
      /\ stdout = Lines(n + 1, written)
      /\ \A i \in 1 .. n : command.output[i] = "text"
  BY <1>1, ReadLines
<1> HIDE DEF n
<1>3. n + 1 <= written /\ Head(stdout) = n + 1 /\ stdout' = Lines(n + 1 + 1, written)
  BY <1>1, <1>2, LinesTaken
<1>4. stdout' \in Seq(1 .. MaxLines) /\ Len(stdout') <= PipeSize
  <2>1. stdout \in Seq(1 .. MaxLines) /\ Len(stdout) <= PipeSize
    BY DEF Inv, TypeOK
  <2>2. Len(stdout) \in Nat
    BY <2>1, LenProperties
  <2> QED
    BY <1>1, <2>1, <2>2, HeadTailProperties
<1>5. ChildInv'
  BY <1>1, <1>2 DEF ReadLine, Inv, ChildInv, NoCommandLeft
<1>6. CASE command.output[n + 1] = "empty"
  <2>1. rpc' = "formatted" /\ UNCHANGED streams
    BY <1>3, <1>6 DEF ReadLine
  <2>2. TypeOK' /\ TurnInv' /\ StoreInv'
    BY <1>1, <1>4, <2>1 DEF Inv, TypeOK, TurnInv, InTurn, InCommand, Turns, Copies, StoreInv,
       StoredOnce, FirstResult
  <2>3. IsFirstParagraph(Last(streams))
    BY <1>2, <1>3, <1>6 DEF IsFirstParagraph, n
  <2>4. OutputInv'
    BY <1>1, <2>1, <2>3 DEF OutputInv, OutputWhole, IsFirstParagraph
  <2> QED
    BY <1>5, <2>2, <2>4 DEF Inv
<1>7. CASE command.output[n + 1] # "empty"
  <2>1. rpc' = rpc /\ streams' = Append(Front(streams), Append(Last(streams), n + 1))
    BY <1>3, <1>7 DEF ReadLine
  <2>2. command \in Commands /\ n + 1 \in 1 .. Len(command.output) /\ n + 1 \in 0 .. MaxLines
    BY <1>2, <1>3, OutputProperties DEF Inv, TypeOK
  <2>3. Append(Last(streams), n + 1) \in Entry
    BY <1>1, <2>2, TurnProperties, AppendProperties DEF Inv, InTurn, Entry
  <2>4. /\ streams' \in Seq(Entry) /\ TurnInv' /\ StoreInv'
        /\ Last(streams') = Append(Last(streams), n + 1)
    BY <1>1, <2>1, <2>3, EntryReplaced DEF InTurn, InCommand
  <2>5. TypeOK'
    BY <1>1, <1>4, <2>1, <2>4 DEF Inv, TypeOK, Entry
  <2>6. Last(streams') = Lines(1, n + 1) /\ Len(Last(streams')) = n + 1
    <3>1. Append(Lines(1, n), n + 1) = Lines(1, n + 1)
      <4>1. n \in Nat /\ 1 \in Nat \ {0} /\ 1 <= n + 1
        BY <1>2
      <4> QED
        BY <4>1, LinesAppended
    <3>2. Lines(1, n) \in Seq(Nat) /\ Len(Lines(1, n)) = n
      BY <1>2, LinesProperties, 1 .. n \subseteq Nat
    <3>3. Len(Append(Lines(1, n), n + 1)) = n + 1
      BY <1>2, <3>2, AppendProperties
    <3> QED
      BY <1>2, <2>4, <3>1, <3>3
  <2>7. \A i \in 1 .. n + 1 : command.output[i] = "text"
    BY <1>2, <1>7, <2>2, OutputProperties
  <2>8. OutputInv'
    BY <1>1, <1>2, <1>3, <2>1, <2>6, <2>7 DEF OutputInv, OutputWhole
  <2> QED
    BY <1>5, <2>4, <2>5, <2>8 DEF Inv
<1> QED
  BY <1>6, <1>7

LEMMA ReadEndStep == Inv /\ ReadEnd => Inv'
<1> SUFFICES ASSUME Inv, ReadEnd PROVE Inv'
  OBVIOUS
<1> DEFINE n == Len(Last(streams))
<1>1. /\ UNCHANGED <<config, data, formatted, streams, stores, toWrite, timer, command, child,
                     written, holder, stdin, eof, stdout>>
      /\ rpc = "read" /\ rpc' = "formatted" /\ stdout = << >>
  BY DEF ReadEnd, item, results, process, pipes
<1>2. /\ n \in Nat /\ written \in Nat /\ n <= written /\ written = Len(command.output)
      /\ Last(streams) = [i \in 1 .. n |-> i] /\ Last(streams) = Lines(1, n)
      /\ stdout = Lines(n + 1, written)
      /\ \A i \in 1 .. n : command.output[i] = "text"
  BY <1>1, ReadLines
<1> HIDE DEF n
<1>3. n = written
  BY <1>1, <1>2, LinesLast
<1>4. IsFirstParagraph(Last(streams))
  BY <1>2, <1>3 DEF IsFirstParagraph, n
<1>5. TypeOK' /\ TurnInv' /\ StoreInv'
  BY <1>1 DEF Inv, TypeOK, TurnInv, InTurn, InCommand, Turns, Copies, StoreInv, StoredOnce,
     FirstResult
<1>6. OutputInv' /\ ChildInv'
  BY <1>1, <1>4 DEF Inv, OutputInv, OutputWhole, IsFirstParagraph, ChildInv, NoCommandLeft
<1> QED
  BY <1>5, <1>6 DEF Inv

LEMMA ChildWriteStep == Inv /\ ChildWrite => Inv'
<1> SUFFICES ASSUME Inv, ChildWrite PROVE Inv'
  OBVIOUS
<1>1. /\ UNCHANGED <<config, data, formatted, streams, stores, rpc, toWrite, timer, command, child,
                     holder, stdin, eof>>
      /\ child = "writing" /\ written < Len(command.output) /\ Len(stdout) < PipeSize
      /\ stdout' = Append(stdout, written + 1) /\ written' = written + 1
  BY DEF ChildWrite, item, results
<1>2. rpc \in {"write", "wait"}
  BY <1>1 DEF Inv, TypeOK, ChildInv, NoCommandLeft
<1>3. written \in Nat /\ Len(command.output) \in 0 .. MaxLines
  BY OutputProperties DEF Inv, TypeOK
<1>4. stdout' = Lines(1, written')
  BY <1>1, <1>2, <1>3, LinesAppended DEF Inv, OutputInv
<1>5. TypeOK'
  <2>1. written' \in 1 .. MaxLines
    BY <1>1, <1>3
  <2>2. stdout' \in Seq(1 .. MaxLines) /\ Len(stdout') = Len(stdout) + 1 /\ Len(stdout) \in Nat
    BY <1>1, <2>1, AppendProperties, LenProperties DEF Inv, TypeOK
  <2> QED
    BY <1>1, <2>1, <2>2 DEF Inv, TypeOK
<1>6. TurnInv' /\ StoreInv'
  BY <1>1 DEF Inv, TurnInv, InTurn, InCommand, Turns, Copies, StoreInv, StoredOnce, FirstResult
<1>7. OutputInv'
  BY <1>1, <1>2, <1>4 DEF Inv, OutputInv, OutputWhole
<1>8. ChildInv'
  BY <1>1, <1>2, <1>3 DEF Inv, ChildInv, NoCommandLeft
<1> QED
  BY <1>5, <1>6, <1>7, <1>8 DEF Inv

LEMMA Invariant == Spec => []Inv
<1>1. Inv /\ [Next]_vars => Inv'
  <2> SUFFICES ASSUME Inv, [Next]_vars PROVE Inv'
    OBVIOUS
  <2>1. CASE UNCHANGED vars
    BY <2>1 DEF vars, item, results, process, pipes, Inv, TypeOK, TurnInv, InTurn, InCommand, Turns,
       Copies, StoreInv, StoredOnce, FirstResult, OutputInv, OutputWhole, IsFirstParagraph, ChildInv,
       NoCommandLeft
  <2> QED
    BY <2>1, FormatStep, EndTurnStep, FinishStep, SpawnStep, WaitExitedStep, WaitTimeoutStep,
       ReadLineStep, ReadEndStep, ChildWriteStep, MovesStep
       DEF Next, RequestThread, Child, Moves
<1> QED
  BY InitInv, <1>1, PTL DEF Spec

----------------------------------------------------------------------------
(* Theorems *)

\* The types of the request thread's variables, the pipes and the command.
THEOREM TypeCorrect == Spec => []TypeOK
BY Invariant, PTL DEF Inv

\* The entry of a run is the untouched input or the whole first paragraph of
\* the output, wherever timeout, end of the command and end of file meet
\* (ResourceMethod.cpp:112-124).
THEOREM EntryAllOrNothing == Spec => []OutputWhole
<1>1. Inv => OutputWhole
  BY DEF Inv, OutputInv
<1> QED
  BY <1>1, Invariant, PTL

\* No command outlives its turn (ResourceMethod.cpp:112-126).
THEOREM CommandsEnd == Spec => []NoCommandLeft
<1>1. Inv => NoCommandLeft
  BY DEF Inv, ChildInv
<1> QED
  BY <1>1, Invariant, PTL

\* An item that is done was stored as it is configured to be, once, also when
\* its commands failed, hung or timed out; when a command that cannot be
\* started or ends before its input ends the process, nothing of the item
\* was stored (ResourceMethod.cpp:99-105, 160-163, 182-189).
THEOREM StoresAsConfigured == Spec => []StoredOnce
<1>1. Inv => StoredOnce
  BY DEF Inv, StoreInv
<1> QED
  BY <1>1, Invariant, PTL
=============================================================================
