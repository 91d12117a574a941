--------------------------- MODULE CommandRunner ---------------------------
(***************************************************************************)
(* One item of the request queue on the request thread:                    *)
(* ResourceMethod::handleRequestQueueItem() and executeCmd()               *)
(* (src/ResourceMethod.cpp), with each command as a process of its own.    *)
(*                                                                         *)
(* The item is decoded once per formatter; each decoding is an entry for   *)
(* the log, and the input of one run of the command.  Thread and command   *)
(* are connected by two pipes of bounded size.  What a command does        *)
(* (external) is any member of Commands.                                   *)
(*                                                                         *)
(* Data: the payload is a number of units; an output is a sequence of      *)
(* lines, each empty or not, and a line that was written is the number of  *)
(* its position in it.                                                     *)
(***************************************************************************)
EXTENDS Naturals, Sequences, SequencesExt

CONSTANTS
  PipeSize,     \* units or lines that a pipe holds
  MaxData,      \* bound on the size of the payload
  MaxLines,     \* bound on the lines a command writes
  MaxFormats    \* bound on the formatters of a method

ASSUME BoundsAssumption ==
  PipeSize \in Nat /\ MaxData \in Nat /\ MaxLines \in Nat /\ MaxFormats \in Nat

\* A command reads its input to the end or not at all, then writes output,
\* then ends or never does, leaving a process that keeps its output open.
Outputs == UNION {[1 .. n -> {"text", "empty"}] : n \in 0 .. MaxLines}
Commands == [reads : BOOLEAN, output : Outputs, ends : BOOLEAN, detaches : BOOLEAN]

\* A method with a command has one formatter (Config.cpp:184-189).
Configs ==
  {c \in [type : {"GET", "PUT"}, formats : 0 .. MaxFormats, cmd : BOOLEAN,
          cmdStdin : BOOLEAN, cmdLogInput : BOOLEAN, store : BOOLEAN] :
     c.cmd => c.formats = 1}

\* An entry of the log: the decoded input, or the lines of an output.
Input == <<0>>

VARIABLES
  config,     \* ResourceMethodConfig, as far as it is used here
  data,       \* units of the payload
  formatted,  \* formatters whose turn is over
  streams,    \* sss, the entries to log
  stores,     \* the arguments of setValue(), in order
  rpc,        \* position of the request thread
  toWrite,    \* units still to be written to the command
  timer,      \* wait_for()'s: "off", "running" or "expired"
  command,    \* the command that runs, or ran last
  child,      \* its process: "none", "reading", "writing" or "ended"
  stdin,      \* units in the pipe to it
  eof,        \* whether that pipe's writing end is closed
  stdout,     \* lines in the pipe from it
  written,    \* lines it has written
  holder      \* whether a process it left keeps the pipe from it open

item == <<config, data>>
results == <<formatted, streams, stores>>
process == <<command, child, written, holder>>
pipes == <<stdin, eof, stdout>>
vars == <<item, results, rpc, toWrite, timer, process, pipes>>

Idle == [reads |-> FALSE, output |-> << >>, ends |-> TRUE, detaches |-> FALSE]

Init ==
  /\ config \in Configs
  /\ data \in 0 .. MaxData
  /\ formatted = 0 /\ streams = << >> /\ stores = << >>
  /\ rpc = "format" /\ toWrite = 0 /\ timer = "off"
  /\ command = Idle /\ child = "none" /\ written = 0 /\ holder = FALSE
  /\ stdin = 0 /\ eof = TRUE /\ stdout = << >>

----------------------------------------------------------------------------
(* Mistakes a change of the code could make.  No specification uses them:  *)
(* each replaces one definition below to show which property notices it.   *)

\* Every formatter's result is stored.
StoredByEveryTurn ==
  IF config.type = "GET" /\ config.store THEN <<Last(streams)>> ELSE << >>

\* The payload is written whole and not counted down.
WriteStdinWhole ==
  /\ rpc = "write" /\ toWrite > 0
  /\ child # "ended"
  /\ stdin' = stdin + toWrite
  /\ toWrite' = 0
  /\ UNCHANGED <<item, results, rpc, timer, process, eof, stdout>>

\* The wait has no limit.
CloseStdinUntimed ==
  /\ rpc = "write" /\ toWrite = 0
  /\ eof' = TRUE
  /\ rpc' = "wait"
  /\ UNCHANGED <<item, results, toWrite, timer, process, stdin, stdout>>

\* The entry is emptied before the wait.
WaitTimeoutEmptied ==
  /\ rpc = "wait"
  /\ timer = "expired"
  /\ timer' = "off"
  /\ child' = "ended" /\ stdout' = << >>
  /\ streams' = Append(Front(streams), << >>)
  /\ rpc' = "formatted"
  /\ UNCHANGED <<item, formatted, stores, toWrite, command, written, holder, stdin, eof>>

\* The command is detached when its time is over.
WaitTimeoutDetached ==
  /\ rpc = "wait"
  /\ timer = "expired"
  /\ timer' = "off"
  /\ rpc' = "formatted"
  /\ UNCHANGED <<item, results, toWrite, process, pipes>>

----------------------------------------------------------------------------
(* handleRequestQueueItem(): the loop over the formatters *)

\* With cmdLogInput the entry is duplicated, and the command gets the copy.
Entries == IF config.cmd /\ config.cmdLogInput THEN <<Input, Input>> ELSE <<Input>>

Format ==
  /\ rpc = "format"
  /\ formatted < config.formats
  /\ streams' = streams \o Entries
  /\ rpc' = IF config.cmd THEN "spawn" ELSE "formatted"
  /\ UNCHANGED <<item, formatted, stores, toWrite, timer, process, pipes>>

\* What the end of one formatter's turn stores: GET, the first one's result.
StoredByTurn ==
  IF config.type = "GET" /\ config.store /\ formatted = 0
  THEN <<Last(streams)>> ELSE << >>

EndTurn ==
  /\ rpc = "formatted"
  /\ stores' = stores \o StoredByTurn
  /\ formatted' = formatted + 1
  /\ rpc' = "format"
  /\ UNCHANGED <<item, streams, toWrite, timer, process, pipes>>

\* PUT and POST store the payload after all commands; then all is logged.
Finish ==
  /\ rpc = "format"
  /\ formatted = config.formats
  /\ stores' = IF config.type = "PUT" /\ config.store
               THEN Append(stores, Input) ELSE stores
  /\ rpc' = "done"
  /\ UNCHANGED <<item, formatted, streams, toWrite, timer, process, pipes>>

----------------------------------------------------------------------------
(* executeCmd() *)

Spawn ==
  /\ rpc = "spawn"
  /\ command' \in Commands
  /\ child' = "reading" /\ written' = 0 /\ holder' = FALSE
  /\ stdin' = 0 /\ eof' = FALSE /\ stdout' = << >>
  /\ toWrite' = IF config.cmdStdin THEN data ELSE 0
  /\ rpc' = "write"
  /\ UNCHANGED <<item, results, timer>>

\* A command that cannot be started makes the constructor of the child throw,
\* and nobody catches it: the process ends.
SpawnThrows ==
  /\ rpc = "spawn"
  /\ rpc' = "crashed"
  /\ UNCHANGED <<item, results, toWrite, timer, process, pipes>>

\* A write waits for room in the pipe ...
WriteStdin ==
  /\ rpc = "write" /\ toWrite > 0
  /\ child # "ended"
  /\ stdin < PipeSize
  /\ stdin' = stdin + 1
  /\ toWrite' = toWrite - 1
  /\ UNCHANGED <<item, results, rpc, timer, process, eof, stdout>>

\* ... and raises SIGPIPE, which is not ignored and ends the process, when
\* nobody can read it.
WriteRaisesSigpipe ==
  /\ rpc = "write" /\ toWrite > 0
  /\ child = "ended"
  /\ rpc' = "crashed"
  /\ UNCHANGED <<item, results, toWrite, timer, process, pipes>>

CloseStdin ==
  /\ rpc = "write" /\ toWrite = 0
  /\ eof' = TRUE
  /\ timer' = "running"
  /\ rpc' = "wait"
  /\ UNCHANGED <<item, results, toWrite, process, stdin, stdout>>

\* The command has ended in time: its entry is emptied for the output.
WaitExited ==
  /\ rpc = "wait"
  /\ child = "ended"
  /\ timer' = "off"
  /\ streams' = Append(Front(streams), << >>)
  /\ rpc' = "read"
  /\ UNCHANGED <<item, formatted, stores, toWrite, process, pipes>>

\* It has not: return -1.  The entry stays, and the destructors end the
\* command and close its output.
WaitTimeout ==
  /\ rpc = "wait"
  /\ timer = "expired"
  /\ timer' = "off"
  /\ child' = "ended" /\ stdout' = << >>
  /\ rpc' = "formatted"
  /\ UNCHANGED <<item, results, toWrite, command, written, holder, stdin, eof>>

\* getline(), up to the first empty line.  Lines are joined.
ReadLine ==
  /\ rpc = "read" /\ stdout # << >>
  /\ stdout' = Tail(stdout)
  /\ IF command.output[Head(stdout)] = "empty"
     THEN rpc' = "formatted" /\ UNCHANGED streams
     ELSE /\ streams' = Append(Front(streams), Append(Last(streams), Head(stdout)))
          /\ UNCHANGED rpc
  /\ UNCHANGED <<item, formatted, stores, toWrite, timer, process, stdin, eof>>

\* End of file: nothing left, and nobody has the other end open.
ReadEnd ==
  /\ rpc = "read" /\ stdout = << >>
  /\ child = "ended" /\ ~holder
  /\ rpc' = "formatted"
  /\ UNCHANGED <<item, results, toWrite, timer, process, pipes>>

----------------------------------------------------------------------------
(* The clock and the command *)

Expire ==
  /\ timer = "running"
  /\ timer' = "expired"
  /\ UNCHANGED <<item, results, rpc, toWrite, process, pipes>>

ChildRead ==
  /\ child = "reading" /\ command.reads
  /\ stdin > 0
  /\ stdin' = stdin - 1
  /\ UNCHANGED <<item, results, rpc, toWrite, timer, process, eof, stdout>>

ChildTurns ==
  /\ child = "reading"
  /\ command.reads => stdin = 0 /\ eof
  /\ child' = "writing"
  /\ UNCHANGED <<item, results, rpc, toWrite, timer, command, written, holder, pipes>>

ChildWrite ==
  /\ child = "writing"
  /\ written < Len(command.output)
  /\ Len(stdout) < PipeSize
  /\ stdout' = Append(stdout, written + 1)
  /\ written' = written + 1
  /\ UNCHANGED <<item, results, rpc, toWrite, timer, command, child, holder, stdin, eof>>

ChildEnd ==
  /\ child = "writing"
  /\ written = Len(command.output) /\ command.ends
  /\ child' = "ended"
  /\ holder' = command.detaches
  /\ UNCHANGED <<item, results, rpc, toWrite, timer, command, written, pipes>>

----------------------------------------------------------------------------
RequestThread ==
  \/ Format \/ EndTurn \/ Finish
  \/ Spawn \/ SpawnThrows
  \/ WriteStdin \/ WriteRaisesSigpipe \/ CloseStdin
  \/ WaitExited \/ WaitTimeout
  \/ ReadLine \/ ReadEnd

Child == ChildRead \/ ChildTurns \/ ChildWrite \/ ChildEnd

Next == RequestThread \/ Expire \/ Child

Spec == Init /\ [][Next]_vars

\* Processes and threads are scheduled, and time passes.
Fairness == WF_vars(RequestThread) /\ WF_vars(Expire) /\ WF_vars(Child)

FairSpec == Spec /\ Fairness

----------------------------------------------------------------------------
(* Properties *)

\* Types; the entries are the input or line numbers of an output.
TypeOK ==
  /\ config \in Configs /\ data \in 0 .. MaxData
  /\ formatted \in 0 .. config.formats
  /\ streams \in Seq(Seq(0 .. MaxLines))
  /\ stores \in Seq(Seq(0 .. MaxLines))
  /\ rpc \in {"format", "spawn", "write", "wait", "read", "formatted", "done", "crashed"}
  /\ toWrite \in 0 .. data
  /\ timer \in {"off", "running", "expired"}
  /\ command \in Commands
  /\ child \in {"none", "reading", "writing", "ended"}
  /\ stdin \in 0 .. PipeSize /\ eof \in BOOLEAN
  /\ stdout \in Seq(1 .. MaxLines) /\ Len(stdout) <= PipeSize
  /\ written \in 0 .. MaxLines /\ holder \in BOOLEAN

\* The lines before the first empty one, all of them.
IsFirstParagraph(lines) ==
  LET n == Len(lines)
  IN  /\ lines = [i \in 1 .. n |-> i] /\ n <= Len(command.output)
      /\ \A i \in 1 .. n : command.output[i] = "text"
      /\ n < Len(command.output) => command.output[n + 1] = "empty"

\* The entry of a run is all or nothing, whatever the race of the timeout
\* with the command's end (ResourceMethod.cpp:112-124): the untouched input,
\* or the whole first paragraph of the output, never a part of it.
OutputWhole ==
  config.cmd /\ rpc = "formatted" => Last(streams) = Input \/ IsFirstParagraph(Last(streams))

\* No command outlives its turn, so at most one runs at a time and none is
\* left when the request thread goes on polling (ResourceMethod.cpp:112-126).
NoCommandLeft == rpc \in {"format", "formatted", "done"} => child \in {"none", "ended"}

\* When the item is done it was stored as its method says, once: PUT its
\* payload, GET its first entry after the command, also when the command
\* failed, hung until its timeout or printed nothing (ResourceMethod.cpp:
\* 160-163, 182-189).  A command that cannot be started, or that ends before
\* it has taken its input, ends the process instead, and then nothing of the
\* item was stored (ResourceMethod.cpp:99-105).
FirstResult == streams[IF config.cmd /\ config.cmdLogInput THEN 2 ELSE 1]
StoredOnce ==
  /\ rpc = "done" =>
       stores = IF ~config.store THEN << >>
                ELSE IF config.type = "PUT" THEN <<Input>>
                ELSE IF config.formats = 0 THEN << >>
                ELSE <<FirstResult>>
  /\ rpc = "crashed" => stores = << >>

\* From wait_for() on, the request thread is held up for the timeout at
\* most, unless the command leaves a process that keeps its output open
\* (ResourceMethod.cpp:112-124).
WaitBounded == rpc = "wait" ~> (rpc = "format" \/ holder)

\* What the option claims (Config.hpp:36), "Maximum allowed command runtime,
\* in milliseconds": a command that was started is over some time.
RuntimeBounded == rpc = "write" ~> rpc \in {"format", "crashed"}
=============================================================================
