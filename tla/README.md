# A specification of coapserver

TLA+ modules for the CoAP server of this repository, TLC configurations that
check them on small instances, and TLAPS proofs of what matters most for every
instance. Paths below are relative to the repository root.

    tlc -config ResourceValue.cfg ResourceValue.tla      # one run
    tlapm ServerThreads_proofs.tla                       # one set of proofs

`PROJECT.json` lists the runs, the source lines behind each definition, the
hazards of the code with the properties aimed at them, and for each property a
mutated definition that breaks it.

## 1. The system

A process with three threads (`src/main.cpp`) and libcoap:

| Component | State | Operations | Used by |
|---|---|---|---|
| **Request queue** `src/RequestQueue.cpp` | ring `items`, `start`, `end` | `enqueue`, `dequeue`, `count` | main thread enqueues, request thread dequeues, without a lock |
| **Process and threads** `src/main.cpp` | `_exit_now`, the threads | loop of main, of the request thread, of the value update thread; SIGINT handler; joins | everything |
| **Resource value and data file** `src/Resource.cpp` | `value` (`valueLock`), `dataFileWriteTime` and the file (`dataFileLock`) | `attach`, `getValue`, `setValue`, `valueUpdate` | all three threads, other programs through the file |
| **Block-wise bodies** `src/Resource.cpp` | libcoap's cache entry with `data_so_far` | `handleCoAPRequest`, `sessionGetData` | main thread, in libcoap's callback |
| **Request methods** `src/ResourceMethod.cpp` | configuration, formatters | `methodHandler` (main thread), `handleRequestQueueItem` and `executeCmd` (request thread) | resource and queue |
| **Resource set-up and log files** `src/Resource.cpp` | libcoap handlers, log stream | constructor, `attach`, `writeLog` | server start-up, dynamic resources |
| **CoAP server** `src/CoAPServer.cpp` | context, endpoints, security settings | `init`, `setupSecurity`, `resolveAddress`, `logHandler` | start-up |
| **Dynamic resources** `src/CoAPServer.cpp` | list of resources, wildcard resources | `handleDynamicRequest`, `_regexReplace`, `valueUpdate` over the list | main thread and value update thread |
| **Configuration and templates** `src/Config.cpp` | endpoint, resources, templates, instances | JSON constructors, `GenerateResources`, `_TemplateReplace` | start-up, with the command line of `src/main.cpp` |
| **Formatters** `src/ResourceFormatter/` | none | `createResourceFormatter`, `decode` to text, hex, Base64 | resource constructors, request thread |

How they interact. A request reaches `Resource::handleCoAPRequest()` on the
main thread, inside `coap_io_process()`. The body is taken from the PDU, or
gathered block by block. `methodHandler()` answers, and puts a
`RequestQueueItem` with the payload (for GET: with the value) into the queue.
The request thread polls the queue every 10 ms, decodes the payload once per
formatter, runs the command, may `setValue()`, then prints and logs.
`setValue()` stores the value, notifies libcoap's observers and rewrites the
data file. The value update thread polls the data files and stores what other
programs wrote. A notification makes libcoap call the GET handler again, on the
main thread. SIGINT sets a flag that the three loops look at; main joins the
two threads and then destroys server, resources and queue.

What is hard about it:

- *Interleaving.* The queue is lock-free and claims to be safe for one producer
  and one consumer. A value is stored from two threads, with two locks that are
  taken one after the other. libcoap is called from three threads.
- *Ordering.* A request is answered on one thread and treated later on another.
- *Failure.* Requests and blocks are lost, repeated, delayed and abandoned;
  commands hang, end early, print nothing or too much; other programs rewrite
  the data file at any moment; SIGINT comes at any moment.
- *Feedback.* A stored value notifies each observer, each notification calls the
  GET handler, and the GET handler queues a request, on the queue that the next
  value needs.
- *Data.* Configured texts hold references that are replaced in two places, by
  two functions that differ in their errors; a text that means
  nothing must not reach a resource as some other text.
- *Time.* The command's timeout races its end; the file's time stamps tell who
  wrote last.

What makes each component correct:

| Component | Correct means |
|---|---|
| Request queue | a FIFO: nothing lost, doubled or reordered, no slot used by both threads, `dequeue` never throws, everything accepted is taken |
| Threads | nothing is destroyed in use, SIGINT ends the process, PUTs take effect in the order of their answers, what was accepted is treated |
| Value and data file | value and file agree or the newer file is about to be read; observers learn every value |
| Block-wise bodies | only whole bodies are handed over, once, and the answers to the client are true |
| Methods and commands | a log entry is all or nothing, one command at a time and none left behind, a value is stored exactly as configured, or not at all when a command ends the process; the thread gets on |
| Dynamic resources | no resource is updated while it is attached or left out of the walk; one resource for each path, and answers as configured |
| Observers | never told an older value after a newer one; told the last value (the code misses one case, section 6), or given up with an answer that says so; notifications end |
| Start-up | template instances are expanded exactly when their texts mean something; a failure of any step ends the process before it serves |
| Templates | each text is the one that the configuration denotes, and a resource is made of all of them |
| Formatters | a text from which the payload can be read |

## 2. The modules

| Module | Models | Runs | Proofs |
|---|---|---|---|
| `BoundedFifo` | what the queue promises (abstract) | through the next two | |
| `RequestQueue` | the ring, one step per shared access | `RequestQueue`, `_overrun` | `RequestQueue_proofs` |
| `ServerThreads` | `main()`'s threads and signal around one resource, with `BoundedFifo` as the queue | `ServerThreads` | `ServerThreads_proofs` |
| `ResourceValue` | value, data file, observers, another writer | `ResourceValue`, `_crossing` | `ResourceValue_proofs` |
| `BlockTransfer` | block-wise bodies with client and network | `BlockTransfer`, `_repeat` | `BlockTransfer_proofs` |
| `CommandRunner` | a queue item with its commands as processes | `CommandRunner`, `_runtime` | `CommandRunner_proofs` |
| `CoAPServer` | start-up, requests for unknown paths, the list of resources walked by another thread | `CoAPServer` | `CoAPServer_proofs` |
| `Observation` | what observing promises (abstract) | through the next | |
| `Observe` | notification, GET, queue and store as a loop on two threads | `Observe` | `Observe_proofs` |
| `Templates` | `$n` references in texts, as functions, with what they denote | through `Startup` | `Startup_proofs` |
| `Formatters` | the three decoders, as functions, with the inverse notations | through `Startup` | `Startup_proofs` |
| `Startup`, `MCStartup` | command line, configuration, constructors, log entries; its documents | `Startup` | `Startup_proofs` |

Composition. `RequestQueue` implements `BoundedFifo` with capacity
`MaxSize - 1` (`FifoUntilOverrun`, and `FifoSpec` without overruns); `ServerThreads` uses an instance of the same module with the
same capacity, so its steps on the queue are those the ring was shown to make.
`Treat` of `ServerThreads` is `handleRequestQueueItem()` in one step, which
`CommandRunner` shows in detail; its store is the `SetStore` of `ResourceValue`.
`UpdateValues` of `ServerThreads` is the walk that `CoAPServer` shows in detail, and each
`UpdateReturn` of that is a `valueUpdate()` of `ResourceValue`. `Observe`
implements the steps of `Observation`; its main and request thread are those of
`ServerThreads`, and it adds what `ResourceValue` takes for one step, the round
of notifications. `Startup` extends `Templates` and `Formatters` and ends where `CoAPServer` begins: its
`Construct` is the constructor, after which `init()` runs. Its `CreateDynamic` fills in the configuration that
`Create` of `CoAPServer` takes for granted.

In every module a variable or an action has the name of the code where it has
one. The definitions under "Mistakes a change of the code could make" are the
mutated forms that `PROJECT.json` names; no specification uses them.

### RequestQueue

`items`, `start`, `end` are the members; `ppc` and `cpc` the positions of the
two threads; `item` is the consumer's copy. `enqueue()` is `EnqueueRefused` or
`EnqueueBegin` (the full test of line 13), `EnqueueWrite` (18), `EnqueueAdvance`
(19) and `EnqueueWrap` (20-24), and `dequeue()` likewise, because each shared
access can be seen by the other thread. `accepted`, `taken`, `refused` record
what the two threads were told and are the variables of `BoundedFifo`.

The increment and the wrap are two accesses: between them the other thread sees
`start = MaxSize` or `end = MaxSize`. A producer that looks at a full ring
in that window does not recognise it as full. `overrun` records that this
happened. `TimelySpec` is the scheduling in which it does not.

### ServerThreads

`mpc`, `qpc`, `upc` are the positions of the three threads. A PUT is one step
(`HandlePut`), a GET two (`GetBegin`, `GetEnqueue`), because it reads the value
twice (`src/ResourceMethod.cpp:45` and `:49`). A request is a record; payload n
is the number of the request, so that "newer" is "larger". `Signal` may happen
at any moment. `gets` is a history of what GETs answered and queued.

### ResourceValue

Sections under `valueLock` are one assignment each and call nothing: one step.
`dataFileLock` is a variable: its sections read and write a file that another
program changes without it. `spc` and `upc` are the positions in `setValue()`
and `valueUpdate()`. A content is the number of the write it comes from and a
length, since `setValue()` writes the length of the *current* value and the
bytes of its *argument* (line 159): contents may be cut or over-read. An
observer is `dirty` (libcoap has to notify) and `seen`. `attach()` runs first
and calls the same operations.

Two windows are named, and recorded as history:

- `crossed`: `valueUpdate()` assigns between `setValue()`'s assignment and its
  taking of `dataFileLock`;
- `swallowed`: the other program writes between `setValue()`'s open of the file
  and its reading of the time stamp.

### BlockTransfer

`totals`, `block`, `tries`, `sending`, `outcome` are the client's; `net` and
`replies` the network's; `entry`, `hasData`, `soFar` are libcoap's cache entry,
its application data and the buffer; `handed` is what reached
`methodHandler()`. A block is the number of its body; 0 is a block of zeros,
which `resize()` leaves for blocks that never came.

### CommandRunner

`rpc` follows `handleRequestQueueItem()` and `executeCmd()`. A command is any
member of `Commands`: it reads its input or not, writes lines, ends or not, and
may leave a process that keeps its output open. The pipes hold `PipeSize`
units. `streams` is `sss`, the entries for the log, `stores` the arguments of
`setValue()`. Lines are joined without a separator, as line 123 does. The
position `crashed` is the end of the process: by the exception of a command that
cannot be started (`SpawnThrows`), or by SIGPIPE when a command ends before it
has taken its input (`WriteRaisesSigpipe`).

### CoAPServer

`mpc` follows the main thread: `init()` (`Resolve`, `SecurityFails` or
`SecurityReachesContext`, `Endpoint`, `AttachAll` or `InitFails`), then one
request after another. libcoap (external) gives a request to the object in
`table`, or to `handleDynamicRequest()`: `PatternThrows`, `NoPattern`, `BadMethod` or
`GoodMethod`, then `Create` or `CreateThrows`, the two halves of `attach()`,
`Push` and `Forward`. They are steps of their own because the value update
thread (`at`, `updating`) walks `resources` meanwhile. A regular expression is
the set of paths it matches, or `Malformed`: each request for an unknown path
compiles the expressions up to the first that matches, and one that is malformed
throws. `ready`, `updated` and `reply` are histories.

### Observe and Observation

`waiting`, `item`, `qpc` are the queue and the request thread; `mpc`, `client`,
`answer` the main thread in `methodHandler()`; `dirty`, `round`, `observers`
libcoap's; `seen` is what each client was told last, by the answer that
registered it or by a notification. `setValue()` is `Store` and `Notify`,
because its two halves are under different locks and a round may begin between
them. A GET is `HandlerReads` and `HandlerAnswers` or `HandlerFails`: it reads the
value, reads it again into the queue, and if the queue is full it answers 5.00,
with which libcoap gives up the observer.

libcoap is external and modelled as v4.3.0, which `Dockerfile:9` names: a round of
notifications clears the mark of the resource when it ends. `Mark` may be set by
the request thread at any moment; `missed` records for which clients the round
that will clear it has already read the value.

`Observation` has three actions: the value changes, a client is told a value
not older than the one it knows, a client is given up. Its fairness is the
promise: an observer that does not know the value is told it or given up.
`ToldInOrder` is that the steps of `Observe` are steps of `Observation`,
`ObservationKept` that its fairness holds too, which the code does not keep.

### Templates and Formatters

Both are operators only. A text is a sequence of characters, an error the empty
set. `Replaced` is the loop of `_TemplateReplace()` and `_regexReplace()`, written as a
recursive function over the position; the two differ in the indices that are allowed
and in what an error does. The reference, `WellFormed` and `Denoted`, has no
loop: it says of every position which reference it belongs to. A number is
counted modulo `SizeLimit`, as `size_t` counts modulo 2^64. The decoders
compute each character of the text from its position, with shifts and masks
written as `\div` and `%`. `BytesOfText`, `BytesOfHex`, `BytesOfBase64` are the notations'
own definitions, read from the text's side.

### Startup

`phase` follows `main()`: `LineBad`, `HelpAsked`, `FileBad` or `FileRead`, then one
step for each part of `Config`'s constructor (`ReadEndpoint`, `ReadResources`,
`ReadTemplates`, `ReadInstances`), `Expand` for each template instance, `PortRefused` or
`Override`, `Construct` or `ConstructFails`. From there on `CreateDynamic` makes the
resource for a new path and `Log` writes the entry of a request. A step that
throws, or returns from `main()`, is `End`.

A key of a document is a set: empty when it is missing or has the wrong type,
else its value. The functions that read an object are sets in the same way, so
that an error anywhere in it makes the set empty. `InputsAssumption` says of the
documents what JSON and the library that reads it guarantee: texts and arrays are
sequences, a key has at most one value. What `std::stoi()` makes of a port
(`PortNumber`) and what a regular expression matches (`Matches`) are external. `resources`
is the list of the configuration; `created` is the set of resources made for
paths, each with the pattern and the match it was made for. `MCStartup` has the command
lines and the documents: of each mistake at least one, and templates and
patterns in which every text that may hold a reference holds one.

## 3. What the runs show

| Run | Instance | Shows |
|---|---|---|
| `RequestQueue` | ring of 4, 9 requests, every interleaving, fair | until an overrun: `RingInv` (the slots from start to end are the waiting requests, in order), `NoSlotRace`, `NeverThrows`, `NothingLost`, `FifoUntilOverrun` (each step is one of `BoundedFifo`), `EveryAcceptedTaken` |
| `RequestQueue_overrun` | ring of 3, 6 requests | **violation** of `ThreadSafe`, see section 6 |
| `ServerThreads` | ring of 4, 5 requests, fair | `DestroyedUnused`, `LastPutWins`, `LogNotOlderThanAnswer`; `SignalEndsProcess`, `AcceptedIsTreated` |
| `ResourceValue` | 2 PUTs, 2 writes by another program, distinct time stamps, fair | `ObserversCurrent`, `AgreeOrPending`, `Converges`, no deadlock |
| `ResourceValue_crossing` | 2 PUTs, no other program | **violation** of `SetValueUndisturbed` |
| `BlockTransfer` | 3 bodies of up to 3 blocks, 2 tries, order kept | `GatheredAllBlocks`, `ContinueMeansStored`, `OkMeansHanded`, `HandedOnce` |
| `BlockTransfer_repeat` | 1 body | **violation** of `BufferPresent` |
| `CommandRunner` | payload of 0 to 3 units, outputs of 0 to 3 lines, pipes of 2, up to 2 formatters, fair | `OutputWhole`, `NoCommandLeft`, `StoredOnce`, `WaitBounded` |
| `CommandRunner_runtime` | outputs of up to 2 lines, 1 formatter | **violation** of `RuntimeBounded` |
| `CoAPServer` | 2 paths, up to 1 static and 2 dynamic resources, patterns that do not compile among them, every outcome of start-up, fair | `ServesWhole`, `OneResourcePerPath`, `UpdatesReadyOnly`, `AnswersByConfiguration`, `EachIsUpdated` |
| `Observe` | 2 clients, ring of 3, 4 PUTs, 3 registrations, fair | `ToldInOrder` (each step is one of `Observation`), `ToldUnlessMissed`, `Settles` |
| `Startup` | 15 command lines with each of 218 documents (section 2), 2 dynamic resources, 5 payloads | `ConfiguredAsWritten`, `LoggedTextDenotesPayload` |

Why the bounds are enough:

- A ring of 4 slots holds three requests; 9 requests take `start` and `end`
  around it twice, so that every slot is reused and both wraps meet every
  position of the other thread. An overrun needs only a full ring.
- Five requests on a queue of three fill it, refuse, and leave a GET and a PUT
  on either side of each other in every order.
- Two PUTs and two foreign writes give every operation on the file a
  predecessor and a successor of either kind, of either length, in the middle
  of any other. The third actor is `valueUpdate()`, which polls for ever.
- Three bodies: one abandoned, one completed, one after both. Two tries are one
  retransmission. Three blocks have a first, a middle and a last.
- A pipe of 2 with 3 lines or units is one that can be filled, and 2 lines fit
  with a text line on either side of an empty one.
- Two paths and two patterns: a path may match none, one or both, and be new or
  known; the list has up to two elements, so that one is added while the walk
  is before, at or past the last. Requests are not bounded.
- A ring of 3 slots holds two items: a round for two observers fills it, and a
  PUT before, between or after the two costs one of them its place. Four PUTs are
  two that wait, one that is treated and one that was stored or refused before;
  three registrations let a client that was given up come back.
- Every document has at most one mistake, because the first one ends the
  process. An argument list of 12 makes `$12` different from `$1` followed by 2;
  a path with one group makes `$0`, `$1`, `$2` and `$3` the whole, the last, one past the last and too far.
  Numbers wrap at 1000 instead of 2^64, so that `$1002` is `$2`. Payloads have every length
  modulo 3. Longer texts and payloads are the theorems' part.

Deadlock is checked in `ResourceValue`, where two locks are used. The other
runs allow it: their requests are bounded, a server may be idle, a process
ends, and a command may hang.

## 4. Fairness

- The three threads loop and sleep for a bounded time; the scheduler runs them.
  Hence weak fairness of each thread, not of the client, the other program or
  the signal. In `RequestQueue` nothing obliges the producer to begin an
  `enqueue()`; once begun it ends, since nothing in it blocks.
- In `ServerThreads` the main thread is fair for its own steps, not for the
  arrival of requests. The request thread is fair through `Treat`: this assumes
  a command that takes its input and leaves no process behind. `CommandRunner`
  is where that assumption is looked at.
- In `ResourceValue` weak fairness of `setValue()` and `valueUpdate()` covers
  `dataFileLock` too: its holder always gets on, and the lock is free again and
  again only between the polls of one waiter, whose turn weak fairness of the
  whole operation gives it. Notifications are sent by the main thread's loop.
- In `CoAPServer` start-up, a request that was begun, and the walk go on; no
  request need come.
- In `Observe` both threads run, as above; no client need register or send a
  PUT, and libcoap's rounds are part of the main thread's loop.
- `Startup` has only safety properties and no fairness.
- In `CommandRunner` time passes (`Expire`) and a process that can run runs.

## 5. What is proved

All proofs are for every value of the constants that satisfies the assumptions
named in the modules: bounds are natural numbers, sizes positive, inputs of the
types that the program's libraries guarantee. Every invariant
of a passing run is proved, and so are the steps of the two refinements
(`FifoUntilOverrun`, `ToldInOrder`).

**RequestQueue_proofs.** `TypeCorrect`: the indices stay in the ring, whatever
happens. `RingCorrect`: until an overrun `RingInv` holds. It says that the slots from
`First` to `Last` (start and end with the pending wrap done) hold the accepted
requests that were not taken, in order, and which thread is where. `NoSlotRace`,
`NeverThrows`, `NothingLost` do not follow from themselves: each needs to know
what is in the ring. Each action has a lemma; the arithmetic of the wrap is in
`ModSmall`, `ModNext` and `SlotsDistinct`. `SlotsRaceFree`, `DequeueFindsItem`,
`CountCorrect` follow. `FifoSteps`: until an overrun every step is a step
of `BoundedFifo` or a stutter (`end++` is Enqueue, `start++` Dequeue, a failing
full test Refuse, which is where `Held = MaxSize - 1` is needed);
`ImplementsFifo`: `TimelySpec` implements `BoundedFifo`.

**ServerThreads_proofs.** `TypeCorrect` with the order of the queue
(`QueueInv`); `NoUseAfterDestruction` from `JoinInv`. For methods whose GET has no
"store" (`~GetStores`): `PutsInOrder`, `LogFollowsAnswer`, `ThreadsCorrect`. The
strengthening is `ValueInv`: request numbers grow along the queue, a waiting PUT is
newer than the value, and a GET between its two reads has an answer not newer
than the value.

**ResourceValue_proofs.** `TypeCorrect`; `ObserversKnow` with no assumption. With
distinct time stamps (`FineClock`): `DataFileCorrect` and `Agreement`. The
invariant `DataFileInv` has five parts: who holds the lock (`LockInv`), time
stamps (`TimeInv`), what `setValue()` has left to write (`SetInv`), what
`valueUpdate()` has read (`UpdateInv`), and agreement between operations
(`AgreeInv`). Agreement alone is not inductive: in the middle of an operation
value and file differ, and the other four say by how much. There is one lemma
for each part.

**BlockTransfer_proofs.** `TypeCorrect`. When messages keep their order
(`~Reorder`, which a theorem has as its hypothesis because the property fails
without it, section 6): `WholeBodies`, `HandsOnce`, `ContinueIsTrue`, `OkIsTrue`. A
client sends a block only when it was told that the one before is stored, so all
that is on its way is of one body and at most one block behind, or of earlier
bodies before a first block (`NetInv`, kept by every loss and repetition). So the
buffer begins with all the blocks before any that arrives, or there is no
buffer because the body was handed over (`StoredInv`); then it stays gone for the
late copies of the last block (`DoneInv`), and nothing is handed over twice.

**CommandRunner_proofs.** `TypeCorrect`, `EntryAllOrNothing`, `CommandsEnd`,
`StoresAsConfigured`, for any commands, outputs, sizes and moments of the timeout.
The last one says that an item that is done was stored as configured, and that
nothing of it was stored when a command ended the process.
The invariant follows the position of the request thread: how many entries the
log has (`TurnInv`), which of them is stored (`StoreInv`), when a command may run
(`ChildInv`), and where each line of its output is, in the entry, in the pipe or
not yet written (`OutputInv`). The last is what makes an entry whole: what was read
is the beginning of the output, without gaps, up to the line that ends it.

**Startup_proofs.** It has the theorems of three modules.

*Formatters.* `HexDenotes` and `Base64Denotes`: for every payload, of every length,
what the two decoders write denotes the payload. The position of a
character is split into a group and a place in it (`TextOfGroup`), what the
group denotes is arithmetic on three bytes (`GroupBits`, `GroupOf`), and the number of
padding characters is counted as an interval (`PadCount`). `TextDenotes` is the same for
the STRING notation and every payload without a backslash, which has no unique
text: one more byte appends one piece to the text and leaves what the others denote
(`TextGrows`, `ReadBackGrows`). `DecodeDenotes` puts the three together.

*Templates.* `ReplacedDenotes`: the loop of `_TemplateReplace()` and `_regexReplace()`
yields what the text denotes, and an error exactly when a reference stands for
nothing, for every text and any arguments. What the loop has written when it comes to
a position is the denotation of what is before (`Reached`, `LoopStep`). The
furthest position it reaches this way is the end of the text, or that of the
error. This takes the place of an induction over the text; likewise the values of the
recursive functions (`FlattenSeq`, `Replaced`) come from a least position for which
a function of that kind would not exist (`LoopExists`, `FlattenValue`).

*Startup.* `TypeCorrect` and `LogDenotes` from the formats being known of every
resource that is served. `ExpandsRight`: `ReadInv` says of each `phase` what was read and expanded
so far, and that `resources`, `templates` and `instances` are those that the document
gives (`Expanded`: its own resources, then those of the instances up to `expanded`, in order). An `Expand` that
ends the process has found an instance without a meaning; one that goes on has found that
its instance has one, by `ReplacedDenotes` for each of its texts. `GenerateValue` and `FromTemplateValue` say that what `GenerateResources()` makes of an instance
is the instance's part of `Written`, or an error. `Configured`: what is served is
`Written`. Each pattern is a resource of the document itself (`PatternsInv`: what a
template makes is not dynamic), each dynamic resource was made from one for a path it matches (`MadeInv`), so its
texts are those that `ReplacedDenotes` gives (`RegexText`; the index that is let
through past the last group makes no difference to a text that does not use it).

**CoAPServer_proofs.** `ServesOnlyWhole`, `OneForEachPath`, `WalksReadyOnly`,
`AnswersAsConfigured`, `TypeCorrect`, for any finite set of paths,
any configurations in `Configs`, any number of patterns and requests. The
invariant `Inv` follows the main thread. `SetupInv` says what
`init()` has reached at each of its steps, for the code goes on after a failure
and `ServesWhole` is only restored by the tests that come later. `ListInv` says
that `resources` is 1, 2, ... n in the order of construction, without the object
that is being attached (`Listed`); `TableInv` that libcoap's table is its
inverse, except in the half of `attach()` before the object is added to it. `WalkInv` keeps the
walk inside the list: it only grows, and only at its end, which is why the walk
never meets an object that is not attached. `MethodsInv` and `ReplyInv` tie each object to
the pattern it was made from. `PatternOf` is the least pattern that matches; that there
is one comes from the well-foundedness of `<` (`WellFoundedInduction`). `TypeCorrect` bounds the
number of objects by the number of paths (`PathsAssumption`: they are finite), because no two objects have one path.

**Observe_proofs.** `TypeCorrect`; `TellsInOrder`: while GET does not
store, every step is a step of `Observation`, a client being told a value
between the last one and the present one. That needs `OrderInv` (the PUTs that wait
are newer than the value and than the item being stored, and in order) so that the value only grows, and
`ToldInv` (an answer between the two reads of the GET handler is not older than what
any client was told). That an observer is told at last (`ToldUnlessMissed`) is liveness
and stays with the run `Observe`.

`ThreadsInv` and `DataFileInv` are inductive invariants; they are proved
(`ThreadsCorrect`, `DataFileCorrect`) and no run checks them any more, nor
`ExpandsOnlyMeaningful` (`ExpandsRight`).

Only model-checked: what needs fairness, which is beyond the prover
(`EveryAcceptedTaken`, `SignalEndsProcess`, `AcceptedIsTreated`, `Converges`, `WaitBounded`,
`EachIsUpdated`, `ToldUnlessMissed`, `Settles`), and the absence of a deadlock in
`ResourceValue`.

## 6. Where the code and its documentation disagree

Each of the four is shown by a run.

1. `RequestQueue_overrun`. `src/RequestQueue.cpp:33-36` lets the producer see
   `start == maxSize`. Two `enqueue()` calls in that window pass the full test on a
   full ring: they fill the slot that must stay free and the one just dequeued, `end`
   comes round to 0 where `start` is about to wrap to, and the ring reads as empty.
   What waited is lost. `inc/RequestQueue.hpp:39` claims the ring is
   "inherently thread-safe". A start index computed before it is stored would do.
2. `ResourceValue_crossing`. A `valueUpdate()` that waits with old content may
   assign after `setValue()` assigned and before it locked the file: old value,
   new file, and the stamp says that there is nothing to read.
3. `BlockTransfer_repeat`. A repeated last block finds an entry without
   data and is answered 5.00 although the body was accepted: this explains the
   "occasional error" of `src/Resource.cpp:278`.
4. `CommandRunner_runtime`. `cmdTimeout` bounds `wait_for()` only. The input is
   written before it and the output read after it, both without a limit; the
   request thread, and main's join with it, can be held up for ever.

More can be seen by changing a constant or a property, or by reading, and have
no run. Threads and values:

- A notification can be missed. `setValue()` marks the resource for notification on
  the request thread (`src/Resource.cpp:153`) while the main thread may be in a round
  of notifications. When the round has read value 1 for the observer, the
  request thread can store 2 and set the mark, which the end of the round clears
  (libcoap v4.3.0 clears it after its loop over the observers). The observer keeps
  1 until another value is stored, against "Resource observation"
  (`README.md:19`). `ObservationKept` states that promise and fails, with one client,
  one registration and two PUTs; `ToldUnlessMissed` excepts exactly this case.
- The request thread does not look at the queue again when it has seen
  `_exit_now` (`src/main.cpp:87`): a PUT answered 2.00 is dropped.
  `AcceptedIsTreated` excepts the time after the signal for this reason.
- A GET with "store" on an observed resource never comes to rest: the
  notification queues a GET, which stores and notifies. `Settles` and
  `ToldInOrder` fail with `GetStores = TRUE`, the latter because an older
  copy is stored over a newer value and told to a client.
- The last block completes a body whatever the buffer holds
  (`src/Resource.cpp:288`), so a late copy of a block of an abandoned body gets
  into the next one: `GatheredAllBlocks` fails with `Reorder = TRUE`.
- The queue holds `maxSize - 1` requests, `inc/RequestQueue.hpp:46` says
  `maxSize` (`FifoUntilOverrun` has the former as its capacity).
- A GET with "store" writes back the copy it queued, over the newer value of a
  PUT: `LastPutWins` fails with `GetStores = TRUE`.
- Two writes in one tick of the file system's clock have one time stamp, and
  `src/Resource.cpp:183` takes the second for the first: `AgreeOrPending` fails
  with `FineClock = FALSE`. The window `swallowed` has the same effect.
- `src/CoAPServer.cpp:77` takes 0 for a failure of `resolveAddress()`, which
  returns a non-zero error when the resolver fails, and goes on. Whether libcoap binds
  the address that was never filled in is left open (`Endpoint`).
- `src/CoAPServer.cpp:87` goes on to `setupSecurity()` without a context.
- A command that cannot be started ends the server: the constructor of the child
  (`src/ResourceMethod.cpp:99`) throws on the request thread. So does a command that
  ends before it has taken its input, by SIGPIPE (line 105).
- A configured path that is not a regular expression ends the server at the first
  request for a path that no earlier pattern matches (`src/CoAPServer.cpp:278`).
- `src/CoAPServer.cpp:181` looks at the key file where it means the authority's.
- `new Resource()` throws when its log file cannot be opened or a format is unknown; the test for
  a null pointer and its answer 5.00 (`src/CoAPServer.cpp:298-302`) are never
  reached, and one request for a new path ends the server.
- `src/CoAPServer.cpp:305` tests a result of `attach()` that cannot be non-zero:
  `Config` makes no method other than GET, PUT and POST.

Configuration and texts:

- `GenerateResources()` (`src/Config.cpp:276-283`) does not copy `dynamic`: a
  template of a dynamic resource makes ordinary ones. `Written` has this
  exception by name.
- `src/CoAPServer.cpp:249` allows an index one past the last group, which gives
  an empty text where an index beyond it is an error. After an error the resource
  is made all the same, with an empty text.
- A dynamic resource's value, formats and commands are copied without
  replacement, unlike a template's.
- `src/main.cpp:48-50` says that a port is at most 65536 and refuses it, and
  accepts a text such as "5683x".
- The schema wants a format of a template to be one of the three names; the
  code, and the tests, replace references in it.
- ResourceFormatterText does not mark a backslash of the payload, so
  `\x41` in a log entry is four characters or one byte.
- `src/ResourceMethod.cpp:54` copies a path of 255 bytes or more into `buf`
  without its final zero, then takes `strlen()` of it; line 61 ignores that the value did not fit.

## 7. Abstractions

- libcoap is outside the repository: notification is one atomic step, callbacks run
  on the main thread, and one cache entry exists per session and resource.
- Shared variables are accessed atomically and in program order; the code has
  no fences, and what a weaker memory would add is not modelled.
- `resources` is a `std::list` that the main thread appends to without a lock while
  the value update thread walks it (`src/CoAPServer.cpp:310`, `:374`). An element is linked in one step
  in `CoAPServer`: iterators stay valid, but for the language this is a data
  race too, and what the walk could see of a half-linked element is not modelled.
- The data file is rewritten by other programs, never removed, and time stamps
  do not go backwards.
- Sizes 0 of the queue (`% 0`) and 0 of `value` are excluded.
- In `CoAPServer` the constructor has returned. Configured paths are distinct.
  What libcoap makes of an address that was not resolved is open: it is bound or not.
- `coap_get_uri_path()` returns a path: that it may find no memory for it, and the answer
  4.04 for that (`src/CoAPServer.cpp:268-272`), are left out.
- A PUT and a POST are one method in `CoAPServer`.
- In `Startup` a key is missing, of a wrong type (both the empty set) or a value.
  `print`, `store`, timeouts, content types and the like are copied together and are one value;
  the keys of `security` (`src/Config.cpp:113-118`), which are only kept, are left out.
  JSON syntax, the file's reading and what a regular expression matches are external.
- `setValue()` can open the data file for writing. When it cannot, or the file
  is removed under `valueUpdate()`, an exception leaves the thread and ends the process.
- libcoap gives up an observer whose notification is answered with an error, and
  clears the mark of a resource after a round of notifications (v4.3.0).
- `localtime()`, printing and the text of log lines are left out.
- A command is outside: what it does with its environment variables has no
  effect on the server. A process it leaves behind keeps its output open, never
  its input. `wait_for()` returns true once the command has ended.

## 8. Plan

Done: every component of section 1 is modelled but for the parts of `CoAPServer`
that only format or return a constant, and every invariant of the runs is proved.

To be done next, in this order:

1. An abstract register that `ResourceValue` implements outside the two windows, and the proof of its steps.
2. `BlockTransfer` as the implementation of a receiver of whole bodies.

Not modelled, and not planned: build files, images and tests; the log handler
of libcoap and the DTLS callbacks, which keep no state; the size of answers; a memory model
weaker than sequential consistency.
