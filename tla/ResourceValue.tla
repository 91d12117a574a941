--------------------------- MODULE ResourceValue ---------------------------
(***************************************************************************)
(* One resource whose value is backed by a data file: setValue(),          *)
(* getValue() and valueUpdate() of src/Resource.cpp, called by different   *)
(* threads of src/main.cpp, and another program that rewrites the file.    *)
(*                                                                         *)
(*   - main() attaches the resource: it reads the file, or creates it with *)
(*     the configured initial value;                                       *)
(*   - then the request thread calls setValue(), the value update thread   *)
(*     polls with valueUpdate(), and libcoap, on the main thread, answers  *)
(*     the observers of the resource with getValue().                      *)
(*                                                                         *)
(* valueLock is held for one assignment or copy only and nothing is called *)
(* under it: such a section is one step.  Steps under dataFileLock are     *)
(* apart, because the other program does not take that lock.               *)
(***************************************************************************)
EXTENDS Naturals

CONSTANTS
  MaxSets,      \* bound on the calls of setValue() by requests
  MaxExternal,  \* bound on the writes of the file by another program
  FineClock     \* whether two writes of the file never share a time stamp

ASSUME MaxSetsAssumption == MaxSets \in Nat
ASSUME MaxExternalAssumption == MaxExternal \in Nat
ASSUME FineClockAssumption == FineClock \in BOOLEAN

VARIABLES
  phase,      \* "new", "attaching" (main() in attach()) or "serving"
  exists,     \* whether the data file exists
  value,      \* the resource's value
  file,       \* the content of the data file
  mtime,      \* the data file's modification time
  dataFileWriteTime,
  dataFileLock,  \* its holder: "free", "set" or "update"
  spc,        \* position in setValue()
  arg,        \* setValue()'s argument
  upc,        \* position in valueUpdate()
  readTime,   \* valueUpdate()'s mtime
  fileSize,   \* valueUpdate()'s fileSize
  data,       \* valueUpdate()'s data
  dirty,      \* libcoap has a notification to send
  seen,       \* what an observer knows of the value
  epc,        \* position of the other program
  sets,       \* number of setValue() calls by requests
  externals,  \* number of writes by the other program
  crossed,    \* valueUpdate() assigned between setValue()'s value and file
  swallowed   \* the other program wrote between setValue()'s open and stamp

fileVars == <<exists, file, mtime>>
setVars == <<spc, arg, sets>>
updateVars == <<upc, readTime, fileSize, data>>
observeVars == <<dirty, seen>>
externalVars == <<epc, externals>>
historyVars == <<crossed, swallowed>>

vars == <<phase, value, dataFileWriteTime, dataFileLock, fileVars, setVars,
          updateVars, observeVars, externalVars, historyVars>>

(***************************************************************************)
(* A content is the number of the write it comes from and a length: with   *)
(* the length of that write it is intact, otherwise cut or over-read.      *)
(* Number 0 is the configured initial value; requests write 1 .. MaxSets,  *)
(* the other program has the numbers after these, the first one being what *)
(* the file holds before the server starts.                                *)
(***************************************************************************)
Writes == 0 .. MaxSets + MaxExternal + 1
Torn == MaxSets + MaxExternal + 2
Size(w) == 1 + (w % 2)
Contents == [of : Writes \cup {Torn}, size : 0 .. 2]

Whole(w) == [of |-> w, size |-> Size(w)]
Empty(w) == [of |-> w, size |-> 0]

\* A mistake a change could make: opening the file to append.
OverwrittenAppend(old, w, n) == [of |-> w, size |-> old.size + n]

\* write(2) at offset 0: what lies beyond the n bytes stays.
Overwritten(old, w, n) ==
  IF old.size <= n THEN [of |-> w, size |-> n] ELSE [of |-> Torn, size |-> old.size]

\* read(2) into n bytes that are zero: a file shorter than that by now does
\* not fill them.
ReadOf(old, n) ==
  [of |-> IF old.size < n THEN Torn ELSE old.of, size |-> n]

\* A write stamps the file; on a coarse clock the stamp may not change.
Touch == mtime' \in IF FineClock THEN {mtime + 1} ELSE {mtime, mtime + 1}

Init ==
  /\ phase = "new"
  /\ exists \in BOOLEAN
  /\ value = Empty(0)
  /\ file = IF exists THEN Whole(MaxSets + 1) ELSE Empty(0)
  /\ mtime = 1
  /\ dataFileWriteTime = 0
  /\ dataFileLock = "free"
  /\ spc = "idle" /\ arg = 0 /\ sets = 0
  /\ upc = "idle" /\ readTime = 0 /\ fileSize = 0 /\ data = Empty(0)
  /\ dirty = FALSE /\ seen = value
  /\ epc = "idle" /\ externals = 0
  /\ crossed = FALSE /\ swallowed = FALSE

----------------------------------------------------------------------------
(* Mistakes a change of the code could make, one for a definition below. *)

SetNotifyNobody ==
  /\ spc = "notify"
  /\ spc' = "lock"
  /\ UNCHANGED <<phase, value, dataFileWriteTime, dataFileLock, arg, sets, fileVars,
                 updateVars, observeVars, externalVars, historyVars>>

UpdateStampNow ==
  /\ upc = "stamp"
  /\ dataFileWriteTime' = mtime
  /\ dataFileLock' = "free"
  /\ upc' = "idle"
  /\ UNCHANGED <<phase, value, readTime, fileSize, data, fileVars, setVars,
                 observeVars, externalVars, historyVars>>

UpdateCompareTolerant ==
  /\ upc = "compare"
  /\ upc' = IF readTime <= dataFileWriteTime + 1 THEN "idle" ELSE "lock"
  /\ UNCHANGED <<phase, value, dataFileWriteTime, dataFileLock, readTime,
                 fileSize, data, fileVars, setVars, observeVars,
                 externalVars, historyVars>>

----------------------------------------------------------------------------
(* attach(), on the main thread before the others know the resource *)

\* "Set last update time to an hour ago to force a read."
AttachFile ==
  /\ phase = "new"
  /\ exists
  /\ phase' = "attaching"
  /\ dataFileWriteTime' = 0
  /\ upc' = "stat"
  /\ UNCHANGED <<value, dataFileLock, readTime, fileSize, data, fileVars,
                 setVars, observeVars, externalVars, historyVars>>

AttachInitialValue ==
  /\ phase = "new"
  /\ ~exists
  /\ phase' = "attaching"
  /\ arg' = 0
  /\ value' = Whole(0)
  /\ spc' = "notify"
  /\ UNCHANGED <<dataFileWriteTime, dataFileLock, sets, fileVars, updateVars,
                 observeVars, externalVars, historyVars>>

AttachReturn ==
  /\ phase = "attaching"
  /\ spc = "idle"
  /\ upc = "idle"
  /\ phase' = "serving"
  /\ UNCHANGED <<value, dataFileWriteTime, dataFileLock, fileVars, setVars,
                 updateVars, observeVars, externalVars, historyVars>>

----------------------------------------------------------------------------
(* setValue(), on the request thread *)

SetStore ==
  /\ phase = "serving"
  /\ spc = "idle"
  /\ sets < MaxSets
  /\ sets' = sets + 1
  /\ arg' = sets + 1
  /\ value' = Whole(sets + 1)
  /\ spc' = "notify"
  /\ crossed' = FALSE
  /\ UNCHANGED <<phase, dataFileWriteTime, dataFileLock, fileVars, updateVars,
                 observeVars, externalVars, swallowed>>

SetNotify ==
  /\ spc = "notify"
  /\ dirty' = TRUE
  /\ spc' = "lock"
  /\ UNCHANGED <<phase, value, dataFileWriteTime, dataFileLock, arg, sets, fileVars,
                 updateVars, seen, externalVars, historyVars>>

SetLock ==
  /\ spc = "lock"
  /\ dataFileLock = "free"
  /\ dataFileLock' = "set"
  /\ spc' = "open"
  /\ UNCHANGED <<phase, value, dataFileWriteTime, arg, sets, fileVars,
                 updateVars, observeVars, externalVars, historyVars>>

SetOpen ==
  /\ spc = "open"
  /\ exists' = TRUE
  /\ file' = Empty(arg)
  /\ Touch
  /\ spc' = "write"
  /\ swallowed' = FALSE
  /\ UNCHANGED <<phase, value, dataFileWriteTime, dataFileLock, arg, sets,
                 updateVars, observeVars, externalVars, crossed>>

\* The bytes of the argument, but as many as the value has by now.
SetWrite ==
  /\ spc = "write"
  /\ file' = Overwritten(file, arg, value.size)
  /\ Touch
  /\ spc' = "stamp"
  /\ UNCHANGED <<phase, value, exists, dataFileWriteTime, dataFileLock, arg, sets,
                 updateVars, observeVars, externalVars, historyVars>>

SetStamp ==
  /\ spc = "stamp"
  /\ dataFileWriteTime' = mtime
  /\ dataFileLock' = "free"
  /\ spc' = "idle"
  /\ UNCHANGED <<phase, value, arg, sets, fileVars,
                 updateVars, observeVars, externalVars, historyVars>>

----------------------------------------------------------------------------
(* valueUpdate(), on the value update thread *)

UpdateCall ==
  /\ phase = "serving"
  /\ upc = "idle"
  /\ exists
  /\ upc' = "stat"
  /\ UNCHANGED <<phase, value, dataFileWriteTime, dataFileLock, readTime,
                 fileSize, data, fileVars, setVars, observeVars,
                 externalVars, historyVars>>

UpdateStat ==
  /\ upc = "stat"
  /\ readTime' = mtime
  /\ upc' = "compare"
  /\ UNCHANGED <<phase, value, dataFileWriteTime, dataFileLock, fileSize, data,
                 fileVars, setVars, observeVars, externalVars, historyVars>>

UpdateCompare ==
  /\ upc = "compare"
  /\ upc' = IF readTime <= dataFileWriteTime THEN "idle" ELSE "lock"
  /\ UNCHANGED <<phase, value, dataFileWriteTime, dataFileLock, readTime,
                 fileSize, data, fileVars, setVars, observeVars,
                 externalVars, historyVars>>

UpdateLock ==
  /\ upc = "lock"
  /\ dataFileLock = "free"
  /\ dataFileLock' = "update"
  /\ upc' = "size"
  /\ UNCHANGED <<phase, value, dataFileWriteTime, readTime, fileSize, data,
                 fileVars, setVars, observeVars, externalVars, historyVars>>

UpdateSize ==
  /\ upc = "size"
  /\ fileSize' = file.size
  /\ upc' = "read"
  /\ UNCHANGED <<phase, value, dataFileWriteTime, dataFileLock, readTime, data,
                 fileVars, setVars, observeVars, externalVars, historyVars>>

UpdateRead ==
  /\ upc = "read"
  /\ data' = ReadOf(file, fileSize)
  /\ upc' = "store"
  /\ UNCHANGED <<phase, value, dataFileWriteTime, dataFileLock, readTime, fileSize,
                 fileVars, setVars, observeVars, externalVars, historyVars>>

UpdateStore ==
  /\ upc = "store"
  /\ value' = data
  /\ upc' = "notify"
  /\ crossed' = (crossed \/ spc \in {"notify", "lock"})
  /\ UNCHANGED <<phase, dataFileWriteTime, dataFileLock, readTime, fileSize, data,
                 fileVars, setVars, observeVars, externalVars, swallowed>>

UpdateNotify ==
  /\ upc = "notify"
  /\ dirty' = TRUE
  /\ upc' = "stamp"
  /\ UNCHANGED <<phase, value, dataFileWriteTime, dataFileLock, readTime, fileSize,
                 data, fileVars, setVars, seen, externalVars, historyVars>>

\* The time read before the content: a write in between is newer than it.
UpdateStamp ==
  /\ upc = "stamp"
  /\ dataFileWriteTime' = readTime
  /\ dataFileLock' = "free"
  /\ upc' = "idle"
  /\ UNCHANGED <<phase, value, readTime, fileSize, data, fileVars, setVars,
                 observeVars, externalVars, historyVars>>

----------------------------------------------------------------------------
(* libcoap notifies: it calls the GET handler, which calls getValue(). *)

NotifyObservers ==
  /\ phase = "serving"
  /\ dirty
  /\ dirty' = FALSE
  /\ seen' = value
  /\ UNCHANGED <<phase, value, dataFileWriteTime, dataFileLock, fileVars, setVars,
                 updateVars, externalVars, historyVars>>

----------------------------------------------------------------------------
(* The other program: "echo text > file". *)

ExternalWrite == MaxSets + 1 + externals

InWindow == spc \in {"write", "stamp"}

ExternalOpen ==
  /\ epc = "idle"
  /\ exists
  /\ externals < MaxExternal
  /\ externals' = externals + 1
  /\ file' = Empty(MaxSets + 2 + externals)
  /\ Touch
  /\ epc' = "write"
  /\ swallowed' = (swallowed \/ InWindow)
  /\ UNCHANGED <<phase, value, exists, dataFileWriteTime, dataFileLock, setVars,
                 updateVars, observeVars, crossed>>

ExternalClose ==
  /\ epc = "write"
  /\ file' = Overwritten(file, ExternalWrite, Size(ExternalWrite))
  /\ Touch
  /\ epc' = "idle"
  /\ swallowed' = (swallowed \/ InWindow)
  /\ UNCHANGED <<phase, value, exists, dataFileWriteTime, dataFileLock, setVars,
                 updateVars, observeVars, externals, crossed>>

----------------------------------------------------------------------------
Attach == AttachFile \/ AttachInitialValue \/ AttachReturn
SetSteps == SetNotify \/ SetLock \/ SetOpen \/ SetWrite \/ SetStamp
UpdateSteps == UpdateCall \/ UpdateStat \/ UpdateCompare \/ UpdateLock
               \/ UpdateSize \/ UpdateRead \/ UpdateStore \/ UpdateNotify
               \/ UpdateStamp
External == ExternalOpen \/ ExternalClose

Next ==
  \/ Attach
  \/ SetStore \/ SetSteps
  \/ UpdateSteps
  \/ NotifyObservers
  \/ External

Spec == Init /\ [][Next]_vars

(***************************************************************************)
(* No thread stops inside the resource, the value update thread polls for  *)
(* ever, and a mutex that is free in the end is granted in the end.        *)
(***************************************************************************)
Fairness ==
  /\ WF_vars(Attach)
  /\ WF_vars(SetSteps)
  /\ WF_vars(UpdateSteps)
  /\ WF_vars(NotifyObservers)

FairSpec == Spec /\ Fairness

----------------------------------------------------------------------------
(* Properties *)

\* Types of the resource's members and of the locals of its operations.
TypeOK ==
  /\ phase \in {"new", "attaching", "serving"}
  /\ exists \in BOOLEAN
  /\ value \in Contents
  /\ file \in Contents
  /\ mtime \in Nat
  /\ dataFileWriteTime \in Nat
  /\ dataFileLock \in {"free", "set", "update"}
  /\ spc \in {"idle", "notify", "lock", "open", "write", "stamp"}
  /\ arg \in 0 .. MaxSets
  /\ upc \in {"idle", "stat", "compare", "lock", "size", "read", "store",
              "notify", "stamp"}
  /\ readTime \in Nat
  /\ fileSize \in 0 .. 2
  /\ data \in Contents
  /\ dirty \in BOOLEAN
  /\ seen \in Contents
  /\ epc \in {"idle", "write"}
  /\ sets \in 0 .. MaxSets
  /\ externals \in 0 .. MaxExternal
  /\ crossed \in BOOLEAN
  /\ swallowed \in BOOLEAN

\* An observer that has been notified knows the value: every store of it is
\* followed by a notification (Resource.cpp:149-154, 201-206), whatever the
\* two threads that store do in between.
ObserversCurrent ==
  ~dirty /\ spc # "notify" /\ upc # "notify" => seen = value

Quiescent == phase = "serving" /\ spc = "idle" /\ upc = "idle"

\* Value and data file agree, or valueUpdate() still has a newer file to
\* read: the two come apart only through the two windows that crossed and
\* swallowed name, not by any other order of setValue(), valueUpdate() and
\* writes of another program (Resource.cpp:162, 182-183, 208).
AgreeOrPending ==
  Quiescent /\ ~crossed /\ ~swallowed
    => value = file \/ mtime > dataFileWriteTime

\* Both kinds of changes reach the value: once they stop, the value stays
\* what the file holds, unless one of the two windows was hit.
Converges == <>[](value = file \/ crossed \/ swallowed)

\* Resource.cpp:210: the lock is kept "so an asynchronous call to setValue
\* does not mess anything up".
SetValueUndisturbed ==
  Quiescent /\ ~swallowed => value = file \/ mtime > dataFileWriteTime

----------------------------------------------------------------------------
(* The inductive invariant behind AgreeOrPending, when FineClock holds.    *)

\* Who is where decides who holds dataFileLock.
LockInv ==
  /\ spc \in {"open", "write", "stamp"} <=> dataFileLock = "set"
  /\ upc \in {"size", "read", "store", "notify", "stamp"}
       <=> dataFileLock = "update"
  /\ phase = "new" => spc = "idle" /\ upc = "idle"

\* No recorded time is ahead of the file's, and attach() starts behind it.
TimeInv ==
  /\ 0 < mtime
  /\ dataFileWriteTime <= mtime
  /\ upc \notin {"idle", "stat"} => readTime <= mtime

\* Unless a window was hit, what setValue() still has to write, or has
\* written, is the value.
SetInv ==
  /\ spc # "idle" /\ ~crossed => value = Whole(arg)
  /\ spc = "write" /\ ~swallowed => file = Empty(arg)
  /\ spc = "stamp" /\ ~crossed /\ ~swallowed => file = Whole(arg)

\* What valueUpdate() has read is still the file's content, or the file is
\* newer than the time it will be stamped with.
UpdateInv ==
  /\ upc = "read" => fileSize = file.size \/ mtime > readTime
  /\ upc = "store" => data = file \/ mtime > readTime
  /\ upc \in {"notify", "stamp"} /\ spc = "idle"
       => value = file \/ mtime > readTime

\* AgreeOrPending, also while valueUpdate() has not taken the lock yet.
AgreeInv ==
  /\ spc = "idle" /\ upc \in {"idle", "stat", "compare", "lock"}
  /\ ~crossed /\ ~swallowed
  => value = file \/ mtime > dataFileWriteTime

\* The order of the steps under dataFileLock (Resource.cpp:156-165, 188-212)
\* keeps value, data file and time stamp in step.
DataFileInv == LockInv /\ TimeInv /\ SetInv /\ UpdateInv /\ AgreeInv
=============================================================================
