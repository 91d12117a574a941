----------------------- MODULE ResourceValue_proofs -----------------------
(***************************************************************************)
(* Proofs about ResourceValue, for any number of calls and of writes by    *)
(* the other program: type correctness, that observers are never left with *)
(* an old value, and, when two writes of the file never share a time stamp,*)
(* that value and data file agree or the difference is still to be read.   *)
(*                                                                         *)
(* AgreeOrPending is not inductive: it says nothing of the states between  *)
(* the first and the last step of setValue() and valueUpdate().            *)
(* DataFileInv does, one part per lemma.                                   *)
(***************************************************************************)
EXTENDS ResourceValue, TLAPS

USE DEF fileVars, setVars, updateVars, observeVars, externalVars, historyVars

\* Lengths are between 1 and 2, whatever the write.
LEMMA SizeType ==
  ASSUME NEW w \in Nat
  PROVE  Size(w) \in 1 .. 2
BY DEF Size

\* What a write leaves in the file, and what a read returns, is a content.
LEMMA ContentTypes ==
  /\ \A w \in Writes : Whole(w) \in Contents /\ Empty(w) \in Contents
  /\ \A c \in Contents, w \in Writes, n \in 0 .. 2 :
       Overwritten(c, w, n) \in Contents
  /\ \A c \in Contents, n \in 0 .. 2 : ReadOf(c, n) \in Contents
  /\ \A c \in Contents : c.size \in 0 .. 2
<1>1. \A w \in Writes : w \in Nat /\ Size(w) \in 0 .. 2
  BY SizeType, MaxSetsAssumption, MaxExternalAssumption DEF Writes
<1>2. \A w \in Writes : Whole(w) \in Contents /\ Empty(w) \in Contents
  BY <1>1 DEF Whole, Empty, Contents
<1>3. \A c \in Contents, w \in Writes, n \in 0 .. 2 :
        Overwritten(c, w, n) \in Contents
  BY DEF Overwritten, Contents
<1>4. \A c \in Contents, n \in 0 .. 2 : ReadOf(c, n) \in Contents
  BY DEF ReadOf, Contents
<1>5. QED
  BY <1>2, <1>3, <1>4 DEF Contents

\* The numbers of the writes that the actions name.
LEMMA WriteNumbers ==
  /\ \A n \in 0 .. MaxSets : n \in Writes
  /\ \A n \in 0 .. MaxExternal : MaxSets + 1 + n \in Writes
BY MaxSetsAssumption, MaxExternalAssumption DEF Writes

\* Every step of the threads and of the other program keeps the types.
LEMMA NextTypeOK ==
  ASSUME TypeOK, [Next]_vars
  PROVE  TypeOK'
<1> USE DEF TypeOK
<1>1. CASE AttachFile
  BY <1>1 DEF AttachFile
<1>2. CASE AttachInitialValue
  <2>1. Whole(0) \in Contents
    BY ContentTypes, WriteNumbers, MaxSetsAssumption
  <2>. QED
    BY <1>2, <2>1, MaxSetsAssumption DEF AttachInitialValue
<1>3. CASE AttachReturn
  BY <1>3 DEF AttachReturn
<1>4. CASE SetStore
  <2>1. sets + 1 \in 0 .. MaxSets
    BY <1>4, MaxSetsAssumption DEF SetStore
  <2>2. Whole(sets + 1) \in Contents
    BY <2>1, ContentTypes, WriteNumbers
  <2>. QED
    BY <1>4, <2>1, <2>2 DEF SetStore
<1>5. CASE SetNotify
  BY <1>5 DEF SetNotify
<1>6. CASE SetLock
  BY <1>6 DEF SetLock
<1>7. CASE SetOpen
  <2>1. Empty(arg) \in Contents
    BY ContentTypes, WriteNumbers
  <2>2. mtime' \in Nat
    BY <1>7 DEF SetOpen, Touch
  <2>. QED
    BY <1>7, <2>1, <2>2 DEF SetOpen, Touch
<1>8. CASE SetWrite
  <2>1. Overwritten(file, arg, value.size) \in Contents
    BY ContentTypes, WriteNumbers
  <2>. QED
    BY <1>8, <2>1 DEF SetWrite, Touch
<1>9. CASE SetStamp
  BY <1>9 DEF SetStamp
<1>10. CASE UpdateCall
  BY <1>10 DEF UpdateCall
<1>11. CASE UpdateStat
  BY <1>11 DEF UpdateStat
<1>12. CASE UpdateCompare
  BY <1>12 DEF UpdateCompare
<1>13. CASE UpdateLock
  BY <1>13 DEF UpdateLock
<1>14. CASE UpdateSize
  BY <1>14, ContentTypes DEF UpdateSize
<1>15. CASE UpdateRead
  BY <1>15, ContentTypes DEF UpdateRead
<1>16. CASE UpdateStore
  BY <1>16 DEF UpdateStore
<1>17. CASE UpdateNotify
  BY <1>17 DEF UpdateNotify
<1>18. CASE UpdateStamp
  BY <1>18 DEF UpdateStamp
<1>19. CASE NotifyObservers
  BY <1>19 DEF NotifyObservers
<1>20. CASE ExternalOpen
  <2>1. MaxSets + 2 + externals = MaxSets + 1 + (externals + 1) /\ externals + 1 \in 0 .. MaxExternal
    BY <1>20, MaxSetsAssumption, MaxExternalAssumption DEF ExternalOpen
  <2>2. Empty(MaxSets + 2 + externals) \in Contents
    BY <2>1, ContentTypes, WriteNumbers
  <2>. QED
    BY <1>20, <2>1, <2>2 DEF ExternalOpen, Touch
<1>21. CASE ExternalClose
  <2>1. ExternalWrite \in Writes
    BY WriteNumbers DEF ExternalWrite
  <2>2. Size(ExternalWrite) \in 0 .. 2
    BY <2>1, SizeType, MaxSetsAssumption, MaxExternalAssumption DEF Writes
  <2>3. Overwritten(file, ExternalWrite, Size(ExternalWrite)) \in Contents
    BY <2>1, <2>2, ContentTypes
  <2>. QED
    BY <1>21, <2>1, <2>2, <2>3 DEF ExternalClose, Touch
<1>22. CASE UNCHANGED vars
  BY <1>22 DEF vars
<1>23. QED
  BY <1>1, <1>2, <1>3, <1>4, <1>5, <1>6, <1>7, <1>8, <1>9, <1>10, <1>11, <1>12, <1>13, <1>14, <1>15, <1>16, <1>17, <1>18, <1>19, <1>20, <1>21, <1>22 DEF Next, Attach, SetSteps, UpdateSteps, External

\* dataFileLock is taken and released where its users say.
LEMMA NextLockInv ==
  ASSUME TypeOK, LockInv, [Next]_vars
  PROVE  LockInv'
<1> USE DEF LockInv, TypeOK
<1>1. CASE AttachFile
  BY <1>1 DEF AttachFile
<1>2. CASE AttachInitialValue
  BY <1>2 DEF AttachInitialValue
<1>3. CASE AttachReturn
  BY <1>3 DEF AttachReturn
<1>4. CASE SetStore
  BY <1>4 DEF SetStore
<1>5. CASE SetNotify
  BY <1>5 DEF SetNotify
<1>6. CASE SetLock
  BY <1>6 DEF SetLock
<1>7. CASE SetOpen
  BY <1>7 DEF SetOpen, Touch
<1>8. CASE SetWrite
  BY <1>8 DEF SetWrite, Touch
<1>9. CASE SetStamp
  BY <1>9 DEF SetStamp
<1>10. CASE UpdateCall
  BY <1>10 DEF UpdateCall
<1>11. CASE UpdateStat
  BY <1>11 DEF UpdateStat
<1>12. CASE UpdateCompare
  BY <1>12 DEF UpdateCompare
<1>13. CASE UpdateLock
  BY <1>13 DEF UpdateLock
<1>14. CASE UpdateSize
  BY <1>14 DEF UpdateSize
<1>15. CASE UpdateRead
  BY <1>15 DEF UpdateRead
<1>16. CASE UpdateStore
  BY <1>16 DEF UpdateStore
<1>17. CASE UpdateNotify
  BY <1>17 DEF UpdateNotify
<1>18. CASE UpdateStamp
  BY <1>18 DEF UpdateStamp
<1>19. CASE NotifyObservers
  BY <1>19 DEF NotifyObservers
<1>20. CASE ExternalOpen
  BY <1>20 DEF ExternalOpen, Touch
<1>21. CASE ExternalClose
  BY <1>21 DEF ExternalClose, Touch
<1>22. CASE UNCHANGED vars
  BY <1>22 DEF vars
<1>23. QED
  BY <1>1, <1>2, <1>3, <1>4, <1>5, <1>6, <1>7, <1>8, <1>9, <1>10, <1>11, <1>12, <1>13, <1>14, <1>15, <1>16, <1>17, <1>18, <1>19, <1>20, <1>21, <1>22 DEF Next, Attach, SetSteps, UpdateSteps, External

\* Recorded times stay behind the file's.
LEMMA NextTimeInv ==
  ASSUME FineClock, TypeOK, TimeInv, LockInv, [Next]_vars
  PROVE  TimeInv'
<1> USE DEF TimeInv, TypeOK, LockInv
<1>1. CASE AttachFile
  BY <1>1 DEF AttachFile
<1>2. CASE AttachInitialValue
  BY <1>2 DEF AttachInitialValue
<1>3. CASE AttachReturn
  BY <1>3 DEF AttachReturn
<1>4. CASE SetStore
  BY <1>4 DEF SetStore
<1>5. CASE SetNotify
  BY <1>5 DEF SetNotify
<1>6. CASE SetLock
  BY <1>6 DEF SetLock
<1>7. CASE SetOpen
  BY <1>7 DEF SetOpen, Touch
<1>8. CASE SetWrite
  BY <1>8 DEF SetWrite, Touch
<1>9. CASE SetStamp
  BY <1>9 DEF SetStamp
<1>10. CASE UpdateCall
  BY <1>10 DEF UpdateCall
<1>11. CASE UpdateStat
  BY <1>11 DEF UpdateStat
<1>12. CASE UpdateCompare
  BY <1>12 DEF UpdateCompare
<1>13. CASE UpdateLock
  BY <1>13 DEF UpdateLock
<1>14. CASE UpdateSize
  BY <1>14 DEF UpdateSize
<1>15. CASE UpdateRead
  BY <1>15 DEF UpdateRead
<1>16. CASE UpdateStore
  BY <1>16 DEF UpdateStore
<1>17. CASE UpdateNotify
  BY <1>17 DEF UpdateNotify
<1>18. CASE UpdateStamp
  BY <1>18 DEF UpdateStamp
<1>19. CASE NotifyObservers
  BY <1>19 DEF NotifyObservers
<1>20. CASE ExternalOpen
  BY <1>20 DEF ExternalOpen, Touch
<1>21. CASE ExternalClose
  BY <1>21 DEF ExternalClose, Touch
<1>22. CASE UNCHANGED vars
  BY <1>22 DEF vars
<1>23. QED
  BY <1>1, <1>2, <1>3, <1>4, <1>5, <1>6, <1>7, <1>8, <1>9, <1>10, <1>11, <1>12, <1>13, <1>14, <1>15, <1>16, <1>17, <1>18, <1>19, <1>20, <1>21, <1>22 DEF Next, Attach, SetSteps, UpdateSteps, External

\* setValue() writes what it stored, unless a window is hit.
LEMMA NextSetInv ==
  ASSUME FineClock, TypeOK, LockInv, SetInv, [Next]_vars
  PROVE  SetInv'
<1> USE DEF SetInv, LockInv, TypeOK
<1>1. CASE AttachFile
  BY <1>1 DEF AttachFile
<1>2. CASE AttachInitialValue
  BY <1>2 DEF AttachInitialValue
<1>3. CASE AttachReturn
  BY <1>3 DEF AttachReturn
<1>4. CASE SetStore
  BY <1>4 DEF SetStore
<1>5. CASE SetNotify
  BY <1>5 DEF SetNotify
<1>6. CASE SetLock
  BY <1>6 DEF SetLock
<1>7. CASE SetOpen
  BY <1>7 DEF SetOpen, Touch
<1>8. CASE SetWrite
  BY <1>8, SizeType, MaxSetsAssumption DEF SetWrite, Touch, Overwritten, Whole, Empty
<1>9. CASE SetStamp
  BY <1>9 DEF SetStamp
<1>10. CASE UpdateCall
  BY <1>10 DEF UpdateCall
<1>11. CASE UpdateStat
  BY <1>11 DEF UpdateStat
<1>12. CASE UpdateCompare
  BY <1>12 DEF UpdateCompare
<1>13. CASE UpdateLock
  BY <1>13 DEF UpdateLock
<1>14. CASE UpdateSize
  BY <1>14 DEF UpdateSize
<1>15. CASE UpdateRead
  BY <1>15 DEF UpdateRead
<1>16. CASE UpdateStore
  BY <1>16 DEF UpdateStore
<1>17. CASE UpdateNotify
  BY <1>17 DEF UpdateNotify
<1>18. CASE UpdateStamp
  BY <1>18 DEF UpdateStamp
<1>19. CASE NotifyObservers
  BY <1>19 DEF NotifyObservers
<1>20. CASE ExternalOpen
  BY <1>20 DEF ExternalOpen, Touch, InWindow
<1>21. CASE ExternalClose
  BY <1>21 DEF ExternalClose, Touch, InWindow
<1>22. CASE UNCHANGED vars
  BY <1>22 DEF vars
<1>23. QED
  BY <1>1, <1>2, <1>3, <1>4, <1>5, <1>6, <1>7, <1>8, <1>9, <1>10, <1>11, <1>12, <1>13, <1>14, <1>15, <1>16, <1>17, <1>18, <1>19, <1>20, <1>21, <1>22 DEF Next, Attach, SetSteps, UpdateSteps, External

\* What valueUpdate() read stays current, or the file gets newer.
LEMMA NextUpdateInv ==
  ASSUME FineClock, TypeOK, LockInv, TimeInv, UpdateInv, [Next]_vars
  PROVE  UpdateInv'
<1> USE DEF UpdateInv, LockInv, TimeInv, TypeOK
<1>1. CASE AttachFile
  BY <1>1 DEF AttachFile
<1>2. CASE AttachInitialValue
  BY <1>2 DEF AttachInitialValue
<1>3. CASE AttachReturn
  BY <1>3 DEF AttachReturn
<1>4. CASE SetStore
  BY <1>4 DEF SetStore
<1>5. CASE SetNotify
  BY <1>5 DEF SetNotify
<1>6. CASE SetLock
  BY <1>6 DEF SetLock
<1>7. CASE SetOpen
  BY <1>7 DEF SetOpen, Touch
<1>8. CASE SetWrite
  BY <1>8 DEF SetWrite, Touch
<1>9. CASE SetStamp
  BY <1>9 DEF SetStamp
<1>10. CASE UpdateCall
  BY <1>10 DEF UpdateCall
<1>11. CASE UpdateStat
  BY <1>11 DEF UpdateStat
<1>12. CASE UpdateCompare
  BY <1>12 DEF UpdateCompare
<1>13. CASE UpdateLock
  BY <1>13 DEF UpdateLock
<1>14. CASE UpdateSize
  BY <1>14 DEF UpdateSize
<1>15. CASE UpdateRead
  BY <1>15 DEF UpdateRead, ReadOf, Contents
<1>16. CASE UpdateStore
  BY <1>16 DEF UpdateStore
<1>17. CASE UpdateNotify
  BY <1>17 DEF UpdateNotify
<1>18. CASE UpdateStamp
  BY <1>18 DEF UpdateStamp
<1>19. CASE NotifyObservers
  BY <1>19 DEF NotifyObservers
<1>20. CASE ExternalOpen
  BY <1>20 DEF ExternalOpen, Touch
<1>21. CASE ExternalClose
  BY <1>21 DEF ExternalClose, Touch
<1>22. CASE UNCHANGED vars
  BY <1>22 DEF vars
<1>23. QED
  BY <1>1, <1>2, <1>3, <1>4, <1>5, <1>6, <1>7, <1>8, <1>9, <1>10, <1>11, <1>12, <1>13, <1>14, <1>15, <1>16, <1>17, <1>18, <1>19, <1>20, <1>21, <1>22 DEF Next, Attach, SetSteps, UpdateSteps, External

\* No step outside the windows parts value and data file unnoticed.
LEMMA NextAgreeInv ==
  ASSUME FineClock, TypeOK, LockInv, TimeInv, SetInv, UpdateInv, AgreeInv, [Next]_vars
  PROVE  AgreeInv'
<1> USE DEF AgreeInv, UpdateInv, SetInv, LockInv, TimeInv, TypeOK
<1>1. CASE AttachFile
  BY <1>1 DEF AttachFile
<1>2. CASE AttachInitialValue
  BY <1>2 DEF AttachInitialValue
<1>3. CASE AttachReturn
  BY <1>3 DEF AttachReturn
<1>4. CASE SetStore
  BY <1>4 DEF SetStore
<1>5. CASE SetNotify
  BY <1>5 DEF SetNotify
<1>6. CASE SetLock
  BY <1>6 DEF SetLock
<1>7. CASE SetOpen
  BY <1>7 DEF SetOpen, Touch
<1>8. CASE SetWrite
  BY <1>8 DEF SetWrite, Touch
<1>9. CASE SetStamp
  BY <1>9 DEF SetStamp
<1>10. CASE UpdateCall
  BY <1>10 DEF UpdateCall
<1>11. CASE UpdateStat
  BY <1>11 DEF UpdateStat
<1>12. CASE UpdateCompare
  BY <1>12 DEF UpdateCompare
<1>13. CASE UpdateLock
  BY <1>13 DEF UpdateLock
<1>14. CASE UpdateSize
  BY <1>14 DEF UpdateSize
<1>15. CASE UpdateRead
  BY <1>15 DEF UpdateRead
<1>16. CASE UpdateStore
  BY <1>16 DEF UpdateStore
<1>17. CASE UpdateNotify
  BY <1>17 DEF UpdateNotify
<1>18. CASE UpdateStamp
  BY <1>18 DEF UpdateStamp
<1>19. CASE NotifyObservers
  BY <1>19 DEF NotifyObservers
<1>20. CASE ExternalOpen
  BY <1>20 DEF ExternalOpen, Touch
<1>21. CASE ExternalClose
  BY <1>21 DEF ExternalClose, Touch
<1>22. CASE UNCHANGED vars
  BY <1>22 DEF vars
<1>23. QED
  BY <1>1, <1>2, <1>3, <1>4, <1>5, <1>6, <1>7, <1>8, <1>9, <1>10, <1>11, <1>12, <1>13, <1>14, <1>15, <1>16, <1>17, <1>18, <1>19, <1>20, <1>21, <1>22 DEF Next, Attach, SetSteps, UpdateSteps, External

\* A step that changes the value leaves a notification to come.
LEMMA NextObserversCurrent ==
  ASSUME TypeOK, LockInv, ObserversCurrent, [Next]_vars
  PROVE  ObserversCurrent'
<1> USE DEF ObserversCurrent, TypeOK, LockInv
<1>1. CASE AttachFile
  BY <1>1 DEF AttachFile
<1>2. CASE AttachInitialValue
  BY <1>2 DEF AttachInitialValue
<1>3. CASE AttachReturn
  BY <1>3 DEF AttachReturn
<1>4. CASE SetStore
  BY <1>4 DEF SetStore
<1>5. CASE SetNotify
  BY <1>5 DEF SetNotify
<1>6. CASE SetLock
  BY <1>6 DEF SetLock
<1>7. CASE SetOpen
  BY <1>7 DEF SetOpen, Touch
<1>8. CASE SetWrite
  BY <1>8 DEF SetWrite, Touch
<1>9. CASE SetStamp
  BY <1>9 DEF SetStamp
<1>10. CASE UpdateCall
  BY <1>10 DEF UpdateCall
<1>11. CASE UpdateStat
  BY <1>11 DEF UpdateStat
<1>12. CASE UpdateCompare
  BY <1>12 DEF UpdateCompare
<1>13. CASE UpdateLock
  BY <1>13 DEF UpdateLock
<1>14. CASE UpdateSize
  BY <1>14 DEF UpdateSize
<1>15. CASE UpdateRead
  BY <1>15 DEF UpdateRead
<1>16. CASE UpdateStore
  BY <1>16 DEF UpdateStore
<1>17. CASE UpdateNotify
  BY <1>17 DEF UpdateNotify
<1>18. CASE UpdateStamp
  BY <1>18 DEF UpdateStamp
<1>19. CASE NotifyObservers
  BY <1>19 DEF NotifyObservers
<1>20. CASE ExternalOpen
  BY <1>20 DEF ExternalOpen, Touch
<1>21. CASE ExternalClose
  BY <1>21 DEF ExternalClose, Touch
<1>22. CASE UNCHANGED vars
  BY <1>22 DEF vars
<1>23. QED
  BY <1>1, <1>2, <1>3, <1>4, <1>5, <1>6, <1>7, <1>8, <1>9, <1>10, <1>11, <1>12, <1>13, <1>14, <1>15, <1>16, <1>17, <1>18, <1>19, <1>20, <1>21, <1>22 DEF Next, Attach, SetSteps, UpdateSteps, External

----------------------------------------------------------------------------
\* The constructor's state has the types.
LEMMA InitTypeOK == Init => TypeOK
<1> SUFFICES ASSUME Init PROVE TypeOK
  OBVIOUS
<1>1. 0 \in Writes /\ MaxSets + 1 \in Writes
  BY MaxSetsAssumption, MaxExternalAssumption DEF Writes
<1>2. Empty(0) \in Contents /\ Whole(MaxSets + 1) \in Contents
  BY <1>1, ContentTypes
<1>3. value \in Contents /\ file \in Contents /\ exists \in BOOLEAN
  BY <1>2 DEF Init
<1>4. seen \in Contents /\ data \in Contents
  BY <1>2, <1>3 DEF Init
<1>5. arg \in 0 .. MaxSets /\ sets \in 0 .. MaxSets /\ externals \in 0 .. MaxExternal
  BY MaxSetsAssumption, MaxExternalAssumption DEF Init
<1>6. mtime \in Nat /\ dataFileWriteTime \in Nat /\ readTime \in Nat /\ fileSize \in 0 .. 2
  BY DEF Init
<1>7. dirty \in BOOLEAN /\ crossed \in BOOLEAN /\ swallowed \in BOOLEAN
  BY DEF Init
<1>8. QED
  BY <1>3, <1>4, <1>5, <1>6, <1>7 DEF Init, TypeOK

\* Before attach() value and file are both empty, or the file is to be read.
LEMMA InitDataFileInv == Init => DataFileInv
BY DEF Init, DataFileInv, LockInv, TimeInv, SetInv, UpdateInv, AgreeInv, Empty

\* The members and locals of a resource keep their types (Resource.cpp:98-213).
THEOREM TypeCorrect == Spec => []TypeOK
<1>1. TypeOK /\ [Next]_vars => TypeOK'
  BY NextTypeOK
<1>2. QED
  BY InitTypeOK, <1>1, PTL DEF Spec

\* Whatever the order in which the request thread and the value update
\* thread store values, an observer without a pending notification knows
\* the current value (Resource.cpp:149-154, 201-206).
THEOREM ObserversKnow == Spec => []ObserversCurrent
<1>1. Init => ObserversCurrent
  BY DEF Init, ObserversCurrent
<1>2. TypeOK /\ LockInv /\ ObserversCurrent /\ [Next]_vars => ObserversCurrent'
  BY NextObserversCurrent
<1>3. Init => LockInv
  BY DEF Init, LockInv
<1>4. TypeOK /\ LockInv /\ [Next]_vars => LockInv'
  BY NextLockInv
<1>5. QED
  BY <1>1, <1>2, <1>3, <1>4, TypeCorrect, PTL DEF Spec

\* The strengthening holds all the time when the clock tells writes apart.
THEOREM DataFileCorrect ==
  ASSUME FineClock
  PROVE  Spec => []DataFileInv
<1>1. TypeOK /\ DataFileInv /\ [Next]_vars => DataFileInv'
  BY NextLockInv, NextTimeInv, NextSetInv, NextUpdateInv, NextAgreeInv
     DEF DataFileInv
<1>2. QED
  BY InitDataFileInv, TypeCorrect, <1>1, PTL DEF Spec

\* Between two operations value and data file agree or the newer file is
\* still to be read, except after one of the two windows: setValue(),
\* valueUpdate() and other writers may interleave in any other way
\* (Resource.cpp:147-213).
THEOREM Agreement ==
  ASSUME FineClock
  PROVE  Spec => []AgreeOrPending
<1>1. DataFileInv => AgreeOrPending
  BY DEF DataFileInv, AgreeInv, AgreeOrPending, Quiescent
<1>2. QED
  BY <1>1, DataFileCorrect, PTL
=============================================================================
