-------------------------- MODULE QueueStoreProofs --------------------------
(***************************************************************************)
(* Theorems of QueueStore, for any number of writers and processes, any    *)
(* operations and any contents: while no process dies and no holder is     *)
(* slower than the staleness of the lock, the lock excludes and the        *)
(* operations are atomic.  The first condition is needed: with three       *)
(* callers one death breaks exclusion (README, further disagreements).     *)
(*                                                                         *)
(* And of StartPicker, the window that writes where an entry of that file  *)
(* begins, for any library, stored starts, histories and answers on their  *)
(* way.                                                                    *)
(***************************************************************************)
EXTENDS QueueStore, QueueDocProofs, StartPicker

\* What the lock relies on: its holders live, and are quick.
HoldersReturn == Faults = {} /\ SlowHolders = FALSE

\* The lock directory is there exactly while someone holds the lock, and is never
\* older than a holder may be, so nobody ever sets out to steal it.
LockInv ==
    /\ pc \in [Writers -> Stages]
    /\ lock \in [held : BOOLEAN, age : Nat]
    /\ lock.age <= LockStale
    /\ OneHolder
    /\ lock.held <=> \E w \in Writers : Holds(w)
    /\ \A w \in Writers : pc[w] # "stealing"

\* The stages after a call is made and before its operation takes effect.
Before == {"reading", "writing", "renaming"} \cup WaiterStages

\* Between its read and its rename a writer has made, of the contents as they still are,
\* what it is about to write; its result is open exactly until then.
DataInv ==
    /\ op \in [Writers -> Ops \cup {NoOp}]
    /\ text = [w \in Writers |-> text[w]]
    /\ result = [w \in Writers |-> result[w]]
    /\ \A w \in Writers :
          /\ pc[w] \in {"writing", "renaming"} => text[w] = Apply(op[w], file)
          /\ pc[w] = "renaming" => tmp = text[w]
          /\ op[w] = NoOp <=> pc[w] = "idle"
          /\ result[w] = "none" <=> pc[w] \in Before \cup {"idle"}

-----------------------------------------------------------------------------
(* Exclusion.                                                              *)

LEMMA LockInitially == Init => LockInv
BY StoreAssumption DEF Init, LockInv, OneHolder, Holds, HolderStages, WaiterStages, Stages, Free

\* A step that leaves the lock alone, and takes a writer from one side of it to a stage
\* on the same side.
LEMMA LockUntouched ==
    ASSUME LockInv, NEW w \in Writers, NEW stage \in Stages \ {"stealing"},
           pc' = [pc EXCEPT ![w] = stage], lock' = lock,
           Holds(w) <=> stage \in HolderStages
    PROVE  LockInv'
BY DEF LockInv, OneHolder, Holds

\* The lock is made when nobody holds it.
LEMMA LockMade ==
    ASSUME LockInv, NEW w \in Writers, MakeLock(w)
    PROVE  LockInv'
<1>1. CASE lock.held
  <2>1. pc' = [pc EXCEPT ![w] = "statting"] /\ lock' = lock /\ ~Holds(w)
    BY <1>1 DEF MakeLock, Moves, Holds, HolderStages
  <2> QED BY <2>1, LockUntouched DEF Stages, HolderStages, WaiterStages
<1>2. CASE ~lock.held
  <2>1. /\ pc' = [pc EXCEPT ![w] = "reading"]
        /\ lock' = [held |-> TRUE, age |-> 0]
    BY <1>2 DEF MakeLock, Moves
  <2>2. \A v \in Writers : ~Holds(v)
    BY <1>2 DEF LockInv
  <2> QED BY <2>1, <2>2, StoreAssumption
          DEF LockInv, OneHolder, Holds, HolderStages, WaiterStages, Stages
<1> QED BY <1>1, <1>2

\* The lock goes with the only writer that holds it.
LEMMA LockReleased ==
    ASSUME LockInv, NEW w \in Writers, Release(w)
    PROVE  LockInv'
<1>1. pc[w] = "releasing" /\ pc' = [pc EXCEPT ![w] = "done"] /\ lock' = Free
  BY DEF Release, Moves
<1>2. \A v \in Writers : Holds(v) => v = w
  BY <1>1 DEF LockInv, OneHolder, Holds, HolderStages
<1> QED BY <1>1, <1>2, StoreAssumption
        DEF LockInv, OneHolder, Holds, HolderStages, WaiterStages, Stages, Free

LEMMA LockPreserved ==
    ASSUME HoldersReturn, LockInv, [Next]_vars
    PROVE  LockInv'
<1>1. ASSUME NEW w \in Writers, Call(w) PROVE LockInv'
  BY <1>1, LockUntouched DEF Call, Moves, Holds, HolderStages, WaiterStages, Stages
<1>2. ASSUME NEW w \in Writers, StatLock(w) PROVE LockInv'
  <2>1. AfterStat(w) \in {"done", "sleeping"}
    BY StoreAssumption DEF AfterStat, Stale, LockInv
  <2> QED BY <1>2, <2>1, LockUntouched
          DEF StatLock, Moves, Holds, HolderStages, WaiterStages, Stages
<1>3. ASSUME NEW w \in Writers, StealLock(w) PROVE LockInv'
  BY <1>3 DEF StealLock, LockInv
<1>4. ASSUME NEW w \in Writers, Sleep(w) PROVE LockInv'
  BY <1>4, LockUntouched DEF Sleep, Moves, Holds, HolderStages, WaiterStages, Stages
<1>5. ASSUME NEW w \in Writers, ReadFile(w) PROVE LockInv'
  <2>1. PICK stage \in {"writing", "releasing"} :
           pc[w] = "reading" /\ pc' = [pc EXCEPT ![w] = stage] /\ lock' = lock
    BY <1>5 DEF ReadFile, Moves
  <2> QED BY <2>1, LockUntouched DEF Holds, HolderStages, Stages
<1>6. ASSUME NEW w \in Writers, WriteTmp(w) PROVE LockInv'
  BY <1>6, LockUntouched DEF WriteTmp, Moves, Holds, HolderStages, Stages
<1>7. ASSUME NEW w \in Writers, FileFails(w) PROVE LockInv'
  <2>1. Holds(w) /\ pc' = [pc EXCEPT ![w] = "releasing"] /\ lock' = lock
    BY <1>7 DEF FileFails, Moves, Holds, HolderStages
  <2> QED BY <2>1, LockUntouched DEF HolderStages, Stages
<1>8. ASSUME NEW w \in Writers, Rename(w) PROVE LockInv'
  <2>1. PICK stage \in {"filling", "releasing"} :
           pc[w] = "renaming" /\ pc' = [pc EXCEPT ![w] = stage] /\ lock' = lock
    BY <1>8 DEF Rename, Moves
  <2> QED BY <2>1, LockUntouched DEF Holds, HolderStages, Stages
<1>9. ASSUME NEW w \in Writers, Fill(w) PROVE LockInv'
  BY <1>9, LockUntouched DEF Fill, Moves, Holds, HolderStages, Stages
<1>10. ASSUME NEW p \in Processes, Crash(p) PROVE LockInv'
  BY <1>10, StoreAssumption DEF Crash, HoldersReturn
<1>11. CASE Tick
  <2>1. pc' = pc
    BY <1>11 DEF Tick
  <2>2. lock' \in [held : BOOLEAN, age : Nat] /\ lock'.age <= LockStale /\ lock'.held = lock.held
    <3>1. CASE lock.held
      <4>1. lock.age < LockStale
        BY <1>11, <3>1 DEF Tick, HoldersReturn, LockInv
      <4>2. lock' = [lock EXCEPT !.age = lock.age + 1]
        BY <1>11, <3>1, <4>1, StoreAssumption DEF Tick, Later, LockInv
      <4> QED BY <4>1, <4>2, StoreAssumption DEF LockInv
    <3>2. CASE ~lock.held
      BY <1>11, <3>2 DEF Tick, LockInv
    <3> QED BY <3>1, <3>2
  <2> QED BY <2>1, <2>2 DEF LockInv, OneHolder, Holds
<1>12. CASE UNCHANGED vars
  BY <1>12 DEF vars, LockInv, OneHolder, Holds
<1> QED BY <1>1, <1>2, <1>3, <1>4, <1>5, <1>6, <1>7, <1>8, <1>9, <1>10, <1>11, <1>12,
           LockMade, LockReleased DEF Next, WriterStep

\* The lock of queues.ts is held by one writer at a time, of however many processes,
\* while its holders live and are quick.
THEOREM StoreExcludes ==
    ASSUME HoldersReturn
    PROVE  Spec => []OneHolder
<1>1. LockInv => OneHolder
  BY DEF LockInv
<1> QED BY <1>1, LockInitially, LockPreserved, PTL DEF Spec

-----------------------------------------------------------------------------
(* Atomicity.                                                              *)

LEMMA DataInitially == Init => DataInv
BY StoreAssumption DEF Init, DataInv, Before, WaiterStages

\* A step of one writer that keeps its operation and its text, and does not touch the
\* files, keeps the invariant if it opens or closes no result.
LEMMA DataUntouched ==
    ASSUME DataInv, LockInv, NEW w \in Writers, NEW stage \in Stages,
           pc' = [pc EXCEPT ![w] = stage], UNCHANGED <<file, tmp, op, text, result>>,
           pc[w] # "idle", stage \notin {"idle", "writing", "renaming"},
           pc[w] \in Before <=> stage \in Before
    PROVE  DataInv'
BY DEF DataInv, LockInv

\* As before, and the writer's call is refused.
LEMMA DataRefused ==
    ASSUME DataInv, LockInv, NEW w \in Writers, NEW stage \in {"done", "releasing"},
           pc' = [pc EXCEPT ![w] = stage], UNCHANGED <<file, tmp, op, text>>,
           pc[w] # "idle", result' = [result EXCEPT ![w] = "refused"]
    PROVE  DataInv'
BY DEF DataInv, LockInv, Before, WaiterStages

LEMMA DataPreserved ==
    ASSUME HoldersReturn, LockInv, DataInv, [Next]_vars
    PROVE  DataInv'
<1> USE DEF Moves, Ends, FileUnchanged, CallUnchanged
<1>1. ASSUME NEW w \in Writers, Call(w) PROVE DataInv'
  BY <1>1, StoreAssumption DEF Call, DataInv, LockInv, Before, WaiterStages
<1>2. ASSUME NEW w \in Writers, MakeLock(w) PROVE DataInv'
  <2>1. PICK stage \in {"statting", "reading"} :
           /\ pc[w] = "making" /\ pc' = [pc EXCEPT ![w] = stage]
           /\ UNCHANGED <<file, tmp, op, text, result>>
    BY <1>2 DEF MakeLock
  <2> QED BY <2>1, DataUntouched DEF Before, WaiterStages, HolderStages, Stages
<1>3. ASSUME NEW w \in Writers, StatLock(w) PROVE DataInv'
  <2>1. pc[w] = "statting" /\ UNCHANGED <<file, tmp, op, text>>
    BY <1>3 DEF StatLock
  <2>2. CASE AfterStat(w) = "done"
    <3>1. pc' = [pc EXCEPT ![w] = "done"] /\ result' = [result EXCEPT ![w] = "refused"]
      BY <1>3, <2>2 DEF StatLock
    <3> QED BY <2>1, <3>1, DataRefused
  <2>3. CASE AfterStat(w) # "done"
    <3>1. PICK stage \in {"stealing", "sleeping"} :
             pc' = [pc EXCEPT ![w] = stage] /\ result' = result
      BY <1>3, <2>3 DEF StatLock, AfterStat
    <3> QED BY <2>1, <3>1, DataUntouched DEF Before, WaiterStages, Stages
  <2> QED BY <2>2, <2>3
<1>4. ASSUME NEW w \in Writers, StealLock(w) PROVE DataInv'
  BY <1>4, DataUntouched DEF StealLock, Before, WaiterStages, Stages
<1>5. ASSUME NEW w \in Writers, Sleep(w) PROVE DataInv'
  BY <1>5, DataUntouched DEF Sleep, Before, WaiterStages, Stages
<1>6. ASSUME NEW w \in Writers, ReadFile(w) PROVE DataInv'
  <2>1. CASE Writes(op[w], file)
    <3>1. /\ pc[w] = "reading" /\ pc' = [pc EXCEPT ![w] = "writing"]
          /\ text' = [text EXCEPT ![w] = Apply(op[w], file)]
          /\ UNCHANGED <<file, tmp, op, result>>
      BY <1>6, <2>1 DEF ReadFile
    <3> QED BY <3>1 DEF DataInv, LockInv, Before, WaiterStages
  <2>2. CASE ~Writes(op[w], file)
    <3>1. /\ pc[w] = "reading" /\ pc' = [pc EXCEPT ![w] = "releasing"]
          /\ result' = [result EXCEPT ![w] = "applied"]
          /\ UNCHANGED <<file, tmp, op, text>>
      BY <1>6, <2>2 DEF ReadFile
    <3> QED BY <3>1 DEF DataInv, LockInv, Before, WaiterStages
  <2> QED BY <2>1, <2>2
<1>7. ASSUME NEW w \in Writers, WriteTmp(w) PROVE DataInv'
  <2>1. \A v \in Writers : pc[v] = "renaming" => v = w
    BY <1>7 DEF WriteTmp, LockInv, OneHolder, Holds, HolderStages
  <2> QED BY <1>7, <2>1 DEF WriteTmp, DataInv, LockInv, Before, WaiterStages
<1>8. ASSUME NEW w \in Writers, FileFails(w) PROVE DataInv'
  <2>1. pc[w] \in {"reading", "writing"}
    BY <1>8 DEF FileFails, HoldersReturn
  <2> QED BY <1>8, <2>1, DataRefused DEF FileFails
<1>9. ASSUME NEW w \in Writers, Rename(w) PROVE DataInv'
  <2>1. PICK stage \in {"filling", "releasing"} :
           /\ pc[w] = "renaming" /\ pc' = [pc EXCEPT ![w] = stage]
           /\ result' = [result EXCEPT ![w] = "applied"]
           /\ UNCHANGED <<op, text>>
    BY <1>9 DEF Rename
  <2>2. \A v \in Writers : pc[v] \in {"writing", "renaming"} => v = w
    BY <2>1 DEF LockInv, OneHolder, Holds, HolderStages
  <2> QED BY <2>1, <2>2 DEF DataInv, LockInv, Before, WaiterStages
<1>10. ASSUME NEW w \in Writers, Fill(w) PROVE DataInv'
  <2>1. \A v \in Writers : pc[v] \in {"writing", "renaming"} => v = w
    BY <1>10 DEF Fill, LockInv, OneHolder, Holds, HolderStages
  <2> QED BY <1>10, <2>1 DEF Fill, DataInv, LockInv, Before, WaiterStages
<1>11. ASSUME NEW w \in Writers, Release(w) PROVE DataInv'
  BY <1>11 DEF Release, DataInv, LockInv, Before, WaiterStages
<1>12. ASSUME NEW p \in Processes, Crash(p) PROVE DataInv'
  BY <1>12 DEF Crash, HoldersReturn
<1>13. CASE Tick
  BY <1>13 DEF Tick, DataInv
<1>14. CASE UNCHANGED vars
  BY <1>14 DEF vars, DataInv
<1> QED BY <1>1, <1>2, <1>3, <1>4, <1>5, <1>6, <1>7, <1>8, <1>9, <1>10, <1>11, <1>12,
           <1>13, <1>14 DEF Next, WriterStep

-----------------------------------------------------------------------------
(* Refinement.                                                             *)

\* While a writer fills the file, the contents are what it will have written.
LEMMA ContentIsText ==
    ASSUME LockInv, NEW w \in Writers, pc[w] = "filling"
    PROVE  Content = text[w]
<1>1. \A v \in Writers : pc[v] = "filling" => v = w
  BY DEF LockInv, OneHolder, Holds, HolderStages
<1> QED BY <1>1 DEF Content

\* A step that changes neither file nor text, and starts or ends no filling.
LEMMA ContentUntouched ==
    ASSUME LockInv, UNCHANGED <<file, text>>,
           \A w \in Writers : pc'[w] = "filling" <=> pc[w] = "filling"
    PROVE  Content' = Content
<1>1. CASE \A w \in Writers : pc[w] # "filling"
  BY <1>1 DEF Content
<1>2. CASE \E w \in Writers : pc[w] = "filling"
  <2>1. PICK w \in Writers : pc[w] = "filling"
    BY <1>2
  <2>2. \A v \in Writers : pc'[v] = "filling" <=> v = w
    BY <2>1 DEF LockInv, OneHolder, Holds, HolderStages
  <2>3. Content' = text'[w]
    BY <2>2 DEF Content
  <2> QED BY <2>1, <2>3, ContentIsText
<1> QED BY <1>1, <1>2

\* A step of the writer that holds the lock, when it neither fills nor is about to.
LEMMA HolderContent ==
    ASSUME LockInv, NEW w \in Writers, Holds(w), pc[w] # "filling",
           NEW stage \in Stages \ {"filling"}, pc' = [pc EXCEPT ![w] = stage]
    PROVE  Content = file /\ Content' = file'
<1>1. \A v \in Writers : pc[v] # "filling" /\ pc'[v] # "filling"
  BY DEF LockInv, OneHolder, Holds, HolderStages
<1> QED BY <1>1 DEF Content

AbstractVars == <<Content, op, result>>

LEMMA AtomicInitially == Init => Atomic!Init
<1>1. Init => Content = file
  BY DEF Init, Content
<1> QED BY <1>1 DEF Init, Atomic!Init

LEMMA RefusedAlone ==
    ASSUME DataInv, NEW w \in Writers, op[w] # NoOp, result[w] = "none",
           result' = [result EXCEPT ![w] = "refused"], op' = op, Content' = Content
    PROVE  Atomic!Next
<1>1. result' = [v \in Writers |-> IF v \in {w} THEN "refused" ELSE result[v]]
  BY DEF DataInv
<1>2. Atomic!Refuse({w})
  BY <1>1 DEF Atomic!Refuse, Atomic!Waiting
<1> QED BY <1>2 DEF Atomic!Next

LEMMA ServedAtOnce ==
    ASSUME NEW w \in Writers, op[w] # NoOp, result[w] = "none",
           result' = [result EXCEPT ![w] = "applied"], op' = op,
           Content' = Apply(op[w], Content)
    PROVE  Atomic!Next
BY DEF Atomic!Next, Atomic!Serve, Atomic!Waiting

LEMMA AtomicStep ==
    ASSUME HoldersReturn, LockInv, DataInv, [Next]_vars
    PROVE  [Atomic!Next]_AbstractVars
<1> USE DEF Moves, Ends, FileUnchanged, CallUnchanged
<1>1. ASSUME NEW w \in Writers, Call(w) PROVE Atomic!Next
  <2>1. Content' = Content
    BY <1>1, ContentUntouched DEF Call, LockInv
  <2>2. Atomic!Call(w)
    BY <1>1, <2>1 DEF Call, Atomic!Call, DataInv
  <2> QED BY <2>2 DEF Atomic!Next
<1>2. ASSUME NEW w \in Writers, MakeLock(w) PROVE UNCHANGED AbstractVars
  <2>1. Content' = Content
    BY <1>2, ContentUntouched DEF MakeLock, LockInv
  <2> QED BY <1>2, <2>1 DEF MakeLock, AbstractVars
<1>3. ASSUME NEW w \in Writers, StatLock(w) PROVE [Atomic!Next]_AbstractVars
  <2>1. Content' = Content
    BY <1>3, ContentUntouched DEF StatLock, AfterStat, LockInv
  <2>2. CASE AfterStat(w) = "done"
    BY <1>3, <2>1, <2>2, RefusedAlone DEF StatLock, DataInv, Before, WaiterStages
  <2>3. CASE AfterStat(w) # "done"
    BY <1>3, <2>1, <2>3 DEF StatLock, AbstractVars
  <2> QED BY <2>2, <2>3
<1>4. ASSUME NEW w \in Writers, StealLock(w) PROVE UNCHANGED AbstractVars
  BY <1>4 DEF StealLock, LockInv
<1>5. ASSUME NEW w \in Writers, Sleep(w) PROVE UNCHANGED AbstractVars
  <2>1. Content' = Content
    BY <1>5, ContentUntouched DEF Sleep, LockInv
  <2> QED BY <1>5, <2>1 DEF Sleep, AbstractVars
<1>6. ASSUME NEW w \in Writers, ReadFile(w) PROVE [Atomic!Next]_AbstractVars
  <2>1. /\ pc[w] = "reading" /\ op[w] # NoOp /\ result[w] = "none"
        /\ UNCHANGED <<file, op>>
    BY <1>6 DEF ReadFile, DataInv, Before
  <2>2. PICK stage \in {"writing", "releasing"} : pc' = [pc EXCEPT ![w] = stage]
    BY <1>6 DEF ReadFile
  <2>3. Content = file /\ Content' = file'
    BY <2>1, <2>2, HolderContent DEF Holds, HolderStages, Stages
  <2>4. CASE Writes(op[w], file)
    BY <1>6, <2>1, <2>3, <2>4 DEF ReadFile, AbstractVars
  <2>5. CASE ~Writes(op[w], file)
    <3>1. Apply(op[w], file) = file
      BY <2>5 DEF Writes
    <3>2. result' = [result EXCEPT ![w] = "applied"]
      BY <1>6, <2>5 DEF ReadFile
    <3> QED BY <2>1, <2>3, <3>1, <3>2, ServedAtOnce
  <2> QED BY <2>4, <2>5
<1>7. ASSUME NEW w \in Writers, WriteTmp(w) PROVE UNCHANGED AbstractVars
  <2>1. Content' = Content
    BY <1>7, ContentUntouched DEF WriteTmp, LockInv
  <2> QED BY <1>7, <2>1 DEF WriteTmp, AbstractVars
<1>8. ASSUME NEW w \in Writers, FileFails(w) PROVE Atomic!Next
  <2>1. pc[w] \in {"reading", "writing"}
    BY <1>8 DEF FileFails, HoldersReturn
  <2>2. Content' = Content
    BY <1>8, <2>1, ContentUntouched DEF FileFails, LockInv
  <2> QED BY <1>8, <2>1, <2>2, RefusedAlone DEF FileFails, DataInv, Before
<1>9. ASSUME NEW w \in Writers, Rename(w) PROVE Atomic!Next
  <2>1. /\ pc[w] = "renaming" /\ op[w] # NoOp /\ result[w] = "none"
        /\ result' = [result EXCEPT ![w] = "applied"] /\ UNCHANGED <<op, text>>
    BY <1>9 DEF Rename, DataInv, Before
  <2>2. text[w] = Apply(op[w], file) /\ tmp = text[w]
    BY <2>1 DEF DataInv
  <2>3. \A v \in Writers : Holds(v) <=> v = w
    BY <2>1 DEF LockInv, OneHolder, Holds, HolderStages
  <2>4. Content = file
    BY <2>1, <2>3 DEF Content, Holds, HolderStages
  <2>5. Content' = text[w]
    <3>1. CASE mount = "dir" /\ tmp # NoText
      <4>1. file' = text[w] /\ pc' = [pc EXCEPT ![w] = "releasing"]
        BY <1>9, <2>2, <3>1 DEF Rename
      <4> QED BY <2>1, <4>1, HolderContent DEF Holds, HolderStages, Stages
    <3>2. CASE ~(mount = "dir" /\ tmp # NoText)
      <4>1. pc' = [pc EXCEPT ![w] = "filling"]
        BY <1>9, <3>2 DEF Rename
      <4>2. \A v \in Writers : pc'[v] = "filling" <=> v = w
        BY <2>3, <4>1 DEF LockInv, Holds, HolderStages
      <4> QED BY <2>1, <4>2 DEF Content
    <3> QED BY <3>1, <3>2
  <2> QED BY <2>1, <2>2, <2>4, <2>5, ServedAtOnce
<1>10. ASSUME NEW w \in Writers, Fill(w) PROVE UNCHANGED AbstractVars
  <2>1. \A v \in Writers : pc'[v] # "filling"
    BY <1>10 DEF Fill, LockInv, OneHolder, Holds, HolderStages
  <2>2. Content' = file'
    BY <2>1 DEF Content
  <2>3. Content = text[w]
    BY <1>10, ContentIsText DEF Fill
  <2> QED BY <1>10, <2>2, <2>3 DEF Fill, AbstractVars
<1>11. ASSUME NEW w \in Writers, Release(w) PROVE UNCHANGED AbstractVars
  <2>1. Content = file /\ Content' = file'
    BY <1>11, HolderContent DEF Release, Holds, HolderStages, Stages
  <2> QED BY <1>11, <2>1 DEF Release, AbstractVars
<1>12. ASSUME NEW p \in Processes, Crash(p) PROVE UNCHANGED AbstractVars
  BY <1>12 DEF Crash, HoldersReturn
<1>13. CASE Tick
  <2>1. Content' = Content
    BY <1>13, ContentUntouched DEF Tick
  <2> QED BY <1>13, <2>1 DEF Tick, AbstractVars
<1>14. CASE UNCHANGED vars
  <2>1. Content' = Content
    BY <1>14, ContentUntouched DEF vars
  <2> QED BY <1>14, <2>1 DEF vars, AbstractVars
<1> QED BY <1>1, <1>2, <1>3, <1>4, <1>5, <1>6, <1>7, <1>8, <1>9, <1>10, <1>11, <1>12,
           <1>13, <1>14 DEF Next, WriterStep

\* An operation on queues.yaml takes effect at one moment, as a whole and on what the
\* operations before it left, for any number of calls in any number of processes, while
\* holders live and are quick; writing the file in place does not change that.
THEOREM StoreIsAtomic ==
    ASSUME HoldersReturn
    PROVE  Spec => OperationsAreAtomic
<1> DEFINE Inv == LockInv /\ DataInv
<1>1. Init => Inv
  BY LockInitially, DataInitially
<1>2. Inv /\ [Next]_vars => Inv'
  BY LockPreserved, DataPreserved
<1>3. Inv /\ [Next]_vars => [Atomic!Next]_<<Content, op, result>>
  BY AtomicStep DEF AbstractVars
<1> QED BY <1>1, <1>2, <1>3, AtomicInitially, PTL DEF Spec, OperationsAreAtomic, Atomic!Spec

-----------------------------------------------------------------------------
(* Types, and keys that are unique.                                        *)

\* Whatever is, was or will be in the file has a key once in a list, also where
\* processes die and two writers hold the lock.
TypeInv ==
    /\ mount \in Mounts
    /\ file \in Docs
    /\ tmp \in Docs \cup {NoText}
    /\ lock \in [held : BOOLEAN, age : 0 .. LockStale + 1]
    /\ pc \in [Writers -> Stages]
    /\ op \in [Writers -> Ops \cup {NoOp}]
    /\ text \in [Writers -> Docs \cup {NoText}]
    /\ waited \in [Writers -> 0 .. LockWait + 1]
    /\ result \in [Writers -> {"none", "applied", "refused"}]
    /\ \A w \in Writers : /\ pc[w] \in {"writing", "renaming", "filling"} => text[w] # NoText
                          /\ pc[w] # "idle" => op[w] # NoOp

LEMMA DocsAreDocuments == Docs \subseteq Doc
BY DEF Docs, Lists, Doc

LEMMA TypesImplied == TypeInv => TypeOK
BY DocsAreDocuments DEF TypeInv, TypeOK

LEMMA UniqueImplied == TypeInv => KeysAreUnique
<1> SUFFICES ASSUME TypeInv, NEW set \in Sets
             PROVE  Cardinality(KeysIn(file[set])) = Len(file[set])
  BY DEF KeysAreUnique
<1>1. file[set] \in Seq(Entry) /\ Unambiguous(file[set])
  BY DEF TypeInv, Docs, Lists
<1> QED BY <1>1, ListsCountTheirKeys

LEMMA TypesInitially == Init => TypeInv
<1> SUFFICES ASSUME Init PROVE TypeInv
  OBVIOUS
<1>1. file \in Docs
  <2>1. file \in Doc /\ \A set \in Sets : Cardinality(KeysIn(file[set])) = Len(file[set])
    BY StoreAssumption DEF Init
  <2>2. \A set \in Sets : file[set] \in Seq(Entry)
    BY <2>1 DEF Doc
  <2>3. \A set \in Sets : Unambiguous(file[set])
    BY <2>1, <2>2, ListsCountTheirKeys
  <2> QED BY <2>1, <2>2, <2>3 DEF Docs, Lists, Doc
<1>2. 0 \in 0 .. LockStale + 1 /\ 0 \in 0 .. LockWait + 1
  BY StoreAssumption
<1> QED BY <1>1, <1>2 DEF Init, TypeInv, Free, Stages

\* A step of one writer that touches no contents.
LEMMA TypesUntouched ==
    ASSUME TypeInv, NEW w \in Writers, NEW stage \in Stages \ {"writing", "renaming", "filling"},
           pc' = [pc EXCEPT ![w] = stage], pc[w] # "idle",
           UNCHANGED <<mount, file, tmp, op, text>>,
           lock' \in {lock, Free, [held |-> TRUE, age |-> 0]},
           waited' \in {waited, [waited EXCEPT ![w] = 0]},
           \E how \in {"none", "applied", "refused"} :
               result' \in {result, [result EXCEPT ![w] = how]}
    PROVE  TypeInv'
<1>1. lock' \in [held : BOOLEAN, age : 0 .. LockStale + 1]
  <2>1. 0 \in 0 .. LockStale + 1
    BY StoreAssumption
  <2>2. \A held \in BOOLEAN :
           [held |-> held, age |-> 0] \in [held : BOOLEAN, age : 0 .. LockStale + 1]
    BY <2>1
  <2> QED BY <2>2 DEF TypeInv, Free
<1>2. waited' \in [Writers -> 0 .. LockWait + 1]
  BY StoreAssumption DEF TypeInv
<1>3. result' \in [Writers -> {"none", "applied", "refused"}]
  BY DEF TypeInv
<1>4. pc' \in [Writers -> Stages]
  BY DEF TypeInv
<1>5. \A v \in Writers : /\ pc'[v] \in {"writing", "renaming", "filling"} => text'[v] # NoText
                         /\ pc'[v] # "idle" => op'[v] # NoOp
  BY DEF TypeInv
<1> QED BY <1>1, <1>2, <1>3, <1>4, <1>5 DEF TypeInv

LEMMA TypesPreserved ==
    ASSUME TypeInv, [Next]_vars
    PROVE  TypeInv'
<1> USE DEF Moves, Ends, FileUnchanged, CallUnchanged
<1>1. ASSUME NEW w \in Writers, Call(w) PROVE TypeInv'
  <2>1. PICK o \in Ops : op' = [op EXCEPT ![w] = o]
    BY <1>1 DEF Call
  <2>2. pc' = [pc EXCEPT ![w] = "making"] /\ UNCHANGED <<mount, file, tmp, lock, text, waited, result>>
    BY <1>1 DEF Call
  <2>3. "making" \in Stages
    BY DEF Stages, WaiterStages
  <2> QED BY <2>1, <2>2, <2>3, StoreAssumption DEF TypeInv
<1>2. ASSUME NEW w \in Writers, MakeLock(w) PROVE TypeInv'
  <2>1. PICK stage \in {"statting", "reading"} :
           /\ pc[w] = "making" /\ pc' = [pc EXCEPT ![w] = stage]
           /\ UNCHANGED <<mount, file, tmp, op, text, result>>
           /\ lock' \in {lock, [held |-> TRUE, age |-> 0]}
           /\ waited' \in {waited, [waited EXCEPT ![w] = 0]}
    BY <1>2 DEF MakeLock
  <2> QED BY <2>1, TypesUntouched DEF Stages, HolderStages, WaiterStages
<1>3. ASSUME NEW w \in Writers, StatLock(w) PROVE TypeInv'
  <2>1. AfterStat(w) \in {"stealing", "done", "sleeping"}
    BY DEF AfterStat
  <2>2. /\ pc[w] = "statting" /\ pc' = [pc EXCEPT ![w] = AfterStat(w)]
        /\ UNCHANGED <<mount, file, tmp, lock, op, text, waited>>
        /\ result' \in {result, [result EXCEPT ![w] = "refused"]}
    BY <1>3 DEF StatLock
  <2> QED BY <2>1, <2>2, TypesUntouched DEF Stages, WaiterStages
<1>4. ASSUME NEW w \in Writers, StealLock(w) PROVE TypeInv'
  BY <1>4, TypesUntouched DEF StealLock, Stages, WaiterStages
<1>5. ASSUME NEW w \in Writers, Sleep(w) PROVE TypeInv'
  BY <1>5, TypesUntouched DEF Sleep, Stages, WaiterStages
<1>6. ASSUME NEW w \in Writers, ReadFile(w) PROVE TypeInv'
  <2>1. pc[w] = "reading" /\ UNCHANGED <<mount, file, tmp, lock, op, waited>>
    BY <1>6 DEF ReadFile
  <2>2. op[w] \in Operation
    BY <2>1, StoreAssumption DEF TypeInv
  <2>3. CASE Writes(op[w], file)
    <3> DEFINE new == Apply(op[w], file)
    <3>1. new \in Docs
      BY <2>2, ApplyEdits DEF TypeInv
    <3>2. new # NoText
      BY <3>1, StoreAssumption, DocsAreDocuments
    <3>3. /\ pc' = [pc EXCEPT ![w] = "writing"] /\ text' = [text EXCEPT ![w] = new]
          /\ result' = result
      BY <1>6, <2>3 DEF ReadFile
    <3>4. "writing" \in Stages
      BY DEF Stages, HolderStages
    <3> HIDE DEF new
    <3> QED BY <2>1, <3>1, <3>2, <3>3, <3>4 DEF TypeInv
  <2>4. CASE ~Writes(op[w], file)
    <3>1. /\ pc' = [pc EXCEPT ![w] = "releasing"] /\ text' = text
          /\ result' = [result EXCEPT ![w] = "applied"]
      BY <1>6, <2>4 DEF ReadFile
    <3> QED BY <2>1, <3>1, TypesUntouched DEF Stages, HolderStages
  <2> QED BY <2>3, <2>4
<1>7. ASSUME NEW w \in Writers, WriteTmp(w) PROVE TypeInv'
  <2>1. "renaming" \in Stages
    BY DEF Stages, HolderStages
  <2> QED BY <1>7, <2>1 DEF WriteTmp, TypeInv
<1>8. ASSUME NEW w \in Writers, FileFails(w) PROVE TypeInv'
  <2>1. pc[w] \in {"reading", "writing", "filling"}
    BY <1>8 DEF FileFails
  <2> QED BY <1>8, <2>1, TypesUntouched DEF FileFails, Stages, HolderStages
<1>9. ASSUME NEW w \in Writers, Rename(w) PROVE TypeInv'
  <2>1. /\ pc[w] = "renaming" /\ result' = [result EXCEPT ![w] = "applied"]
        /\ UNCHANGED <<mount, lock, op, text, waited>>
    BY <1>9 DEF Rename
  <2>2. Empty \in Docs
    BY EmptyList DEF Empty, Docs
  <2>3. /\ file' \in Docs /\ tmp' \in Docs \cup {NoText}
        /\ \E stage \in {"releasing", "filling"} : pc' = [pc EXCEPT ![w] = stage]
    <3>1. CASE mount = "dir" /\ tmp # NoText
      BY <1>9, <3>1 DEF Rename, TypeInv
    <3>2. CASE ~(mount = "dir" /\ tmp # NoText)
      BY <1>9, <2>2, <3>2 DEF Rename, TypeInv
    <3> QED BY <3>1, <3>2
  <2>4. {"releasing", "filling"} \subseteq Stages
    BY DEF Stages, HolderStages
  <2> QED BY <2>1, <2>3, <2>4 DEF TypeInv
<1>10. ASSUME NEW w \in Writers, Fill(w) PROVE TypeInv'
  <2>1. "releasing" \in Stages
    BY DEF Stages, HolderStages
  <2>2. text[w] \in Docs
    BY <1>10 DEF Fill, TypeInv
  <2> QED BY <1>10, <2>1, <2>2 DEF Fill, TypeInv
<1>11. ASSUME NEW w \in Writers, Release(w) PROVE TypeInv'
  <2>1. "done" \in Stages
    BY DEF Stages
  <2>2. lock' \in [held : BOOLEAN, age : 0 .. LockStale + 1]
    BY <1>11, StoreAssumption DEF Release, Free
  <2> QED BY <1>11, <2>1, <2>2 DEF Release, TypeInv
<1>12. ASSUME NEW p \in Processes, Crash(p) PROVE TypeInv'
  <2>1. /\ \A w \in Writers : pc'[w] \in {pc[w], "dead"} /\ (pc'[w] # pc[w] => pc[w] # "idle")
        /\ pc' = [w \in Writers |-> pc'[w]]
    BY <1>12 DEF Crash, InFlight, HolderStages, WaiterStages
  <2>2. result' \in [Writers -> {"none", "applied", "refused"}]
    BY <1>12 DEF Crash, TypeInv
  <2>3. "dead" \in Stages
    BY DEF Stages
  <2>4. pc' \in [Writers -> Stages]
    BY <2>1, <2>3 DEF TypeInv
  <2> QED BY <1>12, <2>1, <2>2, <2>4 DEF Crash, TypeInv
<1>13. CASE Tick
  <2>1. \A n, limit \in Nat : n \in 0 .. limit + 1 => Later(n, limit) \in 0 .. limit + 1
    BY DEF Later
  <2>2. lock' \in [held : BOOLEAN, age : 0 .. LockStale + 1]
    <3>1. LockStale \in Nat /\ lock.age \in 0 .. LockStale + 1
      BY StoreAssumption DEF TypeInv
    <3>2. lock.age \in Nat
      BY <3>1
    <3>3. Later(lock.age, LockStale) \in 0 .. LockStale + 1
      BY <2>1, <3>1, <3>2
    <3> QED BY <1>13, <3>3 DEF Tick, TypeInv
  <2>3. waited' \in [Writers -> 0 .. LockWait + 1]
    <3>1. LockWait \in Nat /\ \A w \in Writers : waited[w] \in 0 .. LockWait + 1
      BY StoreAssumption DEF TypeInv
    <3>2. \A w \in Writers : waited[w] \in Nat
      BY <3>1
    <3>3. \A w \in Writers : Later(waited[w], LockWait) \in 0 .. LockWait + 1
      BY <2>1, <3>1, <3>2
    <3> QED BY <1>13, <3>3 DEF Tick, TypeInv
  <2> QED BY <1>13, <2>2, <2>3 DEF Tick, TypeInv
<1>14. CASE UNCHANGED vars
  BY <1>14 DEF vars, TypeInv
<1> QED BY <1>1, <1>2, <1>3, <1>4, <1>5, <1>6, <1>7, <1>8, <1>9, <1>10, <1>11, <1>12,
           <1>13, <1>14 DEF Next, WriterStep

\* The types of the store, also where processes die: a writer that is about to write has
\* something to write, and an entry never has the time of a done flag it does not have.
THEOREM StoreTypes == Spec => []TypeOK
BY TypesInitially, TypesPreserved, TypesImplied, PTL DEF Spec

\* No list of queues.yaml ever has a key twice, whatever is added and moved by however
\* many calls, whoever dies, and even where two of them hold the lock at once.
THEOREM KeysStayUnique == Spec => []KeysAreUnique
BY TypesInitially, TypesPreserved, UniqueImplied, PTL DEF Spec

-----------------------------------------------------------------------------
(* What an edit leaves alone.                                              *)

LEMMA RenamesAlone ==
    ASSUME HoldersReturn, LockInv, DataInv, [Next]_vars,
           NEW w \in Writers, pc[w] = "renaming", result'[w] = "applied"
    PROVE  Content' = Apply(op[w], file) /\ Content = file
<1>1. result[w] = "none"
  BY DEF DataInv, Before
<1>2. \A v \in Writers : Holds(v) <=> v = w
  BY DEF LockInv, OneHolder, Holds, HolderStages
<1>3. Content = file
  BY <1>2 DEF Content, Holds, HolderStages
<1>4. Rename(w)
  <2>1. PICK v \in Writers : WriterStep(v)
    BY <1>1 DEF Next, vars, Call, Tick, CallUnchanged, Crash, HoldersReturn
  <2>2. v = w
    BY <1>1, <2>1 DEF WriterStep, MakeLock, StatLock, StealLock, Sleep, ReadFile, WriteTmp,
                     FileFails, Rename, Fill, Release, CallUnchanged, Ends, DataInv
  <2> QED BY <2>1, <2>2, HoldersReturn
          DEF WriterStep, MakeLock, StatLock, StealLock, Sleep, ReadFile, WriteTmp, FileFails,
              Fill, Release
<1>5. text[w] = Apply(op[w], file) /\ tmp = text[w]
  BY DEF DataInv
<1>6. Content' = text[w]
  <2>1. CASE mount = "dir" /\ tmp # NoText
    <3>1. file' = text[w] /\ pc' = [pc EXCEPT ![w] = "releasing"]
      BY <1>4, <1>5, <2>1 DEF Rename, Moves
    <3> QED BY <3>1, HolderContent DEF Holds, HolderStages, Stages
  <2>2. CASE ~(mount = "dir" /\ tmp # NoText)
    <3>1. pc' = [pc EXCEPT ![w] = "filling"] /\ text' = text
      BY <1>4, <2>2 DEF Rename, Moves
    <3>2. \A v \in Writers : pc'[v] = "filling" <=> v = w
      BY <1>2, <3>1 DEF LockInv, Holds, HolderStages
    <3> QED BY <3>1, <3>2 DEF Content
  <2> QED BY <2>1, <2>2
<1> QED BY <1>3, <1>5, <1>6

\* An edit changes and drops nothing but the entries it is about, and what it moves
\* arrives (applyOrder, moveItem, moveBulk and the others): for any operations on any
\* contents, while holders live and are quick.
THEOREM EditsStayInPlace ==
    ASSUME HoldersReturn
    PROVE  Spec => EditsKeepTheRest
<1> DEFINE Inv == LockInv /\ DataInv /\ TypeInv
           Keeps1 == \A w \in Writers :
                       pc[w] = "renaming" /\ result'[w] = "applied" =>
                          /\ \A item \in Item \ Addressed(op[w], Content) :
                                EntriesAt(Content', item) = EntriesAt(Content, item)
                          /\ op[w].kind \in Keeping =>
                                \A item \in ToSet(op[w].items) : EntriesAt(Content, item) # << >> =>
                                   \E set \in {item.set, op[w].set} : item.key \in KeysIn(Content'[set])
<1>1. Init => Inv
  BY LockInitially, DataInitially, TypesInitially
<1>2. Inv /\ [Next]_vars => Inv'
  BY LockPreserved, DataPreserved, TypesPreserved
<1>3. ASSUME Inv, [Next]_vars PROVE Keeps1
  <2> SUFFICES ASSUME NEW w \in Writers, pc[w] = "renaming", result'[w] = "applied"
               PROVE  /\ \A item \in Item \ Addressed(op[w], Content) :
                            EntriesAt(Content', item) = EntriesAt(Content, item)
                      /\ op[w].kind \in Keeping =>
                            \A item \in ToSet(op[w].items) : EntriesAt(Content, item) # << >> =>
                               \E set \in {item.set, op[w].set} : item.key \in KeysIn(Content'[set])
    OBVIOUS
  <2>1. Content' = Apply(op[w], file) /\ Content = file
    BY <1>3, RenamesAlone
  <2>2. op[w] \in Operation /\ file \in Docs
    BY <1>3, StoreAssumption DEF TypeInv
  <2> QED BY <2>1, <2>2, EditsInPlace DEF Keeping
<1> QED BY <1>1, <1>2, <1>3, PTL DEF Spec, EditsKeepTheRest

-----------------------------------------------------------------------------
(* The start picker: what an entry plays next.                             *)
ItemOf(e, k, p) == ItemsOf(MembersOf(e)[k])[p]

\* The p-th item of the k-th member is one the entry may play.
MayPlay(e, start, seen, k, p) ==
    /\ k \in DOMAIN MembersOf(e) /\ p \in DOMAIN ItemsOf(MembersOf(e)[k])
    /\ ItemOf(e, k, p) \notin seen /\ ~(k < StartMember(e, start))
    /\ \/ k # StartMember(e, start) \/ ~IsStarted(e, start) \/ MembersOf(e)[k] \notin Series
       \/ AtOrAfterStart(ItemOf(e, k, p), start)

\* ... and no other comes before it.
PlaysFirst(e, start, seen, k, p) ==
    /\ MayPlay(e, start, seen, k, p)
    /\ \A j, q : MayPlay(e, start, seen, j, q) => k < j \/ (k = j /\ ~(q < p))

LEMMA MembersAreListed ==
    ASSUME NEW e \in StartEntries
    PROVE  /\ MembersOf(e) \in Seq(Range(MembersOf(e))) /\ MembersOf(e) # << >>
           /\ Len(MembersOf(e)) \in Nat /\ DOMAIN MembersOf(e) = 1..Len(MembersOf(e))
           /\ 1 \in DOMAIN MembersOf(e) /\ NoSeries \notin Range(MembersOf(e))
           /\ \A j, k \in DOMAIN MembersOf(e) : MembersOf(e)[j] = MembersOf(e)[k] => j = k
<1> DEFINE M == MembersOf(e)
<1>1. /\ M \in Seq(Range(M)) /\ M # << >> /\ NoSeries \notin Range(M)
      /\ \A j, k \in DOMAIN M : M[j] = M[k] => j = k
  <2>1. CASE Holding[e] \in DOMAIN Members
    BY <2>1, StartAssumption DEF StartEntries, MembersOf, IsInjective
  <2>2. CASE Holding[e] \notin DOMAIN Members
    <3>1. M = <<Holding[e]>> /\ Holding[e] \in DOMAIN EpisodesOf
      BY <2>2, StartAssumption DEF StartEntries, MembersOf
    <3>2. DOMAIN <<Holding[e]>> = {1} /\ <<Holding[e]>>[1] = Holding[e]
      OBVIOUS
    <3>3. Range(M) = {Holding[e]}
      BY <3>1, <3>2 DEF Range
    <3> QED BY <3>1, <3>2, <3>3, StartAssumption
  <2> QED BY <2>1, <2>2
<1> HIDE DEF M
<1>2. Len(M) \in Nat /\ DOMAIN M = 1..Len(M) /\ 1 \in DOMAIN M
  BY <1>1, LenProperties, EmptySeq
<1> QED BY <1>1, <1>2 DEF M

LEMMA ItemsAreListed ==
    ASSUME NEW m
    PROVE  /\ ItemsOf(m) \in Seq({m} \X Nat \X Nat) /\ ItemsOf(m) # << >>
           /\ \A p \in DOMAIN ItemsOf(m) : ItemsOf(m)[p][1] = m
<1>1. ItemsOf(m) \in Seq({m} \X Nat \X Nat) /\ ItemsOf(m) # << >>
  <2>1. CASE m \in Series
    <3>1. EpisodesOf[m] \in Seq({m} \X Nat \X (Nat \ {0})) /\ EpisodesOf[m] # << >>
      BY <2>1, StartAssumption DEF Series
    <3>2. {m} \X Nat \X (Nat \ {0}) \subseteq {m} \X Nat \X Nat
      OBVIOUS
    <3>3. EpisodesOf[m] \in Seq({m} \X Nat \X Nat)
      BY <3>1, <3>2, SeqMonotonic
    <3> QED BY <2>1, <3>1, <3>3 DEF ItemsOf
  <2>2. CASE m \notin Series
    BY <2>2 DEF ItemsOf
  <2> QED BY <2>1, <2>2
<1>2. \A p \in DOMAIN ItemsOf(m) : ItemsOf(m)[p] \in {m} \X Nat \X Nat
  BY <1>1, ElementOfSeq, LenProperties
<1> QED BY <1>1, <1>2

LEMMA StartMemberIs ==
    ASSUME NEW e \in StartEntries, NEW start
    PROVE  /\ StartMember(e, start) \in DOMAIN MembersOf(e)
           /\ \A k \in DOMAIN MembersOf(e) : MembersOf(e)[k] = start.series => StartMember(e, start) = k
           /\ start.series \notin Range(MembersOf(e)) => StartMember(e, start) = 1
<1>1. start.series \in Range(MembersOf(e)) =>
        \E n \in DOMAIN MembersOf(e) : MembersOf(e)[n] = start.series
  BY DEF Range
<1>2. \A k \in DOMAIN MembersOf(e) : MembersOf(e)[k] \in Range(MembersOf(e))
  BY DEF Range
<1> QED BY <1>1, <1>2, MembersAreListed DEF StartMember

(* What plays next is the first item the entry may play.                   *)
LEMMA UpcomingIs ==
    ASSUME NEW e \in StartEntries, NEW start, NEW seen
    PROVE  \/ Upcoming(e, start, seen) = << >> /\ \A k, p : ~MayPlay(e, start, seen, k, p)
           \/ \E k, p : PlaysFirst(e, start, seen, k, p) /\ Upcoming(e, start, seen) = <<ItemOf(e, k, p)>>
<1> DEFINE M == MembersOf(e)
           from == StartMember(e, start)
           Fit(n) == {ep \in Range(ItemsOf(M[n])) :
                         /\ ep \notin seen
                         /\ n # from \/ ~IsStarted(e, start) \/ M[n] \notin Series \/ AtOrAfterStart(ep, start)}
           seqs == [n \in DOMAIN M |-> IF n < from THEN << >> ELSE Only(ItemsOf(M[n]), Fit(n))]
           left == FlattenSeq(seqs)
           T == Range(M) \X Nat \X Nat
           May(k, p) == MayPlay(e, start, seen, k, p)
<1>1. Upcoming(e, start, seen) = IF left = << >> THEN << >> ELSE <<left[1]>>
  BY DEF Upcoming
<1>2. Len(M) \in Nat /\ DOMAIN M = 1..Len(M) /\ from \in DOMAIN M
  BY MembersAreListed, StartMemberIs
<1>3. \A k \in DOMAIN M : ItemsOf(M[k]) \in Seq(T)
  <2> SUFFICES ASSUME NEW k \in DOMAIN M PROVE ItemsOf(M[k]) \in Seq(T)
    OBVIOUS
  <2>1. M[k] \in Range(M)
    BY DEF Range
  <2>2. {M[k]} \X Nat \X Nat \subseteq T
    BY <2>1
  <2>3. ItemsOf(M[k]) \in Seq({M[k]} \X Nat \X Nat)
    BY ItemsAreListed
  <2> HIDE DEF M, T
  <2> QED BY <2>2, <2>3, SeqMonotonic
<1>4. \A k \in DOMAIN M : Only(ItemsOf(M[k]), Fit(k)) \in Seq(T)
  <2> HIDE DEF Fit, T, M
  <2> QED BY <1>3, OnlyIsAList
<1>5. seqs \in [1..Len(M) -> Seq(T)]
  <2>1. << >> \in Seq(T)
    OBVIOUS
  <2> HIDE DEF Fit, T, M, from
  <2> QED BY <1>2, <1>4, <2>1
<1>6. \A k \in DOMAIN M : \A p \in DOMAIN ItemsOf(M[k]) :
        May(k, p) <=> ~(k < from) /\ ItemsOf(M[k])[p] \in Fit(k)
  BY DEF MayPlay, ItemOf, Range
<1>7. \A k, p : May(k, p) => k \in DOMAIN M /\ p \in DOMAIN ItemsOf(M[k])
  BY DEF MayPlay
<1>8. \A k \in DOMAIN M : DOMAIN ItemsOf(M[k]) \subseteq Nat
  <2> SUFFICES ASSUME NEW k \in DOMAIN M PROVE DOMAIN ItemsOf(M[k]) \subseteq Nat
    OBVIOUS
  <2>1. DOMAIN ItemsOf(M[k]) = 1..Len(ItemsOf(M[k])) /\ Len(ItemsOf(M[k])) \in Nat
    BY <1>3, LenProperties
  <2> HIDE DEF M
  <2> QED BY <2>1
<1>9. \A k \in DOMAIN M : seqs[k] = IF k < from THEN << >> ELSE Only(ItemsOf(M[k]), Fit(k))
  OBVIOUS
<1>10. \A k \in DOMAIN M : seqs[k] = << >> <=> \A p \in DOMAIN ItemsOf(M[k]) : ~May(k, p)
  <2> SUFFICES ASSUME NEW k \in DOMAIN M
               PROVE  seqs[k] = << >> <=> \A p \in DOMAIN ItemsOf(M[k]) : ~May(k, p)
    OBVIOUS
  <2>1. Only(ItemsOf(M[k]), Fit(k)) = << >> <=> \A p \in DOMAIN ItemsOf(M[k]) : ItemsOf(M[k])[p] \notin Fit(k)
    <3>1. ItemsOf(M[k]) \in Seq(T)
      BY <1>3
    <3> HIDE DEF Fit, T, M
    <3> QED BY <3>1, OnlyHead
  <2> HIDE DEF May, Fit, seqs, from
  <2> QED BY <1>6, <1>9, <2>1
<1>11. ASSUME NEW k \in DOMAIN M, NEW p \in DOMAIN ItemsOf(M[k]), May(k, p),
              \A q \in DOMAIN ItemsOf(M[k]) : q < p => ~May(k, q)
       PROVE  seqs[k] # << >> /\ seqs[k][1] = ItemsOf(M[k])[p]
  <2>1. ~(k < from) /\ ItemsOf(M[k])[p] \in Fit(k)
    BY <1>6, <1>11
  <2>2. \A q \in DOMAIN ItemsOf(M[k]) : q < p => ItemsOf(M[k])[q] \notin Fit(k)
    <3> HIDE DEF May, Fit, from
    <3> QED BY <1>6, <1>11, <2>1
  <2>3. Only(ItemsOf(M[k]), Fit(k))[1] = ItemsOf(M[k])[p]
    <3>1. ItemsOf(M[k]) \in Seq(T)
      BY <1>3
    <3> HIDE DEF Fit, T, M
    <3> QED BY <2>1, <2>2, <3>1, OnlyHead
  <2> HIDE DEF May, Fit, seqs, from
  <2> QED BY <1>9, <1>10, <1>11, <2>1, <2>3
<1>12. /\ left = << >> <=> \A k \in 1..Len(M) : seqs[k] = << >>
       /\ \A k \in 1..Len(M) : seqs[k] # << >> /\ (\A j \in 1..k - 1 : seqs[j] = << >>) => left[1] = seqs[k][1]
  <2> HIDE DEF seqs, T, M
  <2> QED BY <1>2, <1>5, FlattenHead
<1> HIDE DEF seqs, left, Fit, T
<1>13. CASE \A k, p : ~May(k, p)
  BY <1>1, <1>2, <1>10, <1>12, <1>13
<1>14. CASE \E k, p : May(k, p)
  <2> DEFINE rows == {k \in DOMAIN M : \E p : May(k, p)}
  <2>1. PICK k \in rows : \A j \in rows : ~(j < k)
    <3>1. rows \subseteq Nat /\ rows # {}
      <4> HIDE DEF May, M
      <4> QED BY <1>2, <1>7, <1>14
    <3> HIDE DEF rows
    <3> QED BY <3>1, LeastNumber
  <2> DEFINE places == {p \in DOMAIN ItemsOf(M[k]) : May(k, p)}
  <2>2. PICK p \in places : \A q \in places : ~(q < p)
    <3>1. places \subseteq Nat /\ places # {}
      <4> HIDE DEF May, M
      <4> QED BY <1>7, <1>8, <2>1
    <3> HIDE DEF places
    <3> QED BY <3>1, LeastNumber
  <2>3. /\ k \in DOMAIN M /\ k \in Nat /\ p \in DOMAIN ItemsOf(M[k]) /\ May(k, p)
        /\ \A q \in DOMAIN ItemsOf(M[k]) : q < p => ~May(k, q)
    <3> HIDE DEF May, M
    <3> QED BY <1>2, <2>1, <2>2
  <2>4. \A j \in 1..k - 1 : seqs[j] = << >>
    <3> SUFFICES ASSUME NEW j \in 1..k - 1 PROVE seqs[j] = << >>
      OBVIOUS
    <3>1. j \in DOMAIN M /\ j < k
      BY <1>2, <2>3
    <3>2. j \notin rows
      BY <2>1, <3>1
    <3> HIDE DEF May, M
    <3> QED BY <1>10, <3>1, <3>2
  <2>5. left # << >> /\ left[1] = ItemsOf(M[k])[p]
    <3>1. seqs[k] # << >> /\ seqs[k][1] = ItemsOf(M[k])[p]
      <4> HIDE DEF May, M
      <4> QED BY <1>11, <2>3
    <3> HIDE DEF May, M
    <3> QED BY <1>2, <1>12, <2>3, <2>4, <3>1
  <2>6. ASSUME NEW j, NEW q, May(j, q) PROVE k < j \/ (k = j /\ ~(q < p))
    <3>1. j \in rows /\ j \in Nat /\ q \in DOMAIN ItemsOf(M[j])
      <4> HIDE DEF May, M
      <4> QED BY <1>2, <1>7, <2>6
    <3>2. ~(j < k)
      BY <2>1, <3>1
    <3>3. k = j => q \in places
      BY <2>6, <3>1
    <3> HIDE DEF rows, places
    <3> QED BY <2>2, <2>3, <3>1, <3>2, <3>3
  <2>7. PlaysFirst(e, start, seen, k, p)
    BY <2>3, <2>6 DEF PlaysFirst
  <2>8. Upcoming(e, start, seen) = <<ItemOf(e, k, p)>>
    BY <1>1, <2>5 DEF ItemOf
  <2> QED BY <2>7, <2>8
<1> QED BY <1>13, <1>14

LEMMA PlacesAreNumbers ==
    ASSUME NEW e \in StartEntries, NEW start, NEW seen, NEW k, NEW p, MayPlay(e, start, seen, k, p)
    PROVE  k \in Nat /\ k >= 1 /\ p \in Nat
<1> DEFINE items == ItemsOf(MembersOf(e)[k])
<1>1. k \in DOMAIN MembersOf(e) /\ p \in DOMAIN items
  BY DEF MayPlay
<1>2. items \in Seq({MembersOf(e)[k]} \X Nat \X Nat)
  BY ItemsAreListed
<1> HIDE DEF items
<1>3. DOMAIN items = 1..Len(items) /\ Len(items) \in Nat
  BY <1>2, LenProperties
<1> QED BY <1>1, <1>3, MembersAreListed

\* What may play and has nothing before it is what plays next.
LEMMA FirstIsNext ==
    ASSUME NEW e \in StartEntries, NEW start, NEW seen, NEW k, NEW p, PlaysFirst(e, start, seen, k, p)
    PROVE  Upcoming(e, start, seen) = <<ItemOf(e, k, p)>>
<1>1. MayPlay(e, start, seen, k, p)
  BY DEF PlaysFirst
<1>2. PICK j, q : PlaysFirst(e, start, seen, j, q) /\ Upcoming(e, start, seen) = <<ItemOf(e, j, q)>>
  BY <1>1, UpcomingIs
<1>3. MayPlay(e, start, seen, j, q)
  BY <1>2 DEF PlaysFirst
<1>4. (k < j \/ (k = j /\ ~(q < p))) /\ (j < k \/ (j = k /\ ~(p < q)))
  BY <1>1, <1>2, <1>3 DEF PlaysFirst
<1>5. k \in Nat /\ p \in Nat /\ j \in Nat /\ q \in Nat
  BY <1>1, <1>3, PlacesAreNumbers
<1>6. j = k /\ q = p
  BY <1>4, <1>5
<1> QED BY <1>2, <1>6

(* Two starts lead to the same item when what the second lets through the  *)
(* first does, and the first item of the first the second lets through.    *)
LEMMA SamePlace ==
    ASSUME NEW e \in StartEntries, NEW seen, NEW from, NEW to,
           \A k, p : MayPlay(e, to, seen, k, p) => MayPlay(e, from, seen, k, p),
           \A k, p : PlaysFirst(e, from, seen, k, p) => MayPlay(e, to, seen, k, p)
    PROVE  Upcoming(e, to, seen) = Upcoming(e, from, seen)
<1>1. CASE Upcoming(e, from, seen) = << >> /\ \A k, p : ~MayPlay(e, from, seen, k, p)
  <2>1. \A k, p : ~MayPlay(e, to, seen, k, p)
    BY <1>1
  <2>2. ~ \E k, p : PlaysFirst(e, to, seen, k, p)
    BY <2>1 DEF PlaysFirst
  <2> QED BY <1>1, <2>2, UpcomingIs
<1>2. CASE \E k, p : PlaysFirst(e, from, seen, k, p) /\ Upcoming(e, from, seen) = <<ItemOf(e, k, p)>>
  <2>1. PICK k, p : PlaysFirst(e, from, seen, k, p) /\ Upcoming(e, from, seen) = <<ItemOf(e, k, p)>>
    BY <1>2
  <2>2. MayPlay(e, to, seen, k, p)
    BY <2>1
  <2>3. PlaysFirst(e, to, seen, k, p)
    BY <2>1, <2>2 DEF PlaysFirst
  <2> QED BY <2>1, <2>3, FirstIsNext
<1> QED BY <1>1, <1>2, UpcomingIs

-----------------------------------------------------------------------------
(* The start picker: what it is set to.                                    *)
HasASeason(show) == \E ep \in Range(EpisodesOf[show]) : ep[2] > 0

LEMMA EpisodesAreListed ==
    ASSUME NEW show \in Series
    PROVE  LET E == EpisodesOf[show] IN
           /\ E \in Seq({show} \X Nat \X (Nat \ {0})) /\ Len(E) \in Nat /\ DOMAIN E = 1..Len(E) /\ 1 \in DOMAIN E
           /\ \A n \in DOMAIN E : /\ E[n] = <<show, E[n][2], E[n][3]>>
                                  /\ E[n][2] \in Nat /\ E[n][3] \in Nat /\ E[n][3] # 0
           /\ \A n \in DOMAIN E : \A k \in DOMAIN E : k <= n =>
                 /\ E[k][2] < E[n][2] \/ (E[k][2] = E[n][2] /\ E[k][3] <= E[n][3])
                 /\ E[k][2] = 0 => E[n][2] = 0
<1> DEFINE E == EpisodesOf[show]
<1>1. /\ E \in Seq({show} \X Nat \X (Nat \ {0})) /\ E # << >>
      /\ \A n \in DOMAIN E : \A k \in 1..n :
            /\ E[k][2] < E[n][2] \/ (E[k][2] = E[n][2] /\ E[k][3] <= E[n][3])
            /\ E[k][2] = 0 => E[n][2] = 0
  BY StartAssumption DEF Series
<1> HIDE DEF E
<1>2. Len(E) \in Nat /\ DOMAIN E = 1..Len(E) /\ 1 \in DOMAIN E
  BY <1>1, LenProperties, EmptySeq
<1>3. ASSUME NEW n \in DOMAIN E
      PROVE  E[n] = <<show, E[n][2], E[n][3]>> /\ E[n][2] \in Nat /\ E[n][3] \in Nat /\ E[n][3] # 0
  <2>1. E[n] \in {show} \X Nat \X (Nat \ {0})
    BY <1>1, <1>2, ElementOfSeq
  <2> QED BY <2>1
<1>4. ASSUME NEW n \in DOMAIN E, NEW k \in DOMAIN E, k <= n
      PROVE  /\ E[k][2] < E[n][2] \/ (E[k][2] = E[n][2] /\ E[k][3] <= E[n][3])
             /\ E[k][2] = 0 => E[n][2] = 0
  <2>1. k \in 1..n
    BY <1>2, <1>4
  <2> QED BY <1>1, <2>1
<1> QED BY <1>1, <1>2, <1>3, <1>4 DEF E

LEMMA EpisodesHaveSeasons ==
    ASSUME NEW show \in Series, HasASeason(show)
    PROVE  \A ep \in Range(EpisodesOf[show]) : ep[2] \in Nat /\ ep[2] # 0
<1> DEFINE E == EpisodesOf[show]
<1>1. PICK n \in DOMAIN E : E[n][2] > 0
  BY DEF HasASeason, Range
<1>2. /\ Len(E) \in Nat /\ DOMAIN E = 1..Len(E)
      /\ \A k \in DOMAIN E : E[k][2] \in Nat
      /\ \A j \in DOMAIN E : \A k \in DOMAIN E : k <= j =>
            /\ E[k][2] < E[j][2] \/ E[k][2] = E[j][2]
            /\ E[k][2] = 0 => E[j][2] = 0
  BY EpisodesAreListed
<1> HIDE DEF E
<1>3. \A k \in DOMAIN E : E[k][2] \in Nat /\ E[k][2] # 0
  <2> SUFFICES ASSUME NEW k \in DOMAIN E PROVE E[k][2] \in Nat /\ E[k][2] # 0
    OBVIOUS
  <2>1. k <= n \/ n <= k
    BY <1>2
  <2> QED BY <1>1, <1>2, <2>1
<1> QED BY <1>3 DEF Range, E

\* The numbers of a season are those of its episodes, and there is one.
LEMMA NumbersAre ==
    ASSUME NEW show \in Series, NEW season \in Seasons(show)
    PROVE  /\ \A number : number \in Range(Numbers(show, season)) <=>
                            <<show, season, number>> \in Range(EpisodesOf[show])
           /\ \E p \in DOMAIN EpisodesOf[show] :
                 /\ EpisodesOf[show][p][2] = season /\ Numbers(show, season)[1] = EpisodesOf[show][p][3]
                 /\ \A k \in DOMAIN EpisodesOf[show] : EpisodesOf[show][k][2] = season => p <= k
<1> DEFINE E == EpisodesOf[show]
           A == {ep \in Range(E) : ep[2] = season}
           those == Only(E, A)
           T == {show} \X Nat \X (Nat \ {0})
<1>1. /\ E \in Seq(T) /\ DOMAIN E \subseteq Nat
      /\ \A n \in DOMAIN E : E[n] = <<show, E[n][2], E[n][3]>> /\ E[n] \in Range(E)
  <2>1. /\ E \in Seq(T) /\ Len(E) \in Nat /\ DOMAIN E = 1..Len(E)
        /\ \A n \in DOMAIN E : E[n] = <<show, E[n][2], E[n][3]>>
    BY EpisodesAreListed
  <2>2. \A n \in DOMAIN E : E[n] \in Range(E)
    BY DEF Range
  <2> HIDE DEF E, T
  <2> QED BY <2>1, <2>2
<1>2. \A n \in DOMAIN E : E[n] \in A <=> E[n][2] = season
  BY <1>1
<1>3. \E n \in DOMAIN E : E[n][2] = season
  BY DEF Seasons, Range
<1>4. Range(those) = Range(E) \cap A /\ those \in Seq(T)
  <2> HIDE DEF E, A, T
  <2> QED BY <1>1, OnlyRange, OnlyIsAList
<1>5. PICK p \in DOMAIN E : E[p][2] = season /\ \A k \in DOMAIN E : E[k][2] = season => p <= k
  <2> DEFINE places == {n \in DOMAIN E : E[n][2] = season}
  <2>1. PICK p \in places : \A k \in places : ~(k < p)
    <3>1. places \subseteq Nat /\ places # {}
      BY <1>1, <1>3
    <3> HIDE DEF places
    <3> QED BY <3>1, LeastNumber
  <2>2. p \in DOMAIN E /\ p \in Nat /\ E[p][2] = season
    BY <1>1
  <2>3. \A k \in DOMAIN E : E[k][2] = season => k \in Nat /\ ~(k < p)
    BY <1>1, <2>1
  <2> HIDE DEF E
  <2> QED BY <2>2, <2>3
<1>6. those # << >> /\ those[1] = E[p]
  <2>1. \A k \in DOMAIN E : k < p => E[k] \notin A
    BY <1>1, <1>2, <1>5
  <2>2. E[p] \in A
    BY <1>2, <1>5
  <2> HIDE DEF E, A, T
  <2> QED BY <1>1, <1>5, <2>1, <2>2, OnlyHead
<1>7. Numbers(show, season) = [n \in DOMAIN those |-> those[n][3]]
  BY DEF Numbers
<1>8. 1 \in DOMAIN those
  <2> HIDE DEF those, T
  <2> QED BY <1>4, <1>6, LenProperties, EmptySeq
<1>9. Numbers(show, season)[1] = E[p][3]
  <2> HIDE DEF those
  <2> QED BY <1>6, <1>7, <1>8
<1>10. ASSUME NEW number
       PROVE  number \in Range(Numbers(show, season)) <=> <<show, season, number>> \in Range(E)
  <2>1. number \in Range(Numbers(show, season)) <=> \E ep \in Range(those) : ep[3] = number
    <3> HIDE DEF those
    <3> QED BY <1>7 DEF Range
  <2>2. \A ep \in Range(E) : ep = <<show, ep[2], ep[3]>>
    BY <1>1 DEF Range
  <2>3. \A ep \in Range(those) : ep \in Range(E) /\ ep[2] = season
    <3> HIDE DEF those
    <3> QED BY <1>4
  <2>4. <<show, season, number>> \in Range(E) => <<show, season, number>> \in Range(those)
    <3> HIDE DEF those, E
    <3> QED BY <1>4
  <2> HIDE DEF those, E
  <2> QED BY <2>1, <2>2, <2>3, <2>4
<1> QED BY <1>5, <1>9, <1>10

\* The first season is one of the show's, and no later than any.
LEMMA FirstSeasonIs ==
    ASSUME NEW show \in Series
    PROVE  FirstSeason(show) \in Seasons(show) /\ \A season \in Seasons(show) : FirstSeason(show) <= season
<1>1. Seasons(show) \subseteq Nat /\ Seasons(show) # {}
  <2>1. \A season \in Seasons(show) : \E n \in DOMAIN EpisodesOf[show] : season = EpisodesOf[show][n][2]
    BY DEF Seasons, Range
  <2>2. \A n \in DOMAIN EpisodesOf[show] : EpisodesOf[show][n][2] \in Seasons(show)
    BY DEF Seasons, Range
  <2>3. 1 \in DOMAIN EpisodesOf[show] /\ \A n \in DOMAIN EpisodesOf[show] : EpisodesOf[show][n][2] \in Nat
    BY EpisodesAreListed
  <2> QED BY <2>1, <2>2, <2>3
<1>2. \E season \in Seasons(show) : \A other \in Seasons(show) : season <= other
  <2>1. PICK season \in Seasons(show) : \A other \in Seasons(show) : ~(other < season)
    BY <1>1, LeastNumber
  <2> QED BY <1>1, <2>1
<1> QED BY <1>2 DEF FirstSeason

(* Whatever is preset, the pickers are set to an episode of the show.      *)
LEMMA PointIsThere ==
    ASSUME NEW show \in Series, NEW preset
    PROVE  LET point == DefaultStartPoint(show, preset) IN
           /\ <<show, point.season, point.episode>> \in Range(EpisodesOf[show])
           /\ point.season \in Nat /\ point.episode \in Nat /\ point.episode # 0
<1> DEFINE season == IF preset.season \in Seasons(show) THEN preset.season ELSE FirstSeason(show)
           wanted == IF preset.season \in {0, season} THEN preset.episode ELSE 0
           point == DefaultStartPoint(show, preset)
<1>1. season \in Seasons(show)
  BY FirstSeasonIs
<1>2. point.season = season /\ point.episode = Option(Numbers(show, season), wanted)
  BY DEF DefaultStartPoint
<1> HIDE DEF point, season, wanted
<1>3. point.episode \in Range(Numbers(show, season)) \/ point.episode = Numbers(show, season)[1]
  BY <1>2 DEF Option
<1>4. <<show, season, Numbers(show, season)[1]>> \in Range(EpisodesOf[show])
  <2>1. PICK p \in DOMAIN EpisodesOf[show] :
              EpisodesOf[show][p][2] = season /\ Numbers(show, season)[1] = EpisodesOf[show][p][3]
    BY <1>1, NumbersAre
  <2>2. EpisodesOf[show][p] = <<show, EpisodesOf[show][p][2], EpisodesOf[show][p][3]>>
    BY EpisodesAreListed
  <2> QED BY <2>1, <2>2 DEF Range
<1>5. <<show, season, point.episode>> \in Range(EpisodesOf[show])
  BY <1>1, <1>3, <1>4, NumbersAre
<1>6. season \in Nat /\ point.episode \in Nat /\ point.episode # 0
  <2>1. PICK n \in DOMAIN EpisodesOf[show] : EpisodesOf[show][n] = <<show, season, point.episode>>
    BY <1>5 DEF Range
  <2>2. EpisodesOf[show][n][2] = season /\ EpisodesOf[show][n][3] = point.episode
    BY <2>1
  <2> QED BY <2>1, <2>2, EpisodesAreListed
<1> QED BY <1>2, <1>5, <1>6 DEF point

(* A preset that names an episode of the show sets them to it ...          *)
LEMMA PointOfEpisode ==
    ASSUME NEW show \in Series, HasASeason(show), NEW preset,
           <<show, OrFirst(preset.season), preset.episode>> \in Range(EpisodesOf[show])
    PROVE  DefaultStartPoint(show, preset) = [season |-> OrFirst(preset.season), episode |-> preset.episode]
<1> DEFINE begin == OrFirst(preset.season)
           season == IF preset.season \in Seasons(show) THEN preset.season ELSE FirstSeason(show)
<1>1. begin \in Seasons(show)
  <2>1. <<show, begin, preset.episode>>[2] = begin
    OBVIOUS
  <2> HIDE DEF begin
  <2> QED BY <2>1 DEF Seasons, begin
<1>2. \A other \in Seasons(show) : other \in Nat /\ other # 0
  BY EpisodesHaveSeasons DEF Seasons
<1>3. season = begin /\ preset.season \in {0, season}
  <2>1. CASE preset.season \in Seasons(show)
    BY <1>2, <2>1 DEF OrFirst
  <2>2. CASE preset.season \notin Seasons(show)
    <3>1. preset.season = 0 /\ begin = 1
      BY <1>1, <2>2 DEF OrFirst
    <3>2. FirstSeason(show) \in Nat /\ FirstSeason(show) # 0 /\ FirstSeason(show) <= 1
      BY <1>1, <1>2, <3>1, FirstSeasonIs
    <3> QED BY <2>2, <3>1, <3>2
  <2> QED BY <2>1, <2>2
<1>4. preset.episode \in Range(Numbers(show, begin))
  BY <1>1, NumbersAre
<1>5. DefaultStartPoint(show, preset)
        = [season  |-> season,
           episode |-> Option(Numbers(show, season), IF preset.season \in {0, season} THEN preset.episode ELSE 0)]
  BY DEF DefaultStartPoint
<1> HIDE DEF season, begin
<1> QED BY <1>3, <1>4, <1>5 DEF Option, begin

(* ... and one that names none to the first.                               *)
LEMMA PointOfNothing ==
    ASSUME NEW show \in Series, HasASeason(show), NEW preset, preset.season = 0, preset.episode = 0
    PROVE  LET point == DefaultStartPoint(show, preset) IN
           \A ep \in Range(EpisodesOf[show]) :
              ep[2] > point.season \/ (ep[2] = point.season /\ ep[3] >= point.episode)
<1> DEFINE E == EpisodesOf[show]
           point == DefaultStartPoint(show, preset)
           first == FirstSeason(show)
<1>1. \A season \in Seasons(show) : season \in Nat /\ season # 0
  BY EpisodesHaveSeasons DEF Seasons
<1>2. first \in Seasons(show) /\ \A season \in Seasons(show) : first <= season
  BY FirstSeasonIs
<1>3. 0 \notin Range(Numbers(show, first))
  <2> SUFFICES ASSUME <<show, first, 0>> \in Range(E) PROVE FALSE
    BY <1>2, NumbersAre
  <2>1. PICK n \in DOMAIN E : E[n] = <<show, first, 0>>
    BY DEF Range
  <2>2. E[n][3] = 0
    BY <2>1
  <2> QED BY <2>1, <2>2, EpisodesAreListed
<1>4. point.season = first /\ point.episode = Numbers(show, first)[1]
  BY <1>1, <1>2, <1>3 DEF DefaultStartPoint, Option
<1>5. PICK p \in DOMAIN E : /\ E[p][2] = first /\ Numbers(show, first)[1] = E[p][3]
                            /\ \A k \in DOMAIN E : E[k][2] = first => p <= k
  BY <1>2, NumbersAre
<1> HIDE DEF point
<1>6. ASSUME NEW n \in DOMAIN E PROVE E[n][2] > first \/ (E[n][2] = first /\ E[n][3] >= E[p][3])
  <2>1. E[n][2] \in Seasons(show)
    BY DEF Seasons, Range
  <2>2. E[n][2] \in Nat /\ first \in Nat /\ first <= E[n][2]
    BY <1>1, <1>2, <2>1
  <2>3. E[n][3] \in Nat /\ E[p][3] \in Nat
    BY <1>5, EpisodesAreListed
  <2>4. CASE E[n][2] = first
    <3>1. p <= n
      BY <1>5, <2>4
    <3>2. E[p][2] < E[n][2] \/ (E[p][2] = E[n][2] /\ E[p][3] <= E[n][3])
      BY <1>5, <3>1, EpisodesAreListed
    <3> QED BY <1>5, <2>2, <2>3, <2>4, <3>2
  <2>5. CASE E[n][2] # first
    BY <2>2, <2>5
  <2> QED BY <2>4, <2>5
<1>7. \A ep \in Range(E) : ep[2] > first \/ (ep[2] = first /\ ep[3] >= E[p][3])
  BY <1>6 DEF Range
<1> QED BY <1>4, <1>5, <1>7 DEF point

-----------------------------------------------------------------------------
(* The start picker: an untouched form.                                    *)

\* The member an untouched form is about, and what its pickers are preset to.
Subject(e, start, next) ==
    IF Holding[e] \in DOMAIN Members
    THEN Option(Members[Holding[e]], IF start.series # NoSeries THEN start.series
                                     ELSE IF next # << >> THEN next[1][1] ELSE NoSeries)
    ELSE Holding[e]

PresetOf(e, start, next) ==
    IF Holding[e] \in DOMAIN Members THEN MemberPreset(start, next, Subject(e, start, next))
    ELSE IF start # NoStart THEN start ELSE IF next = << >> THEN NoStart ELSE Preset(next[1])

PointOf(e, start, next) == DefaultStartPoint(Subject(e, start, next), PresetOf(e, start, next))

\* What it says once its answers are in.
Ready(e, start, next) ==
    IF Subject(e, start, next) \in Series
    THEN [series  |-> IF Holding[e] \in DOMAIN Members THEN Subject(e, start, next) ELSE NoSeries,
          season  |-> PointOf(e, start, next).season, episode |-> PointOf(e, start, next).episode]
    ELSE [NoStart EXCEPT !.series = Subject(e, start, next)]

\* A start at the episode its preset leads to lets through what the preset did.
LEMMA PresetKeepsTheFloor ==
    ASSUME NEW show \in Series, HasASeason(show), NEW start, NEW series,
           IF start.episode = 0 THEN start.season = 0
           ELSE <<show, OrFirst(start.season), start.episode>> \in Range(EpisodesOf[show])
    PROVE  LET point == DefaultStartPoint(show, start)
               saved == [series |-> series, season |-> point.season, episode |-> point.episode] IN
           \A ep \in Range(EpisodesOf[show]) : AtOrAfterStart(ep, saved) <=> AtOrAfterStart(ep, start)
<1> DEFINE point == DefaultStartPoint(show, start)
           saved == [series |-> series, season |-> point.season, episode |-> point.episode]
<1>1. saved.season = point.season /\ saved.episode = point.episode
  OBVIOUS
<1>2. /\ point.episode # 0 /\ point.season # 0
  <2>1. <<show, point.season, point.episode>> \in Range(EpisodesOf[show]) /\ point.episode # 0
    BY PointIsThere
  <2>2. <<show, point.season, point.episode>>[2] = point.season
    OBVIOUS
  <2> HIDE DEF point
  <2> QED BY <2>1, <2>2, EpisodesHaveSeasons
<1> SUFFICES \A ep \in Range(EpisodesOf[show]) : AtOrAfterStart(ep, saved) <=> AtOrAfterStart(ep, start)
  OBVIOUS
<1> HIDE DEF saved
<1>3. CASE start.episode = 0
  <2>1. \A ep \in Range(EpisodesOf[show]) :
           ep[2] > point.season \/ (ep[2] = point.season /\ ep[3] >= point.episode)
    BY <1>3, PointOfNothing
  <2> HIDE DEF point
  <2> QED BY <1>1, <1>2, <1>3, <2>1 DEF AtOrAfterStart, OrFirst
<1>4. CASE start.episode # 0
  <2>1. point = [season |-> OrFirst(start.season), episode |-> start.episode]
    BY <1>4, PointOfEpisode
  <2>2. point.season = OrFirst(start.season) /\ point.episode = start.episode
    BY <2>1
  <2> HIDE DEF point
  <2> QED BY <1>1, <1>2, <1>4, <2>2 DEF AtOrAfterStart, OrFirst
<1> QED BY <1>3, <1>4

\* A start at the episode that plays next is that episode's.
LEMMA PresetOfNext ==
    ASSUME NEW show \in Series, HasASeason(show), NEW p \in DOMAIN EpisodesOf[show], NEW series
    PROVE  LET ep == EpisodesOf[show][p]
               point == DefaultStartPoint(show, Preset(ep))
               saved == [series |-> series, season |-> point.season, episode |-> point.episode] IN
           point.season = ep[2] /\ point.episode = ep[3] /\ AtOrAfterStart(ep, saved)
<1> DEFINE ep == EpisodesOf[show][p]
           point == DefaultStartPoint(show, Preset(ep))
           saved == [series |-> series, season |-> point.season, episode |-> point.episode]
<1>1. ep \in Range(EpisodesOf[show]) /\ ep = <<show, ep[2], ep[3]>> /\ ep[3] \in Nat /\ ep[3] # 0
  BY EpisodesAreListed DEF Range
<1>2. ep[2] \in Nat /\ ep[2] # 0
  BY <1>1, EpisodesHaveSeasons
<1> HIDE DEF ep
<1>3. Preset(ep).season = ep[2] /\ Preset(ep).episode = ep[3]
  BY DEF Preset, NoStart
<1>4. point = [season |-> ep[2], episode |-> ep[3]]
  <2>1. OrFirst(Preset(ep).season) = ep[2]
    BY <1>2, <1>3 DEF OrFirst
  <2> QED BY <1>1, <1>3, <2>1, PointOfEpisode
<1>5. point.season = ep[2] /\ point.episode = ep[3]
  BY <1>4
<1> HIDE DEF point
<1>6. AtOrAfterStart(ep, saved)
  BY <1>1, <1>2, <1>5 DEF AtOrAfterStart, OrFirst
<1> QED BY <1>5, <1>6 DEF ep, point

\* What an untouched form says is stored as it says it.
LEMMA ReadyIsNormal ==
    ASSUME NEW e \in StartEntries, NEW start, NEW next, HasSeasons(e),
           Subject(e, start, next) \in Range(MembersOf(e))
    PROVE  NormalizeStart(Ready(e, start, next)) = Ready(e, start, next)
<1> DEFINE m == Subject(e, start, next)
           point == PointOf(e, start, next)
<1>1. CASE m \in Series
  <2>1. HasASeason(m)
    BY <1>1 DEF HasSeasons, HasASeason
  <2>2. /\ <<m, point.season, point.episode>> \in Range(EpisodesOf[m])
        /\ point.season \in Nat /\ point.episode \in Nat /\ point.episode # 0
    BY <1>1, PointIsThere DEF PointOf
  <2>3. <<m, point.season, point.episode>>[2] = point.season
    OBVIOUS
  <2> HIDE DEF m, point
  <2>4. point.season # 0
    BY <1>1, <2>1, <2>2, <2>3, EpisodesHaveSeasons
  <2> DEFINE series == IF Holding[e] \in DOMAIN Members THEN m ELSE NoSeries
             saved == [series |-> series, season |-> point.season, episode |-> point.episode]
  <2>5. Ready(e, start, next) = saved
    BY <1>1 DEF Ready, m, point
  <2>6. NormalizeStart(saved) = saved
    <3> HIDE DEF series
    <3>1. saved.season = point.season /\ saved.episode = point.episode /\ saved.episode # 0
      BY <2>2
    <3>2. (IF saved.season < 1 THEN 1 ELSE saved.season) = point.season
      BY <2>2, <2>4, <3>1
    <3>3. (IF saved.episode < 1 THEN 1 ELSE saved.episode) = point.episode
      BY <2>2, <3>1
    <3>4. NormalizeStart(saved) = [saved EXCEPT !.season = point.season, !.episode = point.episode]
      <4> HIDE DEF saved
      <4> QED BY <3>1, <3>2, <3>3, Zenon DEF NormalizeStart
    <3> QED BY <3>4
  <2> QED BY <2>5, <2>6
<1>2. CASE m \notin Series
  <2>1. Ready(e, start, next) = [NoStart EXCEPT !.series = m]
    BY <1>2 DEF Ready
  <2>2. [NoStart EXCEPT !.series = m].episode = 0
    BY DEF NoStart
  <2> HIDE DEF m
  <2> QED BY <2>1, <2>2 DEF NormalizeStart
<1> QED BY <1>1, <1>2

LEMMA SubjectIsAMember ==
    ASSUME NEW e \in StartEntries, NEW start, NEW next
    PROVE  Subject(e, start, next) \in Range(MembersOf(e))
<1>1. CASE Holding[e] \in DOMAIN Members
  <2>1. MembersOf(e) = Members[Holding[e]]
    BY <1>1 DEF MembersOf
  <2>2. MembersOf(e)[1] \in Range(MembersOf(e))
    BY MembersAreListed DEF Range
  <2> QED BY <1>1, <2>1, <2>2 DEF Subject, Option
<1>2. CASE Holding[e] \notin DOMAIN Members
  <2>1. <<Holding[e]>>[1] = Holding[e] /\ 1 \in DOMAIN <<Holding[e]>>
    OBVIOUS
  <2> QED BY <1>2, <2>1 DEF Subject, MembersOf, Range
<1> QED BY <1>1, <1>2

(* Storing what an untouched form says does not move the entry, and        *)
(* without a stored start it says what plays next.                         *)
LEMMA ReadyKeepsThePlace ==
    ASSUME NEW e \in StartEntries, NEW start, NEW seen, HasSeasons(e), StartIsThere(e, start)
    PROVE  LET next == Upcoming(e, start, seen)
               to == Ready(e, start, next) IN
           /\ Upcoming(e, to, seen) = next
           /\ start = NoStart /\ next # << >> => <<to.season, to.episode>> = <<next[1][2], next[1][3]>>
<1> DEFINE next == Upcoming(e, start, seen)
           M == MembersOf(e)
           m == Subject(e, start, next)
           point == PointOf(e, start, next)
           to == Ready(e, start, next)
           many == Holding[e] \in DOMAIN Members
<1>1. PICK K \in DOMAIN M : M[K] = m
  <2>1. m \in Range(M)
    BY SubjectIsAMember
  <2> QED BY <2>1 DEF Range
<1>2. /\ \A k \in DOMAIN M : M[k] \in Range(M) /\ (M[k] = m => k = K)
      /\ 1 \in DOMAIN M /\ NoSeries \notin Range(M) /\ m # NoSeries
  <2>1. \A k \in DOMAIN M : M[k] \in Range(M)
    BY DEF Range
  <2> HIDE DEF M, m, next
  <2> QED BY <1>1, <2>1, MembersAreListed DEF M
<1>3. /\ many => M = Members[Holding[e]]
      /\ ~many => M = <<Holding[e]>> /\ m = Holding[e] /\ m \in Series /\ K = 1 /\ DOMAIN M = {1}
  <2>1. ~many => M = <<Holding[e]>> /\ m = Holding[e] /\ m \in Series
    BY StartAssumption DEF MembersOf, Subject, Series, StartEntries
  <2>2. DOMAIN <<Holding[e]>> = {1}
    OBVIOUS
  <2>3. many => M = Members[Holding[e]]
    BY DEF MembersOf
  <2> HIDE DEF M, m
  <2> QED BY <1>1, <2>1, <2>2, <2>3
<1>4. m \in Series => /\ HasASeason(m)
                      /\ to = [series |-> IF many THEN m ELSE NoSeries,
                               season |-> point.season, episode |-> point.episode]
                      /\ \A p \in DOMAIN ItemsOf(m) : ItemsOf(m)[p] \in Range(EpisodesOf[m])
  <2>1. m \in Series => HasASeason(m)
    BY SubjectIsAMember DEF HasSeasons, HasASeason
  <2> QED BY <2>1 DEF Ready, ItemsOf, Range
<1>5. m \notin Series => to = [NoStart EXCEPT !.series = m]
  BY DEF Ready
<1>6. (many => to.series = m) /\ (m \notin Series => to.season = 0 /\ to.episode = 0)
      /\ (m \in Series => to.season = point.season /\ to.episode = point.episode)
  <2> HIDE DEF m, point, to
  <2> QED BY <1>4, <1>5 DEF NoStart
<1>7. StartMember(e, to) = K /\ IsStarted(e, to)
  <2>1. many => K = StartMember(e, to)
    <3> HIDE DEF to, m, next
    <3> QED BY <1>1, <1>6, StartMemberIs
  <2>2. ~many => K = StartMember(e, to)
    <3> HIDE DEF to, m, next
    <3> QED BY <1>3, StartMemberIs
  <2>3. many => to.series \in Range(M)
    BY <1>6, SubjectIsAMember
  <2> HIDE DEF to
  <2> QED BY <2>1, <2>2, <2>3 DEF IsStarted
<1>8. CASE IF many THEN start.series \in Range(M) ELSE start # NoStart \/ next = << >>
  <2>1. many => m = start.series
    <3>1. many /\ start.series # NoSeries => m = Option(M, start.series)
      <4> HIDE DEF next
      <4> QED BY <1>3 DEF Subject
    <3> HIDE DEF m, M, next
    <3> QED BY <1>2, <1>8, <3>1 DEF Option
  <2>2. PresetOf(e, start, next) = start
    <3>1. many => PresetOf(e, start, next) = MemberPreset(start, next, m)
      BY DEF PresetOf
    <3>2. ~many => PresetOf(e, start, next) = start
      <4> HIDE DEF next
      <4> QED BY <1>8 DEF PresetOf
    <3> HIDE DEF m, next
    <3> QED BY <2>1, <3>1, <3>2 DEF MemberPreset
  <2>3. m \in Series => /\ point = DefaultStartPoint(m, start)
                        /\ IF start.episode = 0 THEN start.season = 0
                           ELSE <<m, OrFirst(start.season), start.episode>> \in Range(EpisodesOf[m])
    <3>1. point = DefaultStartPoint(m, start)
      <4>1. point = DefaultStartPoint(m, PresetOf(e, start, next))
        BY DEF PointOf
      <4> HIDE DEF point, m, next
      <4> QED BY <2>2, <4>1
    <3>2. m = IF many THEN start.series ELSE Holding[e]
      <4> HIDE DEF m
      <4> QED BY <1>3, <2>1
    <3>3. m \in Range(M)
      BY SubjectIsAMember
    <3>4. m \in Series => IF start.episode = 0 THEN start.season = 0
                          ELSE <<m, OrFirst(start.season), start.episode>> \in Range(EpisodesOf[m])
      <4> HIDE DEF m
      <4> QED BY <3>2, <3>3 DEF StartIsThere
    <3> QED BY <3>1, <3>4
  <2>4. m \in Series => \A ep \in Range(EpisodesOf[m]) : AtOrAfterStart(ep, to) <=> AtOrAfterStart(ep, start)
    <3>1. ASSUME m \in Series
          PROVE  LET at == DefaultStartPoint(m, start)
                     saved == [series |-> IF many THEN m ELSE NoSeries, season |-> at.season, episode |-> at.episode] IN
                 \A ep \in Range(EpisodesOf[m]) : AtOrAfterStart(ep, saved) <=> AtOrAfterStart(ep, start)
      <4> HIDE DEF m, point
      <4> QED BY <1>4, <2>3, <3>1, PresetKeepsTheFloor
    <3> HIDE DEF m, point, to
    <3> QED BY <1>4, <2>3, <3>1
  <2>5. StartMember(e, start) = K /\ IsStarted(e, start)
    <3>1. many => K = StartMember(e, start)
      <4> HIDE DEF m, next
      <4> QED BY <1>1, <2>1, StartMemberIs
    <3>2. ~many => K = StartMember(e, start)
      <4> HIDE DEF m, next
      <4> QED BY <1>3, StartMemberIs
    <3> QED BY <1>8, <3>1, <3>2 DEF IsStarted
  <2>6. ASSUME NEW k, NEW p PROVE MayPlay(e, to, seen, k, p) <=> MayPlay(e, start, seen, k, p)
    <3>1. k = K /\ p \in DOMAIN ItemsOf(M[k]) /\ m \in Series =>
            (AtOrAfterStart(ItemOf(e, k, p), to) <=> AtOrAfterStart(ItemOf(e, k, p), start))
      <4> HIDE DEF m, to
      <4> QED BY <1>1, <1>4, <2>4 DEF ItemOf
    <3>2. k = K => M[k] = m
      BY <1>1
    <3> HIDE DEF m, to, next
    <3> QED BY <1>7, <2>5, <3>1, <3>2 DEF MayPlay
  <2>7. Upcoming(e, to, seen) = next
    <3>1. \A k, p : PlaysFirst(e, start, seen, k, p) => MayPlay(e, to, seen, k, p)
      <4> HIDE DEF to
      <4> QED BY <2>6 DEF PlaysFirst
    <3> HIDE DEF to
    <3> QED BY <2>6, <3>1, SamePlace
  <2>8. ~(start = NoStart /\ next # << >>)
    <3>1. start = NoStart => start.series = NoSeries
      BY DEF NoStart
    <3> HIDE DEF next, M
    <3> QED BY <1>2, <1>8, <3>1
  <2> HIDE DEF next, to
  <2> QED BY <2>7, <2>8 DEF next, to
<1>9. CASE ~(IF many THEN start.series \in Range(M) ELSE start # NoStart \/ next = << >>)
  <2>1. many => start.series \notin Range(M) /\ StartMember(e, start) = 1 /\ ~IsStarted(e, start)
    <3>1. many => start.series \notin Range(M)
      BY <1>9
    <3> QED BY <3>1, StartMemberIs DEF IsStarted
  <2>2. ~many => start = NoStart /\ next # << >> /\ StartMember(e, start) = 1 /\ \A ep : AtOrAfterStart(ep, start)
    <3>1. ~many => start = NoStart /\ next # << >>
      BY <1>9
    <3>2. ~many => StartMember(e, start) = 1
      BY <1>3, StartMemberIs
    <3> HIDE DEF next
    <3> QED BY <3>1, <3>2 DEF AtOrAfterStart, NoStart
  <2>3. ASSUME NEW k, NEW p, MayPlay(e, to, seen, k, p) PROVE MayPlay(e, start, seen, k, p)
    <3>1. k \in Nat /\ k >= 1
      BY <2>3, PlacesAreNumbers
    <3> HIDE DEF to, next
    <3> QED BY <2>1, <2>2, <2>3, <3>1 DEF MayPlay
  <2>4. ASSUME NEW k, NEW p, PlaysFirst(e, start, seen, k, p)
        PROVE  /\ next = <<ItemOf(e, k, p)>> /\ MayPlay(e, start, seen, k, p)
               /\ k # K => K = 1 /\ start.series # NoSeries
               /\ k = K => PresetOf(e, start, next) = Preset(ItemOf(e, k, p))
    <3>1. next = <<ItemOf(e, k, p)>> /\ next # << >> /\ next[1] = ItemOf(e, k, p)
      <4>1. next = <<ItemOf(e, k, p)>>
        BY <2>4, FirstIsNext
      <4> HIDE DEF next
      <4> QED BY <4>1
    <3>2. MayPlay(e, start, seen, k, p) /\ k \in DOMAIN M
      BY <2>4 DEF PlaysFirst, MayPlay
    <3>3. next[1][1] = M[k]
      <4>1. ItemOf(e, k, p)[1] = M[k]
        BY <3>2, ItemsAreListed DEF ItemOf, MayPlay
      <4> HIDE DEF next
      <4> QED BY <3>1, <4>1
    <3>4. CASE ~many
      <4>1. PresetOf(e, start, next) = Preset(next[1])
        <5> HIDE DEF next
        <5> QED BY <2>2, <3>1, <3>4 DEF PresetOf
      <4> HIDE DEF next, m
      <4> QED BY <1>3, <3>1, <3>2, <3>4, <4>1
    <3>5. CASE many
      <4>1. m = Option(M, IF start.series # NoSeries THEN start.series ELSE next[1][1])
        <5> HIDE DEF next
        <5> QED BY <1>3, <3>1, <3>5 DEF Subject
      <4>2. start.series = NoSeries => k = K
        <5> HIDE DEF m, next, M
        <5> QED BY <1>2, <3>2, <3>3, <4>1 DEF Option
      <4>3. start.series # NoSeries => K = 1
        <5> HIDE DEF m, next, M
        <5> QED BY <1>2, <2>1, <3>5, <4>1 DEF Option
      <4>4. PresetOf(e, start, next) = MemberPreset(start, next, m)
        BY <3>5 DEF PresetOf
      <4>5. start.series # m /\ (k = K => next[1][1] = m)
        <5> HIDE DEF m, next, M
        <5> QED BY <1>1, <1>2, <2>1, <3>3, <3>5
      <4> HIDE DEF m, next
      <4> QED BY <3>1, <3>2, <4>2, <4>3, <4>4, <4>5 DEF MemberPreset
    <3> HIDE DEF next
    <3> QED BY <3>4, <3>5
  <2>5. ASSUME NEW k, NEW p, PlaysFirst(e, start, seen, k, p), k = K, m \in Series
        PROVE  /\ to.season = ItemOf(e, k, p)[2] /\ to.episode = ItemOf(e, k, p)[3]
               /\ AtOrAfterStart(ItemOf(e, k, p), to)
    <3> DEFINE ep == ItemOf(e, k, p)
    <3>1. p \in DOMAIN EpisodesOf[m] /\ ep = EpisodesOf[m][p]
      <4>1. p \in DOMAIN ItemsOf(M[k])
        BY <2>5 DEF PlaysFirst, MayPlay
      <4>2. M[k] = m /\ ItemsOf(m) = EpisodesOf[m]
        BY <1>1, <2>5 DEF ItemsOf
      <4> HIDE DEF m
      <4> QED BY <4>1, <4>2 DEF ItemOf
    <3>2. point = DefaultStartPoint(m, Preset(ep))
      <4>1. point = DefaultStartPoint(m, PresetOf(e, start, next))
        BY DEF PointOf
      <4>2. PresetOf(e, start, next) = Preset(ep)
        BY <2>4, <2>5
      <4> HIDE DEF point, m, next, ep
      <4> QED BY <4>1, <4>2
    <3> HIDE DEF m, point, ep, to
    <3> QED BY <1>4, <1>6, <2>5, <3>1, <3>2, PresetOfNext DEF ep
  <2>6. ASSUME NEW k, NEW p, PlaysFirst(e, start, seen, k, p) PROVE MayPlay(e, to, seen, k, p)
    <3>1. MayPlay(e, start, seen, k, p) /\ (k # K => K = 1)
      BY <2>4, <2>6
    <3>2. k \in Nat /\ k >= 1
      BY <3>1, PlacesAreNumbers
    <3>3. k = K => M[k] = m
      BY <1>1
    <3>4. k = K /\ m \in Series => AtOrAfterStart(ItemOf(e, k, p), to)
      BY <2>5, <2>6
    <3> HIDE DEF m, to, next
    <3> QED BY <1>7, <3>1, <3>2, <3>3, <3>4 DEF MayPlay
  <2>7. Upcoming(e, to, seen) = next
    <3> HIDE DEF to
    <3> QED BY <2>3, <2>6, SamePlace
  <2>8. ASSUME start = NoStart, next # << >> PROVE <<to.season, to.episode>> = <<next[1][2], next[1][3]>>
    <3>1. PICK k, p : PlaysFirst(e, start, seen, k, p)
      BY <2>8, UpcomingIs
    <3>2. k = K /\ next = <<ItemOf(e, k, p)>>
      <4>1. start.series = NoSeries
        BY <2>8 DEF NoStart
      <4> HIDE DEF next
      <4> QED BY <2>4, <3>1, <4>1
    <3>3. CASE m \in Series
      <4>1. to.season = ItemOf(e, k, p)[2] /\ to.episode = ItemOf(e, k, p)[3]
        BY <2>5, <3>1, <3>2, <3>3
      <4> HIDE DEF to, next
      <4> QED BY <3>2, <4>1
    <3>4. CASE m \notin Series
      <4>1. p \in DOMAIN ItemsOf(M[k])
        BY <3>1 DEF PlaysFirst, MayPlay
      <4>2. ItemsOf(m) = <<<<m, 0, 0>>>> /\ DOMAIN <<<<m, 0, 0>>>> = {1} /\ <<<<m, 0, 0>>>>[1] = <<m, 0, 0>>
        BY <3>4 DEF ItemsOf
      <4>3. ItemOf(e, k, p) = <<m, 0, 0>>
        <5> HIDE DEF m
        <5> QED BY <1>1, <3>2, <4>1, <4>2 DEF ItemOf
      <4> HIDE DEF to, next, m
      <4> QED BY <1>6, <3>2, <3>4, <4>3
    <3> QED BY <3>3, <3>4
  <2> HIDE DEF next, to
  <2> QED BY <2>7, <2>8 DEF next, to
<1> QED BY <1>8, <1>9

-----------------------------------------------------------------------------
(* The start picker: the window.                                           *)

\* What an untouched opening asked for is what its entry needs, ...
AsksRight(load, f) ==
    \/ load.what = "children" /\ load.key = Holding[f.entry] /\ Holding[f.entry] \in DOMAIN Members
    \/ /\ load.what = "episodes" /\ load.key = Subject(f.entry, f.start, f.next)
       /\ load.preset = PresetOf(f.entry, f.start, f.next)

\* ... and what it shows, unless a late answer came, is what it asked for.
FormIsRight(f, asked, seen) ==
    LET subject == Subject(f.entry, f.start, f.next)
        point   == PointOf(f.entry, f.start, f.next) IN
    /\ f.entry \in StartEntries /\ f.next = Upcoming(f.entry, f.start, seen)
    /\ ~f.touched =>
        /\ Holding[f.entry] \in DOMAIN Members /\ f.series # NoSeries => f.series = subject
        /\ f.series # NoSeries /\ f.series \notin Series => ~f.shown
        /\ \A load \in asked : load.n = f.asked => AsksRight(load, f)
        /\ ~f.late /\ f.data # NoSeries =>
              f.data = subject /\ f.season = point.season /\ f.episode = point.episode

\* A form saved whole and untouched says what its entry's form says.
ToldIsRight(t, seen) ==
    t.entry # NoSeries =>
        /\ t.entry \in StartEntries
        /\ t.whole /\ ~t.touched => t.start = Ready(t.entry, t.from, Upcoming(t.entry, t.from, seen))

PickInv ==
    /\ pickGestures \in Nat /\ DOMAIN form = DOMAIN Closed
    /\ form.asked \in Nat /\ form.asked <= pickGestures
    /\ \A load \in loads : /\ DOMAIN load = {"n", "what", "key", "preset"}
                           /\ load.n \in Nat /\ load.n <= pickGestures
    /\ form.entry # NoSeries => FormIsRight(form, loads, watchedHere)
    /\ ToldIsRight(told, watchedHere)

\* What is told of a form that is saved is right when the form is.
LEMMA SaveIsRight ==
    ASSUME FormIsRight(form, loads, watchedHere), form.entry # NoSeries, IsWhole, ~form.touched
    PROVE  ReadForm = Ready(form.entry, form.start, Upcoming(form.entry, form.start, watchedHere))
<1> DEFINE e == form.entry
           next == form.next
           m == Subject(e, form.start, next)
           point == PointOf(e, form.start, next)
           many == Holding[e] \in DOMAIN Members
<1>1. e \in StartEntries /\ next = Upcoming(e, form.start, watchedHere)
  BY DEF FormIsRight
<1>2. /\ many /\ form.series # NoSeries => form.series = m
      /\ form.series # NoSeries /\ form.series \notin Series => ~form.shown
      /\ ~form.late /\ form.data # NoSeries =>
            form.data = m /\ form.season = point.season /\ form.episode = point.episode
  BY DEF FormIsRight
<1>3. IsCollection <=> many
  BY DEF IsCollection
<1>4. ~form.late /\ (many => form.series # NoSeries)
      /\ (form.series \in Series \/ ~many => form.shown /\ form.data # NoSeries)
  BY <1>3 DEF IsWhole, HasEpisodes
<1>5. ~many => m = Holding[e] /\ m \in Series
  BY <1>1, StartAssumption DEF Subject, Series, StartEntries
<1>6. m \in Series => point.episode # 0
  BY PointIsThere DEF PointOf
<1>7. Ready(e, form.start, next)
        = IF m \in Series THEN [series |-> IF many THEN m ELSE NoSeries,
                                season |-> point.season, episode |-> point.episode]
          ELSE [NoStart EXCEPT !.series = m]
  BY DEF Ready
<1>8. ReadForm = IF many /\ form.series = NoSeries THEN NoStart
                 ELSE IF form.shown /\ form.episode # 0
                      THEN [series |-> IF many THEN form.series ELSE NoSeries,
                            season |-> form.season, episode |-> form.episode]
                      ELSE [NoStart EXCEPT !.series = IF many THEN form.series ELSE NoSeries]
  BY <1>3 DEF ReadForm
<1>9. ReadForm = Ready(e, form.start, next)
  <2> HIDE DEF e, next, m, point
  <2> QED BY <1>2, <1>4, <1>5, <1>6, <1>7, <1>8
<1> QED BY <1>1, <1>9

LEMMA PickInit ==
    ASSUME StartInit
    PROVE  PickInv
<1>1. form = Closed /\ loads = {} /\ pickGestures = 0 /\ told.entry = NoSeries
  BY DEF StartInit
<1>2. Closed.entry = NoSeries /\ Closed.asked = 0
  BY DEF Closed
<1> QED BY <1>1, <1>2 DEF PickInv, ToldIsRight

\* An answer that is not the opening's own leaves it late; its own is what it needs.
LEMMA LoadedIsRight ==
    ASSUME PickInv, NEW load \in loads, EpisodesLoaded(load)
    PROVE  PickInv'
<1> DEFINE chosen == DefaultStartPoint(load.key, load.preset)
<1>1. /\ load.what = "episodes" /\ loads' = loads \ {load}
      /\ form' = [form EXCEPT !.loading = FALSE, !.data = load.key, !.season = chosen.season,
                              !.episode = chosen.episode, !.late = load.n # form.asked]
      /\ watchedHere' = watchedHere /\ told' = told /\ pickGestures' = pickGestures
  BY DEF EpisodesLoaded
<1>2. /\ DOMAIN form' = DOMAIN form /\ form'.entry = form.entry /\ form'.start = form.start /\ form'.next = form.next
      /\ form'.series = form.series /\ form'.shown = form.shown /\ form'.asked = form.asked
      /\ form'.touched = form.touched
      /\ form'.data = load.key /\ form'.season = chosen.season /\ form'.episode = chosen.episode
      /\ form'.late <=> load.n # form.asked
  <2> HIDE DEF chosen
  <2> QED BY <1>1 DEF PickInv, Closed
<1>3. ASSUME form.entry # NoSeries PROVE FormIsRight(form', loads', watchedHere')
  <2>1. FormIsRight(form, loads, watchedHere)
    BY <1>3 DEF PickInv
  <2>2. ASSUME ~form.touched, load.n = form.asked
        PROVE  /\ load.key = Subject(form.entry, form.start, form.next)
               /\ chosen = PointOf(form.entry, form.start, form.next)
    <3>1. AsksRight(load, form)
      BY <2>1, <2>2 DEF FormIsRight
    <3>2. load.key = Subject(form.entry, form.start, form.next) /\ load.preset = PresetOf(form.entry, form.start, form.next)
      BY <1>1, <3>1 DEF AsksRight
    <3> QED BY <3>2 DEF PointOf
  <2>3. \A other : AsksRight(other, form') <=> AsksRight(other, form)
    <3> HIDE DEF chosen
    <3> QED BY <1>2 DEF AsksRight
  <2> HIDE DEF chosen
  <2> QED BY <1>1, <1>2, <2>1, <2>2, <2>3 DEF FormIsRight
<1> HIDE DEF chosen
<1> QED BY <1>1, <1>2, <1>3 DEF PickInv

LEMMA FailedIsRight ==
    ASSUME PickInv, NEW load \in loads, EpisodesFailed(load)
    PROVE  PickInv'
<1>1. /\ loads' = loads \ {load}
      /\ form' = [form EXCEPT !.loading = FALSE, !.data = NoSeries, !.shown = FALSE]
      /\ watchedHere' = watchedHere /\ told' = told /\ pickGestures' = pickGestures
  BY DEF EpisodesFailed
<1>2. /\ DOMAIN form' = DOMAIN form /\ form'.entry = form.entry /\ form'.start = form.start /\ form'.next = form.next
      /\ form'.series = form.series /\ form'.shown = FALSE /\ form'.asked = form.asked
      /\ form'.touched = form.touched /\ form'.data = NoSeries
  BY <1>1 DEF PickInv, Closed
<1>3. \A other : AsksRight(other, form') <=> AsksRight(other, form)
  BY <1>2 DEF AsksRight
<1>4. ASSUME form.entry # NoSeries PROVE FormIsRight(form', loads', watchedHere')
  <2>1. FormIsRight(form, loads, watchedHere)
    BY <1>4 DEF PickInv
  <2> QED BY <1>1, <1>2, <1>3, <2>1 DEF FormIsRight
<1> QED BY <1>1, <1>2, <1>4 DEF PickInv

\* paintMember: the member is shown, and a film shows nothing of what was there.
LEMMA PaintsIs ==
    ASSUME DOMAIN form = DOMAIN Closed, NEW member
    PROVE  LET f == Paints(member) IN
           /\ DOMAIN f = DOMAIN form /\ f.entry = form.entry /\ f.start = form.start /\ f.next = form.next
           /\ f.series = member /\ f.asked = form.asked /\ f.touched = form.touched /\ f.late = form.late
           /\ f.season = form.season /\ f.episode = form.episode
           /\ member \notin Series => f.shown = FALSE
           /\ f.data \in {form.data, NoSeries}
BY DEF Paints, Closed

LEMMA ChildrenAreRight ==
    ASSUME PickInv, NEW load \in loads, NEW answers \in BOOLEAN, ChildrenLoaded(load, answers)
    PROVE  PickInv'
<1> DEFINE children == Members[load.key]
           chosen == FirstMember(children)
           isStale == form.entry = NoSeries \/ load.n # form.asked
           asks == [load EXCEPT !.what = "episodes", !.key = chosen,
                                !.preset = MemberPreset(form.start, form.next, chosen)]
<1>1. /\ load.what = "children"
      /\ watchedHere' = watchedHere /\ told' = told /\ pickGestures' = pickGestures
  BY DEF ChildrenLoaded
<1>2. CASE isStale \/ ~answers
  <2>1. form' = form /\ loads' = loads \ {load}
    BY <1>2 DEF ChildrenLoaded
  <2>2. FormIsRight(form, loads, watchedHere) => FormIsRight(form, loads', watchedHere)
    BY <2>1 DEF FormIsRight
  <2>3. form.entry # NoSeries => FormIsRight(form', loads', watchedHere')
    BY <1>1, <2>1, <2>2 DEF PickInv
  <2> QED BY <1>1, <2>1, <2>3 DEF PickInv
<1>3. CASE ~(isStale \/ ~answers)
  <2>1. /\ form' = [Paints(chosen) EXCEPT !.children = children]
        /\ loads' = (loads \ {load}) \cup (IF chosen \in Series THEN {asks} ELSE {})
    BY <1>3 DEF ChildrenLoaded
  <2>2. form.entry # NoSeries /\ load.n = form.asked /\ FormIsRight(form, loads, watchedHere)
    BY <1>3 DEF PickInv
  <2> DEFINE f == Paints(chosen)
  <2>3. /\ DOMAIN f = DOMAIN form /\ f.entry = form.entry /\ f.start = form.start /\ f.next = form.next
        /\ f.series = chosen /\ f.asked = form.asked /\ f.touched = form.touched /\ f.late = form.late
        /\ f.season = form.season /\ f.episode = form.episode
        /\ chosen \notin Series => f.shown = FALSE
        /\ f.data \in {form.data, NoSeries}
    <3> HIDE DEF chosen
    <3> QED BY PaintsIs DEF PickInv
  <2> HIDE DEF f, chosen, asks
  <2>4. form' = [f EXCEPT !.children = children]
    BY <2>1 DEF f
  <2>5. /\ DOMAIN form' = DOMAIN form /\ form'.entry = form.entry /\ form'.start = form.start /\ form'.next = form.next
        /\ form'.series = chosen /\ form'.asked = form.asked /\ form'.touched = form.touched /\ form'.late = form.late
        /\ form'.season = form.season /\ form'.episode = form.episode
        /\ chosen \notin Series => ~form'.shown
        /\ form'.data \in {form.data, NoSeries}
    BY <2>3, <2>4 DEF PickInv, Closed
  <2>6. /\ DOMAIN asks = {"n", "what", "key", "preset"} /\ asks.n = load.n
        /\ asks.what = "episodes" /\ asks.key = chosen /\ asks.preset = MemberPreset(form.start, form.next, chosen)
    BY DEF PickInv, asks
  <2>7. ASSUME ~form.touched
        PROVE  /\ Holding[form.entry] \in DOMAIN Members
               /\ chosen = Subject(form.entry, form.start, form.next)
               /\ asks.preset = PresetOf(form.entry, form.start, form.next)
    <3>1. AsksRight(load, form)
      BY <2>2, <2>7 DEF FormIsRight
    <3>2. load.key = Holding[form.entry] /\ Holding[form.entry] \in DOMAIN Members
      BY <1>1, <3>1 DEF AsksRight
    <3>3. chosen = Subject(form.entry, form.start, form.next)
      BY <3>2 DEF chosen, FirstMember, Subject
    <3> QED BY <2>6, <3>2, <3>3 DEF PresetOf
  <2>8. \A other : AsksRight(other, form') <=> AsksRight(other, form)
    BY <2>5 DEF AsksRight
  <2>9. ~form.touched => AsksRight(asks, form)
    BY <2>6, <2>7 DEF AsksRight
  <2>10. \A other \in loads' : other \in loads \/ other = asks
    BY <2>1
  <2>11. FormIsRight(form', loads', watchedHere')
    <3> DEFINE point == PointOf(form.entry, form.start, form.next)
               subject == Subject(form.entry, form.start, form.next)
    <3>1. /\ form.entry \in StartEntries /\ form.next = Upcoming(form.entry, form.start, watchedHere)
          /\ ~form.touched =>
              /\ \A other \in loads : other.n = form.asked => AsksRight(other, form)
              /\ ~form.late /\ form.data # NoSeries =>
                    form.data = subject /\ form.season = point.season /\ form.episode = point.episode
      BY <2>2 DEF FormIsRight
    <3>2. form'.entry \in StartEntries /\ form'.next = Upcoming(form'.entry, form'.start, watchedHere')
      BY <1>1, <2>5, <3>1
    <3>3. Subject(form'.entry, form'.start, form'.next) = subject /\ PointOf(form'.entry, form'.start, form'.next) = point
      BY <2>5
    <3> HIDE DEF point, subject
    <3>4. ASSUME ~form.touched
          PROVE  /\ form'.series = subject /\ (form'.series \notin Series => ~form'.shown)
                 /\ \A other \in loads' : other.n = form'.asked => AsksRight(other, form')
                 /\ ~form'.late /\ form'.data # NoSeries =>
                       form'.data = subject /\ form'.season = point.season /\ form'.episode = point.episode
      <4>1. form'.series = subject
        BY <2>5, <2>7, <3>4 DEF subject
      <4>2. \A other \in loads' : other.n = form'.asked => AsksRight(other, form')
        BY <2>5, <2>8, <2>9, <2>10, <3>1, <3>4
      <4> QED BY <2>5, <3>1, <3>4, <4>1, <4>2
    <3> QED BY <2>5, <3>2, <3>3, <3>4 DEF FormIsRight
  <2>12. \A other \in loads' : /\ DOMAIN other = {"n", "what", "key", "preset"}
                               /\ other.n \in Nat /\ other.n <= pickGestures
    BY <2>6, <2>10 DEF PickInv
  <2> QED BY <1>1, <2>5, <2>11, <2>12 DEF PickInv
<1> QED BY <1>2, <1>3

\* An opening's number is higher than that of any request there is.
LEMMA OpenIsRight ==
    ASSUME PickInv, NEW e \in StartEntries, Open(e)
    PROVE  PickInv'
<1> DEFINE next == Upcoming(e, tab[e], watchedHere)
           many == Holding[e] \in DOMAIN Members
           preset == IF tab[e] # NoStart THEN tab[e] ELSE IF next = << >> THEN NoStart ELSE Preset(next[1])
           asks == IF many THEN Load("children", Holding[e], NoStart) ELSE Load("episodes", Holding[e], preset)
           blank == [Closed EXCEPT !.entry = e, !.start = tab[e], !.next = next, !.loading = form.loading,
                                   !.asked = pickGestures']
<1>1. /\ pickGestures' = pickGestures + 1 /\ watchedHere' = watchedHere /\ told' = told
      /\ form' = IF many THEN blank ELSE [blank EXCEPT !.shown = TRUE, !.loading = TRUE]
      /\ loads' = loads \cup {asks}
  BY DEF Open, PickerGesture
<1>2. /\ DOMAIN form' = DOMAIN Closed /\ form'.entry = e /\ form'.start = tab[e] /\ form'.next = next
      /\ form'.series = NoSeries /\ form'.data = NoSeries /\ form'.asked = pickGestures'
  <2> HIDE DEF next
  <2> QED BY <1>1 DEF Closed
<1>3. /\ DOMAIN asks = {"n", "what", "key", "preset"} /\ asks.n = pickGestures' /\ asks.key = Holding[e]
      /\ many => asks.what = "children"
      /\ ~many => asks.what = "episodes" /\ asks.preset = preset
  <2> HIDE DEF preset
  <2> QED BY DEF Load
<1> HIDE DEF asks
<1>4. AsksRight(asks, form')
  <2>1. ~many => Subject(e, tab[e], next) = Holding[e] /\ PresetOf(e, tab[e], next) = preset
    BY DEF Subject, PresetOf
  <2> HIDE DEF next, preset
  <2> QED BY <1>2, <1>3, <2>1 DEF AsksRight
<1>5. \A load \in loads : load.n # form'.asked
  BY <1>1, <1>2 DEF PickInv
<1>6. FormIsRight(form', loads', watchedHere')
  <2>1. form'.entry \in StartEntries /\ form'.next = Upcoming(form'.entry, form'.start, watchedHere')
    BY <1>1, <1>2
  <2>2. \A load \in loads' : load.n = form'.asked => AsksRight(load, form')
    BY <1>1, <1>4, <1>5
  <2> HIDE DEF next
  <2> QED BY <1>2, <2>1, <2>2 DEF FormIsRight
<1>7. \A load \in loads' : /\ DOMAIN load = {"n", "what", "key", "preset"}
                           /\ load.n \in Nat /\ load.n <= pickGestures'
  BY <1>1, <1>3 DEF PickInv
<1> HIDE DEF next
<1> QED BY <1>1, <1>2, <1>6, <1>7 DEF PickInv

\* A form that was touched promises nothing more than its entry.
LEMMA TouchedIsRight ==
    ASSUME PickInv, form.entry # NoSeries, pickGestures' = pickGestures + 1,
           watchedHere' = watchedHere, told' = told, DOMAIN form' = DOMAIN form,
           form'.entry = form.entry, form'.start = form.start, form'.next = form.next, form'.touched = TRUE,
           form'.asked \in {form.asked, pickGestures'},
           \A load \in loads' : load \in loads \/ (DOMAIN load = {"n", "what", "key", "preset"} /\ load.n = pickGestures')
    PROVE  PickInv'
<1>1. FormIsRight(form', loads', watchedHere')
  BY DEF PickInv, FormIsRight
<1>2. \A load \in loads' : /\ DOMAIN load = {"n", "what", "key", "preset"}
                           /\ load.n \in Nat /\ load.n <= pickGestures'
  BY DEF PickInv
<1> QED BY <1>1, <1>2 DEF PickInv

LEMMA PickSeriesIsRight ==
    ASSUME PickInv, NEW member \in Range(form.children), PickSeries(member)
    PROVE  PickInv'
<1> DEFINE f == Paints(member)
           preset == MemberPreset(form.start, form.next, member)
           asks == Load("episodes", member, preset)
<1>1. /\ form.entry # NoSeries /\ pickGestures' = pickGestures + 1 /\ watchedHere' = watchedHere /\ told' = told
      /\ form' = [f EXCEPT !.touched = TRUE, !.asked = pickGestures']
      /\ loads' = IF member \in Series THEN loads \cup {asks} ELSE loads
  BY DEF PickSeries, PickerGesture
<1>2. DOMAIN f = DOMAIN form /\ f.entry = form.entry /\ f.start = form.start /\ f.next = form.next
  BY PaintsIs DEF PickInv
<1>3. DOMAIN form = DOMAIN Closed
  BY DEF PickInv
<1>4. DOMAIN asks = {"n", "what", "key", "preset"} /\ asks.n = pickGestures'
  <2> HIDE DEF preset
  <2> QED BY DEF Load
<1> HIDE DEF f, asks
<1>5. /\ DOMAIN form' = DOMAIN form /\ form'.entry = form.entry /\ form'.start = form.start /\ form'.next = form.next
      /\ form'.touched = TRUE /\ form'.asked = pickGestures'
  BY <1>1, <1>2, <1>3 DEF Closed
<1>6. \A load \in loads' : load \in loads \/ (DOMAIN load = {"n", "what", "key", "preset"} /\ load.n = pickGestures')
  BY <1>1, <1>4
<1> QED BY <1>1, <1>5, <1>6, TouchedIsRight

LEMMA PickersAreRight ==
    ASSUME PickInv, NEW value, PickSeason(value) \/ PickEpisode(value)
    PROVE  PickInv'
<1>1. /\ form.entry # NoSeries /\ pickGestures' = pickGestures + 1 /\ watchedHere' = watchedHere /\ told' = told
      /\ loads' = loads
  BY DEF PickSeason, PickEpisode, PickerGesture, HasEpisodes
<1>2. DOMAIN form = DOMAIN Closed
  BY DEF PickInv
<1>3. /\ DOMAIN form' = DOMAIN form /\ form'.entry = form.entry /\ form'.start = form.start /\ form'.next = form.next
      /\ form'.touched = TRUE /\ form'.asked = form.asked
  <2>1. CASE PickSeason(value)
    <3>1. form' = [form EXCEPT !.season = value, !.episode = Numbers(form.data, value)[1], !.touched = TRUE]
      BY <2>1 DEF PickSeason
    <3> QED BY <1>2, <3>1 DEF Closed
  <2>2. CASE PickEpisode(value)
    <3>1. form' = [form EXCEPT !.episode = value, !.touched = TRUE]
      BY <2>2 DEF PickEpisode
    <3> QED BY <1>2, <3>1 DEF Closed
  <2> QED BY <2>1, <2>2
<1> QED BY <1>1, <1>3, TouchedIsRight

\* A closed window promises nothing.
LEMMA ClosedIsRight ==
    ASSUME PickInv, form' = [form EXCEPT !.entry = NoSeries], loads' = loads, watchedHere' = watchedHere,
           pickGestures' \in {pickGestures, pickGestures + 1}, ToldIsRight(told', watchedHere')
    PROVE  PickInv'
<1>1. DOMAIN form' = DOMAIN Closed /\ form'.entry = NoSeries /\ form'.asked = form.asked
  BY DEF PickInv, Closed
<1>2. pickGestures' \in Nat /\ pickGestures <= pickGestures' /\ pickGestures \in Nat
  BY DEF PickInv
<1>3. \A load \in loads' : /\ DOMAIN load = {"n", "what", "key", "preset"}
                           /\ load.n \in Nat /\ load.n <= pickGestures'
  BY <1>2 DEF PickInv
<1> QED BY <1>1, <1>2, <1>3 DEF PickInv

LEMMA PickerStep ==
    ASSUME PickInv, [StartNext]_startVars
    PROVE  PickInv'
<1>1. CASE \E e \in StartEntries : Open(e)
  BY <1>1, OpenIsRight
<1>2. CASE Close
  <2>1. ToldIsRight(told', watchedHere')
    BY <1>2 DEF PickInv, Close
  <2> QED BY <1>2, <2>1, ClosedIsRight DEF Close
<1>3. CASE SaveStart
  <2>1. /\ form.entry # NoSeries /\ form' = [form EXCEPT !.entry = NoSeries] /\ loads' = loads
        /\ watchedHere' = watchedHere /\ pickGestures' = pickGestures + 1
        /\ told' = [entry |-> form.entry, start |-> ReadForm, from |-> form.start, whole |-> IsWhole,
                    touched |-> form.touched]
    BY <1>3 DEF SaveStart, Commit, PickerGesture
  <2>2. FormIsRight(form, loads, watchedHere)
    BY <2>1 DEF PickInv
  <2>3. told'.entry = form.entry /\ told'.start = ReadForm /\ told'.from = form.start
        /\ (told'.whole <=> IsWhole) /\ told'.touched = form.touched
    BY <2>1
  <2>4. ToldIsRight(told', watchedHere')
    <3>1. form.entry \in StartEntries
      BY <2>2 DEF FormIsRight
    <3>2. IsWhole /\ ~form.touched =>
            ReadForm = Ready(form.entry, form.start, Upcoming(form.entry, form.start, watchedHere))
      BY <2>1, <2>2, SaveIsRight
    <3> QED BY <2>1, <2>3, <3>1, <3>2 DEF ToldIsRight
  <2> QED BY <2>1, <2>4, ClosedIsRight
<1>4. CASE ClearStart
  <2>1. ToldIsRight(told', watchedHere')
    BY <1>4 DEF PickInv, ClearStart, Commit
  <2> QED BY <1>4, <2>1, ClosedIsRight DEF ClearStart, Commit, PickerGesture
<1>5. CASE Refetch \/ \E save \in saves : SetStart(save)
  BY <1>5 DEF PickInv, Refetch, SetStart
<1>6. CASE \E member \in Range(form.children) : PickSeries(member)
  BY <1>6, PickSeriesIsRight
<1>7. CASE \E ep \in UNION {Range(EpisodesOf[show]) : show \in Series} : PickSeason(ep[2]) \/ PickEpisode(ep[3])
  <2>1. \E value : PickSeason(value) \/ PickEpisode(value)
    BY <1>7
  <2> QED BY <2>1, PickersAreRight
<1>8. CASE \E load \in loads : EpisodesLoaded(load)
  BY <1>8, LoadedIsRight
<1>9. CASE \E load \in loads : EpisodesFailed(load)
  BY <1>9, FailedIsRight
<1>10. CASE \E load \in loads : \E answers \in BOOLEAN : ChildrenLoaded(load, answers)
  BY <1>10, ChildrenAreRight
<1>11. CASE UNCHANGED startVars
  BY <1>11 DEF PickInv, startVars
<1>12. ASSUME StartNext
       PROVE  \/ \E e \in StartEntries : Open(e)
              \/ Close \/ SaveStart \/ ClearStart \/ Refetch
              \/ \E member \in Range(form.children) : PickSeries(member)
              \/ \E ep \in UNION {Range(EpisodesOf[show]) : show \in Series} : PickSeason(ep[2]) \/ PickEpisode(ep[3])
              \/ \E load \in loads : EpisodesLoaded(load)
              \/ \E load \in loads : EpisodesFailed(load)
              \/ \E load \in loads : \E answers \in BOOLEAN : ChildrenLoaded(load, answers)
              \/ \E save \in saves : SetStart(save)
  BY <1>12, Zenon DEF StartNext
<1> QED BY <1>1, <1>2, <1>3, <1>4, <1>5, <1>6, <1>7, <1>8, <1>9, <1>10, <1>11, <1>12, Zenon

(* Opening the window and saving what it shows never moves an entry,       *)
(* however many members a collection has, episodes a show, and answers are *)
(* on their way: the window shows what was asked for by this opening, and  *)
(* where the engine begins is the same by the start stored before and by   *)
(* the one that is stored.                                                 *)
THEOREM SavesKeepThePlace == StartSpec => []UntouchedSaveKeepsThePlace
<1>1. StartInit => PickInv
  BY PickInit
<1>2. PickInv /\ [StartNext]_startVars => PickInv'
  BY PickerStep
<1>3. PickInv => UntouchedSaveKeepsThePlace
  <2> DEFINE e == told.entry
             next == Upcoming(e, told.from, watchedHere)
             to == Ready(e, told.from, next)
  <2> SUFFICES ASSUME PickInv, e # NoSeries, told.whole, ~told.touched, HasSeasons(e), StartIsThere(e, told.from)
               PROVE  /\ Upcoming(e, NormalizeStart(told.start), watchedHere) = next
                      /\ told.from = NoStart /\ next # << >> =>
                           <<told.start.season, told.start.episode>> = <<next[1][2], next[1][3]>>
    BY DEF UntouchedSaveKeepsThePlace
  <2>1. e \in StartEntries /\ told.start = to
    BY DEF PickInv, ToldIsRight
  <2>2. NormalizeStart(to) = to
    BY <2>1, ReadyIsNormal, SubjectIsAMember
  <2>3. /\ Upcoming(e, to, watchedHere) = next
        /\ told.from = NoStart /\ next # << >> => <<to.season, to.episode>> = <<next[1][2], next[1][3]>>
    BY <2>1, ReadyKeepsThePlace
  <2> HIDE DEF next, to, e
  <2> QED BY <2>1, <2>2, <2>3
<1> QED BY <1>1, <1>2, <1>3, PTL DEF StartSpec
=============================================================================
