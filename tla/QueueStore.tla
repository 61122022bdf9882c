----------------------------- MODULE QueueStore -----------------------------
(***************************************************************************)
(* The store of queues.yaml (queues.ts): operations that read, edit and    *)
(* rewrite one file under an advisory lock, the directory                  *)
(* <queues.yaml>.lock.  The processes that share the file share nothing    *)
(* else; within a process the calls interleave at every await.             *)
(*                                                                         *)
(* A call of the store is a writer; pc is the file-system request it is    *)
(* waiting for, and an action is what the request does and the code up to  *)
(* the next one.  Time is counted in coarse ticks: how old the lock is and *)
(* how long a writer has waited, each up to where it makes no difference.  *)
(***************************************************************************)
EXTENDS QueueDoc

CONSTANTS
    Writers,     \* one id per call
    Processes,   \* the processes that share the file
    ProcessOf,   \* the process of each writer
    Ops,         \* the operations that may be asked for
    Files,       \* what the file may hold at first
    Mounts,      \* how the file may be mounted: "dir", or "file" (a rename over it fails)
    Faults,      \* the mounts on which processes may die and direct writes fail
    LockStale,   \* LOCK_STALE_MS, in ticks
    LockWait,    \* LOCK_WAIT_MS, in ticks
    SlowHolders, \* whether a holder may keep the lock for longer than LockStale
    NoOp, NoText

ASSUME StoreAssumption ==
    /\ ProcessOf \in [Writers -> Processes]
    /\ Ops \subseteq Operation /\ NoOp \notin Ops
    /\ Files \subseteq Doc
    /\ \A doc \in Files : \A set \in Sets : Cardinality(KeysIn(doc[set])) = Len(doc[set])
    /\ Mounts \subseteq {"dir", "file"} /\ Faults \subseteq Mounts
    /\ LockStale \in Nat /\ LockWait \in Nat
    /\ SlowHolders \in BOOLEAN
    /\ NoText \notin Doc

VARIABLES
    mount,   \* how the file is mounted
    file,    \* queues.yaml
    tmp,     \* queues.yaml.tmp, one for all (NoText: it does not exist)
    lock,    \* the lock directory and the age of it
    pc,      \* the request each writer is waiting for
    op,      \* its operation
    text,    \* the contents it is about to write
    waited,  \* for how long it has waited for the lock
    result   \* what has become of its operation

vars == <<mount, file, tmp, lock, pc, op, text, waited, result>>

\* Between acquireLock and releaseLock.
HolderStages == {"reading", "writing", "renaming", "filling", "releasing"}
WaiterStages == {"making", "statting", "stealing", "sleeping"}
Stages       == HolderStages \cup WaiterStages \cup {"idle", "done", "dead"}

Free  == [held |-> FALSE, age |-> 0]
Empty == [set \in Sets |-> << >>]

Init ==
    /\ mount \in Mounts
    /\ file \in Files
    /\ tmp = NoText
    /\ lock = Free
    /\ pc = [w \in Writers |-> "idle"]
    /\ op = [w \in Writers |-> NoOp]
    /\ text = [w \in Writers |-> NoText]
    /\ waited = [w \in Writers |-> 0]
    /\ result = [w \in Writers |-> "none"]

Holds(w)    == pc[w] \in HolderStages
InFlight(w) == pc[w] \in HolderStages \cup WaiterStages

Moves(w, stage) == pc' = [pc EXCEPT ![w] = stage]
Ends(w, how)    == result' = [result EXCEPT ![w] = how]

FileUnchanged == UNCHANGED <<mount, file, tmp>>
CallUnchanged == UNCHANGED <<op, text, waited, result>>

-----------------------------------------------------------------------------
(* acquireLock.                                                            *)

Call(w) ==
    /\ pc[w] = "idle"
    /\ \E o \in Ops : op' = [op EXCEPT ![w] = o]
    /\ Moves(w, "making")
    /\ FileUnchanged /\ UNCHANGED <<lock, text, waited, result>>

\* mkdir has answered.
MakeLock(w) ==
    /\ pc[w] = "making"
    /\ IF lock.held
       THEN Moves(w, "statting") /\ UNCHANGED <<lock, waited>>
       ELSE /\ Moves(w, "reading")
            /\ lock' = [held |-> TRUE, age |-> 0]
            /\ waited' = [waited EXCEPT ![w] = 0]
    /\ FileUnchanged /\ UNCHANGED <<op, text, result>>

\* StaleAtOnce is wrong on purpose: any lock is taken for a dead holder's.
StaleAtOnce(l) == l.held
Stale(l)       == l.held /\ l.age > LockStale

\* SleepsOn is wrong on purpose: neither the age of the lock nor the deadline is read.
SleepsOn(w) == "sleeping"

\* A stale lock is stolen; else the writer gives up after the deadline.
AfterStat(w) ==
    IF Stale(lock) THEN "stealing"
    ELSE IF waited[w] > LockWait THEN "done"
    ELSE "sleeping"

\* stat has answered; a lock that is gone by now counts as not stale.
StatLock(w) ==
    /\ pc[w] = "statting"
    /\ Moves(w, AfterStat(w))
    /\ IF AfterStat(w) = "done" THEN Ends(w, "refused") ELSE UNCHANGED result
    /\ FileUnchanged /\ UNCHANGED <<lock, op, text, waited>>

\* rmdir has answered: it removes the lock there is, which may be a new one.
StealLock(w) ==
    /\ pc[w] = "stealing"
    /\ lock' = Free
    /\ Moves(w, "making")
    /\ FileUnchanged /\ CallUnchanged

Sleep(w) ==
    /\ pc[w] = "sleeping"
    /\ Moves(w, "making")
    /\ UNCHANGED lock /\ FileUnchanged /\ CallUnchanged

-----------------------------------------------------------------------------
(* Under the lock: readDoc, the edit, writeDoc.                            *)

\* readFile has answered; the edit has no await.
ReadFile(w) ==
    /\ pc[w] = "reading"
    /\ IF Writes(op[w], file)
       THEN /\ Moves(w, "writing")
            /\ text' = [text EXCEPT ![w] = Apply(op[w], file)]
            /\ UNCHANGED result
       ELSE Moves(w, "releasing") /\ Ends(w, "applied") /\ UNCHANGED text
    /\ FileUnchanged /\ UNCHANGED <<lock, op, waited>>

\* The temporary file is written.
WriteTmp(w) ==
    /\ pc[w] = "writing"
    /\ tmp' = text[w]
    /\ Moves(w, "renaming")
    /\ UNCHANGED <<mount, file, lock>> /\ CallUnchanged

\* Reading the file, or writing the temporary one, has failed; or the write in place,
\* which leaves the file short.
FileFails(w) ==
    /\ pc[w] \in {"reading", "writing"} \cup IF mount \in Faults THEN {"filling"} ELSE {}
    /\ Moves(w, "releasing") /\ Ends(w, "refused")
    /\ FileUnchanged /\ UNCHANGED <<lock, op, text, waited>>

\* The temporary file replaces the file.  If it cannot, the file is written in place:
\* that begins by truncating it.
Rename(w) ==
    /\ pc[w] = "renaming"
    /\ IF mount = "dir" /\ tmp # NoText
       THEN file' = tmp /\ tmp' = NoText /\ Moves(w, "releasing")
       ELSE file' = Empty /\ UNCHANGED tmp /\ Moves(w, "filling")
    /\ Ends(w, "applied")
    /\ UNCHANGED <<mount, lock, op, text, waited>>

\* The rest of the write in place; then the temporary file goes.
Fill(w) ==
    /\ pc[w] = "filling"
    /\ file' = text[w] /\ tmp' = NoText
    /\ Moves(w, "releasing")
    /\ UNCHANGED <<mount, lock>> /\ CallUnchanged

\* releaseLock: rmdir, whoever made the directory.
Release(w) ==
    /\ pc[w] = "releasing"
    /\ lock' = Free
    /\ Moves(w, "done")
    /\ text' = [text EXCEPT ![w] = NoText]
    /\ FileUnchanged /\ UNCHANGED <<op, waited, result>>

-----------------------------------------------------------------------------
\* A process dies with its writers, the lock and the temporary file stay.
Crash(p) ==
    LET killed == {w \in Writers : ProcessOf[w] = p /\ InFlight(w)} IN
    /\ mount \in Faults /\ killed # {}
    /\ pc' = [w \in Writers |-> IF w \in killed THEN "dead" ELSE pc[w]]
    /\ result' = [w \in Writers |-> IF w \in killed /\ result[w] = "none"
                                     THEN "refused" ELSE result[w]]
    /\ FileUnchanged /\ UNCHANGED <<lock, op, text, waited>>

\* Counted up to where it makes no difference.
Later(n, limit) == IF n > limit THEN n ELSE n + 1

Tick ==
    /\ SlowHolders \/ lock.age < LockStale \/ \A w \in Writers : ~Holds(w)
    /\ lock' = IF lock.held THEN [lock EXCEPT !.age = Later(@, LockStale)] ELSE lock
    /\ waited' = [w \in Writers |-> IF pc[w] \in WaiterStages THEN Later(waited[w], LockWait)
                                     ELSE waited[w]]
    /\ FileUnchanged /\ UNCHANGED <<pc, op, text, result>>

WriterStep(w) ==
    \/ MakeLock(w) \/ StatLock(w) \/ StealLock(w) \/ Sleep(w)
    \/ ReadFile(w) \/ WriteTmp(w) \/ FileFails(w) \/ Rename(w) \/ Fill(w) \/ Release(w)

Next ==
    \/ \E w \in Writers : Call(w) \/ WriterStep(w)
    \/ \E p \in Processes : Crash(p)
    \/ Tick

Spec == Init /\ [][Next]_vars

\* File-system requests are answered, and time passes.
Fairness == WF_vars(Tick) /\ \A w \in Writers : WF_vars(WriterStep(w))

FairSpec == Spec /\ Fairness

-----------------------------------------------------------------------------
(* Properties.                                                             *)

\* Types. An entry never has the time of a done flag it does not have, and a writer
\* that is about to write has something to write.
TypeOK ==
    /\ mount \in Mounts
    /\ file \in Doc
    /\ tmp \in Doc \cup {NoText}
    /\ lock \in [held : BOOLEAN, age : 0 .. LockStale + 1]
    /\ pc \in [Writers -> Stages]
    /\ op \in [Writers -> Ops \cup {NoOp}]
    /\ text \in [Writers -> Doc \cup {NoText}]
    /\ \A w \in Writers : pc[w] \in {"writing", "renaming", "filling"} => text[w] # NoText
    /\ waited \in [Writers -> 0 .. LockWait + 1]
    /\ result \in [Writers -> {"none", "applied", "refused"}]

\* At most one writer, of all processes, is between acquireLock and releaseLock.
OneHolder == \A v, w \in Writers : Holds(v) /\ Holds(w) => v = w

\* The contents as the writers see them: while one fills the file, what it will hold.
Content ==
    IF \E w \in Writers : pc[w] = "filling"
    THEN text[CHOOSE w \in Writers : pc[w] = "filling"]
    ELSE file

Atomic == INSTANCE AtomicStore WITH content <- Content

\* Every operation takes effect at one moment and on the contents the operations
\* before it left: no interleaving of processes loses an edit.
OperationsAreAtomic == Atomic!Spec

\* A key stands for one entry of a list, whatever is added and moved at the same time.
KeysAreUnique ==
    \A set \in Sets : Cardinality(KeysIn(file[set])) = Len(file[set])

Keeping == {"reorder", "move", "moveBulk", "markDone", "clearDone", "rewrite"}

\* An operation changes and drops no entry but those it is about, and what it moves
\* arrives: "a concurrently-added line is never dropped".
EditsKeepTheRest ==
    [][\A w \in Writers :
         pc[w] = "renaming" /\ result'[w] = "applied" =>
            /\ \A item \in Item \ Addressed(op[w], Content) :
                  EntriesAt(Content', item) = EntriesAt(Content, item)
            /\ op[w].kind \in Keeping =>
                  \A item \in ToSet(op[w].items) : EntriesAt(Content, item) # << >> =>
                     \E set \in {item.set, op[w].set} : item.key \in KeysIn(Content'[set])]_vars

\* Every call of the store returns, by success, by error or with its process.
CallsReturn == \A w \in Writers : InFlight(w) ~> ~InFlight(w)
=============================================================================
