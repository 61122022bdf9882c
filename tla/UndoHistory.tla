---------------------------- MODULE UndoHistory ----------------------------
(***************************************************************************)
(* Undo and redo of the two data files (history.ts, routes/undoSnapshot.ts *)
(* and routes/historyRoutes.ts): every mutating request first takes a      *)
(* snapshot, read file by file; an undo pops one, pushes what is there     *)
(* onto the other stack and writes the files, one after the other, without *)
(* the stores' lock.  The stacks are mirrored to a file of their own.      *)
(*                                                                         *)
(* One request is served at a time: an edit or an undo that arrives while  *)
(* another is between its awaits (history.ts:137-160) is left out, and     *)
(* what is said of the stacks is said of requests that do not overlap.     *)
(*                                                                         *)
(* A text is a model value.  The program writes queues.yaml of its own     *)
(* accord as well (finished marks), without a snapshot.                    *)
(***************************************************************************)
EXTENDS Integers, Sequences, SequencesExt

CONSTANTS
    Texts,     \* what a file may hold
    Absent,    \* a file that does not exist
    MaxUndo,   \* MAX
    MaxEdits,  \* bound: edits that have taken their snapshot
    MaxSteps,  \* bound: undos and redos that have restored
    MaxMarks,  \* bound: writes of the program
    MaxBoots   \* bound: restarts

ASSUME UndoAssumption == MaxUndo \in Nat

VARIABLES
    files,      \* queues.yaml (q) and sets.yaml (s)
    undoStack, redoStack,
    mirror,     \* HISTORY_PATH: the two stacks as last persisted
    request,    \* the one request being served: its kind, its step, what it read, what it restores
    edits, steps, marks, boots

undoVars == <<files, undoStack, redoStack, mirror, request, edits, steps, marks, boots>>

Version == [q : Texts \cup {Absent}, s : Texts \cup {Absent}]
Idle == [kind |-> "none", step |-> "idle"]

UndoInit ==
    /\ files \in {v \in Version : v.s # Absent}
    /\ undoStack = << >> /\ redoStack = << >> /\ mirror = [undo |-> << >>, redo |-> << >>]
    /\ request = Idle
    /\ edits = 0 /\ steps = 0 /\ marks = 0 /\ boots = 0

AtStep(step) == request.step = step
GoTo(step) == request' = [request EXCEPT !.step = step]

\* persist: the mirror may fail, which is logged and no more.
Persists(undo, redo) == mirror' \in {mirror, [undo |-> undo, redo |-> redo]}

Begin(kind, snap) ==
    request' = [kind |-> kind, step |-> "readQ", read |-> files, snap |-> snap]

-----------------------------------------------------------------------------
EditArrives ==
    /\ AtStep("idle") /\ edits < MaxEdits
    /\ Begin("edit", files)
    /\ UNCHANGED <<files, undoStack, redoStack, mirror, edits, steps, marks, boots>>

\* undo and redo pop first; with nothing to pop they answer at once.
UndoArrives ==
    /\ AtStep("idle") /\ steps < MaxSteps /\ undoStack # << >>
    /\ Begin("undo", Last(undoStack))
    /\ undoStack' = Front(undoStack)
    /\ UNCHANGED <<files, redoStack, mirror, edits, steps, marks, boots>>

RedoArrives ==
    /\ AtStep("idle") /\ steps < MaxSteps /\ redoStack # << >>
    /\ Begin("redo", Last(redoStack))
    /\ redoStack' = Front(redoStack)
    /\ UNCHANGED <<files, undoStack, mirror, edits, steps, marks, boots>>

\* readBoth: queues.yaml, then sets.yaml.
ReadsQueues ==
    /\ AtStep("readQ")
    /\ request' = [request EXCEPT !.step = "readS", !.read.q = files.q]
    /\ UNCHANGED <<files, undoStack, redoStack, mirror, edits, steps, marks, boots>>

ReadsSets ==
    /\ AtStep("readS")
    /\ request' = [request EXCEPT !.step = "push", !.read.s = files.s]
    /\ UNCHANGED <<files, undoStack, redoStack, mirror, edits, steps, marks, boots>>

\* ForkKeepsRedo is wrong on purpose: an edit leaves what was undone redoable.
ForkKeepsRedo(pushed) == redoStack

\* A new edit forks history.
RedoAfterEdit(pushed) == << >>

Trimmed(stack) == IF Len(stack) > MaxUndo THEN Tail(stack) ELSE stack

\* snapshot, after its read.
SnapshotPushed ==
    /\ AtStep("push") /\ request.kind = "edit"
    /\ undoStack' = Trimmed(Append(undoStack, request.read))
    /\ redoStack' = RedoAfterEdit(request.read)
    /\ Persists(undoStack', redoStack')
    /\ GoTo("edit")
    /\ edits' = edits + 1
    /\ UNCHANGED <<files, steps, marks, boots>>

\* The handler behind the snapshot writes one file, or refuses and writes none.
EditWritten ==
    /\ AtStep("edit")
    /\ \/ \E text \in Texts, file \in {"q", "s"} : files' = [files EXCEPT ![file] = text]
       \/ UNCHANGED files
    /\ request' = Idle
    /\ UNCHANGED <<undoStack, redoStack, mirror, edits, steps, marks, boots>>

\* undo and redo, after their read.
CurrentPushed ==
    /\ AtStep("push") /\ request.kind # "edit"
    /\ IF request.kind = "undo"
       THEN redoStack' = Append(redoStack, request.read) /\ UNCHANGED undoStack
       ELSE undoStack' = Append(undoStack, request.read) /\ UNCHANGED redoStack
    /\ GoTo("writeQ")
    /\ UNCHANGED <<files, mirror, edits, steps, marks, boots>>

\* writeBoth skips a file the snapshot does not have.
RestoredText(file) == IF request.snap[file] = Absent THEN files[file] ELSE request.snap[file]

QueuesRestored ==
    /\ AtStep("writeQ")
    /\ files' = [files EXCEPT !.q = RestoredText("q")]
    /\ GoTo("writeS")
    /\ steps' = steps + 1
    /\ UNCHANGED <<undoStack, redoStack, mirror, edits, marks, boots>>

SetsRestored ==
    /\ AtStep("writeS")
    /\ files' = [files EXCEPT !.s = RestoredText("s")]
    /\ Persists(undoStack, redoStack)
    /\ request' = Idle
    /\ UNCHANGED <<undoStack, redoStack, edits, steps, marks, boots>>

\* A scan or a reconcile marks an entry.
ProgramMarks ==
    /\ marks < MaxMarks /\ files.q # Absent
    /\ \E text \in Texts : files' = [files EXCEPT !.q = text]
    /\ marks' = marks + 1
    /\ UNCHANGED <<undoStack, redoStack, mirror, request, edits, steps, boots>>

\* The process is restarted, at any moment, and reads the mirror.
Reboots ==
    /\ boots < MaxBoots
    /\ undoStack' = mirror.undo /\ redoStack' = mirror.redo
    /\ request' = Idle
    /\ boots' = boots + 1
    /\ UNCHANGED <<files, mirror, edits, steps, marks>>

UndoNext ==
    \/ EditArrives \/ UndoArrives \/ RedoArrives
    \/ ReadsQueues \/ ReadsSets \/ SnapshotPushed \/ EditWritten
    \/ CurrentPushed \/ QueuesRestored \/ SetsRestored
    \/ ProgramMarks \/ Reboots

UndoSpec == UndoInit /\ [][UndoNext]_undoVars

-----------------------------------------------------------------------------
\* The abstract history.  A request takes effect on it in one step: an edit when its
\* snapshot is pushed, an undo or a redo when queues.yaml is written; what a request
\* has read until then is the version it works on.
IsUndoing == request.kind \in {"undo", "redo"} /\ request.step \in {"readQ", "readS", "push", "writeQ"}

PastNow ==
    CASE request.kind = "undo" /\ IsUndoing -> Append(undoStack, request.snap)
      [] request.kind = "redo" /\ AtStep("writeQ") -> Front(undoStack)
      [] OTHER -> undoStack

FutureNow ==
    Reverse(CASE request.kind = "redo" /\ IsUndoing -> Append(redoStack, request.snap)
              [] request.kind = "undo" /\ AtStep("writeQ") -> Front(redoStack)
              [] OTHER -> redoStack)

ReadSoFar ==
    CASE AtStep("readS") -> [files EXCEPT !.q = request.read.q]
      [] AtStep("push") \/ AtStep("writeQ") -> request.read
      [] AtStep("writeS") -> [files EXCEPT !.s = RestoredText("s")]
      [] OTHER -> files

Line == INSTANCE LinearHistory WITH
            past <- PastNow, now <- ReadSoFar, future <- FutureNow

\* history.ts: however the program's own writes fall between the steps of a request,
\* an undo restores exactly the version before the last edit that is not undone yet,
\* a redo takes exactly that back, and a new edit forks the line.
UndoIsLinear == Line!LinearSpec
=============================================================================
