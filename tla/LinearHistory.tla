--------------------------- MODULE LinearHistory ---------------------------
(***************************************************************************)
(* What undo and redo promise (the header of history.ts): one line of      *)
(* versions of the two data files, a place on it, and a new edit that      *)
(* forks the line.  A version is a record of the texts of queues.yaml and  *)
(* sets.yaml; a file the older version does not have is left alone.        *)
(***************************************************************************)
EXTENDS Integers, Sequences, SequencesExt

CONSTANTS
    MaxUndo,   \* MAX: how many versions are kept
    Absent     \* the file does not exist

VARIABLES
    past, now, future,
    edits, steps, boots  \* how many edits, undos and redos, and restarts there have been

historyVars == <<past, now, future, edits, steps, boots>>

\* The files hold the version `old`.
IsRestored(old) == \A file \in DOMAIN old : old[file] # Absent => now'[file] = old[file]

\* The newest of more versions than are kept.
Newest(versions) ==
    SubSeq(versions, IF Len(versions) > MaxUndo THEN Len(versions) - MaxUndo + 1 ELSE 1, Len(versions))

LinearInit == past = << >> /\ future = << >> /\ edits = 0 /\ steps = 0 /\ boots = 0

\* The place before the edit is kept, and what was undone is forgotten.
Fork ==
    /\ past' = Newest(Append(past, now))
    /\ future' = << >>
    /\ edits' = edits + 1
    /\ UNCHANGED <<steps, boots>>

\* The files are written: by the edit that has just forked, or by the program.
Amend == UNCHANGED <<past, future, edits, steps, boots>>

Undo ==
    /\ past # << >>
    /\ past' = Front(past) /\ IsRestored(Last(past)) /\ future' = <<now>> \o future
    /\ steps' = steps + 1
    /\ UNCHANGED <<edits, boots>>

Redo ==
    /\ future # << >>
    /\ past' = Append(past, now) /\ IsRestored(Head(future)) /\ future' = Tail(future)
    /\ steps' = steps + 1
    /\ UNCHANGED <<edits, boots>>

\* A restart promises nothing of the line.
Reboot == boots' = boots + 1 /\ UNCHANGED <<edits, steps>>

LinearNext == Fork \/ Amend \/ Undo \/ Redo \/ Reboot
LinearSpec == LinearInit /\ [][LinearNext]_historyVars
=============================================================================
