------------------------------ MODULE MCFeeds ------------------------------
(***************************************************************************)
(* Two consumers of what the server publishes, for TLC: the browser tab    *)
(* and the watcher that resumes episodes as the player reaches them.  They *)
(* share no state, so a behaviour moves one of them, `focus`, and leaves   *)
(* the other as it starts, where none of its fair actions is enabled.      *)
(***************************************************************************)
EXTENDS LiveFeed, ResumeOnAdvance

CONSTANTS e1, e2, e3, x1, x2, d1

VARIABLE focus

\* What a behaviour of the tab may hold: two kinds of trouble at a time.
Quiet == [edits |-> {}, drags |-> {}, plays |-> 0, faults |-> 0, drops |-> 0, wakes |-> 0]
Troubles ==
    {Quiet,
     [Quiet EXCEPT !.edits = {x1}, !.drags = {d1}, !.faults = 1],
     [Quiet EXCEPT !.edits = {x1}, !.drags = {d1}, !.wakes = 1],
     [Quiet EXCEPT !.edits = Edits],
     [Quiet EXCEPT !.edits = {x1}, !.faults = 1, !.drops = 1],
     [Quiet EXCEPT !.drags = {d1}, !.drops = 1],
     [Quiet EXCEPT !.edits = {x1}, !.plays = 1, !.drops = 1],
     [Quiet EXCEPT !.plays = 2]}

Queued(i, offset, views) == [item |-> i, offset |-> offset, views |-> views, duration |-> 20]

\* The lineups of two scans, which share episodes.
TwoLineups == {<<Queued(e1, 3, 0), Queued(e2, 5, 0)>>,
               <<Queued(e2, 1, 0), Queued(e1, 5, 1), Queued(e3, 20, 0)>>}

vars == <<liveVars, resumeVars, focus>>

Init ==
    /\ LiveInit /\ ResumeInit
    /\ focus \in {"tab", "resume"}
    /\ focus = "resume" => disk = Edits /\ drags = {} /\ <<plays, faults, drops, wakes>> = <<0, 0, 0, 0>>

Next ==
    \/ focus = "tab" /\ LiveNext /\ UNCHANGED <<resumeVars, focus>>
    \/ focus = "resume" /\ ResumeNext /\ UNCHANGED <<liveVars, focus>>

Spec == Init /\ [][Next]_vars /\ LiveFairness /\ ResumeFairness

=============================================================================
