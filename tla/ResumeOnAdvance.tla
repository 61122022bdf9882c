-------------------------- MODULE ResumeOnAdvance --------------------------
(***************************************************************************)
(* Resume on advance (resume.ts, with the session read and the seek of     *)
(* playback.ts that session.ts hands it).  A scan arms a plan: which       *)
(* episodes of its lineup are to be seeked to their own marker when the    *)
(* player reaches them.  An interval polls what Plex says is playing and   *)
(* seeks.  The interval does not wait for a poll, so polls overlap, and a  *)
(* poll outlives the plan it was started for.                              *)
(*                                                                         *)
(* A position is near the start of its episode (RESUME_START_WINDOW_MS) or *)
(* past it.                                                                *)
(***************************************************************************)
EXTENDS Naturals, Sequences, SequencesExt, FiniteSets

CONSTANTS
    Items,    \* rating keys
    Players,  \* devices a scan may be for
    Polls,    \* polls that may be in flight at once
    Lineups,  \* what a scan may queue: sequences of candidates
    MaxArms, \* bound on the scans
    MinMs, MaxFraction, \* RESUME_MIN_MS in ticks, RESUME_MAX_FRACTION in twentieths
    NoItem, NoPlayer

Candidate == [item : Items, offset : Nat, views : Nat, duration : Nat]
Reading   == [item : Items \cup {NoItem}, late : BOOLEAN, on : Players \cup {NoPlayer}]

ASSUME ResumeAssumption ==
    /\ Lineups \subseteq Seq(Candidate)
    /\ MaxArms \in Nat /\ MinMs \in Nat /\ MaxFraction \in 0..20
    /\ NoItem \notin Items /\ NoPlayer \notin Players

VARIABLES
    lineup,    \* the lineup the plan was made from
    plan,      \* ARMED.plan: the episodes with a usable marker
    seen,      \* ARMED.seen
    playerOf,  \* the player of each scan so far; the last one is ARMED.device
    watcher,   \* TIMER: the scan whose interval runs, 0 for none
    poll,      \* the polls in flight
    screen,    \* what each player shows, and whether it is past the start
    left,      \* what it has queued after that
    lagging,   \* Plex still reports the position of the episode before
    sought     \* history: how often the armed plan has decided to seek each episode

resumeVars ==
    <<lineup, plan, seen, playerOf, watcher, poll, screen, left, lagging, sought>>

Nothing  == [item |-> NoItem, late |-> FALSE, on |-> NoPlayer]
IdlePoll == [stage |-> "idle", of |-> 0, reading |-> Nothing]

ResumeInit ==
    /\ lineup = << >> /\ plan = {} /\ seen = {}
    /\ playerOf = << >>
    /\ watcher = 0
    /\ poll = [p \in Polls |-> IdlePoll]
    /\ screen = [d \in Players |-> [item |-> NoItem, late |-> FALSE]]
    /\ left = [d \in Players |-> << >>]
    /\ lagging = [d \in Players |-> FALSE]
    /\ sought = [i \in Items |-> 0]

playersVars == <<screen, left, lagging>>
armedVars   == <<lineup, plan, seen, playerOf, sought>>

-----------------------------------------------------------------------------
(* Arming.                                                                 *)

\* A marker worth returning to: begun, not finished, not at the very end.
Usable(c) ==
    /\ c.offset >= MinMs
    /\ c.views = 0
    /\ c.duration > 0 => 20 * c.offset <= MaxFraction * c.duration

\* HeadToo is wrong on purpose: the head is seeked again.
HeadToo(items) == {c.item : c \in {d \in Range(items) : Usable(d)}}

\* resumePlan: the head is left out, because playMedia has resumed it.
ResumePlan(items) ==
    {c.item : c \in {d \in Range(items) : Usable(d) /\ d.item # Head(items).item}}

Pending == plan \ seen

\* arm: the plan of the scan before is dropped whole.  Seen is reset with it.
Arm(items, d) ==
    /\ lineup' = items
    /\ plan' = ResumePlan(items)
    /\ seen' = {}
    /\ playerOf' = Append(playerOf, d)
    /\ sought' = [i \in Items |-> 0]

\* A scan arms and watches.  With nothing in the plan the old interval is left
\* to find that out by itself.
ScanArms ==
    /\ Len(playerOf) < MaxArms
    /\ \E items \in Lineups, d \in Players :
          /\ Arm(items, d)
          /\ watcher' = IF plan' # {} THEN Len(playerOf) + 1 ELSE watcher
    /\ UNCHANGED <<poll, screen, left, lagging>>

-----------------------------------------------------------------------------
(* The interval and its polls.                                             *)

PollGoes(p, to) == poll' = [poll EXCEPT ![p] = to]

\* Nothing is pending, or eight hours are over: the interval stops itself.
WatchEnds(isOver) ==
    /\ watcher # 0
    /\ isOver \/ Pending = {}
    /\ watcher' = 0
    /\ UNCHANGED <<armedVars, poll, playersVars>>

PollStarts(p) ==
    /\ watcher # 0 /\ Pending # {}
    /\ poll[p].stage = "idle"
    /\ PollGoes(p, [IdlePoll EXCEPT !.stage = "asked", !.of = watcher])
    /\ UNCHANGED <<armedVars, watcher, playersVars>>

ReadingOf(d) == [item |-> screen[d].item, late |-> screen[d].late \/ lagging[d], on |-> d]

Showing == {d \in Players : screen[d].item # NoItem}

\* currentSession: the session on the watcher's own player, if that can be found;
\* if it cannot, the first session there is.
ReadingsFor(d, isFound) ==
    IF isFound THEN IF d \in Showing THEN {ReadingOf(d)} ELSE {Nothing}
    ELSE IF Showing = {} THEN {Nothing} ELSE {ReadingOf(e) : e \in Showing}

PollReads(p, isFound) ==
    /\ poll[p].stage = "asked"
    /\ \E r \in ReadingsFor(playerOf[poll[p].of], isFound) :
          PollGoes(p, [poll[p] EXCEPT !.stage = "read", !.reading = r])
    /\ UNCHANGED <<armedVars, watcher, playersVars>>

PollFails(p) ==
    /\ poll[p].stage = "asked"
    /\ PollGoes(p, IdlePoll)
    /\ UNCHANGED <<armedVars, watcher, playersVars>>

\* SettlesAlways is wrong on purpose: a reading past the window is final.
SettlesAlways(r) == TRUE

\* Whether considerSession has settled a reading: a late position is provisional,
\* since Plex may still be reporting the episode before.
Settles(r) == r.item \notin plan \/ ~r.late

\* MarkDeclined is wrong on purpose: an episode that is sought is not remembered.
MarkDeclined(r) == IF r.item \notin plan \cup {NoItem} THEN seen \cup {r.item} ELSE seen

\* MarkSeen is what considering a reading leaves in ARMED.seen.
MarkSeen(r) == IF r.item # NoItem /\ Settles(r) THEN seen \cup {r.item} ELSE seen

\* What the poll is considered against is the plan armed now.
IsDue(r) == r.item \in Pending /\ ~r.late

PollConsiders(p) ==
    LET r == poll[p].reading IN
    /\ poll[p].stage = "read"
    /\ seen' = MarkSeen(r)
    /\ IF IsDue(r)
       THEN /\ sought' = [sought EXCEPT ![r.item] = @ + 1]
            /\ PollGoes(p, [poll[p] EXCEPT !.stage = "seeking"])
       ELSE UNCHANGED sought /\ PollGoes(p, IdlePoll)
    /\ UNCHANGED <<lineup, plan, playerOf, watcher, playersVars>>

\* The seek goes to the watcher's player, whatever it shows by now; or it fails,
\* and is not tried again.
SeekEnds(p, isLanding) ==
    LET d == playerOf[poll[p].of] IN
    /\ poll[p].stage = "seeking"
    /\ PollGoes(p, IdlePoll)
    /\ screen' = IF isLanding /\ screen[d].item # NoItem
                 THEN [screen EXCEPT ![d].late = TRUE] ELSE screen
    /\ UNCHANGED <<armedVars, watcher, left, lagging>>

-----------------------------------------------------------------------------
(* The players.                                                            *)

Shows(d, item, late, lag) ==
    /\ screen' = [screen EXCEPT ![d] = [item |-> item, late |-> late]]
    /\ lagging' = [lagging EXCEPT ![d] = lag]
    /\ UNCHANGED <<armedVars, watcher, poll>>

\* The lineup armed last reaches its player, which resumes the head.
LineupPushed ==
    /\ playerOf # << >> /\ lineup # << >>
    /\ LET d == Last(playerOf) IN
          /\ screen[d].item = NoItem \/ left[d] = << >>
          /\ Shows(d, Head(lineup).item, Usable(Head(lineup)), FALSE)
          /\ left' = [left EXCEPT ![d] = Tail(lineup)]

\* The player goes on to the next episode, from its beginning.
PlayerAdvances(d) ==
    /\ left[d] # << >>
    /\ \E lag \in BOOLEAN : Shows(d, Head(left[d]).item, FALSE, lag)
    /\ left' = [left EXCEPT ![d] = Tail(@)]

PositionSettles(d) ==
    /\ lagging[d]
    /\ Shows(d, screen[d].item, screen[d].late, FALSE)
    /\ UNCHANGED left

\* The viewer watches on, or scrubs.
PlaysOn(d) ==
    /\ screen[d].item # NoItem /\ ~screen[d].late
    /\ Shows(d, screen[d].item, TRUE, lagging[d])
    /\ UNCHANGED left

-----------------------------------------------------------------------------
ResumeNext ==
    \/ ScanArms
    \/ \E isOver \in BOOLEAN : WatchEnds(isOver)
    \/ \E p \in Polls :
          \/ PollStarts(p) \/ PollFails(p) \/ PollConsiders(p)
          \/ \E ok \in BOOLEAN : PollReads(p, ok) \/ SeekEnds(p, ok)
    \/ LineupPushed
    \/ \E d \in Players : PlayerAdvances(d) \/ PositionSettles(d) \/ PlaysOn(d)

ResumeSpec == ResumeInit /\ [][ResumeNext]_resumeVars

\* Timers fire, requests are answered (with an answer again and again, however
\* often one fails), and Plex does not report an old position for ever.
ResumeFairness ==
    /\ \A p \in Polls :
          /\ SF_resumeVars(PollStarts(p)) /\ SF_resumeVars(PollReads(p, TRUE))
          /\ WF_resumeVars(PollConsiders(p))
          /\ WF_resumeVars(SeekEnds(p, TRUE) \/ SeekEnds(p, FALSE))
    /\ \A d \in Players : WF_resumeVars(PositionSettles(d))

-----------------------------------------------------------------------------
ResumeTypeOK ==
    /\ lineup \in Seq(Candidate)
    /\ plan \subseteq Items /\ seen \subseteq Items
    /\ playerOf \in Seq(Players)
    /\ watcher \in 0..Len(playerOf)
    /\ poll \in [Polls -> [stage : {"idle", "asked", "read", "seeking"},
                           of : 0..Len(playerOf), reading : Reading]]
    /\ \A p \in Polls : poll[p].stage # "idle" => poll[p].of # 0
    /\ screen \in [Players -> [item : Items \cup {NoItem}, late : BOOLEAN]]
    /\ left \in [Players -> Seq(Candidate)]
    /\ lagging \in [Players -> BOOLEAN]
    /\ sought \in [Items -> Nat]

\* However many polls overlap, and whichever of them is late, a scan seeks an
\* episode at most once: nothing drags a viewer who has moved on back to the
\* marker (considerSession).
SoughtOnce == \A i \in Items : sought[i] <= 1

\* What is sought is an episode of the lineup armed last, not its head, with a
\* usable marker: a scan inherits no seek of the scan before it (arm, resumePlan).
SeeksAreOfThisScan ==
    \A i \in Items : sought[i] > 0 =>
        /\ \E n \in 1..Len(lineup) : lineup[n].item = i /\ Usable(lineup[n])
        /\ Head(lineup).item # i

\* The armed player shows a planned episode from its beginning.
Due(i) ==
    /\ watcher = Len(playerOf) /\ watcher # 0
    /\ i \in plan /\ sought[i] = 0
    /\ LET d == playerOf[watcher] IN screen[d].item = i /\ ~screen[d].late

\* An episode that stays near its start while it is planned is sought at last,
\* although readings fail and lag (the provisional decline of considerSession),
\* unless another reading has settled it.
DueIsSought == \A i \in Items : (Due(i) /\ i \notin seen) ~> (~Due(i))

\* No seek is decided on what somebody else's player shows (playback.ts,
\* currentSession).  With two players it need not hold: see the README.
SeeksFollowOurPlayer ==
    \A p \in Polls : poll[p].stage = "seeking" => poll[p].reading.on = Last(playerOf)

\* Whatever polls overlap while scans and skips re-arm the plan (considerSession): each seek
\* is one the scan now playing asked for, and the only one of its item.
SeeksAreRight == SoughtOnce /\ SeeksAreOfThisScan
=============================================================================
