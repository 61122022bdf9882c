---------------------------- MODULE PlaybackEnd ----------------------------
(***************************************************************************)
(* What happens when playback ends (finished.ts, fed by the retained       *)
(* topics of mqttc.ts): the set that was playing is reconciled, which is   *)
(* the same write side a scan runs: entries that resolve to nothing are    *)
(* marked done, done entries with something to play again are revived, and *)
(* what has been done for long is swept from queues.yaml.                  *)
(*                                                                         *)
(* A job is one run of the write side, from the read of the list to the    *)
(* last of its separately locked writes; QueueStore shows that each write  *)
(* is atomic.  An entry is a show: `aired` episodes, of which Plex's       *)
(* history has the first `watched`; a movie has one.                       *)
(***************************************************************************)
EXTENDS QueueDoc

CONSTANTS
    Jobs,        \* write sides that may be in flight at once
    PolicyOf,    \* "plain", "keep" (keep_completed) or "reel", for each set
    Ttl,         \* remove_completed_after of each set, in ticks; 0: never
    Airs,        \* bound on the episodes of a show, for each set
    MaxClock, MaxScans, \* bounds
    NoEpisode, NoSet

ASSUME EndAssumption ==
    /\ PolicyOf \in [Sets -> {"plain", "keep", "reel"}] /\ Ttl \in [Sets -> Nat]
    /\ Airs \in [Sets -> Nat \ {0}] /\ MaxClock \in Nat \ {0} /\ MaxScans \in Nat
    /\ NoSet \notin Sets /\ IsFiniteSet(Keys)

Episode == [set : Sets, key : Keys, nr : Nat \ {0}]

VARIABLES
    doc,       \* queues.yaml
    aired, watched, begun, \* the library, its history, and what is in progress
    credits,   \* episodes played to the end whose history row is not written yet
    onScreen,  \* the retained now-playing topic
    active,    \* the set in the retained state topic
    wasOn, timer, \* watchPlaybackEnd: the item that was on, and the pending reconcile
    job,       \* the write sides
    session,   \* SESSION.set
    memo,      \* _watched
    clock, scans,
    owed,      \* history: the set whose playback ended last and is not reconciled
    reconciled \* history: watched, as far as finished jobs have decided by it

endVars == <<doc, aired, watched, begun, credits, onScreen, active, wasOn, timer, job, session,
             memo, clock, scans, owed, reconciled>>

libraryVars == <<aired, watched, begun, credits>>
screenVars  == <<onScreen, active, wasOn, timer, session, owed>>
fileVars    == <<doc, clock>>

NoJob    == [stage |-> "idle", kind |-> "scan", set |-> NoSet, list |-> << >>,
             newly |-> {}, revived |-> {}, basis |-> [k \in Keys |-> 0], calm |-> TRUE]
Unplayed == [s \in Sets |-> [k \in Keys |-> 0]]
NoMemo   == [isKnown |-> FALSE, of |-> Unplayed]

EndInit ==
    /\ doc = [s \in Sets |-> SetToSeq({NewEntry(k) : k \in Keys})]
    /\ aired = [s \in Sets |-> [k \in Keys |-> 1]]
    /\ watched = Unplayed /\ begun = {} /\ credits = {}
    /\ onScreen = NoEpisode /\ active = NoSet
    /\ wasOn = NoEpisode /\ timer = NoSet
    /\ job = [j \in Jobs |-> NoJob]
    /\ session = NoSet
    /\ memo = NoMemo
    /\ clock = 1 /\ scans = 0
    /\ owed = NoSet /\ reconciled = Unplayed

-----------------------------------------------------------------------------
(* The decision: resolveMember and the done rules of nextQueue.            *)

NextOf(s, k) == [set |-> s, key |-> k, nr |-> watched[s][k] + 1]
IsOpen(s, k)      == watched[s][k] < aired[s][k]
InProgress(s, k)  == IsOpen(s, k) /\ NextOf(s, k) \in begun

\* A flag with a time was set by markDone and falls with anything to play; one
\* without is the owner's, and only what is in progress outranks it.
\* RevivedByTime is wrong on purpose: what is in progress does not outrank a skip.
RevivedByTime(s, e) == e.done /\ IsOpen(s, e.key) /\ e.at # 0

IsRevived(s, e) == e.done /\ IsOpen(s, e.key) /\ (e.at # 0 \/ InProgress(s, e.key))

Revived(s, list)   == {e.key : e \in {f \in ToSet(list) : IsRevived(s, f)}}
NewlyDone(s, list) == {e.key : e \in {f \in ToSet(list) : ~f.done /\ ~IsOpen(s, f.key)}}

\* What the lineup begins with: the first entry with something to play.
Playable(s, list) ==
    Picked(list, {i \in DOMAIN list : /\ IsOpen(s, list[i].key)
                                      /\ ~list[i].done \/ IsRevived(s, list[i])})

-----------------------------------------------------------------------------
(* A job: provider.buckets, then applyQueueWriteSide.                      *)

Becomes(j, to) == job' = [job EXCEPT ![j] = to]
Goes(j, stage) == Becomes(j, [job[j] EXCEPT !.stage = stage])

IsIdle(j) == job[j].stage = "idle"
IsFree(j) == IsIdle(j) /\ j = CHOOSE i \in Jobs : IsIdle(i)

\* Job j goes on to `stage`, which is something that happens to the set of the others.
Disturbing(j, s, stage) ==
    [i \in Jobs |-> IF i = j THEN [job[i] EXCEPT !.stage = stage,
                                   !.newly = IF stage = "marking" THEN @ ELSE {},
                                   !.revived = IF stage = "settling" THEN {} ELSE @]
                    ELSE IF job[i].set = s THEN [job[i] EXCEPT !.calm = FALSE] ELSE job[i]]

Disturbs(s) ==
    job' = [i \in Jobs |-> IF job[i].set = s THEN [job[i] EXCEPT !.calm = FALSE] ELSE job[i]]

ReadList(j) ==
    /\ job[j].stage = "reading"
    /\ Becomes(j, [job[j] EXCEPT !.stage = "resolving", !.list = doc[job[j].set]])
    /\ UNCHANGED <<fileVars, libraryVars, screenVars, memo, scans, reconciled>>

\* The first of the writes there is something to do in.
\* SweepFirst is wrong on purpose: it sweeps what it should have revived.
SweepFirst(s, revived, newly) ==
    IF PolicyOf[s] = "reel" THEN "settling"
    ELSE IF newly # {} /\ PolicyOf[s] # "keep" THEN "marking"
    ELSE "sweeping"

FirstWrite(s, revived, newly) ==
    IF PolicyOf[s] = "reel" THEN "settling"
    ELSE IF revived # {} THEN "clearing"
    ELSE IF newly # {} /\ PolicyOf[s] # "keep" THEN "marking"
    ELSE "sweeping"

Resolve(j) ==
    LET s       == job[j].set
        revived == Revived(s, job[j].list)
        newly   == NewlyDone(s, job[j].list)
    IN  /\ job[j].stage = "resolving"
        /\ Becomes(j, [job[j] EXCEPT !.revived = revived, !.newly = newly, !.basis = watched[s],
                                     !.list = IF job[j].kind = "scan" THEN Playable(s, @) ELSE << >>,
                                     !.stage = FirstWrite(s, revived, newly)])
        /\ UNCHANGED <<fileVars, libraryVars, screenVars, memo, scans, reconciled>>

ClearRevived(j) ==
    LET s == job[j].set IN
    /\ job[j].stage = "clearing"
    /\ doc' = ClearDone(doc, s, job[j].revived)
    /\ job' = Disturbing(j, s, IF job[j].newly # {} /\ PolicyOf[s] # "keep" THEN "marking" ELSE "sweeping")
    /\ UNCHANGED <<clock, libraryVars, screenVars, memo, scans, reconciled>>

MarkNewly(j) ==
    /\ job[j].stage = "marking"
    /\ doc' = MarkDone(doc, job[j].set, job[j].newly, clock)
    /\ job' = Disturbing(j, job[j].set, "sweeping")
    /\ UNCHANGED <<clock, libraryVars, screenVars, memo, scans, reconciled>>

\* A set that keeps what is completed is exempt, in sweepCompleted itself.
SweepAged(j) ==
    LET s == job[j].set IN
    /\ job[j].stage = "sweeping"
    /\ doc' = IF PolicyOf[s] = "keep" \/ Ttl[s] = 0 THEN doc ELSE Sweep(doc, s, clock - Ttl[s])
    /\ job' = Disturbing(j, s, "settling")
    /\ UNCHANGED <<clock, libraryVars, screenVars, memo, scans, reconciled>>

\* MemoAfter is _watched when a job of this kind is over.
MemoAfter(kind) == IF kind = "reconcile" THEN NoMemo ELSE memo

\* A reconcile ends by forgetting what the grid's history memo holds.
Reconciled(j) ==
    /\ job[j].stage = "settling" /\ job[j].kind = "reconcile"
    /\ memo' = MemoAfter("reconcile")
    /\ reconciled' = [reconciled EXCEPT ![job[j].set] =
                         [k \in Keys |-> IF job[j].basis[k] > @[k] THEN job[j].basis[k] ELSE @[k]]]
    /\ Becomes(j, NoJob)
    /\ UNCHANGED <<fileVars, libraryVars, screenVars, scans>>

\* A request of the provider or of the store fails.  A reconcile is logged and left;
\* a scan publishes the error, with SESSION's set.
JobFails(j) ==
    /\ job[j].stage \in {"reading", "resolving", "clearing", "marking", "sweeping"}
    /\ Becomes(j, NoJob)
    /\ active' = IF job[j].kind = "scan" THEN session ELSE active
    /\ UNCHANGED <<fileVars, libraryVars, onScreen, wasOn, timer, session, owed, memo,
                   scans, reconciled>>

-----------------------------------------------------------------------------
(* The now-playing feed: mqttc's listeners, watchPlaybackEnd.              *)

\* TimerOverAll is wrong on purpose: a timer that is pending is left alone.
TimerOverAll == IF timer # NoSet THEN timer ELSE active

\* Which set the reconcile timer is for once an item has ended.
Rearmed == active

\* One payload: `to` is on the screen now.
Screen(to) ==
    LET ended == wasOn # NoEpisode /\ wasOn # to IN
    /\ onScreen' = to /\ wasOn' = to
    /\ IF ended /\ active # NoSet
       THEN timer' = Rearmed /\ owed' = active
       ELSE UNCHANGED <<timer, owed>>

CanReconcile(s) == PolicyOf[s] # "reel"

\* Five seconds are over; the history has caught up with the screen.
TimerFires(j) ==
    /\ timer # NoSet /\ credits = {} /\ IsFree(j)
    /\ timer' = NoSet
    /\ owed' = IF owed = timer THEN NoSet ELSE owed
    /\ IF CanReconcile(timer)
       THEN Becomes(j, [NoJob EXCEPT !.stage = "reading", !.kind = "reconcile", !.set = timer])
       ELSE UNCHANGED job
    /\ UNCHANGED <<fileVars, libraryVars, onScreen, active, wasOn, session, memo,
                   scans, reconciled>>

\* A scan: SESSION takes the set, and the write side begins.  Scans come one after
\* another here; PlaybackSession lets them overlap.
Scan(j, s) ==
    /\ scans < MaxScans /\ IsFree(j)
    /\ \A i \in Jobs : IsIdle(i) \/ job[i].kind = "reconcile"
    /\ scans' = scans + 1
    /\ Becomes(j, [NoJob EXCEPT !.stage = "reading", !.set = s])
    /\ session' = s
    /\ UNCHANGED <<fileVars, libraryVars, onScreen, active, wasOn, timer, owed, memo,
                   reconciled>>

\* The lineup is handed over, the player shows its head, and the state is published:
\* an item that gives way ends under the state from before.
ScanPlays(j) ==
    LET head == Head(job[j].list).key IN
    /\ job[j].stage = "settling" /\ job[j].kind = "scan"
    /\ Becomes(j, NoJob)
    /\ active' = job[j].set
    /\ IF job[j].list # << >>
       THEN Screen([set |-> job[j].set, key |-> head, nr |-> job[j].basis[head] + 1])
       ELSE UNCHANGED <<onScreen, wasOn, timer, owed>>
    /\ UNCHANGED <<fileVars, session, libraryVars, memo, scans, reconciled>>

\* The item ends, is stopped halfway, or gives way to another entry of its set.  Plex
\* has scrobbled one item before the next one ends.
ItemLeaves(isPlayedOut) ==
    LET it == onScreen
        next == {NextOf(it.set, k) : k \in {l \in Keys \ {it.key} : IsOpen(it.set, l)}}
    IN  /\ it # NoEpisode /\ (isPlayedOut => credits = {})
        /\ IF isPlayedOut THEN credits' = credits \cup {it} /\ begun' = begun \ {it}
                          ELSE begun' = begun \cup {it} /\ UNCHANGED credits
        /\ \E to \in {NoEpisode} \cup next : Screen(to)
        /\ Disturbs(it.set)
        /\ UNCHANGED <<fileVars, aired, watched, active, session, memo, scans, reconciled>>

Counted(it, n)     == IF it.nr > n THEN it.nr ELSE n

\* Plex writes the history row.
Scrobble(it) ==
    /\ it \in credits
    /\ credits' = credits \ {it}
    /\ watched' = [watched EXCEPT ![it.set][it.key] = Counted(it, @)]
    /\ Disturbs(it.set)
    /\ UNCHANGED <<fileVars, aired, begun, screenVars, memo, scans, reconciled>>

NewEpisode(s, k) ==
    /\ aired[s][k] < Airs[s]
    /\ aired' = [aired EXCEPT ![s][k] = @ + 1]
    /\ Disturbs(s)
    /\ UNCHANGED <<fileVars, watched, begun, credits, screenVars, memo, scans, reconciled>>

\* The owner sets a flag in the file by hand, with no time.
MarkByHand(s, k) ==
    /\ \E e \in ToSet(doc[s]) : e.key = k /\ ~e.done
    /\ doc' = [doc EXCEPT ![s] = Change(@, {k}, LAMBDA e : [e EXCEPT !.done = TRUE])]
    /\ Disturbs(s)
    /\ UNCHANGED <<clock, libraryVars, screenVars, memo, scans, reconciled>>

\* A tick is much longer than a job.
Tick ==
    /\ clock < MaxClock /\ \A j \in Jobs : IsIdle(j)
    /\ clock' = clock + 1
    /\ UNCHANGED <<doc, libraryVars, screenVars, job, memo, scans, reconciled>>

\* The server is restarted.  The broker delivers the retained topics again, but
\* mqttd has published the state of a session that has no set.
Restart ==
    /\ job' = [j \in Jobs |-> NoJob]
    /\ wasOn' = onScreen /\ timer' = NoSet /\ owed' = NoSet
    /\ session' = NoSet
    /\ active' = NoSet
    /\ memo' = NoMemo
    /\ UNCHANGED <<fileVars, libraryVars, onScreen, scans, reconciled>>

-----------------------------------------------------------------------------
(* watchedFor.                                                             *)

\* The promise is memoised when the read begins, which is when its answer is made.
MemoReads ==
    /\ memo = NoMemo
    /\ memo' = [isKnown |-> TRUE, of |-> watched]
    /\ UNCHANGED <<fileVars, libraryVars, screenVars, job, scans, reconciled>>

\* Its time is over, or the read has failed.
MemoExpires ==
    /\ memo.isKnown
    /\ memo' = NoMemo
    /\ UNCHANGED <<fileVars, libraryVars, screenVars, job, scans, reconciled>>

-----------------------------------------------------------------------------
Steps(j) == ReadList(j) \/ Resolve(j) \/ ClearRevived(j) \/ MarkNewly(j) \/ SweepAged(j)
            \/ Reconciled(j) \/ ScanPlays(j)

EndNext ==
    \/ \E j \in Jobs : Steps(j) \/ JobFails(j) \/ TimerFires(j) \/ \E s \in Sets : Scan(j, s)
    \/ Tick \/ Restart
    \/ \E isPlayedOut \in BOOLEAN : ItemLeaves(isPlayedOut)
    \/ \E it \in credits : Scrobble(it)
    \/ \E s \in Sets, k \in Keys : NewEpisode(s, k) \/ MarkByHand(s, k)
    \/ MemoReads \/ MemoExpires

EndSpec == EndInit /\ [][EndNext]_endVars

\* Requests are answered, timers fire, and Plex scrobbles.
EndFairness ==
    /\ \A j \in Jobs : WF_endVars(Steps(j)) /\ WF_endVars(TimerFires(j))
    /\ WF_endVars(\E it \in credits : Scrobble(it))

-----------------------------------------------------------------------------
EndTypeOK ==
    /\ doc \in Doc
    /\ aired \in [Sets -> [Keys -> Nat \ {0}]] /\ watched \in [Sets -> [Keys -> Nat]]
    /\ \A s \in Sets, k \in Keys : watched[s][k] <= aired[s][k] /\ aired[s][k] <= Airs[s]
    /\ begun \subseteq Episode /\ credits \subseteq Episode
    /\ onScreen \in Episode \cup {NoEpisode} /\ wasOn = onScreen
    /\ active \in Sets \cup {NoSet} /\ timer \in Sets \cup {NoSet}
    /\ \A j \in Jobs : job[j].stage # "idle" => job[j].set \in Sets
    /\ session \in Sets \cup {NoSet}
    /\ memo.isKnown \in BOOLEAN
    /\ clock \in 1..MaxClock

\* Only what this very run of the write side found nothing to play in is swept: the
\* order of the writes revives an aged entry before it could be dropped.  The sweep
\* itself looks at the flag and its age alone (applyQueueWriteSide, sweepCompleted).
SweptWereFinished ==
    [][\A j \in Jobs : job[j].stage = "sweeping" /\ job'[j].stage = "settling" =>
          \A e \in ToSet(doc[job[j].set]) \ ToSet(doc'[job[j].set]) :
              e.key \notin job[j].revived]_endVars

\* A write side during which nothing else happens to its set leaves the flags in
\* agreement with Plex: what is flagged has nothing to play, or the owner skipped it
\* and nobody has begun it; and what has nothing to play is flagged, unless the set
\* keeps what is completed (nextQueue, applyQueueWriteSide).
FlagIsRight(s, e) ==
    IF e.done THEN IsOpen(s, e.key) => e.at = 0 /\ ~InProgress(s, e.key)
    ELSE PolicyOf[s] = "plain" => IsOpen(s, e.key)

WriteSideSettles ==
    \A j \in Jobs :
        job[j].stage = "settling" /\ job[j].calm /\ PolicyOf[job[j].set] # "reel"
        => \A e \in ToSet(doc[job[j].set]) : FlagIsRight(job[j].set, e)

\* A grid that asks after a reconcile is answered from a history that has what the
\* reconcile decided by: the memo never serves the answer from before (finished.ts,
\* reconcileQueue and watchedFor).
MemoKnowsTheReconciled ==
    memo.isKnown => \A s \in Sets, k \in Keys : memo.of[s][k] >= reconciled[s][k]

\* The set whose item left the screen last is reconciled, flicker or not, unless an
\* item of another set ends first (the one timer of watchPlaybackEnd).
LastEndedIsReconciled == \A s \in Sets : owed = s ~> owed # s

\* While an item of a set is on the screen, the retained state names that set
\* (finished.ts, the comment above announceFinished).
ActiveSetIsOnScreen == onScreen # NoEpisode => active = onScreen.set

\* What applyQueueWriteSide, sweepCompleted and the memo of watchedFor do together: flags
\* come to agree with Plex, a sweep takes nothing the same run has revived, and no grid is
\* answered from before a reconcile.
ReconcilesAreRight ==
    /\ [][WriteSideSettles' /\ MemoKnowsTheReconciled']_endVars
    /\ SweptWereFinished
=============================================================================
