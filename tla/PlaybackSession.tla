-------------------------- MODULE PlaybackSession --------------------------
(***************************************************************************)
(* The playback session of the server: session.ts (startSession and        *)
(* advanceSession), the push half of topup.ts, the command handlers of     *)
(* mqttd.ts that call them, and the part of driver.ts and playback.ts they *)
(* await.                                                                  *)
(*                                                                         *)
(* The server is one Node process: a handler runs undisturbed from one     *)
(* await to the next, and any other handler may run in between.  Every     *)
(* command that arrives is a handler of its own (an element of Starts,     *)
(* Advances or Ticks); pc says which await it is in, and an action is the  *)
(* code from the answer of that await to the next one.  A request to Plex  *)
(* takes effect at Plex in the step in which the handler gets the answer.  *)
(***************************************************************************)
EXTENDS PlaybackLength, Sequences, FiniteSets, Sublist

CONSTANTS
    Starts,       \* one id per session/start command
    Advances,     \* one id per session/advance command
    Ticks,        \* one id per topup command
    Sets,         \* the registry of sets, with
    SetCfg,       \*   the configuration of each,
    ChannelOf,    \*   the channel a profile is routed to (NoSet: none)
    Profiles,     \* Plex Home profiles, each standing for its account as well
    Owner,        \*   the one the server belongs to: account 1
    Payloads,     \* the start commands that may arrive: [set, profile]
    Pool,         \* how many items the library has for each set
    TopupAt,      \* env TOPUP_AT
    PlayAttempts, \* env PLAYBACK_FSM_PLAY_ATTEMPTS
    Fsm,          \* env PLAYBACK_FSM: the driver's state machine, or the legacy path
    AdbEnabled,   \* env ADB_ENABLED
    PlexDrops,    \* whether Plex may drop items the account cannot see
    Overlap,      \* the kinds of command that may arrive while another is handled
    AutoSet, NoSet, NoProfile, NoStart

NoQueue == 0                       \* SESSION.playQueueID = null

Actors   == Starts \cup Advances \cup Ticks
Account  == Profiles \cup {NoProfile}   \* NoProfile: account_id is null
Payload  == [set : Sets \cup {AutoSet}, profile : Profiles \cup {NoProfile}]
Cfg      == [source : {"queue", "rotation", "rewatch"}, curated : BOOLEAN,
             length : Int \cup {Infinite, Unset}, refill : BOOLEAN,
             enabled : BOOLEAN, requires : Profiles \cup {NoProfile},
             binds : UNION {[S -> Account] : S \in SUBSET Profiles},
             first : Account, cap : Nat]

ASSUME SessionAssumption ==
    /\ Starts \cap Advances = {} /\ Starts \cap Ticks = {} /\ Advances \cap Ticks = {}
    /\ NoStart \notin Starts \cup Advances
    /\ AutoSet \notin Sets /\ NoSet \notin Sets
    /\ NoProfile \notin Profiles /\ Owner \in Profiles
    /\ SetCfg \in [Sets -> Cfg]
    /\ ChannelOf \in [Profiles -> Sets \cup {NoSet}]
    /\ Payloads \subseteq Payload
    /\ TopupAt \in Nat /\ PlayAttempts \in Nat \ {0}
    /\ Fsm \in BOOLEAN /\ AdbEnabled \in BOOLEAN /\ PlexDrops \in BOOLEAN
    /\ Overlap \subseteq {"start", "advance", "tick"}

ASSUME LibraryAssumption == Pool \in [Sets -> Nat]

VARIABLES
    session,    \* SESSION, the module's singleton
    active,     \* whose flag _activeCancel is
    cancelled,  \* the cancel flag of each start
    pc,         \* the await each handler is in ("idle": not arrived, "done": returned)
    job,        \* the locals of starts and advances
    tick,       \* the locals of top-up ticks
    cooling,    \* the sets within TOPUP_COOLDOWN_SECONDS of their last top-up
    queues,     \* Plex's playQueues, by id
    device,     \* the playQueue on the TV and the account it plays as
    armed,      \* whose lineup the resume plan in resume.ts is armed for
    topic,      \* the retained state topic: what it says and who said it
    late        \* history: playQueues a start created after it was superseded

vars == <<session, active, cancelled, pc, job, tick, cooling, queues, device,
          armed, topic, late>>

Item == {i \in [set : Sets, nr : Nat \ {0}] : i.nr <= Pool[i.set]}

Session == [set : Sets \cup {NoSet}, profile : Profiles \cup {NoProfile},
            account : Account, queue : Seq(Item), cursor : Nat,
            playQueue : Nat, queuedTotal : Nat, target : Target \cup {Unset}]

Job == [set : Sets \cup {NoSet}, card : Profiles \cup {NoProfile}, auto : BOOLEAN,
        required : Profiles \cup {NoProfile}, profile : Profiles \cup {NoProfile},
        account : Account, items : Seq(Item), playQueue : Nat,
        attempts : Nat]

Tick == [set : Sets \cup {NoSet}, account : Account, playQueue : Nat, window : Nat,
         want : Nat, seen : Seq(Item), slice : Seq(Item)]

PlayQueue == [items : Seq(Item), at : Nat, by : Starts \cup Advances, gone : BOOLEAN]

Topic == [says : {"boot", "awaiting", "error", "playing"},
          by : Starts \cup Advances \cup {NoStart}]

Stages == {"idle", "opening", "detecting", "gating", "binding", "listing",
           "recording", "joining", "waking", "profiling", "probing", "creating",
           "pushing", "backoff", "auditing", "stopping", "authorising", "reading", "building",
           "extending", "done"}

NoJob  == [set |-> NoSet, card |-> NoProfile, auto |-> FALSE, required |-> NoProfile,
           profile |-> NoProfile, account |-> NoProfile, items |-> << >>,
           playQueue |-> NoQueue, attempts |-> 0]
NoTick == [set |-> NoSet, account |-> NoProfile, playQueue |-> NoQueue, window |-> 0,
           want |-> 0, seen |-> << >>, slice |-> << >>]

Init ==
    /\ session = [set |-> NoSet, profile |-> NoProfile, account |-> NoProfile,
                  queue |-> << >>, cursor |-> 0, playQueue |-> NoQueue,
                  queuedTotal |-> 0, target |-> Unset]
    /\ active = NoStart
    /\ cancelled = [s \in Starts |-> FALSE]
    /\ pc = [a \in Actors |-> "idle"]
    /\ job = [a \in Starts \cup Advances |-> NoJob]
    /\ tick = [t \in Ticks |-> NoTick]
    /\ cooling = {}
    /\ queues = << >>
    /\ device = [queue |-> NoQueue, account |-> NoProfile]
    /\ armed = NoStart
    /\ topic = [says |-> "boot", by |-> NoStart]
    /\ late = [s \in Starts |-> 0]

InFlight(a) == pc[a] \notin {"idle", "done"}

\* A command of this kind may be delivered now.
Deliverable(kind) == kind \in Overlap \/ \A a \in Actors : ~InFlight(a)

\* n items of a set, from the from-th of its pool on.
Run(set, from, n) == [i \in 1 .. n |-> [set |-> set, nr |-> from + i - 1]]

\* What an engine call may return for a set: at most n items, possibly none, each once
\* (a child two members contest, which a deal can repeat, is left out).
LineupsUpTo(set, n) ==
    {Run(set, from, k) : from \in 1 .. Pool[set], k \in 0 .. n} \cap Seq(Item)

ItemsOf(seq)  == {seq[i] : i \in DOMAIN seq}
Take(seq, n)  == SubSeq(seq, 1, IF n < Len(seq) THEN n ELSE Len(seq))
Remaining(q)  == LET left == Len(q.items) - q.at IN IF left < 0 THEN 0 ELSE left

-----------------------------------------------------------------------------
(* startSession, from the command to the first await that reads Plex.      *)

\* How a start leaves the checks on its set: `next` is the await it goes to.
Admission(j, set, detected) ==
    LET cfg   == SetCfg[set]
        clash == /\ cfg.requires # NoProfile /\ j.card # NoProfile
                 /\ j.card # cfg.requires /\ ~j.auto
        needs == IF cfg.requires = NoProfile /\ ~j.auto THEN j.card ELSE cfg.requires
        title == IF j.auto THEN detected ELSE j.card
    IN  [next |-> IF ~cfg.enabled \/ clash THEN "done"
                  ELSE IF ~Fsm /\ needs # NoProfile /\ detected # needs THEN "gating"
                  ELSE "binding",
         job  |-> [j EXCEPT !.set = set, !.required = needs,
                            !.profile = IF Fsm /\ title = NoProfile THEN needs ELSE title]]

Moves(a, stage) == pc' = [pc EXCEPT ![a] = stage]
Says(a, what)   == topic' = [says |-> what, by |-> a]

\* The handler of `a` ends; publishing the result is part of the same step.
EndsSaying(a, what) == Moves(a, "done") /\ Says(a, what)

\* What the topic says once a start has been admitted, held at the gate or refused.
SaysOfAdmission(s, next) ==
    CASE next = "done"   -> Says(s, "error")
      [] next = "gating" -> Says(s, "awaiting")
      [] OTHER           -> UNCHANGED topic

Admit(s, j, set, detected) ==
    LET a == Admission(j, set, detected) IN
    /\ pc' = [pc EXCEPT ![s] = a.next]
    /\ job' = [job EXCEPT ![s] = a.job]
    /\ SaysOfAdmission(s, a.next)

\* An automatic start waits for a sign-in; any other is admitted at once.
Resolve(s, j) ==
    IF j.auto
    THEN /\ pc' = [pc EXCEPT ![s] = "detecting"]
         /\ job' = [job EXCEPT ![s] = j]
         /\ Says(s, "awaiting")
    ELSE Admit(s, j, j.set, NoProfile)

SessionUnchanged == UNCHANGED <<session, armed>>
PlexUnchanged    == UNCHANGED <<queues, device, late>>
TicksUnchanged   == UNCHANGED <<tick, cooling>>

JobOf(payload) ==
    [NoJob EXCEPT !.card = payload.profile, !.auto = payload.set = AutoSet,
                  !.set = IF payload.set = AutoSet THEN NoSet ELSE payload.set]

\* FlagsLeftDown is wrong on purpose: the start before keeps running.
FlagsLeftDown == cancelled
FlagsRaised   == [c \in Starts |-> cancelled[c] \/ c = active]

\* The command raises the flag of the start before it and installs its own.
StartCommand(s) ==
    /\ pc[s] = "idle" /\ Deliverable("start")
    /\ active' = s
    /\ cancelled' = FlagsRaised
    /\ \E payload \in Payloads :
          IF AdbEnabled
          THEN /\ pc' = [pc EXCEPT ![s] = "opening"]
               /\ job' = [job EXCEPT ![s] = JobOf(payload)]
               /\ UNCHANGED topic
          ELSE Resolve(s, JobOf(payload))
    /\ SessionUnchanged /\ PlexUnchanged /\ TicksUnchanged

\* ensurePlexOpen has answered (or failed, which is only logged).
PlexOpened(s) ==
    /\ pc[s] = "opening"
    /\ Resolve(s, job[s])
    /\ UNCHANGED <<active, cancelled>>
    /\ SessionUnchanged /\ PlexUnchanged /\ TicksUnchanged

\* waitForProfile({match: null}) has answered, with a title or with none.
ProfileDetected(s) ==
    /\ pc[s] = "detecting"
    /\ \E title \in Profiles \cup {NoProfile} :
          IF cancelled[s]
          THEN pc' = [pc EXCEPT ![s] = "done"] /\ UNCHANGED <<job, topic>>
          ELSE IF title = NoProfile \/ ChannelOf[title] = NoSet
          THEN pc' = [pc EXCEPT ![s] = "done"] /\ UNCHANGED job /\ Says(s, "error")
          ELSE Admit(s, job[s], ChannelOf[title], title)
    /\ UNCHANGED <<active, cancelled>>
    /\ SessionUnchanged /\ PlexUnchanged /\ TicksUnchanged

\* Legacy gate: waitForProfile({match: required}) has answered.
GateSettled(s) ==
    /\ pc[s] = "gating"
    /\ \E cleared \in BOOLEAN :
          /\ pc' = [pc EXCEPT ![s] = IF cleared /\ ~cancelled[s] THEN "binding" ELSE "done"]
          /\ job' = [job EXCEPT ![s].profile =
                              IF cleared /\ ~cancelled[s] THEN job[s].required ELSE @]
          /\ IF cleared \/ cancelled[s] THEN UNCHANGED topic ELSE Says(s, "error")
    /\ UNCHANGED <<active, cancelled>>
    /\ SessionUnchanged /\ PlexUnchanged /\ TicksUnchanged

-----------------------------------------------------------------------------
(* startSession, selection: SESSION takes the new set, then the lineup.    *)

\* bindingFor: a curated queue is the owner's; a channel has the account of the
\* profile it binds by that title, and the one of its first profile for any other.
BindingFor(set, title) ==
    LET cfg == SetCfg[set] IN
    IF cfg.source = "queue" THEN Owner
    ELSE IF title \in DOMAIN cfg.binds THEN cfg.binds[title] ELSE cfg.first

\* What profileBinding may answer.  A binding with an account comes back untouched;
\* one without gets the title's, unless it states a token or plex.tv knows no such title.
BindingsOf(set, title) ==
    LET account == BindingFor(set, title) IN
    IF account # NoProfile THEN {account} ELSE {NoProfile, title}

\* profileBinding has answered: SESSION names the new set before its lineup exists.
Bound(s) ==
    LET j == job[s] IN
    /\ pc[s] = "binding"
    /\ \E account \in BindingsOf(j.set, j.profile) :
          /\ session' = [session EXCEPT !.set = j.set, !.profile = j.profile,
                                        !.account = account, !.cursor = 0]
          /\ job' = [job EXCEPT ![s].account = account]
    /\ pc' = [pc EXCEPT ![s] = "listing"]
    /\ UNCHANGED <<active, cancelled, armed, topic>>
    /\ PlexUnchanged /\ TicksUnchanged

\* The await the handoff of a start begins with.
HandoffStage(s) ==
    IF Fsm
    THEN IF cancelled[s] THEN "done"
         ELSE IF AdbEnabled THEN "waking"
         ELSE IF job[s].required # NoProfile THEN "profiling"
         ELSE "probing"
    ELSE IF job[s].required # NoProfile /\ AdbEnabled THEN "joining"
         ELSE IF cancelled[s] THEN "done"
         ELSE "creating"

\* TargetOfSession is wrong on purpose: another start may have renamed the session.
TargetOfSession(s) == Length(SetCfg[session.set])
TargetOf(s)        == Length(SetCfg[job[s].set])

\* One step without an await: the capped lineup, the running total, the target
\* and the resume plan are replaced together.
Commit(s, items) ==
    LET cap    == SetCfg[job[s].set].cap
        lineup == IF cap > 0 THEN Take(items, cap) ELSE items
    IN
    /\ session' = [session EXCEPT !.queue = lineup, !.queuedTotal = Len(lineup),
                                  !.target = TargetOf(s)]
    /\ armed' = s
    /\ job' = [job EXCEPT ![s].items = lineup]
    /\ pc' = [pc EXCEPT ![s] = HandoffStage(s)]
    /\ UNCHANGED topic

NothingToPlay(s) == EndsSaying(s, "error") /\ UNCHANGED job /\ SessionUnchanged

\* profileToken and buckets have answered. A queue is written back to first.
LineupBuilt(s) ==
    /\ pc[s] = "listing"
    /\ \E items \in LineupsUpTo(job[s].set, InitialQueueSize(TargetOf(s))) :
          IF SetCfg[job[s].set].source = "queue"
          THEN /\ job' = [job EXCEPT ![s].items = items]
               /\ pc' = [pc EXCEPT ![s] = "recording"]
               /\ UNCHANGED topic /\ SessionUnchanged
          ELSE IF items = << >> THEN NothingToPlay(s) ELSE Commit(s, items)
    /\ UNCHANGED <<active, cancelled>> /\ PlexUnchanged /\ TicksUnchanged

\* applyQueueWriteSide has returned.
QueueRecorded(s) ==
    /\ pc[s] = "recording"
    /\ IF job[s].items = << >> THEN NothingToPlay(s) ELSE Commit(s, job[s].items)
    /\ UNCHANGED <<active, cancelled>> /\ PlexUnchanged /\ TicksUnchanged

\* A call to the library or to the queue store has thrown: what SESSION took over
\* before stays, and the handler reports the error.
SelectionFailed(s) ==
    /\ pc[s] \in {"binding", "listing", "recording"}
    /\ NothingToPlay(s)
    /\ UNCHANGED <<active, cancelled>> /\ PlexUnchanged /\ TicksUnchanged

-----------------------------------------------------------------------------
(* The handoff: the driver's transitions, then playRatingKeys.             *)

StepUnchanged ==
    UNCHANGED <<active, cancelled, job, topic>>
    /\ SessionUnchanged /\ PlexUnchanged /\ TicksUnchanged

\* Legacy path: adb.switchTo has answered; its failure is only logged.
Joined(s) ==
    /\ pc[s] = "joining"
    /\ Moves(s, IF cancelled[s] THEN "done" ELSE "creating")
    /\ StepUnchanged

\* driveToPlaying: ensurePlex has answered.
Woken(s) ==
    /\ pc[s] = "waking"
    /\ Moves(s, IF job[s].required # NoProfile THEN "profiling"
                ELSE IF cancelled[s] THEN "done" ELSE "probing")
    /\ StepUnchanged

\* driveProfile has answered; its last failed attempt is an error even of a
\* start that has been superseded.
ProfileDriven(s) ==
    /\ pc[s] = "profiling"
    /\ \/ /\ Moves(s, IF cancelled[s] THEN "done" ELSE "probing")
          /\ UNCHANGED topic
       \/ /\ Moves(s, "done")
          /\ Says(s, "error")
    /\ UNCHANGED <<active, cancelled, job>>
    /\ SessionUnchanged /\ PlexUnchanged /\ TicksUnchanged

\* drivePlay: foreground and Companion probes have answered; play is fired anyway.
Probed(s) ==
    /\ pc[s] = "probing"
    /\ Moves(s, "creating")
    /\ StepUnchanged

\* Wrong on purpose: RetryUnchecked skips the flag, RetryForever waits on it.
RetryUnchecked(s) == "probing"
RetryForever(s)   == IF cancelled[s] THEN "backoff" ELSE "probing"
Retry(s)          == IF cancelled[s] THEN "done" ELSE "probing"

\* drivePlay after a refused attempt: the flag is read again at the top of the loop.
BackedOff(s) ==
    /\ pc[s] = "backoff"
    /\ Moves(s, Retry(s))
    /\ StepUnchanged

\* What Plex accepts of a list of items: all, or less when it may drop some.
Accepted(items) == IF PlexDrops THEN {Take(items, n) : n \in 0 .. Len(items)} ELSE {items}

\* An attempt to play has failed. The driver retries a refused connection of a
\* start, a bounded few times; an advance publishes its result whatever it is.
AttemptFailed(a) ==
    /\ \E refused \in BOOLEAN :
          IF a \in Advances THEN EndsSaying(a, "playing")
          ELSE IF Fsm /\ refused /\ job[a].attempts + 1 < PlayAttempts
          THEN Moves(a, "backoff") /\ UNCHANGED topic
          ELSE EndsSaying(a, "error")
    /\ job' = [job EXCEPT ![a].attempts = @ + 1]

\* createPlayQueue has failed, or answered with an empty queue, which is an error too.
CreateFailed(a) ==
    /\ pc[a] = "creating"
    /\ AttemptFailed(a)
    /\ UNCHANGED <<active, cancelled>>
    /\ SessionUnchanged /\ PlexUnchanged /\ TicksUnchanged

\* createPlayQueue has answered. Without a client the queue exists but is not played.
CreateQueue(a) ==
    /\ pc[a] = "creating"
    /\ \E accepted \in Accepted(job[a].items) \ {<< >>}, found \in BOOLEAN :
          /\ queues' = Append(queues, [items |-> accepted, at |-> 1, by |-> a, gone |-> FALSE])
          /\ IF found THEN Moves(a, "pushing") /\ UNCHANGED topic
             ELSE EndsSaying(a, IF a \in Advances THEN "playing" ELSE "error")
    /\ job' = [job EXCEPT ![a].playQueue = Len(queues) + 1]
    /\ late' = [s \in Starts |-> IF s = a /\ cancelled[s] THEN late[s] + 1 ELSE late[s]]
    /\ UNCHANGED <<active, cancelled, device>>
    /\ SessionUnchanged /\ TicksUnchanged

\* The start ends with the queue it pushed remembered for the top-up.
Finish(s) ==
    /\ EndsSaying(s, "playing")
    /\ session' = [session EXCEPT !.playQueue = job[s].playQueue]

\* The driver knows which account is to be playing.
Expects(s) == Fsm /\ job[s].account # NoProfile

\* playMedia has answered: the TV plays the queue as whoever it is signed in as,
\* which only the driver ever looks at, and only when it knows whom to expect: a
\* start without an account is neither audited nor dropped for being superseded.
PushLanded(a) ==
    /\ pc[a] = "pushing"
    /\ \E account \in IF Fsm THEN Profiles ELSE {job[a].account} :
          device' = [queue |-> job[a].playQueue, account |-> account]
    /\ \/ a \in Advances /\ EndsSaying(a, "playing") /\ UNCHANGED session
       \/ a \in Starts /\ ~Expects(a) /\ Finish(a)
       \/ /\ a \in Starts /\ Expects(a)
          /\ Moves(a, IF cancelled[a] THEN "done" ELSE "auditing")
          /\ UNCHANGED <<session, topic>>
    /\ UNCHANGED <<active, cancelled, job, queues, armed, late>> /\ TicksUnchanged

PushFailed(a) ==
    /\ pc[a] = "pushing"
    /\ AttemptFailed(a)
    /\ UNCHANGED <<active, cancelled>>
    /\ SessionUnchanged /\ PlexUnchanged /\ TicksUnchanged

\* Who the TV is playing as is not who the start is bound to.
Mismatch(s) == device.queue # NoQueue /\ device.account # job[s].account

\* verifyAccount has answered; it abstains when it sees no session in time.
Audited(s) ==
    /\ pc[s] = "auditing"
    /\ \/ Mismatch(s) /\ Moves(s, "stopping") /\ UNCHANGED <<session, topic>>
       \/ Finish(s)
    /\ UNCHANGED <<active, cancelled, job, armed>> /\ PlexUnchanged /\ TicksUnchanged

\* stopPlayback has answered; its failure is only logged.
AuditStopped(s) ==
    /\ pc[s] = "stopping"
    /\ device' \in {device, [queue |-> NoQueue, account |-> NoProfile]}
    /\ EndsSaying(s, "error")
    /\ UNCHANGED <<active, cancelled, job, queues, late>>
    /\ SessionUnchanged /\ TicksUnchanged

-----------------------------------------------------------------------------
(* advanceSession: the rest of the lineup is pushed as a playQueue of its  *)
(* own, which SESSION.playQueueID does not follow.                         *)

AdvanceCommand(a) ==
    /\ pc[a] = "idle" /\ Deliverable("advance")
    /\ IF session.queue = << >>
       THEN Moves(a, "done") /\ UNCHANGED <<session, job>>
       ELSE LET last   == Len(session.queue) - 1
                cursor == IF session.cursor + 1 < last THEN session.cursor + 1 ELSE last
            IN  /\ session' = [session EXCEPT !.cursor = cursor]
                /\ job' = [job EXCEPT ![a] =
                             [NoJob EXCEPT !.set = session.set, !.account = session.account,
                                           !.items = SubSeq(session.queue, cursor + 1, last + 1)]]
                /\ Moves(a, "creating")
    /\ UNCHANGED <<active, cancelled, armed, topic>> /\ PlexUnchanged /\ TicksUnchanged

-----------------------------------------------------------------------------
(* topup, for the session on the screen.                                   *)

TickMoves(t, stage) ==
    /\ Moves(t, stage)
    /\ UNCHANGED <<active, cancelled, job, topic>>

CoolingDown(set) == set \in cooling

\* The gates before the first await: each one that says no ends the tick.
WantsTopup(set) ==
    /\ set # NoSet /\ ~CoolingDown(set)
    /\ SetCfg[set].source \in {"rotation", "rewatch"}
    /\ NeedsTopup(Length(SetCfg[set]))
    /\ ~IsTargetMet(Length(SetCfg[set]), session.queuedTotal)

\* The title a top-up asks bindingFor and profileBinding for.  DefaultProfile is
\* wrong on purpose: the lineup is built as the first profile of the set.
DefaultProfile == NoProfile
TopupProfile   == session.profile

\* The account is looked up for the set and the profile SESSION names now.
TickCommand(t) ==
    /\ pc[t] = "idle" /\ Deliverable("tick")
    /\ IF WantsTopup(session.set)
       THEN /\ TickMoves(t, "authorising")
            /\ \E account \in BindingsOf(session.set, TopupProfile) :
                  tick' = [tick EXCEPT ![t].set = session.set, ![t].account = account]
       ELSE TickMoves(t, "done") /\ UNCHANGED tick
    /\ UNCHANGED cooling /\ SessionUnchanged /\ PlexUnchanged

\* profileBinding and profileToken have answered; the window is sized by the total now.
TickAuthorised(t) ==
    /\ pc[t] = "authorising"
    /\ TickMoves(t, IF session.playQueue = NoQueue THEN "done" ELSE "reading")
    /\ tick' = [tick EXCEPT
          ![t].window = TopupWindow(Length(SetCfg[tick[t].set]), session.queuedTotal),
          ![t].playQueue = session.playQueue]
    /\ UNCHANGED cooling /\ SessionUnchanged /\ PlexUnchanged

\* readPlayQueue has answered for the queue it was asked about.
TickRead(t) ==
    LET q    == queues[tick[t].playQueue]
        want == tick[t].window - Remaining(q)
    IN
    /\ pc[t] = "reading"
    /\ IF q.gone \/ Remaining(q) > TopupAt \/ want <= 0
       THEN TickMoves(t, "done") /\ UNCHANGED tick
       ELSE /\ TickMoves(t, "building")
            /\ tick' = [tick EXCEPT ![t].want = want, ![t].seen = q.items]
    /\ UNCHANGED cooling /\ SessionUnchanged /\ PlexUnchanged

\* What is left of a built lineup without the items already in the queue that was read.
Unfiltered(built, seen) == built  \* wrong on purpose: items are queued again
Fresh(built, seen)      == Picked(built, {n \in DOMAIN built : built[n] \notin ItemsOf(seen)})

\* buckets has answered; SESSION.playQueueID is read once more.
TickBuilt(t) ==
    /\ pc[t] = "building"
    /\ \E built \in LineupsUpTo(tick[t].set, InitialQueueSize(Length(SetCfg[tick[t].set]))) :
          LET fresh == Fresh(built, tick[t].seen)
          IN  /\ TickMoves(t, IF fresh = << >> THEN "done" ELSE "extending")
              /\ tick' = [tick EXCEPT ![t].slice = Take(fresh, tick[t].want),
                                      ![t].playQueue = session.playQueue]
    /\ UNCHANGED cooling /\ SessionUnchanged /\ PlexUnchanged

\* Plex inserts right after the item the viewer is on.
Inserted(q, items) ==
    [q EXCEPT !.items = SubSeq(q.items, 1, q.at) \o items \o SubSeq(q.items, q.at + 1, Len(q.items))]

\* TickNeverFails is wrong on purpose: the failed call is never caught.
TickNeverFails(t) == FALSE

\* A call to Plex or to the engine has failed.
TickFailed(t) ==
    /\ pc[t] \in {"authorising", "reading", "building", "extending"}
    /\ TickMoves(t, "done")
    /\ UNCHANGED <<tick, cooling>> /\ SessionUnchanged /\ PlexUnchanged

\* What the running total grows by: the size Plex answers less the size that was read.
WholeSize(size, seen) == size     \* wrong on purpose: the old items count twice
Growth(size, seen)    == IF size < Len(seen) THEN 0 ELSE size - Len(seen)

\* extendPlayQueue has answered, with the new size or without one, when every item
\* of the slice counts as taken: the cooldown starts and the running total grows.
TickExtended(t) ==
    LET q == queues[tick[t].playQueue] IN
    /\ pc[t] = "extending"
    /\ ~q.gone
    /\ \E accepted \in Accepted(tick[t].slice) :
          LET longer == Inserted(q, accepted) IN
              /\ queues' = [queues EXCEPT ![tick[t].playQueue] = longer]
              /\ \E added \in {Growth(Len(longer.items), tick[t].seen), Len(tick[t].slice)} :
                    session' = [session EXCEPT !.queuedTotal = @ + added]
    /\ cooling' = cooling \cup {tick[t].set}
    /\ TickMoves(t, "done")
    /\ UNCHANGED <<tick, armed, device, late>>

-----------------------------------------------------------------------------
(* The TV, Plex and the clock.                                             *)

EnvironmentUnchanged == UNCHANGED <<session, active, cancelled, pc, job, tick, armed, topic, late>>

\* The viewer reaches the next item, or the end of the queue.
ViewerNext ==
    LET q == queues[device.queue] IN
    /\ device.queue # NoQueue
    /\ IF q.at < Len(q.items)
       THEN queues' = [queues EXCEPT ![device.queue].at = @ + 1] /\ UNCHANGED device
       ELSE device' = [queue |-> NoQueue, account |-> NoProfile] /\ UNCHANGED queues
    /\ UNCHANGED cooling /\ EnvironmentUnchanged

\* Plex forgets a queue nobody is playing.
QueueForgotten(id) ==
    /\ id # device.queue /\ ~queues[id].gone
    /\ queues' = [queues EXCEPT ![id].gone = TRUE]
    /\ UNCHANGED <<cooling, device>> /\ EnvironmentUnchanged

CooldownOver(set) ==
    /\ set \in cooling
    /\ cooling' = cooling \ {set}
    /\ UNCHANGED <<queues, device>> /\ EnvironmentUnchanged

Environment ==
    \/ ViewerNext
    \/ \E id \in DOMAIN queues : QueueForgotten(id)
    \/ \E set \in Sets : CooldownOver(set)

-----------------------------------------------------------------------------
StartStep(s) ==
    \/ PlexOpened(s) \/ ProfileDetected(s) \/ GateSettled(s)
    \/ Bound(s) \/ LineupBuilt(s) \/ QueueRecorded(s) \/ SelectionFailed(s)
    \/ Joined(s) \/ Woken(s) \/ ProfileDriven(s) \/ Probed(s) \/ BackedOff(s)
    \/ Audited(s) \/ AuditStopped(s)

PlayStep(a) == CreateQueue(a) \/ CreateFailed(a) \/ PushLanded(a) \/ PushFailed(a)

TickStep(t) ==
    \/ TickAuthorised(t) \/ TickRead(t) \/ TickBuilt(t) \/ TickExtended(t) \/ TickFailed(t)

Next ==
    \/ \E s \in Starts : StartCommand(s) \/ StartStep(s)
    \/ \E a \in Advances : AdvanceCommand(a)
    \/ \E a \in Starts \cup Advances : PlayStep(a)
    \/ \E t \in Ticks : TickCommand(t) \/ TickStep(t)
    \/ Environment

Spec == Init /\ [][Next]_vars

\* Every await ends: requests, waits and retries of a handler have timeouts.
Fairness ==
    /\ \A s \in Starts : WF_vars(StartStep(s))
    /\ \A a \in Starts \cup Advances : WF_vars(PlayStep(a))
    /\ \A t \in Ticks : WF_vars(TickStep(t))

FairSpec == Spec /\ Fairness

-----------------------------------------------------------------------------
(* Properties.                                                             *)

\* Every variable keeps its type.
TypeOK ==
    /\ session \in Session
    /\ active \in Starts \cup {NoStart}
    /\ cancelled \in [Starts -> BOOLEAN]
    /\ pc \in [Actors -> Stages]
    /\ job \in [Starts \cup Advances -> Job]
    /\ tick \in [Ticks -> Tick]
    /\ cooling \subseteq Sets
    /\ queues \in Seq(PlayQueue)
    /\ device \in [queue : 0 .. Len(queues), account : Profiles \cup {NoProfile}]
    /\ armed \in Starts \cup {NoStart}
    /\ topic \in Topic
    /\ late \in [Starts -> Nat]

\* The part a start plays in the abstract protocol.
StageOf(s) ==
    CASE pc[s] = "idle" -> "waiting"
      [] pc[s] = "done" -> "over"
      [] OTHER          -> IF cancelled[s] THEN "superseded" ELSE "live"

Protocol == INSTANCE LatestWins WITH newest <- active, stage <- [s \in Starts |-> StageOf(s)]

\* Starts implement the protocol in which the latest one wins: whatever await a
\* start is in when a newer one arrives, it is superseded then and for good.
LatestWinsProtocol == Protocol!Spec

\* A superseded start creates at most one more playQueue, however many attempts
\* the driver has left: the flag is read again before every attempt.
SupersededPlaysAtMostOnce == \A s \in Starts : late[s] <= 1

\* The lineup SESSION holds, its playback target and the armed resume plan are
\* always those of one and the same start, however starts interleave.
LineupOfOneStart ==
    session.queue # << >> =>
        /\ armed # NoStart
        /\ session.queue = job[armed].items
        /\ session.target = Length(SetCfg[job[armed].set])

\* The set, the lineup and the playQueue SESSION remembers are those of one start:
\* a later start has not failed half-way, or has named the same set again, and no
\* advance has begun a queue of its own.
OwnQueue ==
    /\ session.playQueue # NoQueue /\ queues[session.playQueue].by = armed
    /\ session.set = job[armed].set

\* A top-up never queues what is already in the queue, watched or not: "re-adding a
\* short they watched ten minutes ago is the most visible way this can look broken".
\* The lineup a queue begins with has each item once (LineupsUpTo).
NoRepeats ==
    \A id \in DOMAIN queues : Cardinality(ItemsOf(queues[id].items)) = Len(queues[id].items)

\* queuedTotal is what the viewer has been handed: the lineup and every top-up since.
TotalCountsTheQueue ==
    OwnQueue => session.queuedTotal = Len(queues[session.playQueue].items)

\* A set that plays N items hands over N and stops, as long as no other set has been
\* topped up into its queue, as one can be between two starts that fail half-way.
WithinTarget ==
    LET items == queues[session.playQueue].items IN
    OwnQueue /\ session.target # Infinite /\ (\A i \in ItemsOf(items) : i.set = session.set)
        => Len(items) <= session.target

\* A top-up selects as the account the lineup it extends was selected as, whichever
\* starts have come and failed since: "a top-up that selected as a different account
\* would queue the wrong kid's next episodes".  A later start of the same set for
\* another profile that failed half-way is the exception, and a binding without an
\* account, which plex.tv may have filled in once and not the other time.
TopupsAreTheScansAccount ==
    \A t \in Ticks :
        LET by == queues[tick[t].playQueue].by IN
        /\ pc[t] = "extending" /\ OwnQueue
        /\ session.profile = job[armed].profile
        /\ BindingFor(session.set, session.profile) # NoProfile
        => tick[t].account = job[by].account

\* "A curated queue stores no account - just `requires_profile` ... The provider fills
\* the account in": a queue gated to a profile is selected and played as that profile,
\* or as nobody when plex.tv does not know it.
GatedQueueIsItsProfiles ==
    \A s \in Starts :
        LET required == SetCfg[job[s].set].requires IN
        /\ pc[s] \notin {"idle", "opening", "detecting", "gating", "binding", "done"}
        /\ SetCfg[job[s].set].source = "queue" /\ required # NoProfile
        /\ job[s].profile = required
        => job[s].account \in {required, NoProfile}

\* A set is topped up at most once per cooldown, however often the tick arrives.
OneTopupPerCooldown ==
    [][\A t \in Ticks : pc[t] = "extending" /\ queues' # queues => tick[t].set \notin cooling]_vars

\* While the TV plays the newest start's queue, SESSION describes that start.
NewestStartOwnsSession ==
    \A s \in Starts :
        (/\ s = active /\ pc[s] = "done"
         /\ device.queue # NoQueue /\ queues[device.queue].by = s)
        => armed = s /\ session.set = job[s].set

\* A playQueue holds items of one set only: a top-up extends the queue of the set
\* it tops up.
OneSetPerQueue ==
    \A id \in DOMAIN queues :
        Cardinality({i.set : i \in ItemsOf(queues[id].items)}) <= 1

\* With no handler running, a queue on the screen is the one SESSION remembers,
\* "so a later top-up can extend the queue the viewer is actually in".
SessionFollowsTheScreen ==
    (\A a \in Actors : ~InFlight(a)) /\ device.queue # NoQueue
        => session.playQueue = device.queue

\* The account audit of a start stops no playback but that start's own.
AuditStopsOnlyItsOwn ==
    [][\A s \in Starts : pc[s] = "stopping" /\ device' # device
          => queues[device.queue].by = s]_vars

\* Every start that arrives is answered: it plays, fails or gives way.
StartsSettle == \A s \in Starts : InFlight(s) ~> pc[s] = "done"

\* Every top-up tick ends, whatever starts and advances do meanwhile.
TicksSettle == \A t \in Ticks : InFlight(t) ~> pc[t] = "done"
=============================================================================
