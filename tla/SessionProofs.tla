---------------------------- MODULE SessionProofs ----------------------------
(***************************************************************************)
(* Theorems about PlaybackSession, for any number of starts, advances,     *)
(* ticks, sets and profiles and any configuration.                         *)
(***************************************************************************)
EXTENDS PlaybackSession, SublistProofs

(* The part of the type invariant that says where the handlers are.        *)
ControlOK ==
    /\ active \in Starts \cup {NoStart}
    /\ cancelled \in [Starts -> BOOLEAN]
    /\ pc \in [Actors -> Stages]

\* Where a handler can be after its command has arrived.
Arrived == Stages \ {"idle"}

\* Handler a takes a step of its own: it was in flight and goes to another await.
OwnStep(a) ==
    /\ InFlight(a)
    /\ \E stage \in Arrived : pc' = [pc EXCEPT ![a] = stage]
    /\ UNCHANGED <<active, cancelled>>

\* The arrival of the command of an advance or a tick.
Arrival(a) ==
    /\ pc[a] = "idle"
    /\ \E stage \in Arrived : pc' = [pc EXCEPT ![a] = stage]
    /\ UNCHANGED <<active, cancelled>>

\* The arrival of a start.
StartArrival(s) ==
    /\ pc[s] = "idle"
    /\ \E stage \in Arrived : pc' = [pc EXCEPT ![s] = stage]
    /\ active' = s
    /\ cancelled' = [c \in Starts |-> cancelled[c] \/ c = active]

\* What any step does to the control state.
ControlStep ==
    \/ \E s \in Starts : StartArrival(s)
    \/ \E a \in Advances \cup Ticks : Arrival(a)
    \/ \E a \in Actors : OwnStep(a)
    \/ UNCHANGED <<active, cancelled, pc>>

-----------------------------------------------------------------------------
(* Admission sends a start to an await, or ends it.                        *)
LEMMA AdmitMoves ==
    ASSUME NEW s, NEW j, NEW set, NEW detected, Admit(s, j, set, detected)
    PROVE  \E stage \in Arrived : pc' = [pc EXCEPT ![s] = stage]
BY DEF Admit, Admission, Arrived, Stages

LEMMA ResolveMoves ==
    ASSUME NEW s, NEW j, Resolve(s, j)
    PROVE  \E stage \in Arrived : pc' = [pc EXCEPT ![s] = stage]
<1>1. CASE j.auto
  BY <1>1 DEF Resolve, Arrived, Stages
<1>2. CASE ~j.auto
  BY <1>2, AdmitMoves DEF Resolve
<1> QED BY <1>1, <1>2

LEMMA StartCommandMoves ==
    ASSUME NEW s \in Starts, StartCommand(s)
    PROVE  StartArrival(s)
<1>1. \E stage \in Arrived : pc' = [pc EXCEPT ![s] = stage]
  <2>1. PICK payload \in Payloads :
           IF AdbEnabled THEN pc' = [pc EXCEPT ![s] = "opening"] ELSE Resolve(s, JobOf(payload))
    BY DEF StartCommand
  <2>2. CASE AdbEnabled
    BY <2>1, <2>2 DEF Arrived, Stages
  <2>3. CASE ~AdbEnabled
    BY <2>1, <2>3, ResolveMoves
  <2> QED BY <2>2, <2>3
<1> QED BY <1>1 DEF StartCommand, StartArrival, FlagsRaised

LEMMA CommitMoves ==
    ASSUME NEW s, NEW items, Commit(s, items)
    PROVE  \E stage \in Arrived : pc' = [pc EXCEPT ![s] = stage]
<1>1. HandoffStage(s) \in Arrived
  BY DEF HandoffStage, Arrived, Stages
<1>2. pc' = [pc EXCEPT ![s] = HandoffStage(s)]
  BY DEF Commit
<1> QED BY <1>1, <1>2

LEMMA NothingToPlayMoves ==
    ASSUME NEW s, NothingToPlay(s)
    PROVE  \E stage \in Arrived : pc' = [pc EXCEPT ![s] = stage]
BY DEF NothingToPlay, EndsSaying, Moves, Arrived, Stages

LEMMA AttemptFailedMoves ==
    ASSUME NEW a, AttemptFailed(a)
    PROVE  \E stage \in Arrived : pc' = [pc EXCEPT ![a] = stage]
BY DEF AttemptFailed, EndsSaying, Moves, Arrived, Stages

LEMMA StartStepMoves ==
    ASSUME NEW s \in Starts, StartStep(s)
    PROVE  OwnStep(s)
<1>1. CASE PlexOpened(s)
  BY <1>1, ResolveMoves DEF PlexOpened, OwnStep, InFlight
<1>2. CASE ProfileDetected(s)
  <2>1. \E stage \in Arrived : pc' = [pc EXCEPT ![s] = stage]
    BY <1>2, AdmitMoves DEF ProfileDetected, Arrived, Stages
  <2> QED BY <1>2, <2>1 DEF ProfileDetected, OwnStep, InFlight
<1>3. CASE GateSettled(s)
  BY <1>3 DEF GateSettled, OwnStep, InFlight, Arrived, Stages
<1>4. CASE Bound(s)
  BY <1>4 DEF Bound, OwnStep, InFlight, Arrived, Stages
<1>5. CASE LineupBuilt(s)
  <2>1. \E stage \in Arrived : pc' = [pc EXCEPT ![s] = stage]
    BY <1>5, CommitMoves, NothingToPlayMoves DEF LineupBuilt, Arrived, Stages
  <2> QED BY <1>5, <2>1 DEF LineupBuilt, OwnStep, InFlight
<1>6. CASE QueueRecorded(s)
  <2>1. \E stage \in Arrived : pc' = [pc EXCEPT ![s] = stage]
    BY <1>6, CommitMoves, NothingToPlayMoves DEF QueueRecorded
  <2> QED BY <1>6, <2>1 DEF QueueRecorded, OwnStep, InFlight
<1>7. CASE Joined(s) \/ Woken(s) \/ Probed(s) \/ BackedOff(s)
  BY <1>7 DEF Joined, Woken, Probed, BackedOff, Retry, StepUnchanged, Moves, OwnStep,
              InFlight, Arrived, Stages
<1>8. CASE ProfileDriven(s)
  BY <1>8 DEF ProfileDriven, Moves, OwnStep, InFlight, Arrived, Stages
<1>9. CASE Audited(s) \/ AuditStopped(s)
  BY <1>9 DEF Audited, AuditStopped, Finish, EndsSaying, Moves, OwnStep, InFlight, Arrived,
              Stages
<1>10. CASE SelectionFailed(s)
  BY <1>10, NothingToPlayMoves DEF SelectionFailed, OwnStep, InFlight
<1> QED BY <1>1, <1>2, <1>3, <1>4, <1>5, <1>6, <1>7, <1>8, <1>9, <1>10 DEF StartStep

LEMMA PlayStepMoves ==
    ASSUME NEW a \in Starts \cup Advances, PlayStep(a)
    PROVE  OwnStep(a)
<1>1. CASE CreateQueue(a)
  BY <1>1 DEF CreateQueue, EndsSaying, Moves, OwnStep, InFlight, Arrived, Stages
<1>2. CASE CreateFailed(a)
  BY <1>2, AttemptFailedMoves DEF CreateFailed, OwnStep, InFlight
<1>3. CASE PushFailed(a)
  BY <1>3, AttemptFailedMoves DEF PushFailed, OwnStep, InFlight
<1>4. CASE PushLanded(a)
  <2>1. \E stage \in Arrived : pc' = [pc EXCEPT ![a] = stage]
    BY <1>4 DEF PushLanded, Finish, EndsSaying, Moves, Arrived, Stages
  <2> QED BY <1>4, <2>1 DEF PushLanded, OwnStep, InFlight
<1> QED BY <1>1, <1>2, <1>3, <1>4 DEF PlayStep

LEMMA TickStepMoves ==
    ASSUME NEW t \in Ticks, TickStep(t)
    PROVE  OwnStep(t)
BY DEF TickStep, TickAuthorised, TickRead, TickBuilt, TickExtended, TickFailed, TickMoves,
       Moves, OwnStep, InFlight, Arrived, Stages

(* Every step of the specification is a control step. *)
LEMMA NextIsControlStep ==
    ASSUME Next
    PROVE  ControlStep
<1>1. CASE \E s \in Starts : StartCommand(s)
  BY <1>1, StartCommandMoves DEF ControlStep
<1>2. CASE \E s \in Starts : StartStep(s)
  BY <1>2, StartStepMoves DEF ControlStep, Actors
<1>3. CASE \E a \in Starts \cup Advances : PlayStep(a)
  BY <1>3, PlayStepMoves DEF ControlStep, Actors
<1>4. CASE \E t \in Ticks : TickStep(t)
  BY <1>4, TickStepMoves DEF ControlStep, Actors
<1>5. CASE \E a \in Advances : AdvanceCommand(a)
  BY <1>5 DEF AdvanceCommand, Moves, Arrival, ControlStep, Arrived, Stages
<1>6. CASE \E t \in Ticks : TickCommand(t)
  BY <1>6 DEF TickCommand, TickMoves, Moves, Arrival, ControlStep, Arrived, Stages
<1>7. CASE Environment
  BY <1>7 DEF Environment, ViewerNext, QueueForgotten, CooldownOver, EnvironmentUnchanged,
              ControlStep
<1> QED BY <1>1, <1>2, <1>3, <1>4, <1>5, <1>6, <1>7 DEF Next

-----------------------------------------------------------------------------
(* Of the starts in flight only the newest is not cancelled.               *)

\* A start that has not arrived has no flag that anyone could raise.
IdleUntouched == \A s \in Starts : pc[s] = "idle" => ~cancelled[s] /\ s # active

\* Of the starts that have not returned, only the newest has its flag down: what is live
\* in the protocol is `active`, and the flag a new start raises is the only one still down.
OneLiveStart == \A s \in Starts : InFlight(s) /\ s # active => cancelled[s]

ControlInv == ControlOK /\ OneLiveStart /\ IdleUntouched

LEMMA ControlInitially == Init => ControlInv
BY SessionAssumption DEF Init, ControlInv, ControlOK, OneLiveStart, IdleUntouched, InFlight,
                             Actors, Stages

LEMMA ControlPreserved == ControlInv /\ [Next]_vars => ControlInv'
<1> SUFFICES ASSUME ControlInv, [Next]_vars
             PROVE  ControlInv'
  OBVIOUS
<1> USE SessionAssumption
<1>1. CASE Next
  <2>1. ControlStep
    BY <1>1, NextIsControlStep
  <2>2. CASE \E s \in Starts : StartArrival(s)
    <3>1. PICK s \in Starts : StartArrival(s)
      BY <2>2
    <3>2. ControlOK'
      BY <3>1 DEF StartArrival, ControlInv, ControlOK, Arrived, Actors
    <3>3. \A r \in Starts : r # s => pc'[r] = pc[r]
      BY <3>1 DEF StartArrival, ControlInv, ControlOK, Actors
    <3>4. OneLiveStart'
      BY <3>1, <3>3 DEF StartArrival, ControlInv, ControlOK, OneLiveStart, InFlight
    <3>5. pc'[s] # "idle"
      BY <3>1 DEF StartArrival, ControlInv, ControlOK, Arrived, Actors
    <3>6. IdleUntouched'
      BY <3>1, <3>3, <3>5 DEF StartArrival, ControlInv, ControlOK, IdleUntouched
    <3> QED BY <3>2, <3>4, <3>6 DEF ControlInv
  <2>3. CASE \E a \in Advances \cup Ticks : Arrival(a)
    <3>1. PICK a \in Advances \cup Ticks : Arrival(a)
      BY <2>3
    <3>2. ControlOK'
      BY <3>1 DEF Arrival, ControlInv, ControlOK, Arrived, Actors
    <3>3. \A s \in Starts : pc'[s] = pc[s]
      BY <3>1 DEF Arrival, ControlInv, ControlOK, Actors
    <3>4. OneLiveStart'
      BY <3>1, <3>3 DEF Arrival, ControlInv, OneLiveStart, InFlight
    <3>5. IdleUntouched'
      BY <3>1, <3>3 DEF Arrival, ControlInv, IdleUntouched
    <3> QED BY <3>2, <3>4, <3>5 DEF ControlInv
  <2>4. CASE \E a \in Actors : OwnStep(a)
    <3>1. PICK a \in Actors : OwnStep(a)
      BY <2>4
    <3>2. ControlOK'
      BY <3>1 DEF OwnStep, ControlInv, ControlOK, Arrived
    <3>3. \A s \in Starts : InFlight(s)' => InFlight(s)
      BY <3>1 DEF OwnStep, ControlInv, ControlOK, InFlight, Actors
    <3>4. OneLiveStart'
      BY <3>1, <3>3 DEF OwnStep, ControlInv, OneLiveStart
    <3>5. \A s \in Starts : pc'[s] = "idle" => pc[s] = "idle"
      BY <3>1 DEF OwnStep, ControlInv, ControlOK, Arrived, Actors
    <3>6. IdleUntouched'
      BY <3>1, <3>5 DEF OwnStep, ControlInv, IdleUntouched
    <3> QED BY <3>2, <3>4, <3>6 DEF ControlInv
  <2>5. CASE UNCHANGED <<active, cancelled, pc>>
    BY <2>5 DEF ControlInv, ControlOK, OneLiveStart, IdleUntouched, InFlight
  <2> QED BY <2>1, <2>2, <2>3, <2>4, <2>5 DEF ControlStep
<1>2. CASE UNCHANGED vars
  BY <1>2 DEF vars, ControlInv, ControlOK, OneLiveStart, IdleUntouched, InFlight
<1> QED BY <1>1, <1>2

LEMMA ControlAlways == Spec => []ControlInv
BY ControlInitially, ControlPreserved, PTL DEF Spec

-----------------------------------------------------------------------------
(* The starts implement the protocol LatestWins.                           *)

LEMMA ProtocolInitially == Init => Protocol!Init
BY SessionAssumption DEF Init, Protocol!Init, StageOf, Actors

LEMMA ProtocolStep ==
    ControlInv /\ [Next]_vars => [Protocol!Next]_<<active, [s \in Starts |-> StageOf(s)]>>
<1> DEFINE stages == [s \in Starts |-> StageOf(s)]
<1> SUFFICES ASSUME ControlInv, [Next]_vars
             PROVE  Protocol!Next \/ UNCHANGED <<active, stages>>
  OBVIOUS
<1> USE SessionAssumption
<1>1. CASE Next
  <2>1. ControlStep
    BY <1>1, NextIsControlStep
  <2>2. CASE \E s \in Starts : StartArrival(s)
    <3>1. PICK s \in Starts, stage \in Arrived :
             /\ StartArrival(s)
             /\ pc' = [pc EXCEPT ![s] = stage]
      BY <2>2 DEF StartArrival
    <3>2. pc[s] = "idle" /\ ~cancelled[s] /\ ~cancelled'[s] /\ pc'[s] = stage
      BY <3>1 DEF StartArrival, ControlInv, ControlOK, IdleUntouched, Actors
    <3>3. PICK to \in {"live", "over"} : StageOf(s) = "waiting" /\ StageOf(s)' = to
      BY <3>2 DEF StageOf, Arrived
    <3>4. ASSUME NEW r \in Starts, r # s
          PROVE  StageOf(r)' = IF StageOf(r) = "live" THEN "superseded" ELSE StageOf(r)
      <4>1. pc'[r] = pc[r]
        BY <3>1, <3>4 DEF StartArrival, ControlInv, ControlOK, Actors
      <4>2. cancelled'[r] = (cancelled[r] \/ r = active)
        BY <3>1 DEF StartArrival
      <4>3. InFlight(r) => cancelled'[r]
        BY <4>2 DEF ControlInv, OneLiveStart
      <4> QED BY <4>1, <4>2, <4>3 DEF StageOf, InFlight
    <3>5. stages' = [r \in Starts |-> IF r = s THEN to
                                      ELSE IF stages[r] = "live" THEN "superseded"
                                      ELSE stages[r]]
      BY <3>3, <3>4
    <3>6. stages[s] = "waiting" /\ active' = s
      BY <3>1, <3>3 DEF StartArrival
    <3>7. Protocol!Arrive(s, to)
      BY <3>5, <3>6 DEF Protocol!Arrive
    <3> QED BY <3>7 DEF Protocol!Next
  <2>3. CASE \E a \in Advances \cup Ticks : Arrival(a)
    <3>1. \A s \in Starts : pc'[s] = pc[s]
      BY <2>3 DEF Arrival, ControlInv, ControlOK, Actors
    <3>2. UNCHANGED <<active, cancelled>>
      BY <2>3 DEF Arrival
    <3> QED BY <3>1, <3>2 DEF StageOf
  <2>4. CASE \E a \in Actors : OwnStep(a)
    <3>1. PICK a \in Actors, stage \in Arrived :
             /\ OwnStep(a)
             /\ pc' = [pc EXCEPT ![a] = stage]
      BY <2>4 DEF OwnStep
    <3>2. UNCHANGED <<active, cancelled>> /\ InFlight(a)
      BY <3>1 DEF OwnStep
    <3>3. \A s \in Starts : s # a => StageOf(s)' = StageOf(s)
      BY <3>1, <3>2 DEF StageOf, ControlInv, ControlOK, Actors
    <3>4. CASE a \in Starts /\ stage = "done"
      <4>1. StageOf(a) \in {"live", "superseded"} /\ StageOf(a)' = "over"
        BY <3>1, <3>2, <3>4 DEF StageOf, InFlight, ControlInv, ControlOK
      <4>2. stages' = [stages EXCEPT ![a] = "over"] /\ stages[a] \in {"live", "superseded"}
        BY <3>3, <3>4, <4>1
      <4> QED BY <3>2, <3>4, <4>2 DEF Protocol!Next, Protocol!Return
    <3>5. CASE a \in Starts /\ stage # "done"
      <4>1. StageOf(a)' = StageOf(a)
        BY <3>1, <3>2, <3>5 DEF StageOf, InFlight, ControlInv, ControlOK, Arrived
      <4> QED BY <3>2, <3>3, <3>5, <4>1
    <3>6. CASE a \notin Starts
      BY <3>2, <3>3, <3>6
    <3> QED BY <3>4, <3>5, <3>6
  <2>5. CASE UNCHANGED <<active, cancelled, pc>>
    BY <2>5 DEF StageOf
  <2> QED BY <2>1, <2>2, <2>3, <2>4, <2>5 DEF ControlStep
<1>2. CASE UNCHANGED vars
  BY <1>2 DEF vars, StageOf
<1> QED BY <1>1, <1>2

\* Whatever await a start is in when a newer one arrives, it is superseded then and
\* for good: the session implements the protocol in which the latest start wins.
THEOREM SessionImplementsLatestWins == Spec => LatestWinsProtocol
<1>1. Spec => Protocol!Spec
  BY ProtocolInitially, ProtocolStep, ControlAlways, PTL DEF Spec, Protocol!Spec
<1> QED BY <1>1 DEF LatestWinsProtocol

-----------------------------------------------------------------------------
(* What a superseded start can still do to the TV.                         *)

\* Where a start can be once it has created a playQueue after it was superseded:
\* past the attempt that was under way, and never before another one.
LateStages == {"pushing", "backoff", "auditing", "stopping", "done"}

LateInv ==
    \A s \in Starts :
        /\ late[s] \in {0, 1}
        /\ late[s] = 1 => cancelled[s] /\ pc[s] \in LateStages

\* A flag that is up stays up.
LEMMA FlagsStayUp ==
    ASSUME ControlInv, ControlStep, NEW s \in Starts, cancelled[s]
    PROVE  cancelled'[s]
BY DEF ControlInv, ControlOK, ControlStep, StartArrival, Arrival, OwnStep

\* The steps of other handlers leave pc[s] alone.
LEMMA OthersLeavePc ==
    ASSUME ControlOK, NEW s \in Starts, NEW a \in Actors, a # s,
           StartArrival(a) \/ Arrival(a) \/ OwnStep(a)
    PROVE  pc'[s] = pc[s]
BY DEF ControlOK, StartArrival, Arrival, OwnStep, Actors

LEMMA AttemptFailedStages ==
    ASSUME ControlOK, NEW a \in Starts, AttemptFailed(a)
    PROVE  pc'[a] \in LateStages
BY SessionAssumption DEF AttemptFailed, EndsSaying, Moves, LateStages, ControlOK, Actors

\* A cancelled start that is past an attempt does not begin another.
LEMMA LateStartStep ==
    ASSUME ControlOK, NEW s \in Starts, cancelled[s], pc[s] \in LateStages,
           StartStep(s) \/ PlayStep(s)
    PROVE  pc'[s] \in LateStages
<1>1. CASE BackedOff(s)
  BY <1>1 DEF BackedOff, Retry, Moves, LateStages, ControlOK, Actors
<1>2. CASE Audited(s) \/ AuditStopped(s)
  BY <1>2 DEF Audited, AuditStopped, Finish, EndsSaying, Moves, LateStages, ControlOK, Actors
<1>3. CASE PushFailed(s)
  BY <1>3, AttemptFailedStages DEF PushFailed
<1>4. CASE PushLanded(s)
  BY <1>4, SessionAssumption
  DEF PushLanded, Finish, EndsSaying, Moves, LateStages, ControlOK, Actors
<1>5. ~(\/ PlexOpened(s) \/ ProfileDetected(s) \/ GateSettled(s)
        \/ Bound(s) \/ LineupBuilt(s) \/ QueueRecorded(s) \/ SelectionFailed(s)
        \/ Joined(s) \/ Woken(s) \/ ProfileDriven(s) \/ Probed(s)
        \/ CreateQueue(s) \/ CreateFailed(s))
  BY DEF LateStages, PlexOpened, ProfileDetected, GateSettled, Bound, LineupBuilt,
         QueueRecorded, SelectionFailed, Joined, Woken, ProfileDriven, Probed, CreateQueue, CreateFailed
<1> QED BY <1>1, <1>2, <1>3, <1>4, <1>5 DEF StartStep, PlayStep

\* Only the creation of a playQueue counts.
LEMMA LateUnchanged ==
    ASSUME Next, ~ \E a \in Starts \cup Advances : CreateQueue(a)
    PROVE  UNCHANGED late
<1>1. CASE \E s \in Starts : StartCommand(s)
  BY <1>1 DEF StartCommand, PlexUnchanged
<1>2. CASE \E s \in Starts : StartStep(s)
  BY <1>2 DEF StartStep, PlexOpened, ProfileDetected, GateSettled, Bound, LineupBuilt,
              QueueRecorded, SelectionFailed, Joined, Woken, ProfileDriven, Probed, BackedOff, Audited,
              AuditStopped, StepUnchanged, PlexUnchanged
<1>3. CASE \E a \in Advances : AdvanceCommand(a)
  BY <1>3 DEF AdvanceCommand, PlexUnchanged
<1>4. CASE \E a \in Starts \cup Advances : PlayStep(a)
  BY <1>4 DEF PlayStep, CreateFailed, PushLanded, PushFailed, PlexUnchanged
<1>5. CASE \E t \in Ticks : TickCommand(t) \/ TickStep(t)
  BY <1>5 DEF TickCommand, TickStep, TickAuthorised, TickRead, TickBuilt, TickExtended,
              TickFailed, PlexUnchanged
<1>6. CASE Environment
  BY <1>6 DEF Environment, ViewerNext, QueueForgotten, CooldownOver, EnvironmentUnchanged
<1> QED BY <1>1, <1>2, <1>3, <1>4, <1>5, <1>6 DEF Next

LEMMA LatePreserved == ControlInv /\ LateInv /\ [Next]_vars => LateInv'
<1> SUFFICES ASSUME ControlInv, LateInv, [Next]_vars, NEW s \in Starts
             PROVE  /\ late'[s] \in {0, 1}
                    /\ late'[s] = 1 => cancelled'[s] /\ pc'[s] \in LateStages
  BY DEF LateInv
<1> USE SessionAssumption
<1>0. ControlOK
  BY DEF ControlInv
<1>1. CASE \E a \in Starts \cup Advances : CreateQueue(a)
  <2>1. PICK a \in Starts \cup Advances : CreateQueue(a)
    BY <1>1
  <2>2. OwnStep(a) /\ UNCHANGED cancelled
    BY <2>1, PlayStepMoves DEF PlayStep, CreateQueue
  <2>3. late'[s] = IF s = a /\ cancelled[s] THEN late[s] + 1 ELSE late[s]
    BY <2>1 DEF CreateQueue
  <2>4. CASE s = a
    <3>1. late[s] = 0
      BY <2>1, <2>4 DEF CreateQueue, LateInv, LateStages
    <3>2. pc'[s] \in LateStages
      BY <2>1, <2>4, <1>0 DEF CreateQueue, EndsSaying, Moves, LateStages, ControlOK, Actors
    <3> QED BY <2>2, <2>3, <3>1, <3>2
  <2>5. CASE s # a
    BY <1>0, <2>2, <2>3, <2>5, OthersLeavePc DEF LateInv, Actors
  <2> QED BY <2>4, <2>5
<1>2. CASE Next /\ ~ \E a \in Starts \cup Advances : CreateQueue(a)
  <2>1. late'[s] = late[s] /\ ControlStep
    BY <1>2, LateUnchanged, NextIsControlStep
  <2>2. SUFFICES ASSUME late[s] = 1
                 PROVE  cancelled'[s] /\ pc'[s] \in LateStages
    BY <2>1 DEF LateInv
  <2>3. cancelled[s] /\ pc[s] \in LateStages
    BY <2>2 DEF LateInv
  <2>4. cancelled'[s]
    BY <2>1, <2>3, FlagsStayUp
  <2>5. CASE StartStep(s) \/ PlayStep(s)
    BY <1>0, <2>3, <2>4, <2>5, LateStartStep
  <2>6. CASE \E a \in Actors \ {s} : StartArrival(a) \/ Arrival(a) \/ OwnStep(a)
    BY <1>0, <2>3, <2>4, <2>6, OthersLeavePc
  <2>7. CASE Environment
    BY <2>3, <2>4, <2>7
    DEF Environment, ViewerNext, QueueForgotten, CooldownOver, EnvironmentUnchanged
  <2>8. ~StartCommand(s)
    BY <2>3 DEF StartCommand, LateStages
  <2>9. \/ StartStep(s) \/ PlayStep(s)
        \/ \E a \in Actors \ {s} : StartArrival(a) \/ Arrival(a) \/ OwnStep(a)
        \/ Environment
    <3>1. CASE \E r \in Starts : StartCommand(r)
      BY <2>8, <3>1, StartCommandMoves DEF Actors
    <3>2. CASE \E r \in Starts : StartStep(r)
      BY <3>2, StartStepMoves DEF Actors
    <3>3. CASE \E a \in Starts \cup Advances : PlayStep(a)
      BY <3>3, PlayStepMoves DEF Actors
    <3>4. CASE \E t \in Ticks : TickStep(t)
      BY <3>4, TickStepMoves DEF Actors
    <3>5. CASE \E a \in Advances : AdvanceCommand(a)
      BY <3>5 DEF AdvanceCommand, Moves, Arrival, Arrived, Stages, Actors
    <3>6. CASE \E t \in Ticks : TickCommand(t)
      BY <3>6 DEF TickCommand, TickMoves, Moves, Arrival, Arrived, Stages, Actors
    <3> QED BY <1>2, <3>1, <3>2, <3>3, <3>4, <3>5, <3>6 DEF Next
  <2> QED BY <2>5, <2>6, <2>7, <2>9
<1>3. CASE UNCHANGED vars
  BY <1>3 DEF vars, LateInv
<1> QED BY <1>1, <1>2, <1>3

\* However many attempts the driver has left, a start that was superseded creates at
\* most the one playQueue whose attempt had already begun.
THEOREM SupersededPlaysAtMostOnceHolds == Spec => []SupersededPlaysAtMostOnce
<1>1. Init => LateInv
  BY DEF Init, LateInv
<1>2. LateInv => SupersededPlaysAtMostOnce
  BY DEF LateInv, SupersededPlaysAtMostOnce
<1> QED BY <1>1, <1>2, LatePreserved, ControlAlways, PTL DEF Spec

-----------------------------------------------------------------------------
(* Types.  The proof needs two facts the types do not state: a playQueue   *)
(* id that a handler or SESSION holds is the id of a queue that exists,    *)
(* and a handler past its first checks knows its set.  From the types      *)
(* follows the invariant that relates SESSION's lineup, its target and the *)
(* resume plan.                                                            *)

\* A handler that plays or extends a playQueue holds the id of one, and the viewer
\* is on one of its items.
KnownQueues ==
    /\ \A id \in DOMAIN queues : queues[id].at \in 1 .. Len(queues[id].items)
    /\ session.playQueue <= Len(queues)
    /\ \A a \in Starts \cup Advances :
          /\ job[a].playQueue <= Len(queues)
          /\ pc[a] \in {"pushing", "auditing"} => job[a].playQueue # NoQueue
    /\ \A t \in Ticks :
          /\ tick[t].playQueue <= Len(queues)
          /\ pc[t] \in {"reading", "building", "extending"} =>
                session.playQueue # NoQueue /\ tick[t].playQueue # NoQueue

\* A start that has been admitted, and a tick that goes on, know their set.
KnownSets ==
    /\ \A s \in Starts :
          /\ pc[s] \notin {"idle", "opening", "detecting", "done"} => job[s].set \in Sets
          /\ pc[s] = "opening" /\ ~job[s].auto => job[s].set \in Sets
    /\ \A t \in Ticks : pc[t] \notin {"idle", "done"} => tick[t].set \in Sets

TypeInv == TypeOK /\ KnownQueues /\ KnownSets

-----------------------------------------------------------------------------
(* Types of the operators.                                                 *)

LEMMA LengthType ==
    ASSUME NEW cfg \in Cfg
    PROVE  Length(cfg) \in Target
BY WindowAssumption, SentinelAssumption
DEF Cfg, Length, LengthOr, DefaultFor, Smaller, Target

LEMMA SizeTypes ==
    ASSUME NEW target \in Target, NEW total \in Nat
    PROVE  InitialQueueSize(target) \in Nat /\ TopupWindow(target, total) \in Nat
BY WindowAssumption, SentinelAssumption DEF Target, InitialQueueSize, TopupWindow, Smaller

LEMMA TakeType ==
    ASSUME NEW S, NEW seq \in Seq(S), NEW n \in Nat
    PROVE  Take(seq, n) \in Seq(S)
<1> DEFINE m == IF n < Len(seq) THEN n ELSE Len(seq)
<1>1. m \in Int /\ \A i \in 1 .. m : seq[i] \in S
  BY LenProperties, ElementOfSeq
<1>2. SubSeq(seq, 1, m) \in Seq(S)
  BY <1>1, SubSeqProperties, LenProperties
<1> QED BY <1>2 DEF Take

LEMMA InsertedType ==
    ASSUME NEW q \in PlayQueue, q.at \in 1 .. Len(q.items), NEW items \in Seq(Item)
    PROVE  /\ Inserted(q, items) \in PlayQueue
           /\ Inserted(q, items).at \in 1 .. Len(Inserted(q, items).items)
<1> DEFINE n     == Len(q.items)
           front == SubSeq(q.items, 1, q.at)
           rear  == SubSeq(q.items, q.at + 1, n)
           all   == (front \o items) \o rear
<1>1. q.items \in Seq(Item) /\ q.at \in Nat /\ n \in Nat /\ q.at <= n
  BY LenProperties DEF PlayQueue
<1>2. \A i \in 1 .. n : q.items[i] \in Item
  BY <1>1, ElementOfSeq
<1>3. front \in Seq(Item) /\ Len(front) = q.at
  <2>1. \A i \in 1 .. q.at : q.items[i] \in Item
    BY <1>1, <1>2
  <2> QED BY <1>1, <2>1, SubSeqProperties
<1>4. rear \in Seq(Item)
  <2>1. \A i \in q.at + 1 .. n : q.items[i] \in Item
    BY <1>1, <1>2
  <2> QED BY <1>1, <2>1, SubSeqProperties
<1>5. front \o items \in Seq(Item) /\ Len(front \o items) >= q.at
  BY <1>1, <1>3, ConcatProperties, LenProperties
<1>6. all \in Seq(Item) /\ Len(all) >= q.at
  BY <1>1, <1>4, <1>5, ConcatProperties, LenProperties
<1>7. Inserted(q, items) = [q EXCEPT !.items = all]
  BY DEF Inserted
<1> HIDE DEF all
<1>8. Len(all) \in Nat /\ q.at \in 1 .. Len(all)
  BY <1>1, <1>6, LenProperties
<1> QED BY <1>6, <1>7, <1>8 DEF PlayQueue

LEMMA CfgType ==
    ASSUME NEW set \in Sets
    PROVE  SetCfg[set] \in Cfg
BY SessionAssumption

-----------------------------------------------------------------------------
(* What it takes for a step of one handler to keep the types.              *)

\* The shared variables are well typed after the step; queues only grow.
SharedTyped ==
    /\ session' \in Session
    /\ session'.playQueue <= Len(queues')
    /\ session.playQueue # NoQueue => session'.playQueue # NoQueue
    /\ active' \in Starts \cup {NoStart}
    /\ cancelled' \in [Starts -> BOOLEAN]
    /\ cooling' \subseteq Sets
    /\ queues' \in Seq(PlayQueue)
    /\ Len(queues) <= Len(queues')
    /\ \A id \in DOMAIN queues' : queues'[id].at \in 1 .. Len(queues'[id].items)
    /\ device' \in [queue : 0 .. Len(queues'), account : Profiles \cup {NoProfile}]
    /\ armed' \in Starts \cup {NoStart}
    /\ topic' \in Topic
    /\ late' \in [Starts -> Nat]

\* A start or an advance changes no locals but its own, and those stay known.
OwnLocals(a) ==
    /\ pc' \in [Actors -> Stages]
    /\ \A b \in Actors \ {a} : pc'[b] = pc[b]
    /\ job' \in [Starts \cup Advances -> Job]
    /\ \A b \in (Starts \cup Advances) \ {a} : job'[b] = job[b]
    /\ job'[a].playQueue <= Len(queues')
    /\ pc'[a] \in {"pushing", "auditing"} => job'[a].playQueue # NoQueue
    /\ a \in Starts =>
          /\ pc'[a] \notin {"idle", "opening", "detecting", "done"} => job'[a].set \in Sets
          /\ pc'[a] = "opening" /\ ~job'[a].auto => job'[a].set \in Sets
    /\ UNCHANGED tick

LEMMA PlayerStepTypes ==
    ASSUME TypeInv, NEW a \in Starts \cup Advances, SharedTyped, OwnLocals(a)
    PROVE  TypeInv'
<1> USE SessionAssumption
<1>1. TypeOK'
  BY DEF TypeInv, TypeOK, SharedTyped, OwnLocals
<1>2. Len(queues) \in Nat /\ Len(queues') \in Nat
  BY LenProperties DEF TypeInv, TypeOK, SharedTyped
<1>3. KnownQueues'
  <2>1. \A b \in Starts \cup Advances :
           /\ job'[b].playQueue <= Len(queues')
           /\ pc'[b] \in {"pushing", "auditing"} => job'[b].playQueue # NoQueue
    <3> SUFFICES ASSUME NEW b \in Starts \cup Advances
                 PROVE  /\ job'[b].playQueue <= Len(queues')
                        /\ pc'[b] \in {"pushing", "auditing"} => job'[b].playQueue # NoQueue
      OBVIOUS
    <3>1. CASE b = a
      BY <3>1 DEF OwnLocals
    <3>2. CASE b # a
      <4>1. job'[b] = job[b] /\ pc'[b] = pc[b] /\ job[b].playQueue \in Nat
        BY <3>2 DEF TypeInv, TypeOK, OwnLocals, Actors, Job
      <4>2. job[b].playQueue <= Len(queues) /\ Len(queues) <= Len(queues')
        BY DEF TypeInv, KnownQueues, SharedTyped
      <4>3. pc[b] \in {"pushing", "auditing"} => job[b].playQueue # NoQueue
        BY DEF TypeInv, KnownQueues
      <4> QED BY <1>2, <4>1, <4>2, <4>3
    <3> QED BY <3>1, <3>2
  <2>2. \A t \in Ticks :
           /\ tick'[t].playQueue <= Len(queues')
           /\ pc'[t] \in {"reading", "building", "extending"} =>
                 session'.playQueue # NoQueue /\ tick'[t].playQueue # NoQueue
    <3> SUFFICES ASSUME NEW t \in Ticks
                 PROVE  /\ tick'[t].playQueue <= Len(queues')
                        /\ pc'[t] \in {"reading", "building", "extending"} =>
                              session'.playQueue # NoQueue /\ tick'[t].playQueue # NoQueue
      OBVIOUS
    <3>1. tick' = tick /\ pc'[t] = pc[t] /\ tick[t].playQueue \in Nat
      BY DEF TypeInv, TypeOK, OwnLocals, Actors, Tick
    <3>2. tick[t].playQueue <= Len(queues) /\ Len(queues) <= Len(queues')
      BY DEF TypeInv, KnownQueues, SharedTyped
    <3>3. pc[t] \in {"reading", "building", "extending"} =>
             session.playQueue # NoQueue /\ tick[t].playQueue # NoQueue
      BY DEF TypeInv, KnownQueues
    <3> QED BY <1>2, <3>1, <3>2, <3>3 DEF SharedTyped
  <2> QED BY <2>1, <2>2 DEF KnownQueues, SharedTyped
<1>4. KnownSets'
  BY DEF TypeInv, KnownSets, OwnLocals, Actors
<1> QED BY <1>1, <1>3, <1>4 DEF TypeInv

\* The locals of a handler become j and it goes to another await.
LEMMA LocalsBecome ==
    ASSUME TypeInv, NEW a \in Starts \cup Advances, NEW j \in Job, NEW stage \in Stages,
           pc' = [pc EXCEPT ![a] = stage], job' = [job EXCEPT ![a] = j],
           j.playQueue <= Len(queues'),
           stage \in {"pushing", "auditing"} => j.playQueue # NoQueue,
           a \in Starts /\ stage # "done" => stage \notin {"idle", "opening"} /\ j.set \in Sets,
           UNCHANGED tick
    PROVE  OwnLocals(a)
BY DEF TypeInv, TypeOK, OwnLocals, Actors

\* The shared variables that most steps leave alone.
LEMMA SharedUnchanged ==
    ASSUME TypeInv, UNCHANGED <<session, active, cancelled, cooling, queues, device, armed, late>>,
           topic' \in Topic
    PROVE  SharedTyped
BY LenProperties DEF TypeInv, TypeOK, KnownQueues, SharedTyped

-----------------------------------------------------------------------------
(* The steps of a start, up to the handoff.                                *)

\* bindingFor and profileBinding answer with an account or with none.
LEMMA BindingType ==
    ASSUME NEW set \in Sets, NEW title \in Profiles \cup {NoProfile}
    PROVE  BindingsOf(set, title) \subseteq Account
<1> USE SessionAssumption
<1>1. SetCfg[set] \in Cfg
  BY CfgType
<1>2. BindingFor(set, title) \in Account
  <2>1. SetCfg[set].binds \in UNION {[S -> Account] : S \in SUBSET Profiles}
        /\ SetCfg[set].first \in Account
    BY <1>1 DEF Cfg
  <2>2. PICK S \in SUBSET Profiles : SetCfg[set].binds \in [S -> Account]
    BY <2>1
  <2> QED BY <2>1, <2>2 DEF BindingFor, Account
<1> QED BY <1>2 DEF BindingsOf, Account

LEMMA BoundTypes ==
    ASSUME TypeInv, NEW s \in Starts, Bound(s)
    PROVE  TypeInv'
<1> USE SessionAssumption
<1>1. job[s] \in Job /\ job[s].set \in Sets
  BY DEF TypeInv, TypeOK, KnownSets, Bound
<1>2. PICK account \in BindingsOf(job[s].set, job[s].profile) :
         /\ session' = [session EXCEPT !.set = job[s].set, !.profile = job[s].profile,
                                       !.account = account, !.cursor = 0]
         /\ job' = [job EXCEPT ![s].account = account]
  BY DEF Bound
<1>3. account \in Account
  <2>1. job[s].profile \in Profiles \cup {NoProfile}
    BY <1>1 DEF Job
  <2> QED BY <1>1, <1>2, <2>1, BindingType
<1>4. session' \in Session /\ session'.playQueue = session.playQueue
  BY <1>1, <1>2, <1>3 DEF TypeInv, TypeOK, Session, Job
<1>5. SharedTyped
  BY <1>4, LenProperties DEF Bound, TypeInv, TypeOK, KnownQueues, SharedTyped, PlexUnchanged, TicksUnchanged
<1>6. OwnLocals(s)
  BY <1>1, <1>2, <1>3 DEF Bound, TypeInv, TypeOK, KnownQueues, OwnLocals, Job, Stages, Actors, PlexUnchanged,
     TicksUnchanged
<1> QED BY <1>5, <1>6, PlayerStepTypes

LEMMA StepsThatOnlyMove ==
    ASSUME TypeInv, NEW s \in Starts,
           Joined(s) \/ Woken(s) \/ ProfileDriven(s) \/ Probed(s) \/ BackedOff(s)
                     \/ SelectionFailed(s) \/ (Audited(s) /\ UNCHANGED session)
    PROVE  TypeInv'
<1> USE SessionAssumption
<1>1. SharedTyped
  <2>1. topic' \in Topic
    BY DEF TypeInv, TypeOK, Joined, Woken, ProfileDriven, Probed, BackedOff, SelectionFailed,
           NothingToPlay, Audited, Finish, EndsSaying, Says, Topic, StepUnchanged
  <2> QED
    BY <2>1, SharedUnchanged
    DEF Joined, Woken, ProfileDriven, Probed, BackedOff, SelectionFailed, NothingToPlay,
        Audited, StepUnchanged, SessionUnchanged, PlexUnchanged, TicksUnchanged
<1>2. PICK stage \in Stages \ {"idle", "opening", "pushing", "auditing"} :
         pc' = [pc EXCEPT ![s] = stage]
  BY DEF Joined, Woken, ProfileDriven, Probed, BackedOff, Retry, SelectionFailed, NothingToPlay,
         EndsSaying, Audited, Finish, Moves, Stages
<1>3. job' = job /\ tick' = tick /\ queues' = queues
  BY DEF Joined, Woken, ProfileDriven, Probed, BackedOff, SelectionFailed, NothingToPlay, Audited,
         StepUnchanged, PlexUnchanged, TicksUnchanged
<1>4. job[s] \in Job /\ job[s].playQueue <= Len(queues) /\ job[s].set \in Sets
  BY DEF TypeInv, TypeOK, KnownQueues, KnownSets, Joined, Woken, ProfileDriven, Probed, BackedOff,
         SelectionFailed, Audited
<1>5. OwnLocals(s)
  <2>1. job' = [job EXCEPT ![s] = job[s]]
    BY <1>3 DEF TypeInv, TypeOK
  <2> DEFINE j == job[s]
  <2>2. job' = [job EXCEPT ![s] = j] /\ j \in Job /\ j.playQueue <= Len(queues') /\ j.set \in Sets
    BY <1>3, <1>4, <2>1
  <2> HIDE DEF j
  <2>3. stage \in Stages /\ stage \notin {"idle", "opening", "pushing", "auditing"}
    BY <1>2
  <2>4. UNCHANGED tick /\ s \in Starts \cup Advances
    BY <1>3
  <2> QED BY <1>2, <2>2, <2>3, <2>4, LocalsBecome
<1> QED BY <1>1, <1>5, PlayerStepTypes

LEMMA AdmitTypes ==
    ASSUME TypeInv, NEW s \in Starts, NEW j \in Job, NEW set \in Sets,
           NEW detected \in Profiles \cup {NoProfile}, Admit(s, j, set, detected),
           j.playQueue <= Len(queues),
           UNCHANGED <<queues, tick>>
    PROVE  /\ topic' \in Topic
           /\ OwnLocals(s)
<1> USE SessionAssumption
<1> DEFINE adm == Admission(j, set, detected)
<1>1. SetCfg[set] \in Cfg
  BY CfgType
<1>2. adm.next \in {"done", "gating", "binding"}
  BY DEF Admission
<1>3. adm.job \in Job /\ adm.job.set = set /\ adm.job.playQueue = j.playQueue
  <2> DEFINE cfg   == SetCfg[set]
             needs == IF cfg.requires = NoProfile /\ ~j.auto THEN j.card ELSE cfg.requires
             title == IF j.auto THEN detected ELSE j.card
             who   == IF Fsm /\ title = NoProfile THEN needs ELSE title
  <2>1. needs \in Profiles \cup {NoProfile}
    BY <1>1 DEF Job, Cfg
  <2>2. title \in Profiles \cup {NoProfile}
    BY DEF Job
  <2>3. adm.job = [j EXCEPT !.set = set, !.required = needs, !.profile = who]
    BY DEF Admission
  <2> HIDE DEF needs, title, adm
  <2>4. who \in Profiles \cup {NoProfile}
    BY <2>1, <2>2
  <2> HIDE DEF who
  <2> QED BY <2>1, <2>3, <2>4 DEF Job
<1>4. pc' = [pc EXCEPT ![s] = adm.next] /\ job' = [job EXCEPT ![s] = adm.job]
      /\ SaysOfAdmission(s, adm.next)
  BY DEF Admit
<1> HIDE DEF adm
<1>5. topic' \in Topic
  BY <1>2, <1>4 DEF SaysOfAdmission, Says, Topic, TypeInv, TypeOK
<1>6. OwnLocals(s)
  BY <1>2, <1>3, <1>4 DEF TypeInv, TypeOK, OwnLocals, Stages, Actors
<1> QED BY <1>5, <1>6

LEMMA ResolveTypes ==
    ASSUME TypeInv, NEW s \in Starts, NEW j \in Job, Resolve(s, j),
           ~j.auto => j.set \in Sets, j.playQueue <= Len(queues),
           UNCHANGED <<queues, tick>>
    PROVE  topic' \in Topic /\ OwnLocals(s)
<1> USE SessionAssumption
<1>1. CASE j.auto
  <2>1. topic' \in Topic
    BY <1>1 DEF Resolve, Says, Topic
  <2>2. pc' = [pc EXCEPT ![s] = "detecting"] /\ job' = [job EXCEPT ![s] = j]
    BY <1>1 DEF Resolve
  <2>3. OwnLocals(s)
    BY <1>1, <2>2 DEF TypeInv, TypeOK, OwnLocals, Stages, Actors
  <2> QED BY <2>1, <2>3
<1>2. CASE ~j.auto
  BY <1>2, AdmitTypes DEF Resolve
<1> QED BY <1>1, <1>2 DEF Job

LEMMA StartCommandTypes ==
    ASSUME TypeInv, NEW s \in Starts, StartCommand(s)
    PROVE  TypeInv'
<1> USE SessionAssumption
<1>1. PICK payload \in Payloads :
         IF AdbEnabled
         THEN /\ pc' = [pc EXCEPT ![s] = "opening"]
              /\ job' = [job EXCEPT ![s] = JobOf(payload)]
              /\ UNCHANGED topic
         ELSE Resolve(s, JobOf(payload))
  BY DEF StartCommand
<1> DEFINE j == JobOf(payload)
<1>2. j \in Job /\ (~j.auto => j.set \in Sets) /\ j.playQueue = NoQueue
  <2>1. payload \in Payload
    OBVIOUS
  <2>2. NoJob \in Job
    BY EmptySeq DEF NoJob, Job, Account, NoQueue
  <2> QED BY <2>1, <2>2 DEF JobOf, Payload, Job, NoJob
<1>3. Len(queues) \in Nat
  BY LenProperties DEF TypeInv, TypeOK
<1> HIDE DEF j
<1>4. UNCHANGED <<queues, tick>> /\ j.playQueue <= Len(queues)
  BY <1>2, <1>3 DEF StartCommand, PlexUnchanged, TicksUnchanged, NoQueue
<1>5. topic' \in Topic /\ OwnLocals(s)
  <2>1. CASE AdbEnabled
    <3>1. /\ pc' = [pc EXCEPT ![s] = "opening"]
          /\ job' = [job EXCEPT ![s] = j]
          /\ UNCHANGED topic
      BY <1>1, <2>1 DEF j
    <3> QED BY <1>2, <1>4, <3>1 DEF TypeInv, TypeOK, OwnLocals, Stages, Actors
  <2>2. CASE ~AdbEnabled
    BY <1>1, <1>2, <1>4, <2>2, ResolveTypes DEF j
  <2> QED BY <2>1, <2>2
<1>6. cancelled' \in [Starts -> BOOLEAN]
  BY DEF StartCommand, FlagsRaised, TypeInv, TypeOK
<1>7. SharedTyped
  BY <1>3, <1>5, <1>6
  DEF StartCommand, TypeInv, TypeOK, KnownQueues, SharedTyped, SessionUnchanged, PlexUnchanged,
      TicksUnchanged
<1> QED BY <1>5, <1>7, PlayerStepTypes

LEMMA AdmissionStepTypes ==
    ASSUME TypeInv, NEW s \in Starts,
           PlexOpened(s) \/ ProfileDetected(s) \/ GateSettled(s)
    PROVE  TypeInv'
<1> USE SessionAssumption
<1>1. job[s] \in Job /\ job[s].playQueue <= Len(queues)
  BY DEF TypeInv, TypeOK, KnownQueues
<1>2. UNCHANGED <<session, active, cancelled, cooling, queues, device, armed, late, tick>>
  BY DEF PlexOpened, ProfileDetected, GateSettled, SessionUnchanged, PlexUnchanged,
         TicksUnchanged
<1>3. topic' \in Topic /\ OwnLocals(s)
  <2>1. CASE PlexOpened(s)
    <3>1. ~job[s].auto => job[s].set \in Sets
      BY <2>1 DEF PlexOpened, TypeInv, KnownSets
    <3> QED BY <1>1, <1>2, <2>1, <3>1, ResolveTypes DEF PlexOpened
  <2>2. CASE ProfileDetected(s)
    <3>1. PICK title \in Profiles \cup {NoProfile} :
             IF cancelled[s]
             THEN pc' = [pc EXCEPT ![s] = "done"] /\ UNCHANGED <<job, topic>>
             ELSE IF title = NoProfile \/ ChannelOf[title] = NoSet
             THEN pc' = [pc EXCEPT ![s] = "done"] /\ UNCHANGED job /\ Says(s, "error")
             ELSE Admit(s, job[s], ChannelOf[title], title)
      BY <2>2 DEF ProfileDetected
    <3>2. CASE ~cancelled[s] /\ title # NoProfile /\ ChannelOf[title] # NoSet
      BY <1>1, <1>2, <3>1, <3>2, AdmitTypes
    <3>3. CASE pc' = [pc EXCEPT ![s] = "done"] /\ UNCHANGED job
               /\ (UNCHANGED topic \/ Says(s, "error"))
      <4>1. topic' \in Topic
        BY <3>3 DEF Says, Topic, TypeInv, TypeOK
      <4>2. OwnLocals(s)
        BY <1>1, <1>2, <3>3 DEF TypeInv, TypeOK, OwnLocals, Stages, Actors
      <4> QED BY <4>1, <4>2
    <3> QED BY <3>1, <3>2, <3>3
  <2>3. CASE GateSettled(s)
    <3>1. topic' \in Topic
      BY <2>3 DEF GateSettled, Says, Topic, TypeInv, TypeOK
    <3>2. job[s].set \in Sets
      BY <2>3 DEF GateSettled, TypeInv, KnownSets
    <3>3. PICK title \in Profiles \cup {NoProfile} : job' = [job EXCEPT ![s].profile = title]
      BY <1>1, <2>3 DEF GateSettled, Job
    <3>4. PICK stage \in {"binding", "done"} : pc' = [pc EXCEPT ![s] = stage]
      BY <2>3 DEF GateSettled
    <3>5. OwnLocals(s)
      BY <1>1, <1>2, <3>2, <3>3, <3>4 DEF TypeInv, TypeOK, OwnLocals, Stages, Actors, Job
    <3> QED BY <3>1, <3>5
  <2> QED BY <2>1, <2>2, <2>3
<1>4. SharedTyped
  BY <1>2, <1>3, SharedUnchanged
<1> QED BY <1>3, <1>4, PlayerStepTypes

LEMMA CommitTypes ==
    ASSUME TypeInv, NEW s \in Starts, NEW items \in Seq(Item), Commit(s, items),
           job[s].set \in Sets,
           UNCHANGED <<active, cancelled, queues, device, late, tick, cooling>>
    PROVE  TypeInv'
<1> USE SessionAssumption
<1> DEFINE cap    == SetCfg[job[s].set].cap
           lineup == IF cap > 0 THEN Take(items, cap) ELSE items
<1>1. SetCfg[job[s].set] \in Cfg
  BY CfgType
<1>2. lineup \in Seq(Item)
  <2>1. cap \in Nat
    BY <1>1 DEF Cfg
  <2> QED BY <2>1, TakeType
<1>3. TargetOf(s) \in Target
  BY <1>1, LengthType DEF TargetOf
<1>4. /\ session' = [session EXCEPT !.queue = lineup, !.queuedTotal = Len(lineup),
                                    !.target = TargetOf(s)]
      /\ armed' = s
      /\ job' = [job EXCEPT ![s].items = lineup]
      /\ pc' = [pc EXCEPT ![s] = HandoffStage(s)]
      /\ UNCHANGED topic
  BY DEF Commit
<1> HIDE DEF lineup
<1>5. Len(lineup) \in Nat
  BY <1>2, LenProperties
<1>6. /\ session' \in Session
      /\ session'.set = session.set /\ session'.account = session.account
      /\ session'.playQueue = session.playQueue
  BY <1>2, <1>3, <1>4, <1>5 DEF TypeInv, TypeOK, Session
<1>7. SharedTyped
  BY <1>4, <1>6, LenProperties DEF TypeInv, TypeOK, KnownQueues, SharedTyped
<1>8. HandoffStage(s) \in Stages \ {"idle", "opening", "pushing", "auditing"}
  BY DEF HandoffStage, Stages
<1>9. OwnLocals(s)
  <2> DEFINE j == [job[s] EXCEPT !.items = lineup]
  <2>1. job[s] \in Job /\ job[s].playQueue <= Len(queues)
    BY DEF TypeInv, TypeOK, KnownQueues
  <2>2. j \in Job /\ j.set \in Sets /\ j.playQueue <= Len(queues)
    BY <1>2, <2>1 DEF Job
  <2>3. job' = [job EXCEPT ![s] = j] /\ UNCHANGED <<queues, tick>>
    BY <1>4
  <2> HIDE DEF j
  <2>4. pc' = [pc EXCEPT ![s] = HandoffStage(s)]
    BY <1>4
  <2> QED BY <1>8, <2>2, <2>3, <2>4, LocalsBecome
<1> QED BY <1>7, <1>9, PlayerStepTypes

LEMMA NothingToPlayTypes ==
    ASSUME TypeInv, NEW s \in Starts, NothingToPlay(s),
           UNCHANGED <<active, cancelled, queues, device, late, tick, cooling>>
    PROVE  TypeInv'
<1> USE SessionAssumption
<1>1. topic' \in Topic
  BY DEF NothingToPlay, EndsSaying, Says, Topic
<1>2. SharedTyped
  BY <1>1, SharedUnchanged DEF NothingToPlay, SessionUnchanged
<1>3. OwnLocals(s)
  BY DEF TypeInv, TypeOK, KnownQueues, OwnLocals, NothingToPlay, EndsSaying, Moves, Stages, Actors
<1> QED BY <1>2, <1>3, PlayerStepTypes

LEMMA SelectionTypes ==
    ASSUME TypeInv, NEW s \in Starts, LineupBuilt(s) \/ QueueRecorded(s)
    PROVE  TypeInv'
<1> USE SessionAssumption
<1>1. job[s] \in Job /\ job[s].set \in Sets /\ job[s].playQueue <= Len(queues)
  BY DEF TypeInv, TypeOK, KnownSets, KnownQueues, LineupBuilt, QueueRecorded
<1>2. UNCHANGED <<active, cancelled, queues, device, late, tick, cooling>>
  BY DEF LineupBuilt, QueueRecorded, PlexUnchanged, TicksUnchanged
<1>3. CASE QueueRecorded(s)
  <2>1. job[s].items \in Seq(Item)
    BY <1>1 DEF Job
  <2> QED BY <1>1, <1>2, <1>3, <2>1, CommitTypes, NothingToPlayTypes DEF QueueRecorded
<1>4. CASE LineupBuilt(s)
  <2>1. PICK items \in LineupsUpTo(job[s].set, InitialQueueSize(TargetOf(s))) :
           IF SetCfg[job[s].set].source = "queue"
           THEN /\ job' = [job EXCEPT ![s].items = items]
                /\ pc' = [pc EXCEPT ![s] = "recording"]
                /\ UNCHANGED topic /\ SessionUnchanged
           ELSE IF items = << >> THEN NothingToPlay(s) ELSE Commit(s, items)
    BY <1>4 DEF LineupBuilt
  <2>2. items \in Seq(Item)
    BY DEF LineupsUpTo
  <2>3. CASE SetCfg[job[s].set].source = "queue"
    <3>1. SharedTyped
      BY <1>2, <2>1, <2>3, SharedUnchanged DEF SessionUnchanged, TypeInv, TypeOK
    <3> DEFINE j == [job[s] EXCEPT !.items = items]
    <3>2. j \in Job /\ j.set \in Sets /\ j.playQueue <= Len(queues)
      BY <1>1, <2>2 DEF Job
    <3>3. job' = [job EXCEPT ![s] = j] /\ pc' = [pc EXCEPT ![s] = "recording"]
      BY <2>1, <2>3
    <3> HIDE DEF j
    <3>4. OwnLocals(s)
      BY <1>2, <3>2, <3>3, LocalsBecome DEF Stages
    <3> QED BY <3>1, <3>4, PlayerStepTypes
  <2>4. CASE SetCfg[job[s].set].source # "queue"
    BY <1>1, <1>2, <2>1, <2>2, <2>4, CommitTypes, NothingToPlayTypes
  <2> QED BY <2>3, <2>4
<1> QED BY <1>3, <1>4

-----------------------------------------------------------------------------
(* The steps that play, of starts and advances.                            *)

LEMMA AttemptFailedTypes ==
    ASSUME TypeInv, NEW a \in Starts \cup Advances, CreateFailed(a) \/ PushFailed(a)
    PROVE  TypeInv'
<1> USE SessionAssumption
<1>1. AttemptFailed(a) /\ pc[a] \in {"creating", "pushing"}
  BY DEF CreateFailed, PushFailed
<1>2. UNCHANGED <<session, active, cancelled, cooling, queues, device, armed, late, tick>>
  BY DEF CreateFailed, PushFailed, SessionUnchanged, PlexUnchanged, TicksUnchanged
<1>3. topic' \in Topic
  BY <1>1 DEF AttemptFailed, EndsSaying, Says, Topic, TypeInv, TypeOK
<1>4. SharedTyped
  BY <1>2, <1>3, SharedUnchanged
<1>5. PICK stage \in {"backoff", "done"} : pc' = [pc EXCEPT ![a] = stage]
  BY <1>1 DEF AttemptFailed, EndsSaying, Moves
<1> DEFINE j == [job[a] EXCEPT !.attempts = @ + 1]
<1>6. j \in Job /\ j.set = job[a].set /\ j.playQueue <= Len(queues)
  <2>1. job[a] \in Job /\ job[a].playQueue <= Len(queues)
    BY DEF TypeInv, TypeOK, KnownQueues
  <2>2. job[a].attempts + 1 \in Nat
    BY <2>1 DEF Job
  <2> HIDE DEF Account
  <2> QED BY <2>1, <2>2 DEF Job
<1>7. job' = [job EXCEPT ![a] = j] /\ (a \in Starts => job[a].set \in Sets)
  BY <1>1 DEF AttemptFailed, TypeInv, KnownSets
<1> HIDE DEF j
<1>8. OwnLocals(a)
  BY <1>2, <1>5, <1>6, <1>7, LocalsBecome DEF Stages
<1> QED BY <1>4, <1>8, PlayerStepTypes

LEMMA FinishTypes ==
    ASSUME TypeInv, NEW s \in Starts, Finish(s), pc[s] \in {"pushing", "auditing"}
    PROVE  /\ session' \in Session
           /\ session'.set = session.set /\ session'.account = session.account
           /\ session'.playQueue = job[s].playQueue
           /\ session'.playQueue \in 1 .. Len(queues)
           /\ topic' \in Topic
<1>1. job[s].playQueue \in Nat /\ job[s].playQueue <= Len(queues) /\ job[s].playQueue # 0
  BY DEF TypeInv, TypeOK, KnownQueues, Job, NoQueue
<1>2. Len(queues) \in Nat
  BY LenProperties DEF TypeInv, TypeOK
<1>3. topic' \in Topic
  BY DEF Finish, EndsSaying, Says, Topic
<1> DEFINE id == job[s].playQueue
<1>4. session' = [session EXCEPT !.playQueue = id] /\ session \in Session
  BY DEF Finish, TypeInv, TypeOK
<1>5. id \in Nat /\ id \in 1 .. Len(queues)
  BY <1>1, <1>2
<1> HIDE DEF id
<1>6. /\ session' \in Session
      /\ session'.set = session.set /\ session'.account = session.account
      /\ session'.playQueue = id
  BY <1>4, <1>5 DEF Session
<1> QED BY <1>3, <1>5, <1>6 DEF id

LEMMA AuditTypes ==
    ASSUME TypeInv, NEW s \in Starts, Audited(s) \/ AuditStopped(s)
    PROVE  TypeInv'
<1> USE SessionAssumption
<1>1. CASE Audited(s) /\ Finish(s)
  <2>1. SharedTyped
    BY <1>1, FinishTypes, LenProperties
    DEF Audited, TypeInv, TypeOK, KnownQueues, SharedTyped, NoQueue, PlexUnchanged, TicksUnchanged
  <2>2. OwnLocals(s)
    BY <1>1 DEF Audited, Finish, EndsSaying, Moves, TypeInv, TypeOK, KnownQueues, OwnLocals,
                Stages, Actors, PlexUnchanged, TicksUnchanged
  <2> QED BY <2>1, <2>2, PlayerStepTypes
<1>2. CASE Audited(s) /\ UNCHANGED session
  BY <1>2, StepsThatOnlyMove
<1>3. CASE AuditStopped(s)
  <2>1. Len(queues) \in Nat
    BY LenProperties DEF TypeInv, TypeOK
  <2>2. device' \in [queue : 0 .. Len(queues), account : Profiles \cup {NoProfile}]
    BY <1>3, <2>1 DEF AuditStopped, TypeInv, TypeOK, NoQueue
  <2>3. topic' \in Topic
    BY <1>3 DEF AuditStopped, EndsSaying, Says, Topic
  <2>4. SharedTyped
    BY <1>3, <2>1, <2>2, <2>3
    DEF AuditStopped, TypeInv, TypeOK, KnownQueues, SharedTyped, SessionUnchanged, TicksUnchanged
  <2>5. OwnLocals(s)
    BY <1>3 DEF AuditStopped, EndsSaying, Moves, TypeInv, TypeOK, KnownQueues, OwnLocals,
                Stages, Actors, SessionUnchanged, TicksUnchanged
  <2> QED BY <2>4, <2>5, PlayerStepTypes
<1> QED BY <1>1, <1>2, <1>3 DEF Audited

LEMMA AcceptedType ==
    ASSUME NEW items \in Seq(Item), NEW accepted \in Accepted(items)
    PROVE  accepted \in Seq(Item)
<1>1. \A n \in 0 .. Len(items) : Take(items, n) \in Seq(Item)
  BY TakeType, LenProperties
<1> QED BY <1>1 DEF Accepted

LEMMA CreateQueueTypes ==
    ASSUME TypeInv, NEW a \in Starts \cup Advances, CreateQueue(a)
    PROVE  TypeInv'
<1> USE SessionAssumption
<1>1. job[a] \in Job /\ (a \in Starts => job[a].set \in Sets)
  BY DEF TypeInv, TypeOK, KnownSets, CreateQueue
<1>2. PICK accepted \in Accepted(job[a].items) \ {<< >>}, found \in BOOLEAN :
         /\ queues' = Append(queues, [items |-> accepted, at |-> 1, by |-> a, gone |-> FALSE])
         /\ IF found THEN Moves(a, "pushing") /\ UNCHANGED topic
            ELSE EndsSaying(a, IF a \in Advances THEN "playing" ELSE "error")
  BY DEF CreateQueue
<1> DEFINE q == [items |-> accepted, at |-> 1, by |-> a, gone |-> FALSE]
<1>3. q \in PlayQueue /\ q.at \in 1 .. Len(q.items)
  <2>1. accepted \in Seq(Item) /\ accepted # << >>
    BY <1>1, <1>2, AcceptedType DEF Job
  <2>2. Len(accepted) \in Nat \ {0}
    BY <2>1, EmptySeq
  <2> QED BY <2>1, <2>2 DEF PlayQueue
<1> HIDE DEF q
<1>4. /\ Len(queues) \in Nat /\ DOMAIN queues = 1 .. Len(queues)
      /\ queues' \in Seq(PlayQueue)
      /\ Len(queues') = Len(queues) + 1 /\ DOMAIN queues' = 1 .. Len(queues')
      /\ \A id \in 1 .. Len(queues) : queues'[id] = queues[id]
      /\ queues'[Len(queues) + 1] = q
  <2>1. queues' = Append(queues, q) /\ queues \in Seq(PlayQueue)
    BY <1>2 DEF q, TypeInv, TypeOK
  <2> QED BY <1>3, <2>1, AppendProperties, LenProperties
<1>5. \A id \in DOMAIN queues' : queues'[id].at \in 1 .. Len(queues'[id].items)
  <2> SUFFICES ASSUME NEW id \in 1 .. Len(queues) + 1
               PROVE  queues'[id].at \in 1 .. Len(queues'[id].items)
    BY <1>4
  <2>1. CASE id \in 1 .. Len(queues)
    BY <1>4, <2>1 DEF TypeInv, KnownQueues
  <2>2. CASE id = Len(queues) + 1
    BY <1>3, <1>4, <2>2
  <2> QED BY <1>4, <2>1, <2>2
<1>6. topic' \in Topic
  BY <1>2 DEF EndsSaying, Says, Topic, TypeInv, TypeOK
<1>7. late' \in [Starts -> Nat]
  BY DEF CreateQueue, TypeInv, TypeOK
<1>8. SharedTyped
  <2>1. UNCHANGED <<session, active, cancelled, cooling, device, armed>>
    BY DEF CreateQueue, SessionUnchanged, TicksUnchanged
  <2>2. session.playQueue \in Nat /\ session.playQueue <= Len(queues)
    BY DEF TypeInv, TypeOK, KnownQueues, Session
  <2>3. device \in [queue : 0 .. Len(queues'), account : Profiles \cup {NoProfile}]
    BY <1>4 DEF TypeInv, TypeOK
  <2> QED BY <1>4, <1>5, <1>6, <1>7, <2>1, <2>2, <2>3 DEF SharedTyped, TypeInv, TypeOK
<1>9. OwnLocals(a)
  <2> DEFINE id == Len(queues) + 1
             j  == [job[a] EXCEPT !.playQueue = id]
  <2>0. id \in Nat /\ id # NoQueue /\ id <= Len(queues')
    BY <1>4 DEF NoQueue
  <2> HIDE DEF id
  <2>1. j \in Job /\ j.set = job[a].set /\ j.playQueue = id
    BY <1>1, <2>0 DEF Job
  <2>2. job' = [job EXCEPT ![a] = j] /\ UNCHANGED tick
    BY DEF CreateQueue, TicksUnchanged, id
  <2> HIDE DEF j
  <2>3. PICK stage \in {"pushing", "done"} : pc' = [pc EXCEPT ![a] = stage]
    BY <1>2 DEF EndsSaying, Moves
  <2>4. j.playQueue # NoQueue /\ j.playQueue <= Len(queues')
    BY <2>0, <2>1
  <2> QED BY <1>1, <2>1, <2>2, <2>3, <2>4, LocalsBecome DEF Stages
<1> QED BY <1>8, <1>9, PlayerStepTypes

LEMMA PushLandedTypes ==
    ASSUME TypeInv, NEW a \in Starts \cup Advances, PushLanded(a)
    PROVE  TypeInv'
<1> USE SessionAssumption
<1>1. /\ job[a] \in Job /\ pc[a] = "pushing"
      /\ job[a].playQueue <= Len(queues) /\ job[a].playQueue # NoQueue
      /\ a \in Starts => job[a].set \in Sets
      /\ Len(queues) \in Nat
  BY LenProperties DEF TypeInv, TypeOK, KnownQueues, KnownSets, PushLanded
<1>2. UNCHANGED <<active, cancelled, job, queues, armed, late, tick, cooling>>
  BY DEF PushLanded, TicksUnchanged
<1>3. device' \in [queue : 0 .. Len(queues), account : Profiles \cup {NoProfile}]
  <2>1. job[a].playQueue \in 0 .. Len(queues) /\ job[a].account \in Profiles \cup {NoProfile}
    BY <1>1 DEF Job, Account
  <2> QED BY <2>1 DEF PushLanded
<1>4. CASE UNCHANGED session
  <2>1. PICK stage \in {"done", "auditing"} : pc' = [pc EXCEPT ![a] = stage]
    BY DEF PushLanded, Finish, EndsSaying, Moves
  <2>2. topic' \in Topic
    BY DEF PushLanded, Finish, EndsSaying, Says, Topic, TypeInv, TypeOK
  <2>3. SharedTyped
    BY <1>1, <1>2, <1>3, <1>4, <2>2 DEF SharedTyped, TypeInv, TypeOK, KnownQueues
  <2>4. OwnLocals(a)
    BY <1>1, <1>2, <2>1 DEF TypeInv, TypeOK, OwnLocals, Stages, Actors
  <2> QED BY <2>3, <2>4, PlayerStepTypes
<1>5. CASE a \in Starts /\ Finish(a)
  <2>1. /\ session' \in Session
        /\ session'.set = session.set /\ session'.account = session.account
        /\ session'.playQueue \in 1 .. Len(queues)
        /\ topic' \in Topic
    BY <1>1, <1>5, FinishTypes
  <2>2. SharedTyped
    BY <1>1, <1>2, <1>3, <2>1 DEF SharedTyped, TypeInv, TypeOK, KnownQueues, NoQueue
  <2>3. OwnLocals(a)
    BY <1>1, <1>2, <1>5
    DEF Finish, EndsSaying, Moves, TypeInv, TypeOK, OwnLocals, Stages, Actors
  <2> QED BY <2>2, <2>3, PlayerStepTypes
<1> QED BY <1>4, <1>5 DEF PushLanded

LEMMA AdvanceCommandTypes ==
    ASSUME TypeInv, NEW a \in Advances, AdvanceCommand(a)
    PROVE  TypeInv'
<1> USE SessionAssumption
<1>1. UNCHANGED <<active, cancelled, armed, topic, queues, device, late, tick, cooling>>
  BY DEF AdvanceCommand, PlexUnchanged, TicksUnchanged
<1>2. CASE session.queue = << >>
  <2>1. SharedTyped
    BY <1>1, <1>2, SharedUnchanged DEF AdvanceCommand, TypeInv, TypeOK
  <2>2. OwnLocals(a)
    <3>1. job' = job /\ pc' = [pc EXCEPT ![a] = "done"]
      BY <1>2 DEF AdvanceCommand, Moves
    <3>2. job[a] \in Job /\ job[a].playQueue <= Len(queues) /\ job = [job EXCEPT ![a] = job[a]]
      BY DEF TypeInv, TypeOK, KnownQueues
    <3> DEFINE j == job[a]
    <3>3. job' = [job EXCEPT ![a] = j] /\ j \in Job /\ j.playQueue <= Len(queues)
      BY <3>1, <3>2
    <3> HIDE DEF j
    <3> QED BY <1>1, <3>1, <3>3, LocalsBecome DEF Stages
  <2> QED BY <2>1, <2>2, PlayerStepTypes
<1>3. CASE session.queue # << >>
  <2> DEFINE last   == Len(session.queue) - 1
             cursor == IF session.cursor + 1 < last THEN session.cursor + 1 ELSE last
             rest   == SubSeq(session.queue, cursor + 1, last + 1)
             j      == [NoJob EXCEPT !.set = session.set, !.account = session.account,
                                     !.items = rest]
  <2>1. session.queue \in Seq(Item) /\ session.cursor \in Nat
    BY DEF TypeInv, TypeOK, Session
  <2>2. Len(session.queue) \in Nat \ {0}
    BY <1>3, <2>1, EmptySeq
  <2>3. cursor \in Nat
    BY <2>1, <2>2
  <2>4. \A i \in cursor + 1 .. last + 1 : session.queue[i] \in Item
    BY <2>1, <2>2, <2>3, ElementOfSeq
  <2>5. rest \in Seq(Item)
    BY <2>2, <2>3, <2>4, SubSeqProperties
  <2>6. /\ session' = [session EXCEPT !.cursor = cursor]
        /\ job' = [job EXCEPT ![a] = j]
        /\ pc' = [pc EXCEPT ![a] = "creating"]
    BY <1>3 DEF AdvanceCommand, Moves
  <2> HIDE DEF cursor, rest
  <2>7. j \in Job /\ j.playQueue = NoQueue
    BY <2>5, EmptySeq DEF NoJob, Job, NoQueue, TypeInv, TypeOK, Session
  <2> HIDE DEF j
  <2>8. /\ session' \in Session
        /\ session'.set = session.set /\ session'.account = session.account
        /\ session'.playQueue = session.playQueue
    BY <2>3, <2>6 DEF TypeInv, TypeOK, Session
  <2>9. SharedTyped
    BY <1>1, <2>8, LenProperties DEF TypeInv, TypeOK, KnownQueues, SharedTyped
  <2>10. NoQueue <= Len(queues)
    BY LenProperties DEF NoQueue, TypeInv, TypeOK
  <2>11. OwnLocals(a)
    BY <1>1, <2>6, <2>7, <2>10, LocalsBecome DEF Stages
  <2> QED BY <2>9, <2>11, PlayerStepTypes
<1> QED BY <1>2, <1>3

-----------------------------------------------------------------------------
(* The steps of a tick.                                                    *)

\* A tick changes no locals but its own, and those stay known.
OwnTick(t) ==
    /\ pc' \in [Actors -> Stages]
    /\ \A b \in Actors \ {t} : pc'[b] = pc[b]
    /\ tick' \in [Ticks -> Tick]
    /\ \A b \in Ticks \ {t} : tick'[b] = tick[b]
    /\ tick'[t].playQueue <= Len(queues')
    /\ pc'[t] \in {"reading", "building", "extending"} =>
          session'.playQueue # NoQueue /\ tick'[t].playQueue # NoQueue
    /\ pc'[t] \notin {"idle", "done"} => tick'[t].set \in Sets
    /\ UNCHANGED job

LEMMA TickStepTypes ==
    ASSUME TypeInv, NEW t \in Ticks, SharedTyped, OwnTick(t)
    PROVE  TypeInv'
<1> USE SessionAssumption
<1>1. TypeOK'
  BY DEF TypeInv, TypeOK, SharedTyped, OwnTick
<1>2. Len(queues) \in Nat /\ Len(queues') \in Nat /\ Len(queues) <= Len(queues')
  BY LenProperties DEF TypeInv, TypeOK, SharedTyped
<1>3. \A a \in Starts \cup Advances : pc'[a] = pc[a] /\ job'[a] = job[a]
  BY DEF OwnTick, Actors
<1>4. \A a \in Starts \cup Advances :
         /\ job'[a].playQueue <= Len(queues')
         /\ pc'[a] \in {"pushing", "auditing"} => job'[a].playQueue # NoQueue
  <2> SUFFICES ASSUME NEW a \in Starts \cup Advances
               PROVE  /\ job[a].playQueue <= Len(queues')
                      /\ pc[a] \in {"pushing", "auditing"} => job[a].playQueue # NoQueue
    BY <1>3
  <2>1. job[a].playQueue \in Nat
    BY DEF TypeInv, TypeOK, Job
  <2> QED BY <1>2, <2>1 DEF TypeInv, KnownQueues
<1>5. \A b \in Ticks :
         /\ tick'[b].playQueue <= Len(queues')
         /\ pc'[b] \in {"reading", "building", "extending"} =>
               session'.playQueue # NoQueue /\ tick'[b].playQueue # NoQueue
  <2> SUFFICES ASSUME NEW b \in Ticks, b # t
               PROVE  /\ tick'[b].playQueue <= Len(queues')
                      /\ pc'[b] \in {"reading", "building", "extending"} =>
                            session'.playQueue # NoQueue /\ tick'[b].playQueue # NoQueue
    BY DEF OwnTick
  <2>1. tick'[b] = tick[b] /\ pc'[b] = pc[b] /\ tick[b].playQueue \in Nat
    BY DEF TypeInv, TypeOK, OwnTick, Actors, Tick
  <2> QED BY <1>2, <2>1 DEF TypeInv, KnownQueues, SharedTyped
<1>6. KnownQueues'
  BY <1>4, <1>5 DEF KnownQueues, SharedTyped
<1>7. KnownSets'
  BY <1>3 DEF TypeInv, KnownSets, OwnTick, Actors
<1> QED BY <1>1, <1>6, <1>7 DEF TypeInv

LEMMA TickBecomes ==
    ASSUME TypeInv, NEW t \in Ticks, NEW k \in Tick, NEW stage \in Stages,
           pc' = [pc EXCEPT ![t] = stage], tick' = [tick EXCEPT ![t] = k],
           k.playQueue <= Len(queues'),
           stage \in {"reading", "building", "extending"} =>
              session'.playQueue # NoQueue /\ k.playQueue # NoQueue,
           stage \notin {"idle", "done"} => k.set \in Sets,
           UNCHANGED job
    PROVE  OwnTick(t)
BY DEF TypeInv, TypeOK, OwnTick, Actors

\* What every tick in flight knows.
LEMMA TickKnows ==
    ASSUME TypeInv, NEW t \in Ticks
    PROVE  /\ tick[t] \in Tick /\ tick[t].playQueue <= Len(queues)
           /\ pc[t] \notin {"idle", "done"} => tick[t].set \in Sets
           /\ pc[t] \in {"reading", "building", "extending"} =>
                 /\ session.playQueue # NoQueue
                 /\ tick[t].playQueue \in DOMAIN queues
           /\ session.playQueue \in Nat /\ session.playQueue <= Len(queues)
           /\ session.queuedTotal \in Nat
           /\ Len(queues) \in Nat /\ DOMAIN queues = 1 .. Len(queues)
<1>1. Len(queues) \in Nat /\ DOMAIN queues = 1 .. Len(queues)
  BY LenProperties DEF TypeInv, TypeOK
<1>2. tick[t] \in Tick /\ tick[t].playQueue \in Nat /\ tick[t].playQueue <= Len(queues)
  BY DEF TypeInv, TypeOK, KnownQueues, Tick
<1>3. pc[t] \in {"reading", "building", "extending"} =>
         session.playQueue # NoQueue /\ tick[t].playQueue # NoQueue
  BY DEF TypeInv, KnownQueues
<1>4. /\ session.playQueue \in Nat /\ session.playQueue <= Len(queues)
      /\ session.queuedTotal \in Nat
  BY DEF TypeInv, TypeOK, KnownQueues, Session
<1> QED BY <1>1, <1>2, <1>3, <1>4 DEF TypeInv, KnownSets, NoQueue

\* A step of a tick that changes no shared variable.
LEMMA QuietTickStep ==
    ASSUME TypeInv, NEW t \in Ticks, NEW k \in Tick, NEW stage \in Stages,
           pc' = [pc EXCEPT ![t] = stage], tick' = [tick EXCEPT ![t] = k],
           k.playQueue <= Len(queues),
           stage \in {"reading", "building", "extending"} =>
              session.playQueue # NoQueue /\ k.playQueue # NoQueue,
           stage \notin {"idle", "done"} => k.set \in Sets,
           UNCHANGED <<session, active, cancelled, cooling, queues, device, armed, late, topic, job>>
    PROVE  TypeInv'
<1>1. SharedTyped
  BY SharedUnchanged DEF TypeInv, TypeOK
<1>2. OwnTick(t)
  BY TickBecomes
<1> QED BY <1>1, <1>2, TickStepTypes

LEMMA QuietTicks ==
    ASSUME NEW t \in Ticks,
           TickCommand(t) \/ TickAuthorised(t) \/ TickRead(t) \/ TickBuilt(t) \/ TickFailed(t)
    PROVE  UNCHANGED <<session, active, cancelled, cooling, queues, device, armed, late, topic, job>>
BY DEF TickCommand, TickAuthorised, TickRead, TickBuilt, TickFailed, TickMoves, SessionUnchanged,
       PlexUnchanged

LEMMA TickEndsTypes ==
    ASSUME TypeInv, NEW t \in Ticks, pc' = [pc EXCEPT ![t] = "done"], UNCHANGED tick,
           UNCHANGED <<session, active, cancelled, cooling, queues, device, armed, late, topic, job>>
    PROVE  TypeInv'
<1>1. tick' = [tick EXCEPT ![t] = tick[t]]
  BY DEF TypeInv, TypeOK
<1> QED BY <1>1, TickKnows, QuietTickStep DEF Stages

LEMMA TickCommandTypes ==
    ASSUME TypeInv, NEW t \in Ticks, TickCommand(t)
    PROVE  TypeInv'
<1>1. CASE WantsTopup(session.set)
  <2>0. PICK account \in BindingsOf(session.set, TopupProfile) :
           tick' = [tick EXCEPT ![t].set = session.set, ![t].account = account]
    BY <1>1 DEF TickCommand
  <2> DEFINE k == [tick[t] EXCEPT !.set = session.set, !.account = account]
  <2>1. session.set \in Sets
    BY <1>1 DEF WantsTopup, TypeInv, TypeOK, Session
  <2>2. account \in Account
    BY <2>1, BindingType DEF TopupProfile, TypeInv, TypeOK, Session
  <2>3. k \in Tick /\ k.set \in Sets /\ k.playQueue <= Len(queues)
    BY <2>1, <2>2, TickKnows DEF Tick
  <2>4. pc' = [pc EXCEPT ![t] = "authorising"] /\ tick' = [tick EXCEPT ![t] = k]
    BY <1>1, <2>0 DEF TickCommand, TickMoves, Moves, TypeInv, TypeOK
  <2> HIDE DEF k
  <2> QED BY <2>3, <2>4, QuietTicks, QuietTickStep DEF Stages
<1>2. CASE ~WantsTopup(session.set)
  BY <1>2, QuietTicks, TickEndsTypes DEF TickCommand, TickMoves, Moves
<1> QED BY <1>1, <1>2

LEMMA TickAuthorisedTypes ==
    ASSUME TypeInv, NEW t \in Ticks, TickAuthorised(t)
    PROVE  TypeInv'
<1> DEFINE window == TopupWindow(Length(SetCfg[tick[t].set]), session.queuedTotal)
           k      == [tick[t] EXCEPT !.window = window, !.playQueue = session.playQueue]
<1>1. tick[t].set \in Sets
  BY TickKnows DEF TickAuthorised
<1>2. window \in Nat
  BY <1>1, TickKnows, CfgType, LengthType, SizeTypes
<1>3. tick' = [tick EXCEPT ![t] = k]
  BY DEF TickAuthorised
<1> HIDE DEF window
<1>4. k \in Tick /\ k.set \in Sets /\ k.playQueue = session.playQueue
  BY <1>1, <1>2, TickKnows DEF Tick
<1> HIDE DEF k
<1>5. pc' = [pc EXCEPT ![t] = IF session.playQueue = NoQueue THEN "done" ELSE "reading"]
  BY DEF TickAuthorised, TickMoves, Moves
<1> QED BY <1>3, <1>4, <1>5, TickKnows, QuietTicks, QuietTickStep DEF Stages

LEMMA TickReadTypes ==
    ASSUME TypeInv, NEW t \in Ticks, TickRead(t)
    PROVE  TypeInv'
<1> DEFINE q    == queues[tick[t].playQueue]
           want == tick[t].window - Remaining(q)
           k    == [tick[t] EXCEPT !.want = want, !.seen = q.items]
<1>0. pc[t] = "reading"
  BY DEF TickRead
<1>1. q \in PlayQueue
  BY <1>0, TickKnows, ElementOfSeq DEF TypeInv, TypeOK
<1>2. Remaining(q) \in Nat /\ tick[t].window \in Nat /\ q.items \in Seq(Item)
  BY <1>1, TickKnows, LenProperties DEF Remaining, PlayQueue, Tick
<1>3. CASE q.gone \/ Remaining(q) > TopupAt \/ want <= 0
  BY <1>3, QuietTicks, TickEndsTypes DEF TickRead, TickMoves, Moves
<1>4. CASE ~(q.gone \/ Remaining(q) > TopupAt \/ want <= 0)
  <2>1. tick' = [tick EXCEPT ![t] = k] /\ pc' = [pc EXCEPT ![t] = "building"]
    BY <1>4 DEF TickRead, TickMoves, Moves
  <2>2. want \in Nat
    BY <1>2, <1>4
  <2> HIDE DEF q, want
  <2>3. k \in Tick /\ k.set = tick[t].set /\ k.playQueue = tick[t].playQueue
    BY <1>2, <2>2, TickKnows DEF Tick
  <2> HIDE DEF k
  <2>4. /\ k.set \in Sets /\ session.playQueue # NoQueue
        /\ k.playQueue # NoQueue /\ k.playQueue <= Len(queues)
    BY <1>0, <2>3, TickKnows DEF NoQueue
  <2> QED BY <2>1, <2>3, <2>4, QuietTicks, QuietTickStep DEF Stages
<1> QED BY <1>3, <1>4

LEMMA TickBuiltTypes ==
    ASSUME TypeInv, NEW t \in Ticks, TickBuilt(t)
    PROVE  TypeInv'
<1>0. pc[t] = "building"
  BY DEF TickBuilt
<1>1. PICK fresh \in Seq(Item) :
         /\ pc' = [pc EXCEPT ![t] = IF fresh = << >> THEN "done" ELSE "extending"]
         /\ tick' = [tick EXCEPT ![t].slice = Take(fresh, tick[t].want),
                                 ![t].playQueue = session.playQueue]
  <2>1. PICK built \in Seq(Item) :
           /\ pc' = [pc EXCEPT ![t] = IF Fresh(built, tick[t].seen) = << >> THEN "done" ELSE "extending"]
           /\ tick' = [tick EXCEPT ![t].slice = Take(Fresh(built, tick[t].seen), tick[t].want),
                                   ![t].playQueue = session.playQueue]
    <3>1. \A size : LineupsUpTo(tick[t].set, size) \subseteq Seq(Item)
      BY DEF LineupsUpTo
    <3> QED BY <3>1 DEF TickBuilt, TickMoves, Moves
  <2>2. Fresh(built, tick[t].seen) \in Seq(Item)
    BY PickedPicks DEF Fresh
  <2> QED BY <2>1, <2>2
<1> DEFINE slice == Take(fresh, tick[t].want)
           k     == [tick[t] EXCEPT !.slice = slice, !.playQueue = session.playQueue]
<1>2. slice \in Seq(Item)
  BY TickKnows, TakeType DEF Tick
<1>3. tick' = [tick EXCEPT ![t] = k]
  BY <1>1
<1> HIDE DEF slice
<1>4. k \in Tick /\ k.set = tick[t].set /\ k.playQueue = session.playQueue
  BY <1>2, TickKnows DEF Tick
<1> HIDE DEF k
<1>5. PICK stage \in {"done", "extending"} : pc' = [pc EXCEPT ![t] = stage]
  BY <1>1
<1> QED BY <1>0, <1>3, <1>4, <1>5, TickKnows, QuietTicks, QuietTickStep DEF Stages

LEMMA TotalSet ==
    ASSUME session \in Session, NEW total \in Nat,
           session' = [session EXCEPT !.queuedTotal = total]
    PROVE  /\ session' \in Session
           /\ session'.set = session.set /\ session'.account = session.account
           /\ session'.playQueue = session.playQueue
BY DEF Session

LEMMA TickExtendedTypes ==
    ASSUME TypeInv, NEW t \in Ticks, TickExtended(t)
    PROVE  TypeInv'
<1> USE SessionAssumption
<1> DEFINE id == tick[t].playQueue
           q  == queues[id]
<1>0. pc[t] = "extending"
  BY DEF TickExtended
<1>1. id \in 1 .. Len(queues) /\ Len(queues) \in Nat /\ tick[t] \in Tick
  BY <1>0, TickKnows
<1>2. q \in PlayQueue /\ q.at \in 1 .. Len(q.items)
  BY <1>0, <1>1, TickKnows, ElementOfSeq DEF TypeInv, TypeOK, KnownQueues
<1>3a. PICK accepted \in Accepted(tick[t].slice) :
         /\ queues' = [queues EXCEPT ![id] = Inserted(q, accepted)]
         /\ \E added \in {Growth(Len(Inserted(q, accepted).items), tick[t].seen), Len(tick[t].slice)} :
               session' = [session EXCEPT !.queuedTotal = @ + added]
  BY DEF TickExtended
<1>3. PICK more \in {Growth(Len(Inserted(q, accepted).items), tick[t].seen), Len(tick[t].slice)} :
         session' = [session EXCEPT !.queuedTotal = @ + more]
  BY <1>3a
<1> DEFINE longer == Inserted(q, accepted)
<1>4. longer \in PlayQueue /\ longer.at \in 1 .. Len(longer.items)
  <2>1. accepted \in Seq(Item)
    BY <1>1, AcceptedType DEF Tick
  <2> QED BY <1>2, <2>1, InsertedType
<1>5. more \in Nat
  <2>1. more \in {Growth(Len(longer.items), tick[t].seen), Len(tick[t].slice)}
    BY <1>3
  <2>2. Len(longer.items) \in Nat
    BY <1>4, LenProperties DEF PlayQueue
  <2> HIDE DEF longer
  <2>3. Len(tick[t].seen) \in Nat /\ Len(tick[t].slice) \in Nat
    BY <1>1, LenProperties DEF Tick
  <2> DEFINE a == Len(longer.items)
             b == Len(tick[t].seen)
  <2>4. (IF a < b THEN 0 ELSE a - b) \in Nat
    <3> HIDE DEF a, b
    <3>1. a \in Nat /\ b \in Nat
      BY <2>2, <2>3 DEF a, b
    <3> QED BY <3>1
  <2> QED BY <2>1, <2>3, <2>4 DEF Growth
<1> HIDE DEF longer
<1>6. /\ queues' \in Seq(PlayQueue) /\ Len(queues') = Len(queues)
      /\ DOMAIN queues' = DOMAIN queues /\ DOMAIN queues = 1 .. Len(queues)
      /\ \A n \in 1 .. Len(queues) : queues'[n] = IF n = id THEN longer ELSE queues[n]
  <2>1. queues' = [queues EXCEPT ![id] = longer] /\ queues \in Seq(PlayQueue)
    BY <1>3a DEF longer, TypeInv, TypeOK
  <2> HIDE DEF id
  <2> QED BY <1>1, <1>4, <2>1, ExceptSeq, LenProperties
<1>7. \A n \in DOMAIN queues' : queues'[n].at \in 1 .. Len(queues'[n].items)
  BY <1>4, <1>6 DEF TypeInv, KnownQueues
<1>8. /\ session' \in Session
      /\ session'.set = session.set /\ session'.account = session.account
      /\ session'.playQueue = session.playQueue
  <2>1. session' = [session EXCEPT !.queuedTotal = @ + more] /\ session \in Session
    BY <1>3 DEF TypeInv, TypeOK
  <2>2. session.queuedTotal + more \in Nat
    <3>1. session.queuedTotal \in Nat
      BY <2>1 DEF Session
    <3> QED BY <1>5, <3>1
  <2> QED BY <2>1, <2>2, TotalSet
<1>9. SharedTyped
  <2>1. cooling' \subseteq Sets
    BY <1>0, TickKnows, SMTT(30) DEF TickExtended, TypeInv, TypeOK
  <2>2. UNCHANGED <<active, cancelled, topic, armed, device, late>>
    BY DEF TickExtended, TickMoves
  <2>3. session.playQueue <= Len(queues)
    BY TickKnows
  <2> QED BY <1>1, <1>6, <1>7, <1>8, <2>1, <2>2, <2>3 DEF SharedTyped, TypeInv, TypeOK
<1>10. OwnTick(t)
  BY <1>1, <1>6 DEF TickExtended, TickMoves, Moves, OwnTick, TypeInv, TypeOK, Actors, Stages
<1> QED BY <1>9, <1>10, TickStepTypes

-----------------------------------------------------------------------------
(* The steps of the environment, and the theorem.                          *)

\* Nothing changes but the viewer's place, what Plex remembers, and the clock.
LEMMA EnvironmentTypes ==
    ASSUME TypeInv, Environment
    PROVE  TypeInv'
<1> USE SessionAssumption
<1>1. EnvironmentUnchanged
  BY DEF Environment, ViewerNext, QueueForgotten, CooldownOver
<1>2. Len(queues) \in Nat /\ DOMAIN queues = 1 .. Len(queues)
  BY LenProperties DEF TypeInv, TypeOK
<1>3. SharedTyped
  <2>1. CASE ViewerNext
    <3> DEFINE id == device.queue
    <3>1. id \in 1 .. Len(queues)
      BY <1>2, <2>1 DEF ViewerNext, TypeInv, TypeOK, NoQueue
    <3>2. CASE queues[id].at < Len(queues[id].items)
      <4> DEFINE q == [queues[id] EXCEPT !.at = @ + 1]
      <4>1. queues[id] \in PlayQueue /\ queues[id].at \in 1 .. Len(queues[id].items)
        BY <1>2, <3>1, ElementOfSeq DEF TypeInv, TypeOK, KnownQueues
      <4>2. Len(queues[id].items) \in Nat
        BY <4>1, LenProperties DEF PlayQueue
      <4>3. q \in PlayQueue /\ q.at \in 1 .. Len(q.items)
        <5>1. queues[id].at + 1 \in 1 .. Len(queues[id].items)
          BY <3>2, <4>1, <4>2
        <5> DEFINE old == queues[id]
        <5>2. old \in PlayQueue /\ old.at + 1 \in Nat /\ old.at + 1 \in 1 .. Len(old.items)
          BY <4>1, <4>2, <5>1
        <5> HIDE DEF old
        <5>3. [old EXCEPT !.at = @ + 1].items = old.items /\ [old EXCEPT !.at = @ + 1].at = old.at + 1
              /\ [old EXCEPT !.at = @ + 1] \in PlayQueue
          BY <5>2 DEF PlayQueue
        <5> QED BY <5>2, <5>3 DEF old
      <4>4. queues' = [queues EXCEPT ![id] = q] /\ UNCHANGED <<device, cooling>>
        BY <2>1, <3>2 DEF ViewerNext
      <4> HIDE DEF q, id
      <4>5. /\ queues' \in Seq(PlayQueue) /\ Len(queues') = Len(queues)
            /\ DOMAIN queues' = DOMAIN queues
            /\ \A n \in 1 .. Len(queues) : queues'[n] = IF n = id THEN q ELSE queues[n]
        BY <1>2, <3>1, <4>3, <4>4, ExceptSeq, LenProperties DEF TypeInv, TypeOK
      <4> QED
        BY <1>1, <1>2, <4>3, <4>4, <4>5
        DEF SharedTyped, EnvironmentUnchanged, TypeInv, TypeOK, KnownQueues
    <3>3. CASE ~(queues[id].at < Len(queues[id].items))
      BY <1>1, <1>2, <2>1, <3>3
      DEF ViewerNext, SharedTyped, EnvironmentUnchanged, TypeInv, TypeOK, KnownQueues, NoQueue
    <3> QED BY <3>2, <3>3
  <2>2. CASE \E id \in DOMAIN queues : QueueForgotten(id)
    <3>1. PICK id \in 1 .. Len(queues) : QueueForgotten(id)
      BY <1>2, <2>2
    <3> DEFINE q == [queues[id] EXCEPT !.gone = TRUE]
    <3>2. queues[id] \in PlayQueue /\ queues[id].at \in 1 .. Len(queues[id].items)
      BY <1>2, <3>1, ElementOfSeq DEF TypeInv, TypeOK, KnownQueues
    <3>3. q \in PlayQueue /\ q.at \in 1 .. Len(q.items)
      BY <3>2 DEF PlayQueue
    <3>4. queues' = [queues EXCEPT ![id] = q] /\ UNCHANGED <<device, cooling>>
      BY <3>1 DEF QueueForgotten
    <3> HIDE DEF q
    <3>5. /\ queues' \in Seq(PlayQueue) /\ Len(queues') = Len(queues)
          /\ DOMAIN queues' = DOMAIN queues
          /\ \A n \in 1 .. Len(queues) : queues'[n] = IF n = id THEN q ELSE queues[n]
      BY <1>2, <3>1, <3>3, <3>4, ExceptSeq, LenProperties DEF TypeInv, TypeOK
    <3> QED
      BY <1>1, <1>2, <3>3, <3>4, <3>5
      DEF SharedTyped, EnvironmentUnchanged, TypeInv, TypeOK, KnownQueues
  <2>3. CASE \E set \in Sets : CooldownOver(set)
    BY <1>1, <1>2, <2>3
    DEF CooldownOver, SharedTyped, EnvironmentUnchanged, TypeInv, TypeOK, KnownQueues
  <2> QED BY <2>1, <2>2, <2>3 DEF Environment
<1>4. Len(queues) <= Len(queues') /\ Len(queues') \in Nat
  BY <1>3, LenProperties DEF SharedTyped
<1>5. TypeOK'
  BY <1>1, <1>3 DEF SharedTyped, EnvironmentUnchanged, TypeInv, TypeOK
<1>6. KnownQueues'
  <2>1. \A a \in Starts \cup Advances : job[a].playQueue \in Nat
    BY DEF TypeInv, TypeOK, Job
  <2>2. \A t \in Ticks : tick[t].playQueue \in Nat
    BY DEF TypeInv, TypeOK, Tick
  <2> QED
    BY <1>1, <1>2, <1>3, <1>4, <2>1, <2>2
    DEF SharedTyped, EnvironmentUnchanged, TypeInv, KnownQueues
<1>7. KnownSets'
  BY <1>1 DEF EnvironmentUnchanged, TypeInv, KnownSets
<1> QED BY <1>5, <1>6, <1>7 DEF TypeInv

LEMMA TypesInitially == Init => TypeInv
<1> SUFFICES ASSUME Init
             PROVE  TypeInv
  OBVIOUS
<1> USE SessionAssumption, EmptySeq
<1>1. NoJob \in Job /\ NoTick \in Tick
  BY DEF NoJob, Job, NoTick, Tick, Account, NoQueue
<1>2. session \in Session /\ session.set = NoSet /\ session.playQueue = NoQueue
  BY DEF Init, Session, Account, NoQueue
<1>3. Len(queues) = 0 /\ DOMAIN queues = {} /\ queues \in Seq(PlayQueue)
  BY LenProperties DEF Init
<1>4. TypeOK
  BY <1>1, <1>2, <1>3 DEF Init, TypeOK, Actors, Stages, Topic, NoQueue
<1>5. KnownQueues
  BY <1>2, <1>3 DEF Init, KnownQueues, NoJob, NoTick, NoQueue, Actors
<1>6. KnownSets
  BY DEF Init, KnownSets, Actors
<1> QED BY <1>4, <1>5, <1>6 DEF TypeInv

LEMMA TypesPreserved == TypeInv /\ [Next]_vars => TypeInv'
<1> SUFFICES ASSUME TypeInv, [Next]_vars
             PROVE  TypeInv'
  OBVIOUS
<1>1. ASSUME NEW s \in Starts, StartCommand(s)
      PROVE  TypeInv'
  BY <1>1, StartCommandTypes
<1>2. ASSUME NEW s \in Starts, StartStep(s)
      PROVE  TypeInv'
  BY <1>2, AdmissionStepTypes, BoundTypes, SelectionTypes, StepsThatOnlyMove, AuditTypes
  DEF StartStep
<1>3. ASSUME NEW a \in Advances, AdvanceCommand(a)
      PROVE  TypeInv'
  BY <1>3, AdvanceCommandTypes
<1>4. ASSUME NEW a \in Starts \cup Advances, PlayStep(a)
      PROVE  TypeInv'
  BY <1>4, CreateQueueTypes, PushLandedTypes, AttemptFailedTypes DEF PlayStep
<1>5. ASSUME NEW t \in Ticks, TickCommand(t) \/ TickStep(t)
      PROVE  TypeInv'
  <2>1. CASE TickFailed(t)
    BY <2>1, QuietTicks, TickEndsTypes DEF TickFailed, TickMoves, Moves
  <2> QED BY <1>5, <2>1, TickCommandTypes, TickAuthorisedTypes, TickReadTypes, TickBuiltTypes,
             TickExtendedTypes DEF TickStep
<1>6. CASE Environment
  BY <1>6, EnvironmentTypes
<1>7. CASE UNCHANGED vars
  BY <1>7 DEF vars, TypeInv, TypeOK, KnownQueues, KnownSets
<1> QED BY <1>1, <1>2, <1>3, <1>4, <1>5, <1>6, <1>7 DEF Next

\* Whatever starts, advances and ticks do to each other, every variable keeps its type,
\* every queue id that SESSION, the device, a handler or a tick holds is that of a queue
\* Plex was asked for (KnownQueues), and a handler past its admission, or a tick, has the
\* set it is about (KnownSets).
THEOREM SessionTypes == Spec => [](TypeOK /\ KnownQueues /\ KnownSets)
<1>1. TypeInv => TypeOK /\ KnownQueues /\ KnownSets
  BY DEF TypeInv
<1> QED BY <1>1, TypesInitially, TypesPreserved, PTL DEF Spec

-----------------------------------------------------------------------------
(* The lineup, the target and the resume plan.                             *)

\* The awaits of a start whose lineup has been committed.
Committed == {"joining", "waking", "profiling", "probing", "creating", "pushing", "backoff",
              "auditing", "stopping", "done"}

\* Inductive strengthening of LineupOfOneStart: the start the plan is armed for is past
\* every step in which a start writes its set or its items.
LineupInv ==
    /\ armed = NoStart => session.queue = << >>
    /\ armed # NoStart =>
          /\ pc[armed] \in Committed
          /\ session.queue = job[armed].items
          /\ session.target = Length(SetCfg[job[armed].set])

\* A step after which every committed start is still committed to the same lineup.
KeepsLineups ==
    /\ armed' = armed /\ session'.queue = session.queue /\ session'.target = session.target
    /\ \A s \in Starts : pc[s] \in Committed =>
          pc'[s] \in Committed /\ job'[s].items = job[s].items /\ job'[s].set = job[s].set

LEMMA KeptLineups ==
    ASSUME TypeInv, LineupInv, KeepsLineups
    PROVE  LineupInv'
BY DEF TypeInv, TypeOK, LineupInv, KeepsLineups

\* A step of one handler that has not committed, or that leaves its lineup alone.
LEMMA OwnStepKeeps ==
    ASSUME TypeInv, NEW a \in Actors, NEW stage \in Stages, pc' = [pc EXCEPT ![a] = stage],
           armed' = armed, session'.queue = session.queue, session'.target = session.target,
           \A s \in Starts \ {a} : job'[s] = job[s],
           a \in Starts /\ pc[a] \in Committed =>
              stage \in Committed /\ job'[a].items = job[a].items /\ job'[a].set = job[a].set
    PROVE  KeepsLineups
BY DEF TypeInv, TypeOK, KeepsLineups

LEMMA CommitLineup ==
    ASSUME TypeInv, NEW s \in Starts, NEW items, Commit(s, items)
    PROVE  LineupInv'
<1> USE SessionAssumption
<1>1. PICK lineup :
         /\ session' = [session EXCEPT !.queue = lineup, !.queuedTotal = Len(lineup),
                                       !.target = TargetOf(s)]
         /\ armed' = s
         /\ job' = [job EXCEPT ![s].items = lineup]
         /\ pc' = [pc EXCEPT ![s] = HandoffStage(s)]
  BY DEF Commit
<1>2. HandoffStage(s) \in Committed
  BY DEF HandoffStage, Committed
<1>3. session'.queue = lineup /\ session'.target = TargetOf(s)
  BY <1>1 DEF TypeInv, TypeOK, Session
<1>4. job'[s].items = lineup /\ job'[s].set = job[s].set
  BY <1>1 DEF TypeInv, TypeOK, Job
<1>5. pc'[s] \in Committed
  BY <1>1, <1>2 DEF TypeInv, TypeOK, Actors
<1> QED BY <1>1, <1>3, <1>4, <1>5 DEF LineupInv, TargetOf

LEMMA EarlyStepKeeps ==
    ASSUME TypeInv, NEW s \in Starts,
           StartCommand(s) \/ PlexOpened(s) \/ ProfileDetected(s) \/ GateSettled(s) \/ Bound(s)
              \/ SelectionFailed(s)
    PROVE  KeepsLineups
<1>1. pc[s] \notin Committed
  BY DEF StartCommand, PlexOpened, ProfileDetected, GateSettled, Bound, SelectionFailed, Committed
<1>2. armed' = armed /\ session'.queue = session.queue /\ session'.target = session.target
  BY DEF StartCommand, PlexOpened, ProfileDetected, GateSettled, Bound, SelectionFailed,
         NothingToPlay, SessionUnchanged, TypeInv, TypeOK, Session
<1>3. \E stage \in Stages : pc' = [pc EXCEPT ![s] = stage]
  BY StartCommandMoves, StartStepMoves DEF StartArrival, OwnStep, Arrived, StartStep
<1>4. \A r \in Starts \ {s} : job'[r] = job[r]
  <2>1. ASSUME NEW j, Resolve(s, j)
        PROVE  \A r \in Starts \ {s} : job'[r] = job[r]
    BY <2>1 DEF Resolve, Admit, TypeInv, TypeOK
  <2>2. CASE StartCommand(s)
    <3>1. PICK payload \in Payloads :
             IF AdbEnabled THEN job' = [job EXCEPT ![s] = JobOf(payload)]
                           ELSE Resolve(s, JobOf(payload))
      BY <2>2 DEF StartCommand
    <3> QED BY <2>1, <3>1 DEF TypeInv, TypeOK
  <2>3. CASE PlexOpened(s)
    BY <2>1, <2>3 DEF PlexOpened
  <2>4. CASE ProfileDetected(s)
    BY <2>4 DEF ProfileDetected, Admit, TypeInv, TypeOK
  <2>5. CASE GateSettled(s) \/ Bound(s) \/ SelectionFailed(s)
    BY <2>5 DEF GateSettled, Bound, SelectionFailed, NothingToPlay, TypeInv, TypeOK
  <2> QED BY <2>2, <2>3, <2>4, <2>5
<1> QED BY <1>1, <1>2, <1>3, <1>4, OwnStepKeeps DEF Actors

LEMMA SelectionLineup ==
    ASSUME TypeInv, LineupInv, NEW s \in Starts, LineupBuilt(s) \/ QueueRecorded(s)
    PROVE  LineupInv'
<1>1. pc[s] \notin Committed
  BY DEF LineupBuilt, QueueRecorded, Committed
<1>2. CASE \E items : Commit(s, items)
  BY <1>2, CommitLineup
<1>3. CASE ~ \E items : Commit(s, items)
  <2>1. /\ UNCHANGED <<armed, session>>
        /\ \/ UNCHANGED job
           \/ \E items : job' = [job EXCEPT ![s].items = items]
    BY <1>3 DEF LineupBuilt, QueueRecorded, NothingToPlay, SessionUnchanged
  <2>2. \A r \in Starts \ {s} : job'[r] = job[r]
    BY <2>1 DEF TypeInv, TypeOK
  <2>3. \E stage \in Stages : pc' = [pc EXCEPT ![s] = stage]
    BY StartStepMoves DEF OwnStep, Arrived, StartStep
  <2> QED BY <1>1, <2>1, <2>2, <2>3, OwnStepKeeps, KeptLineups DEF Actors
<1> QED BY <1>2, <1>3

\* The job of a after a step that leaves its lineup alone.
LEMMA PlayStepKeeps ==
    ASSUME TypeInv, NEW a \in Starts \cup Advances, PlayStep(a)
    PROVE  KeepsLineups
<1> USE SessionAssumption
<1>1. armed' = armed /\ session'.queue = session.queue /\ session'.target = session.target
  BY DEF PlayStep, CreateQueue, CreateFailed, PushLanded, PushFailed, Finish, SessionUnchanged,
         TypeInv, TypeOK, Session
<1>2. a \in Starts => job'[a].items = job[a].items /\ job'[a].set = job[a].set
  BY DEF PlayStep, CreateQueue, CreateFailed, PushLanded, PushFailed, AttemptFailed, TypeInv,
         TypeOK, Job
<1>3. \A r \in Starts \ {a} : job'[r] = job[r]
  BY DEF PlayStep, CreateQueue, CreateFailed, PushLanded, PushFailed, AttemptFailed, TypeInv,
         TypeOK
<1>4. PICK stage \in Stages : pc' = [pc EXCEPT ![a] = stage] /\ stage \in Committed
  BY DEF PlayStep, CreateQueue, CreateFailed, PushLanded, PushFailed, AttemptFailed, Finish,
         EndsSaying, Moves, Stages, Committed
<1> QED BY <1>1, <1>2, <1>3, <1>4, OwnStepKeeps DEF Actors

LEMMA HandoffStepKeeps ==
    ASSUME TypeInv, NEW s \in Starts,
           Joined(s) \/ Woken(s) \/ ProfileDriven(s) \/ Probed(s) \/ BackedOff(s) \/ Audited(s)
              \/ AuditStopped(s)
    PROVE  KeepsLineups
<1>1. armed' = armed /\ session'.queue = session.queue /\ session'.target = session.target
      /\ job' = job
  BY DEF Joined, Woken, ProfileDriven, Probed, BackedOff, Audited, AuditStopped, Finish,
         StepUnchanged, SessionUnchanged, TypeInv, TypeOK, Session
<1>2. \E stage \in Stages \cap Committed : pc' = [pc EXCEPT ![s] = stage]
  BY DEF Joined, Woken, ProfileDriven, Probed, BackedOff, Retry, Audited, AuditStopped, Finish,
         EndsSaying, Moves, Stages, Committed
<1> QED BY <1>1, <1>2, OwnStepKeeps DEF Actors

LEMMA OthersKeep ==
    ASSUME TypeInv,
           \/ \E a \in Advances : AdvanceCommand(a)
           \/ \E t \in Ticks : TickCommand(t) \/ TickStep(t)
           \/ Environment
    PROVE  KeepsLineups
<1> USE SessionAssumption
<1>1. CASE \E a \in Advances : AdvanceCommand(a)
  <2>1. PICK a \in Advances : AdvanceCommand(a)
    BY <1>1
  <2>2. \E stage \in Stages : pc' = [pc EXCEPT ![a] = stage]
    BY <2>1 DEF AdvanceCommand, Moves, Stages
  <2>3. armed' = armed /\ session'.queue = session.queue /\ session'.target = session.target
    BY <2>1 DEF AdvanceCommand, TypeInv, TypeOK, Session
  <2>4. \A r \in Starts \ {a} : job'[r] = job[r]
    BY <2>1 DEF AdvanceCommand, TypeInv, TypeOK
  <2> QED BY <2>2, <2>3, <2>4, OwnStepKeeps DEF Actors
<1>2. CASE \E t \in Ticks : TickCommand(t) \/ TickStep(t)
  <2>1. PICK t \in Ticks : TickCommand(t) \/ TickStep(t)
    BY <1>2
  <2>2. \E stage \in Stages : pc' = [pc EXCEPT ![t] = stage]
    BY <2>1 DEF TickCommand, TickStep, TickAuthorised, TickRead, TickBuilt, TickExtended,
                TickFailed, TickMoves, Moves, Stages
  <2>3. armed' = armed /\ session'.queue = session.queue /\ session'.target = session.target
        /\ job' = job
    BY <2>1 DEF TickCommand, TickStep, TickAuthorised, TickRead, TickBuilt, TickExtended,
                TickFailed, TickMoves, SessionUnchanged, TypeInv, TypeOK, Session
  <2> QED BY <2>2, <2>3, OwnStepKeeps DEF Actors
<1>3. CASE Environment
  BY <1>3 DEF Environment, ViewerNext, QueueForgotten, CooldownOver, EnvironmentUnchanged,
              KeepsLineups
<1> QED BY <1>1, <1>2, <1>3

LEMMA LineupPreserved == TypeInv /\ LineupInv /\ [Next]_vars => LineupInv'
<1> SUFFICES ASSUME TypeInv, LineupInv, [Next]_vars
             PROVE  LineupInv'
  OBVIOUS
<1>1. ASSUME NEW s \in Starts, StartCommand(s) \/ StartStep(s)
      PROVE  LineupInv'
  BY <1>1, EarlyStepKeeps, SelectionLineup, HandoffStepKeeps, KeptLineups DEF StartStep
<1>2. ASSUME NEW a \in Starts \cup Advances, PlayStep(a)
      PROVE  LineupInv'
  BY <1>2, PlayStepKeeps, KeptLineups
<1>3. CASE \/ \E a \in Advances : AdvanceCommand(a)
           \/ \E t \in Ticks : TickCommand(t) \/ TickStep(t)
           \/ Environment
  BY <1>3, OthersKeep, KeptLineups
<1>4. CASE UNCHANGED vars
  BY <1>4 DEF vars, LineupInv
<1> QED BY <1>1, <1>2, <1>3, <1>4 DEF Next

\* However starts interleave, the lineup that SESSION holds, its playback target and the
\* armed resume plan are those of one and the same start.
THEOREM LineupOfOneStartHolds == Spec => []LineupOfOneStart
<1>1. Init => LineupInv
  BY DEF Init, LineupInv
<1>2. LineupInv => LineupOfOneStart
  BY DEF LineupInv, LineupOfOneStart
<1> QED BY <1>1, <1>2, TypesInitially, TypesPreserved, LineupPreserved, PTL DEF Spec

-----------------------------------------------------------------------------
(* Top-up.  What a tick decides by it read several awaits ago, and it may  *)
(* be extending a queue that is not its set's.  The proof carries along    *)
(* the tick what it read and why that is still so, along the start what it *)
(* was given and what Plex took of it, and relates the running total to    *)
(* the queue they share.  All of it rests on the ticks and the starts      *)
(* taking turns; advances may come at any time.                            *)

Distinct(seq)      == \A i, j \in DOMAIN seq : seq[i] = seq[j] => i = j
OfOneSet(seq, set) == \A i \in DOMAIN seq : seq[i].set = set

LEMMA DistinctItemsCount ==
    ASSUME NEW seq \in Seq(Item), Distinct(seq)
    PROVE  Cardinality(ItemsOf(seq)) = Len(seq)
<1> DEFINE S == 1..Len(seq)
           f == [i \in S |-> seq[i]]
<1>1. Len(seq) \in Nat /\ DOMAIN seq = S
  OBVIOUS
<1>2. IsFiniteSet(S) /\ Cardinality(S) = Len(seq)
  BY <1>1, FS_Interval, SMTT(30)
<1>3. f \in Surjection(S, ItemsOf(seq))
  BY <1>1 DEF Surjection, ItemsOf
<1>4. f \in Injection(S, ItemsOf(seq))
  BY <1>1 DEF Injection, IsInjective, Distinct, ItemsOf
<1> HIDE DEF S, f
<1>5. Cardinality(ItemsOf(seq)) = Cardinality(S)
  BY <1>2, <1>3, <1>4, FS_Surjection
<1> QED BY <1>2, <1>5

(* What an engine call returns. *)
LEMMA LineupsAreRuns ==
    ASSUME NEW set \in Sets, NEW n \in Nat, NEW lineup \in LineupsUpTo(set, n)
    PROVE  lineup \in Seq(Item) /\ Distinct(lineup) /\ OfOneSet(lineup, set) /\ Len(lineup) <= n
<1>1. PICK from \in 1..Pool[set], k \in 0..n : lineup = Run(set, from, k)
  BY DEF LineupsUpTo
<1>2. Pool[set] \in Nat
  BY LibraryAssumption
<1>3. DOMAIN lineup = 1..k /\ \A i \in 1..k : lineup[i] = [set |-> set, nr |-> from + i - 1]
  BY <1>1, <1>2 DEF Run
<1>4. lineup \in Seq(Item) /\ Len(lineup) = k
  BY <1>3 DEF LineupsUpTo
<1>5. Distinct(lineup)
  BY <1>1, <1>2, <1>3 DEF Distinct
<1> QED BY <1>3, <1>4, <1>5 DEF OfOneSet

LEMMA TakeProperties ==
    ASSUME NEW S, NEW seq \in Seq(S), NEW n \in Nat
    PROVE  /\ Take(seq, n) \in Seq(S)
           /\ Len(Take(seq, n)) = IF n < Len(seq) THEN n ELSE Len(seq)
           /\ \A i \in DOMAIN Take(seq, n) : i \in DOMAIN seq /\ Take(seq, n)[i] = seq[i]
<1> DEFINE m == IF n < Len(seq) THEN n ELSE Len(seq)
<1>1. m \in Nat /\ m <= Len(seq) /\ Len(seq) \in Nat /\ DOMAIN seq = 1..Len(seq)
  BY LenProperties
<1>2. \A i \in 1..m : i \in DOMAIN seq /\ seq[i] \in S
  BY <1>1, ElementOfSeq
<1> HIDE DEF m
<1>3. /\ SubSeq(seq, 1, m) \in Seq(S) /\ Len(SubSeq(seq, 1, m)) = m
      /\ \A i \in 1..m : SubSeq(seq, 1, m)[i] = seq[i]
  BY <1>1, <1>2, SubSeqProperties
<1>4. DOMAIN SubSeq(seq, 1, m) = 1..m
  BY <1>3, LenProperties
<1>5. Take(seq, n) = SubSeq(seq, 1, m)
  BY DEF Take, m
<1>6. m = IF n < Len(seq) THEN n ELSE Len(seq)
  BY DEF m
<1> QED BY <1>2, <1>3, <1>4, <1>5, <1>6

LEMMA TakenLineup ==
    ASSUME NEW seq \in Seq(Item), NEW n \in Nat, Distinct(seq)
    PROVE  /\ Take(seq, n) \in Seq(Item) /\ Distinct(Take(seq, n))
           /\ Len(Take(seq, n)) <= Len(seq) /\ Len(Take(seq, n)) <= n
           /\ ItemsOf(Take(seq, n)) \subseteq ItemsOf(seq)
           /\ \A set : OfOneSet(seq, set) => OfOneSet(Take(seq, n), set)
<1>1. Len(seq) \in Nat
  BY LenProperties
<1>2. /\ Take(seq, n) \in Seq(Item)
      /\ Len(Take(seq, n)) <= Len(seq) /\ Len(Take(seq, n)) <= n
  BY <1>1, TakeProperties
<1>3. \A i \in DOMAIN Take(seq, n) : i \in DOMAIN seq /\ Take(seq, n)[i] = seq[i]
  BY TakeProperties
<1>4. Distinct(Take(seq, n)) /\ ItemsOf(Take(seq, n)) \subseteq ItemsOf(seq)
  BY <1>3 DEF Distinct, ItemsOf
<1>5. \A set : OfOneSet(seq, set) => OfOneSet(Take(seq, n), set)
  BY <1>3 DEF OfOneSet
<1> QED BY <1>2, <1>4, <1>5

(* What a top-up has left once the queue's own items are filtered out. *)
LEMMA FreshItems ==
    ASSUME NEW built \in Seq(Item), Distinct(built), NEW seen \in Seq(Item)
    PROVE  /\ Fresh(built, seen) \in Seq(Item) /\ Distinct(Fresh(built, seen))
           /\ ItemsOf(Fresh(built, seen)) \cap ItemsOf(seen) = {}
           /\ \A set : OfOneSet(built, set) => OfOneSet(Fresh(built, seen), set)
<1> DEFINE places == {n \in DOMAIN built : built[n] \notin ItemsOf(seen)}
           fresh  == Picked(built, places)
<1>1. fresh \in Seq(Item)
  BY PickedPicks
<1>2. PICK from : PicksBy(fresh, built, places, Len(built), from)
  BY PickedPicks
<1>3. DOMAIN fresh = 1..Len(fresh) /\ Len(fresh) \in Nat
  BY <1>1, LenProperties
<1>4. Fresh(built, seen) = fresh
  BY DEF Fresh
<1> HIDE DEF fresh
<1>5. \A i \in DOMAIN fresh : from[i] \in DOMAIN built /\ fresh[i] = built[from[i]] /\ fresh[i] \notin ItemsOf(seen)
  BY <1>2, <1>3 DEF PicksBy
<1>6. \A i, j \in DOMAIN fresh : i < j => from[i] < from[j]
  BY <1>2, <1>3 DEF PicksBy
<1>7. Distinct(fresh)
  <2> SUFFICES ASSUME NEW i \in DOMAIN fresh, NEW j \in DOMAIN fresh, fresh[i] = fresh[j] PROVE i = j
    BY DEF Distinct
  <2>1. from[i] = from[j] /\ from[i] \in DOMAIN built
    BY <1>5 DEF Distinct
  <2>2. from[i] \in Int /\ i \in Int /\ j \in Int
    BY <1>3, <2>1, LenProperties
  <2>3. ~(i < j) /\ ~(j < i)
    BY <1>6, <2>1, <2>2
  <2> QED BY <2>2, <2>3
<1>8. ItemsOf(fresh) \cap ItemsOf(seen) = {}
  BY <1>5 DEF ItemsOf
<1>9. \A set : OfOneSet(built, set) => OfOneSet(fresh, set)
  BY <1>5 DEF OfOneSet
<1> QED BY <1>1, <1>4, <1>7, <1>8, <1>9

(* What Plex makes of a queue and what is added to it. *)
LEMMA InsertedItems ==
    ASSUME NEW q \in PlayQueue, q.at \in 1 .. Len(q.items), NEW items \in Seq(Item),
           NEW all, all = Inserted(q, items).items
    PROVE  /\ all \in Seq(Item) /\ Len(all) = Len(q.items) + Len(items)
           /\ \A i \in 1..Len(all) :
                 all[i] = IF i <= q.at THEN q.items[i]
                          ELSE IF i <= q.at + Len(items) THEN items[i - q.at]
                          ELSE q.items[i - Len(items)]
           /\ Inserted(q, items) = [q EXCEPT !.items = all]
<1> DEFINE n     == Len(q.items)
           front == SubSeq(q.items, 1, q.at)
           rear  == SubSeq(q.items, q.at + 1, n)
<1>1. q.items \in Seq(Item) /\ q.at \in Nat /\ n \in Nat /\ q.at <= n /\ q.at >= 1 /\ Len(items) \in Nat
  BY LenProperties DEF PlayQueue
<1>2. \A i \in 1 .. n : q.items[i] \in Item
  BY <1>1, ElementOfSeq
<1>3. front \in Seq(Item) /\ Len(front) = q.at /\ \A i \in 1..q.at : front[i] = q.items[i]
  <2>1. \A i \in 1 .. q.at : q.items[i] \in Item
    BY <1>1, <1>2
  <2> QED BY <1>1, <2>1, SubSeqProperties
<1>4. rear \in Seq(Item) /\ Len(rear) = n - q.at /\ \A i \in 1..n - q.at : rear[i] = q.items[q.at + i]
  <2>1. \A i \in q.at + 1 .. n : q.items[i] \in Item
    BY <1>1, <1>2
  <2>2. rear \in Seq(Item) /\ Len(rear) = IF q.at + 1 <= n THEN n - (q.at + 1) + 1 ELSE 0
    BY <1>1, <2>1, SubSeqProperties
  <2>3. \A i \in 1..n - (q.at + 1) + 1 : rear[i] = q.items[(q.at + 1) + i - 1]
    BY <1>1, <2>1, SubSeqProperties, SMTT(30)
  <2>4. \A i \in 1..n - q.at : i \in 1..n - (q.at + 1) + 1 /\ (q.at + 1) + i - 1 = q.at + i
    BY <1>1
  <2> HIDE DEF rear
  <2> QED BY <1>1, <2>2, <2>3, <2>4, SMTT(30)
<1> HIDE DEF front, rear
<1>5. /\ front \o items \in Seq(Item) /\ Len(front \o items) = q.at + Len(items)
      /\ \A i \in 1..q.at + Len(items) :
            (front \o items)[i] = IF i <= q.at THEN front[i] ELSE items[i - q.at]
  BY <1>1, <1>3, ConcatProperties, SMTT(30)
<1> DEFINE both == front \o items
<1> HIDE DEF both
<1>6. /\ both \o rear \in Seq(Item) /\ Len(both \o rear) = n + Len(items)
      /\ \A i \in 1..n + Len(items) :
            (both \o rear)[i] = IF i <= q.at + Len(items) THEN both[i] ELSE rear[i - (q.at + Len(items))]
  <2>1. both \in Seq(Item) /\ Len(both) = q.at + Len(items)
    BY <1>5 DEF both
  <2>2. Len(both) + Len(rear) = n + Len(items)
    BY <1>1, <1>4, <2>1
  <2>3. /\ both \o rear \in Seq(Item) /\ Len(both \o rear) = Len(both) + Len(rear)
        /\ \A i \in 1..Len(both) + Len(rear) :
              (both \o rear)[i] = IF i <= Len(both) THEN both[i] ELSE rear[i - Len(both)]
    BY <1>4, <2>1, ConcatProperties
  <2> QED BY <2>1, <2>2, <2>3
<1>7. Inserted(q, items) = [q EXCEPT !.items = both \o rear]
  BY DEF Inserted, both, front, rear
<1>8. all = both \o rear
  BY <1>7 DEF PlayQueue
<1>9. ASSUME NEW i \in 1..Len(all)
      PROVE  all[i] = IF i <= q.at THEN q.items[i]
                      ELSE IF i <= q.at + Len(items) THEN items[i - q.at]
                      ELSE q.items[i - Len(items)]
  <2>1. i \in 1..n + Len(items)
    BY <1>6, <1>8
  <2>2. all[i] = IF i <= q.at + Len(items) THEN both[i] ELSE rear[i - (q.at + Len(items))]
    BY <1>6, <1>8, <2>1
  <2>3. CASE i <= q.at + Len(items)
    <3>1. i \in 1..q.at + Len(items)
      BY <1>1, <2>1, <2>3
    <3>2. both[i] = IF i <= q.at THEN front[i] ELSE items[i - q.at]
      BY <1>5, <3>1 DEF both
    <3>3. i <= q.at => front[i] = q.items[i]
      BY <1>1, <1>3, <3>1
    <3> QED BY <2>2, <2>3, <3>2, <3>3
  <2>4. CASE ~(i <= q.at + Len(items))
    <3>1. /\ i - (q.at + Len(items)) \in 1..n - q.at /\ ~(i <= q.at)
          /\ q.at + (i - (q.at + Len(items))) = i - Len(items)
      BY <1>1, <2>1, <2>4
    <3>2. rear[i - (q.at + Len(items))] = q.items[i - Len(items)]
      BY <1>4, <3>1
    <3> QED BY <2>2, <2>4, <3>1, <3>2
  <2> QED BY <2>3, <2>4
<1> QED BY <1>6, <1>7, <1>8, <1>9

LEMMA InsertedFresh ==
    ASSUME NEW q \in PlayQueue, q.at \in 1 .. Len(q.items), NEW items \in Seq(Item),
           NEW all, all = Inserted(q, items).items, Distinct(q.items), Distinct(items),
           ItemsOf(items) \cap ItemsOf(q.items) = {}
    PROVE  Distinct(all)
<1>1. Len(q.items) \in Nat /\ Len(items) \in Nat /\ q.at \in 1..Len(q.items)
      /\ DOMAIN q.items = 1..Len(q.items) /\ DOMAIN items = 1..Len(items)
  BY LenProperties DEF PlayQueue
<1>2. DOMAIN all = 1..Len(q.items) + Len(items)
  BY InsertedItems, LenProperties
<1> DEFINE Old(i) == IF i <= q.at THEN i ELSE i - Len(items)
           IsNew(i) == q.at < i /\ i <= q.at + Len(items)
<1>3. ASSUME NEW i \in DOMAIN all
      PROVE  /\ IsNew(i) => i - q.at \in DOMAIN items /\ all[i] = items[i - q.at]
             /\ ~IsNew(i) => Old(i) \in DOMAIN q.items /\ all[i] = q.items[Old(i)]
             /\ i \in Nat
  <2>1. all[i] = IF i <= q.at THEN q.items[i]
                 ELSE IF i <= q.at + Len(items) THEN items[i - q.at]
                 ELSE q.items[i - Len(items)]
    BY <1>1, <1>2, InsertedItems, SMTT(30)
  <2>2. i \in 1..Len(q.items) + Len(items)
    BY <1>2
  <2> QED BY <1>1, <2>1, <2>2, SMTT(30)
<1>4. \A i \in DOMAIN items, j \in DOMAIN q.items : items[i] # q.items[j]
  BY DEF ItemsOf
<1> SUFFICES ASSUME NEW i \in DOMAIN all, NEW j \in DOMAIN all, all[i] = all[j] PROVE i = j
  BY DEF Distinct
<1>5. CASE IsNew(i) /\ IsNew(j)
  <2>1. i - q.at = j - q.at
    BY <1>3, <1>5 DEF Distinct
  <2> QED BY <1>1, <1>3, <2>1
<1>6. CASE ~IsNew(i) /\ ~IsNew(j)
  <2>1. Old(i) = Old(j)
    BY <1>3, <1>6 DEF Distinct
  <2> QED BY <1>1, <1>3, <1>6, <2>1
<1>7. CASE IsNew(i) /\ ~IsNew(j)
  BY <1>3, <1>4, <1>7
<1>8. CASE ~IsNew(i) /\ IsNew(j)
  BY <1>3, <1>4, <1>8
<1> QED BY <1>5, <1>6, <1>7, <1>8

(* Who the queue's items are of when a top-up adds to it. *)
LEMMA InsertedOfOneSet ==
    ASSUME NEW q \in PlayQueue, q.at \in 1 .. Len(q.items), NEW items \in Seq(Item),
           NEW all, all = Inserted(q, items).items, NEW set, OfOneSet(all, set)
    PROVE  OfOneSet(q.items, set) /\ OfOneSet(items, set)
<1>1. Len(q.items) \in Nat /\ Len(items) \in Nat /\ q.at \in 1..Len(q.items)
      /\ DOMAIN q.items = 1..Len(q.items) /\ DOMAIN items = 1..Len(items)
  BY LenProperties DEF PlayQueue
<1>2. DOMAIN all = 1..Len(q.items) + Len(items) /\ Len(all) = Len(q.items) + Len(items)
  <2>1. all \in Seq(Item) /\ Len(all) = Len(q.items) + Len(items)
    BY InsertedItems
  <2> QED BY <2>1, LenProperties
<1>3. \A i \in 1..Len(q.items) + Len(items) :
         all[i] = IF i <= q.at THEN q.items[i]
                  ELSE IF i <= q.at + Len(items) THEN items[i - q.at]
                  ELSE q.items[i - Len(items)]
  BY <1>2, InsertedItems
<1>4. ASSUME NEW i \in DOMAIN items PROVE items[i].set = set
  <2> DEFINE k == q.at + i
  <2>1. k \in 1..Len(q.items) + Len(items) /\ ~(k <= q.at) /\ k <= q.at + Len(items) /\ k - q.at = i
    BY <1>1
  <2> HIDE DEF k
  <2>2. all[k] = items[i] /\ k \in DOMAIN all
    BY <1>2, <1>3, <2>1
  <2> QED BY <2>2 DEF OfOneSet
<1>5. ASSUME NEW i \in DOMAIN q.items PROVE q.items[i].set = set
  <2>1. CASE i <= q.at
    <3>1. i \in DOMAIN all /\ all[i] = q.items[i]
      BY <1>1, <1>2, <1>3, <2>1
    <3> QED BY <3>1 DEF OfOneSet
  <2>2. CASE ~(i <= q.at)
    <3>1. i + Len(items) \in DOMAIN all /\ all[i + Len(items)] = q.items[i]
      BY <1>1, <1>2, <1>3, <2>2, SMTT(30)
    <3> QED BY <3>1 DEF OfOneSet
  <2> QED BY <2>1, <2>2
<1> QED BY <1>4, <1>5 DEF OfOneSet

-----------------------------------------------------------------------------
(* One command at a time.                                                  *)

\* No start and no tick arrives while another command is handled; an advance may.
Serial == "start" \notin Overlap /\ "tick" \notin Overlap

OneAtATime == \A a, b \in Starts \cup Ticks : InFlight(a) /\ InFlight(b) => a = b

\* A handler moves on or begins; a start or a tick begins alone.
OneMoves(a) ==
    /\ \E stage \in Arrived : pc' = [pc EXCEPT ![a] = stage]
    /\ a \in Starts \cup Ticks => InFlight(a) \/ \A b \in Actors : ~InFlight(b)

LEMMA OneMovesAtATime ==
    ASSUME Serial, [Next]_vars
    PROVE  pc' = pc \/ \E a \in Actors : OneMoves(a)
<1> USE SessionAssumption
<1>1. ASSUME NEW s \in Starts, StartCommand(s) PROVE OneMoves(s)
  <2>1. \A b \in Actors : ~InFlight(b)
    BY <1>1 DEF StartCommand, Deliverable, Serial
  <2> QED BY <1>1, <2>1, StartCommandMoves DEF StartArrival, OneMoves
<1>2. ASSUME NEW s \in Starts, StartStep(s) PROVE OneMoves(s)
  BY <1>2, StartStepMoves DEF OwnStep, OneMoves
<1>3. ASSUME NEW a \in Advances, AdvanceCommand(a) PROVE OneMoves(a)
  BY <1>3 DEF AdvanceCommand, Moves, OneMoves, Arrived, Stages
<1>4. ASSUME NEW a \in Starts \cup Advances, PlayStep(a) PROVE OneMoves(a)
  BY <1>4, PlayStepMoves DEF OwnStep, OneMoves
<1>5. ASSUME NEW t \in Ticks, TickCommand(t) PROVE OneMoves(t)
  <2>1. \A b \in Actors : ~InFlight(b)
    BY <1>5 DEF TickCommand, Deliverable, Serial
  <2> QED BY <1>5, <2>1 DEF TickCommand, TickMoves, Moves, OneMoves, Arrived, Stages
<1>6. ASSUME NEW t \in Ticks, TickStep(t) PROVE OneMoves(t)
  BY <1>6, TickStepMoves DEF OwnStep, OneMoves
<1>7. CASE Environment
  BY <1>7 DEF Environment, ViewerNext, QueueForgotten, CooldownOver, EnvironmentUnchanged
<1>8. CASE UNCHANGED vars
  BY <1>8 DEF vars
<1> QED BY <1>1, <1>2, <1>3, <1>4, <1>5, <1>6, <1>7, <1>8 DEF Next, Actors

LEMMA OneAtATimeStays ==
    ASSUME Serial, TypeInv, OneAtATime, [Next]_vars
    PROVE  OneAtATime'
<1>1. CASE pc' = pc
  BY <1>1 DEF OneAtATime, InFlight
<1>2. ASSUME NEW a \in Actors, OneMoves(a) PROVE OneAtATime'
  <2>1. \A b \in Actors \ {a} : pc'[b] = pc[b]
    BY <1>2 DEF OneMoves, TypeInv, TypeOK
  <2>2. Starts \cup Ticks \subseteq Actors
    BY DEF Actors
  <2>3. \A b \in (Starts \cup Ticks) \ {a} : InFlight(b)' = InFlight(b)
    BY <2>1, <2>2 DEF InFlight
  <2>4. a \in Starts \cup Ticks => \A b \in (Starts \cup Ticks) \ {a} : ~InFlight(b)
    BY <1>2, <2>2 DEF OneMoves, OneAtATime
  <2> QED BY <2>3, <2>4 DEF OneAtATime
<1> QED BY <1>1, <1>2, OneMovesAtATime

-----------------------------------------------------------------------------
(* The invariant.                                                          *)

\* A list is no longer than the sitting of a set.
Fits(seq, set) == Length(SetCfg[set]) # Infinite => Len(seq) <= Length(SetCfg[set])

NothingTwice ==
    /\ Distinct(session.queue)
    /\ \A a \in Starts \cup Advances : Distinct(job[a].items)
    /\ \A id \in DOMAIN queues : Distinct(queues[id].items)

\* What a tick goes by is still so: the queue it read is the one it extends and has not
\* grown, and the total has not moved since the window was sized.
TickIsRight(t) ==
    /\ pc[t] \notin {"idle", "done"} =>
          ~IsTargetMet(Length(SetCfg[tick[t].set]), session.queuedTotal)
    /\ pc[t] \in {"reading", "building", "extending"} =>
          /\ tick[t].playQueue = session.playQueue
          /\ tick[t].window = TopupWindow(Length(SetCfg[tick[t].set]), session.queuedTotal)
    /\ pc[t] \in {"building", "extending"} =>
          tick[t].seen = queues[tick[t].playQueue].items /\ tick[t].want <= tick[t].window
    /\ pc[t] = "extending" =>
          /\ Len(tick[t].slice) <= tick[t].want /\ OfOneSet(tick[t].slice, tick[t].set)
          /\ Distinct(tick[t].slice) /\ ItemsOf(tick[t].slice) \cap ItemsOf(tick[t].seen) = {}

\* A start that plays is the one the total counts for, and its queues are its lineup.
StartIsRight(s) ==
    /\ pc[s] = "recording" => Len(job[s].items) <= InitialQueueSize(Length(SetCfg[job[s].set]))
    /\ \A id \in DOMAIN queues : queues[id].by = s => pc[s] \in Committed
    /\ pc[s] \in Committed \ {"done"} =>
          /\ armed = s /\ session.queuedTotal = Len(job[s].items)
          /\ Fits(job[s].items, job[s].set)
          /\ \A id \in DOMAIN queues : queues[id].by = s =>
                /\ Len(queues[id].items) <= Len(job[s].items)
                /\ ~PlexDrops => Len(queues[id].items) = Len(job[s].items)

\* The total is never behind the queue it counts, and a queue of one set fits that set.
TotalIsRight ==
    session.playQueue # NoQueue /\ queues[session.playQueue].by = armed =>
        /\ Len(queues[session.playQueue].items) <= session.queuedTotal
        /\ ~PlexDrops => session.queuedTotal = Len(queues[session.playQueue].items)
        /\ OfOneSet(queues[session.playQueue].items, job[armed].set) =>
              Fits(queues[session.playQueue].items, job[armed].set)

TopupInv ==
    /\ TypeInv /\ LineupInv /\ OneAtATime /\ NothingTwice /\ TotalIsRight
    /\ \A t \in Ticks : TickIsRight(t)
    /\ \A s \in Starts : StartIsRight(s)

-----------------------------------------------------------------------------
(* What the steps of a start do to what the invariant is about.            *)

TotalUnchanged ==
    /\ session'.queue = session.queue /\ session'.queuedTotal = session.queuedTotal
    /\ session'.playQueue = session.playQueue /\ armed' = armed

GoesEarly(s) ==
    \E stage \in Stages : /\ pc' = [pc EXCEPT ![s] = stage]
                         /\ stage \notin {"recording"} \cup (Committed \ {"done"})
ItemsEarly(s) ==
    \A b \in Starts \cup Advances : /\ job'[b].items \in {job[b].items, << >>}
                                    /\ b # s => job'[b] = job[b]
EarlyStep(s) ==
    /\ pc[s] \notin Committed /\ GoesEarly(s) /\ ItemsEarly(s)
    /\ TotalUnchanged /\ UNCHANGED <<queues, tick>>

\* Where the lineup is kept for later, and where it is committed.
HeldStep(s, items) ==
    /\ pc' = [pc EXCEPT ![s] = "recording"] /\ job' = [job EXCEPT ![s].items = items]
    /\ UNCHANGED <<session, armed>>
CommitStep(s, items) ==
    /\ \E stage \in Committed : pc' = [pc EXCEPT ![s] = stage]
    /\ job' = [job EXCEPT ![s].items = items]
    /\ session' = [session EXCEPT !.queue = items, !.queuedTotal = Len(items),
                                  !.target = Length(SetCfg[job[s].set])]
    /\ armed' = s
SelectionStep(s, items) ==
    /\ pc[s] \in {"listing", "recording"}
    /\ items \in Seq(Item) /\ Distinct(items)
    /\ Len(items) <= InitialQueueSize(Length(SetCfg[job[s].set]))
    /\ HeldStep(s, items) \/ CommitStep(s, items)
    /\ UNCHANGED <<queues, tick>>

\* A step of a handler that plays: a start may end by remembering its queue.
CommittedStep(a) ==
    /\ pc[a] \in Committed \ {"done"} /\ \E stage \in Committed : pc' = [pc EXCEPT ![a] = stage]
    /\ \A b \in Starts \cup Advances : /\ job'[b].items = job[b].items /\ job'[b].set = job[b].set
    /\ session'.queue = session.queue /\ session'.queuedTotal = session.queuedTotal
    /\ \/ session'.playQueue = session.playQueue
       \/ a \in Starts /\ session'.playQueue = job[a].playQueue
    /\ armed' = armed /\ UNCHANGED tick

LEMMA AdmitItems ==
    ASSUME TypeInv, NEW s \in Starts, NEW j \in Job, NEW set, NEW detected, Admit(s, j, set, detected)
    PROVE  /\ \E stage \in {"done", "gating", "binding"} : pc' = [pc EXCEPT ![s] = stage]
           /\ \A b \in Starts \cup Advances : /\ b # s => job'[b] = job[b]
                                              /\ b = s => job'[b].items = j.items
<1> DEFINE adm == Admission(j, set, detected)
<1>1. pc' = [pc EXCEPT ![s] = adm.next] /\ job' = [job EXCEPT ![s] = adm.job]
  BY DEF Admit
<1>2. adm.next \in {"done", "gating", "binding"}
  BY DEF Admission
<1>3. adm.job.items = j.items
  BY DEF Admission, Job
<1> HIDE DEF adm
<1> QED BY <1>1, <1>2, <1>3 DEF TypeInv, TypeOK

LEMMA ResolveItems ==
    ASSUME TypeInv, NEW s \in Starts, NEW j \in Job, Resolve(s, j)
    PROVE  /\ \E stage \in {"done", "gating", "binding", "detecting"} : pc' = [pc EXCEPT ![s] = stage]
           /\ \A b \in Starts \cup Advances : /\ b # s => job'[b] = job[b]
                                              /\ b = s => job'[b].items = j.items
<1>1. CASE j.auto
  BY <1>1 DEF Resolve, TypeInv, TypeOK
<1>2. CASE ~j.auto
  BY <1>2, AdmitItems DEF Resolve
<1> QED BY <1>1, <1>2

LEMMA EarlySteps ==
    ASSUME TypeInv, NEW s \in Starts,
           StartCommand(s) \/ PlexOpened(s) \/ ProfileDetected(s) \/ GateSettled(s) \/ Bound(s)
              \/ SelectionFailed(s)
    PROVE  EarlyStep(s)
<1> USE SessionAssumption
<1>1. pc[s] \notin Committed
  BY DEF StartCommand, PlexOpened, ProfileDetected, GateSettled, Bound, SelectionFailed, Committed
<1>2. TotalUnchanged /\ UNCHANGED <<queues, tick>>
  <2>1. CASE Bound(s)
    <3>1. UNCHANGED <<queues, tick, armed>>
      BY <2>1 DEF Bound, PlexUnchanged, TicksUnchanged
    <3>2. \E set, profile, account : session' = [session EXCEPT !.set = set, !.profile = profile,
                                                               !.account = account, !.cursor = 0]
      BY <2>1 DEF Bound
    <3>3. session \in Session
      BY DEF TypeInv, TypeOK
    <3>4. /\ session'.queue = session.queue /\ session'.queuedTotal = session.queuedTotal
          /\ session'.playQueue = session.playQueue
      BY <3>2, <3>3 DEF Session
    <3> QED BY <3>1, <3>4 DEF TotalUnchanged
  <2>2. CASE ~Bound(s)
    <3>1. UNCHANGED <<queues, tick, armed, session>>
      BY <2>2 DEF StartCommand, PlexOpened, ProfileDetected, GateSettled, SelectionFailed,
                  NothingToPlay, SessionUnchanged, PlexUnchanged, TicksUnchanged
    <3> QED BY <3>1 DEF TotalUnchanged
  <2> QED BY <2>1, <2>2
<1>3. job \in [Starts \cup Advances -> Job] /\ s \in Starts \cup Advances /\ job[s] \in Job
  BY DEF TypeInv, TypeOK
<1>4. CASE StartCommand(s)
  <2>1. PICK payload \in Payloads :
           IF AdbEnabled
           THEN pc' = [pc EXCEPT ![s] = "opening"] /\ job' = [job EXCEPT ![s] = JobOf(payload)]
           ELSE Resolve(s, JobOf(payload))
    BY <1>4 DEF StartCommand
  <2>2. JobOf(payload) \in Job /\ JobOf(payload).items = << >>
    <3>1. NoJob \in Job /\ NoJob.items = << >>
      BY EmptySeq DEF NoJob, Job, Account, NoQueue
    <3>2. payload \in Payload
      OBVIOUS
    <3> QED BY <3>1, <3>2 DEF JobOf, Payload, Job
  <2>3. CASE AdbEnabled
    <3>1. GoesEarly(s)
      BY <2>1, <2>3 DEF GoesEarly, Stages, Committed
    <3>2. ItemsEarly(s)
      BY <1>3, <2>1, <2>2, <2>3 DEF ItemsEarly
    <3> QED BY <1>1, <1>2, <3>1, <3>2 DEF EarlyStep
  <2>4. CASE ~AdbEnabled
    <3>1. GoesEarly(s)
      BY <2>1, <2>2, <2>4, ResolveItems DEF GoesEarly, Stages, Committed
    <3>2. ItemsEarly(s)
      BY <2>1, <2>2, <2>4, ResolveItems DEF ItemsEarly
    <3> QED BY <1>1, <1>2, <3>1, <3>2 DEF EarlyStep
  <2> QED BY <2>3, <2>4
<1>5. CASE PlexOpened(s)
  <2>1. GoesEarly(s)
    BY <1>3, <1>5, ResolveItems DEF GoesEarly, PlexOpened, Stages, Committed
  <2>2. ItemsEarly(s)
    BY <1>3, <1>5, ResolveItems DEF ItemsEarly, PlexOpened
  <2> QED BY <1>1, <1>2, <2>1, <2>2 DEF EarlyStep
<1>6. CASE ProfileDetected(s)
  <2>1. \/ pc' = [pc EXCEPT ![s] = "done"] /\ job' = job
        \/ \E set, title : Admit(s, job[s], set, title)
    BY <1>6 DEF ProfileDetected
  <2>2. GoesEarly(s)
    BY <1>3, <2>1, AdmitItems DEF GoesEarly, Stages, Committed
  <2>3. ItemsEarly(s)
    BY <1>3, <2>1, AdmitItems DEF ItemsEarly
  <2> QED BY <1>1, <1>2, <2>2, <2>3 DEF EarlyStep
<1>7. CASE GateSettled(s) \/ Bound(s) \/ SelectionFailed(s)
  <2>1. GoesEarly(s)
    BY <1>7 DEF GoesEarly, GateSettled, Bound, SelectionFailed, NothingToPlay, EndsSaying, Moves, Stages, Committed
  <2>2. ItemsEarly(s)
    <3>1. CASE GateSettled(s)
      BY <1>3, <3>1 DEF ItemsEarly, GateSettled, Job
    <3>2. CASE Bound(s)
      <4>1. PICK account : job' = [job EXCEPT ![s].account = account]
        BY <3>2 DEF Bound
      <4> QED BY <1>3, <4>1 DEF ItemsEarly, Job
    <3>3. CASE SelectionFailed(s)
      BY <3>3 DEF ItemsEarly, SelectionFailed, NothingToPlay
    <3> QED BY <1>7, <3>1, <3>2, <3>3
  <2> QED BY <1>1, <1>2, <2>1, <2>2 DEF EarlyStep
<1> QED BY <1>4, <1>5, <1>6, <1>7

LEMMA CommitSteps ==
    ASSUME TypeInv, NEW s \in Starts, NEW items \in Seq(Item), Commit(s, items),
           pc[s] \in {"listing", "recording"}, Distinct(items), UNCHANGED <<queues, tick>>,
           Len(items) <= InitialQueueSize(Length(SetCfg[job[s].set]))
    PROVE  \E lineup : SelectionStep(s, lineup)
<1> DEFINE cap    == SetCfg[job[s].set].cap
           lineup == IF cap > 0 THEN Take(items, cap) ELSE items
<1>1. job[s].set \in Sets
  BY DEF TypeInv, KnownSets
<1>2. cap \in Nat /\ InitialQueueSize(Length(SetCfg[job[s].set])) \in Nat
  BY <1>1, CfgType, LengthType, SizeTypes DEF Cfg
<1>3. lineup \in Seq(Item) /\ Distinct(lineup) /\ Len(lineup) <= Len(items)
  BY <1>2, TakenLineup, LenProperties
<1>4. /\ session' = [session EXCEPT !.queue = lineup, !.queuedTotal = Len(lineup),
                                    !.target = Length(SetCfg[job[s].set])]
      /\ armed' = s /\ job' = [job EXCEPT ![s].items = lineup]
      /\ pc' = [pc EXCEPT ![s] = HandoffStage(s)]
  BY DEF Commit, TargetOf
<1> HIDE DEF lineup
<1>5. CommitStep(s, lineup)
  <2>1. HandoffStage(s) \in Committed
    BY DEF HandoffStage, Committed
  <2> QED BY <1>4, <2>1 DEF CommitStep
<1>6. Len(lineup) <= InitialQueueSize(Length(SetCfg[job[s].set]))
  BY <1>2, <1>3, LenProperties
<1> QED BY <1>3, <1>5, <1>6 DEF SelectionStep

LEMMA SelectionSteps ==
    ASSUME TypeInv, NothingTwice, NEW s \in Starts, StartIsRight(s), LineupBuilt(s) \/ QueueRecorded(s)
    PROVE  EarlyStep(s) \/ \E items : SelectionStep(s, items)
<1> USE SessionAssumption
<1>1. job[s] \in Job /\ job[s].set \in Sets /\ UNCHANGED <<queues, tick>>
  BY DEF TypeInv, TypeOK, KnownSets, LineupBuilt, QueueRecorded, PlexUnchanged, TicksUnchanged
<1>2. InitialQueueSize(Length(SetCfg[job[s].set])) \in Nat
  BY <1>1, CfgType, LengthType, SizeTypes
<1>3. pc[s] \in {"listing", "recording"} /\ pc[s] \notin Committed
  BY DEF LineupBuilt, QueueRecorded, Committed
<1>4. CASE NothingToPlay(s)
  <2>1. GoesEarly(s)
    BY <1>4 DEF NothingToPlay, EndsSaying, Moves, GoesEarly, Stages, Committed
  <2>2. ItemsEarly(s) /\ TotalUnchanged
    BY <1>4 DEF NothingToPlay, ItemsEarly, TotalUnchanged, SessionUnchanged
  <2> QED BY <1>1, <1>3, <2>1, <2>2 DEF EarlyStep
<1>5. CASE QueueRecorded(s) /\ ~NothingToPlay(s)
  <2>1. job[s].items \in Seq(Item) /\ Distinct(job[s].items) /\ Commit(s, job[s].items)
    BY <1>1, <1>5 DEF Job, NothingTwice, QueueRecorded
  <2>2. Len(job[s].items) <= InitialQueueSize(Length(SetCfg[job[s].set]))
    BY <1>5 DEF StartIsRight, QueueRecorded
  <2> QED BY <1>1, <1>3, <2>1, <2>2, CommitSteps
<1>6. CASE LineupBuilt(s) /\ ~NothingToPlay(s)
  <2>1. PICK items \in LineupsUpTo(job[s].set, InitialQueueSize(Length(SetCfg[job[s].set]))) :
           \/ HeldStep(s, items)
           \/ Commit(s, items)
    BY <1>6 DEF LineupBuilt, TargetOf, HeldStep, SessionUnchanged
  <2>2. /\ items \in Seq(Item) /\ Distinct(items)
        /\ Len(items) <= InitialQueueSize(Length(SetCfg[job[s].set]))
    BY <1>1, <1>2, LineupsAreRuns
  <2>3. CASE HeldStep(s, items)
    BY <1>1, <1>3, <2>2, <2>3 DEF SelectionStep
  <2>4. CASE Commit(s, items)
    BY <1>1, <1>3, <2>2, <2>4, CommitSteps
  <2> QED BY <2>1, <2>3, <2>4
<1> QED BY <1>4, <1>5, <1>6

LEMMA CommittedSteps ==
    ASSUME TypeInv, NEW a \in Starts \cup Advances,
           \/ PlayStep(a)
           \/ /\ a \in Starts
              /\ Joined(a) \/ Woken(a) \/ ProfileDriven(a) \/ Probed(a) \/ BackedOff(a) \/ Audited(a)
                    \/ AuditStopped(a)
    PROVE  CommittedStep(a)
<1> USE SessionAssumption
<1>1. pc[a] \in Committed \ {"done"}
  BY DEF PlayStep, CreateQueue, CreateFailed, PushLanded, PushFailed, Joined, Woken, ProfileDriven, Probed,
         BackedOff, Audited, AuditStopped, Committed
<1>2. \E stage \in Committed : pc' = [pc EXCEPT ![a] = stage]
  <2>1. CASE PlayStep(a)
    BY <2>1 DEF PlayStep, CreateQueue, CreateFailed, PushLanded, PushFailed, AttemptFailed, Finish,
                EndsSaying, Moves, Committed
  <2>2. CASE ~PlayStep(a)
    BY <2>2 DEF Joined, Woken, ProfileDriven, Probed, BackedOff, Retry, Audited, AuditStopped, Finish,
                EndsSaying, Moves, Committed
  <2> QED BY <2>1, <2>2
<1>3. \A b \in Starts \cup Advances : job'[b].items = job[b].items /\ job'[b].set = job[b].set
  <2>1. job \in [Starts \cup Advances -> Job] /\ job[a] \in Job
    BY DEF TypeInv, TypeOK
  <2>2. job' = job \/ (\E n : job' = [job EXCEPT ![a].attempts = n])
                  \/ (\E n : job' = [job EXCEPT ![a].playQueue = n])
    BY DEF PlayStep, CreateQueue, CreateFailed, PushLanded, PushFailed, AttemptFailed, Joined, Woken,
           ProfileDriven, Probed, BackedOff, Audited, AuditStopped, StepUnchanged
  <2>3. ASSUME NEW b \in Starts \cup Advances
        PROVE  job'[b].items = job[b].items /\ job'[b].set = job[b].set
    <3>1. job[b] \in Job
      BY <2>1
    <3>2. \/ job'[b] = job[b]
          \/ \E n : job'[b] = [job[b] EXCEPT !.attempts = n]
          \/ \E n : job'[b] = [job[b] EXCEPT !.playQueue = n]
      BY <2>1, <2>2
    <3> QED BY <3>1, <3>2 DEF Job
  <2> QED BY <2>3
<1>4. /\ session'.queue = session.queue /\ session'.queuedTotal = session.queuedTotal
      /\ \/ session'.playQueue = session.playQueue
         \/ a \in Starts /\ session'.playQueue = job[a].playQueue
  <2>1. session' = session \/ (a \in Starts /\ session' = [session EXCEPT !.playQueue = job[a].playQueue])
    <3>1. CASE PlayStep(a)
      BY <3>1 DEF PlayStep, CreateQueue, CreateFailed, PushLanded, PushFailed, Finish, SessionUnchanged
    <3>2. CASE a \in Starts /\ Audited(a)
      BY <3>2 DEF Finish, Audited
    <3>3. CASE Joined(a) \/ Woken(a) \/ ProfileDriven(a) \/ Probed(a) \/ BackedOff(a) \/ AuditStopped(a)
      BY <3>3 DEF Joined, Woken, ProfileDriven, Probed, BackedOff, AuditStopped, StepUnchanged, SessionUnchanged
    <3> QED BY <3>1, <3>2, <3>3
  <2> QED BY <2>1 DEF TypeInv, TypeOK, Session
<1>5. armed' = armed /\ UNCHANGED tick
  BY DEF PlayStep, CreateQueue, CreateFailed, PushLanded, PushFailed, Finish, Joined, Woken,
         ProfileDriven, Probed, BackedOff, Audited, AuditStopped, StepUnchanged, SessionUnchanged, TicksUnchanged
<1> QED BY <1>1, <1>2, <1>3, <1>4, <1>5 DEF CommittedStep

-----------------------------------------------------------------------------
(* What the steps do to the queues.                                        *)

\* The queues there are keep their items and their maker.
QueuesKept ==
    /\ DOMAIN queues \subseteq DOMAIN queues'
    /\ \A id \in DOMAIN queues : queues'[id].items = queues[id].items /\ queues'[id].by = queues[id].by

\* And a queue that was not there is of this handler's lineup, or of the start of it.
QueuesAddedBy(a) ==
    \A id \in DOMAIN queues' \ DOMAIN queues :
        /\ queues'[id].by = a /\ Distinct(queues'[id].items)
        /\ Len(queues'[id].items) <= Len(job[a].items)
        /\ ~PlexDrops => Len(queues'[id].items) = Len(job[a].items)

LEMMA AcceptedItems ==
    ASSUME NEW items \in Seq(Item), Distinct(items), NEW accepted \in Accepted(items)
    PROVE  /\ accepted \in Seq(Item) /\ Distinct(accepted) /\ Len(accepted) <= Len(items)
           /\ ItemsOf(accepted) \subseteq ItemsOf(items) /\ (~PlexDrops => accepted = items)
           /\ \A set : OfOneSet(items, set) => OfOneSet(accepted, set)
<1>1. Len(items) \in Nat
  BY LenProperties
<1>2. CASE accepted = items
  BY <1>1, <1>2
<1>3. CASE accepted # items
  <2>1. PlexDrops /\ \E n \in 0..Len(items) : accepted = Take(items, n)
    BY <1>3 DEF Accepted
  <2>2. PICK n \in Nat : accepted = Take(items, n)
    BY <1>1, <2>1
  <2> QED BY <2>1, <2>2, TakenLineup
<1> QED BY <1>2, <1>3

LEMMA QueueCreated ==
    ASSUME TypeInv, NothingTwice, NEW a \in Starts \cup Advances, CreateQueue(a)
    PROVE  QueuesKept /\ QueuesAddedBy(a)
<1>1. queues \in Seq(PlayQueue) /\ Len(queues) \in Nat /\ DOMAIN queues = 1..Len(queues)
  BY LenProperties DEF TypeInv, TypeOK
<1>2. job[a].items \in Seq(Item) /\ Distinct(job[a].items)
  BY DEF TypeInv, TypeOK, Job, NothingTwice
<1>3. PICK accepted \in Accepted(job[a].items) :
         queues' = Append(queues, [items |-> accepted, at |-> 1, by |-> a, gone |-> FALSE])
  BY DEF CreateQueue
<1> DEFINE q == [items |-> accepted, at |-> 1, by |-> a, gone |-> FALSE]
<1>4. q \in PlayQueue
  BY <1>2, AcceptedItems DEF PlayQueue
<1>5. q.items = accepted /\ q.by = a
  OBVIOUS
<1> HIDE DEF q
<1>6. queues' = Append(queues, q)
  BY <1>3 DEF q
<1>7. /\ DOMAIN queues' = 1..Len(queues) + 1
      /\ \A id \in 1..Len(queues) : queues'[id] = queues[id]
      /\ queues'[Len(queues) + 1] = q
  BY <1>1, <1>4, <1>6, AppendProperties, LenProperties
<1>8. QueuesKept
  BY <1>1, <1>7 DEF QueuesKept
<1>9. QueuesAddedBy(a)
  <2>1. \A id \in DOMAIN queues' \ DOMAIN queues : queues'[id] = q
    BY <1>1, <1>7
  <2> QED BY <1>2, <1>5, <2>1, AcceptedItems DEF QueuesAddedBy
<1> QED BY <1>8, <1>9

LEMMA QueuesOtherwise ==
    ASSUME TypeInv, [Next]_vars, ~ \E a \in Starts \cup Advances : CreateQueue(a),
           ~ \E t \in Ticks : TickExtended(t)
    PROVE  QueuesKept /\ DOMAIN queues' = DOMAIN queues
<1>1. CASE queues' = queues
  BY <1>1 DEF QueuesKept
<1>2. CASE Environment
  <2>1. queues \in Seq(PlayQueue) /\ DOMAIN queues = 1..Len(queues)
    BY LenProperties DEF TypeInv, TypeOK
  <2>2. queues' = queues \/ (\E id \in DOMAIN queues : \E n : queues' = [queues EXCEPT ![id].at = n])
                        \/ (\E id \in DOMAIN queues : \E b : queues' = [queues EXCEPT ![id].gone = b])
    <3>1. CASE ViewerNext
      <4>1. device.queue \in 0..Len(queues) /\ device.queue # 0
        BY <3>1 DEF ViewerNext, TypeInv, TypeOK, NoQueue
      <4>2. device.queue \in DOMAIN queues
        BY <2>1, <4>1
      <4> QED BY <3>1, <4>2 DEF ViewerNext
    <3>2. CASE ~ViewerNext
      BY <1>2, <3>2 DEF Environment, QueueForgotten, CooldownOver
    <3> QED BY <3>1, <3>2
  <2>3. \A id \in DOMAIN queues : queues[id] \in PlayQueue
    BY <2>1, ElementOfSeq
  <2>4. ASSUME NEW id \in DOMAIN queues
        PROVE  queues'[id].items = queues[id].items /\ queues'[id].by = queues[id].by
    <3>1. queues[id] \in PlayQueue
      BY <2>3
    <3>2. \/ queues'[id] = queues[id]
          \/ \E n : queues'[id] = [queues[id] EXCEPT !.at = n]
          \/ \E b : queues'[id] = [queues[id] EXCEPT !.gone = b]
      BY <2>2
    <3> QED BY <3>1, <3>2 DEF PlayQueue
  <2>5. DOMAIN queues' = DOMAIN queues
    BY <2>2
  <2> QED BY <2>4, <2>5 DEF QueuesKept
<1>3. CASE ~Environment
  <2>1. ASSUME NEW s \in Starts, StartCommand(s) \/ StartStep(s) PROVE queues' = queues
    BY <2>1 DEF StartCommand, StartStep, PlexOpened, ProfileDetected, GateSettled, Bound, LineupBuilt,
            QueueRecorded, SelectionFailed, Joined, Woken, ProfileDriven, Probed, BackedOff, Audited,
            AuditStopped, StepUnchanged, PlexUnchanged
  <2>2. ASSUME NEW a \in Advances, AdvanceCommand(a) PROVE queues' = queues
    BY <2>2 DEF AdvanceCommand, PlexUnchanged
  <2>3. ASSUME NEW a \in Starts \cup Advances, PlayStep(a) PROVE queues' = queues
    BY <2>3 DEF PlayStep, CreateFailed, PushLanded, PushFailed, PlexUnchanged
  <2>4. ASSUME NEW t \in Ticks, TickCommand(t) \/ TickStep(t) PROVE queues' = queues
    BY <2>4, QuietTicks DEF TickStep
  <2>5. ASSUME UNCHANGED vars PROVE queues' = queues
    BY <2>5 DEF vars
  <2> QED BY <1>1, <1>3, <2>1, <2>2, <2>3, <2>4, <2>5 DEF Next
<1> QED BY <1>2, <1>3

-----------------------------------------------------------------------------
(* What keeps each part of the invariant.                                  *)

LEMMA KnownQueue ==
    ASSUME TypeInv
    PROVE  /\ queues \in Seq(PlayQueue) /\ Len(queues) \in Nat /\ DOMAIN queues = 1..Len(queues)
           /\ session.playQueue # NoQueue => session.playQueue \in DOMAIN queues
           /\ \A id \in DOMAIN queues : /\ queues[id] \in PlayQueue /\ queues[id].by \in Starts \cup Advances
                                       /\ queues[id].items \in Seq(Item)
           /\ \A t \in Ticks : pc[t] \in {"reading", "building", "extending"} =>
                 tick[t].playQueue \in DOMAIN queues
<1>1. queues \in Seq(PlayQueue) /\ Len(queues) \in Nat /\ DOMAIN queues = 1..Len(queues)
  BY LenProperties DEF TypeInv, TypeOK
<1>2. session.playQueue # NoQueue => session.playQueue \in DOMAIN queues
  BY <1>1 DEF TypeInv, TypeOK, KnownQueues, Session, NoQueue
<1>3. \A id \in DOMAIN queues : queues[id] \in PlayQueue
  BY <1>1, ElementOfSeq
<1>4. \A t \in Ticks : pc[t] \in {"reading", "building", "extending"} =>
         tick[t].playQueue \in DOMAIN queues
  BY TickKnows
<1> QED BY <1>1, <1>2, <1>3, <1>4 DEF PlayQueue

LEMMA TicksStay ==
    ASSUME TypeInv, \A t \in Ticks : TickIsRight(t), UNCHANGED tick, \A t \in Ticks : pc'[t] = pc[t],
           QueuesKept, session'.queuedTotal = session.queuedTotal, session'.playQueue = session.playQueue
    PROVE  \A t \in Ticks : TickIsRight(t)'
<1> SUFFICES ASSUME NEW t \in Ticks PROVE TickIsRight(t)'
  OBVIOUS
<1>1. TickIsRight(t) /\ pc'[t] = pc[t] /\ tick'[t] = tick[t]
  OBVIOUS
<1>2. pc[t] \in {"building", "extending"} =>
         queues'[tick[t].playQueue].items = queues[tick[t].playQueue].items
  BY KnownQueue DEF QueuesKept
<1> QED BY <1>1, <1>2 DEF TickIsRight

LEMMA NoTicks ==
    ASSUME \A t \in Ticks : ~InFlight(t) /\ pc'[t] = pc[t]
    PROVE  \A t \in Ticks : TickIsRight(t)'
BY DEF InFlight, TickIsRight

\* A start that does not step while others do.
LEMMA StartStays ==
    ASSUME NEW s \in Starts, StartIsRight(s), pc'[s] = pc[s], QueuesKept,
           \A id \in DOMAIN queues' \ DOMAIN queues : queues'[id].by # s,
           job'[s].items = job[s].items, job'[s].set = job[s].set,
           armed' = armed, session'.queuedTotal = session.queuedTotal
    PROVE  StartIsRight(s)'
<1>1. \A id \in DOMAIN queues' : queues'[id].by = s =>
         id \in DOMAIN queues /\ queues[id].by = s /\ queues'[id].items = queues[id].items
  BY DEF QueuesKept
<1> QED BY <1>1 DEF StartIsRight, Fits

LEMMA IdleStart ==
    ASSUME NEW s \in Starts, StartIsRight(s), pc'[s] = pc[s], ~InFlight(s),
           \A id \in DOMAIN queues' : id \in DOMAIN queues /\ queues'[id].by = queues[id].by
    PROVE  StartIsRight(s)'
<1>1. pc'[s] \in {"idle", "done"}
  BY DEF InFlight
<1>2. ASSUME NEW id \in DOMAIN queues', queues'[id].by = s
      PROVE  pc'[s] \in Committed
  BY <1>2 DEF StartIsRight
<1>3. pc'[s] \notin Committed \ {"done"} /\ pc'[s] # "recording"
  BY <1>1 DEF Committed
<1> QED BY <1>2, <1>3 DEF StartIsRight

LEMMA TotalStays ==
    ASSUME TypeInv, LineupInv, TotalIsRight, QueuesKept, session'.queuedTotal = session.queuedTotal,
           session'.playQueue = session.playQueue, armed' = armed,
           armed \in Starts => job'[armed].set = job[armed].set
    PROVE  TotalIsRight'
<1> SUFFICES ASSUME session.playQueue # NoQueue, queues'[session.playQueue].by = armed
             PROVE  /\ Len(queues'[session.playQueue].items) <= session.queuedTotal
                    /\ ~PlexDrops => session.queuedTotal = Len(queues'[session.playQueue].items)
                    /\ OfOneSet(queues'[session.playQueue].items, job'[armed].set) =>
                          Fits(queues'[session.playQueue].items, job'[armed].set)
  BY DEF TotalIsRight, Fits
<1>1. session.playQueue \in DOMAIN queues
  BY KnownQueue
<1>2. /\ queues[session.playQueue].by = armed
      /\ queues'[session.playQueue].items = queues[session.playQueue].items
  BY <1>1 DEF QueuesKept
<1>3. armed \in Starts
  BY <1>1, <1>2, KnownQueue, SessionAssumption DEF TypeInv, TypeOK
<1> QED BY <1>2, <1>3 DEF TotalIsRight

LEMMA ListsStay ==
    ASSUME NothingTwice, Distinct(session'.queue), \A a \in Starts \cup Advances : Distinct(job'[a].items),
           QueuesKept, \A id \in DOMAIN queues' \ DOMAIN queues : Distinct(queues'[id].items)
    PROVE  NothingTwice'
<1>1. \A id \in DOMAIN queues' : Distinct(queues'[id].items)
  BY DEF NothingTwice, QueuesKept
<1> QED BY <1>1 DEF NothingTwice, Distinct

\* What is proved of each step.
Kept ==
    /\ NothingTwice' /\ TotalIsRight'
    /\ \A t \in Ticks : TickIsRight(t)'
    /\ \A s \in Starts : StartIsRight(s)'

\* While a start or a tick is handled, no other is.
LEMMA Alone ==
    ASSUME OneAtATime, NEW a \in Starts \cup Ticks, InFlight(a)
    PROVE  \A b \in (Starts \cup Ticks) \ {a} : ~InFlight(b)
BY DEF OneAtATime

LEMMA CommittedArmed ==
    ASSUME TypeInv, LineupInv
    PROVE  armed \in Starts => pc[armed] \in Committed
BY SessionAssumption DEF LineupInv

LEMMA EarlyKeeps ==
    ASSUME TopupInv, NEW s \in Starts, EarlyStep(s)
    PROVE  Kept
<1> USE SessionAssumption
<1>1. QueuesKept /\ UNCHANGED <<queues, tick>>
  BY DEF EarlyStep, QueuesKept
<1>2. \A b \in Actors \ {s} : pc'[b] = pc[b]
  BY DEF EarlyStep, GoesEarly, TopupInv, TypeInv, TypeOK
<1>3. NothingTwice'
  <2>1. Distinct(session'.queue)
    BY DEF EarlyStep, TotalUnchanged, TopupInv, NothingTwice
  <2>2. ASSUME NEW a \in Starts \cup Advances PROVE Distinct(job'[a].items)
    BY EmptySeq DEF EarlyStep, ItemsEarly, TopupInv, NothingTwice, Distinct
  <2> QED BY <1>1, <2>1, <2>2, ListsStay DEF TopupInv
<1>4. TotalIsRight'
  <2>1. armed \in Starts => armed # s
    BY CommittedArmed DEF EarlyStep, TopupInv
  <2>2. armed \in Starts => job'[armed].set = job[armed].set
    BY <2>1 DEF EarlyStep, ItemsEarly
  <2> QED BY <1>1, <2>2, TotalStays DEF EarlyStep, TotalUnchanged, TopupInv
<1>5. \A t \in Ticks : TickIsRight(t)'
  BY <1>1, <1>2, TicksStay DEF EarlyStep, TotalUnchanged, TopupInv, Actors
<1>6. ASSUME NEW r \in Starts PROVE StartIsRight(r)'
  <2>1. CASE r # s
    BY <1>1, <1>2, <2>1, StartStays DEF EarlyStep, ItemsEarly, TotalUnchanged, TopupInv, Actors
  <2>2. CASE r = s
    <3>1. pc'[s] \notin {"recording"} \cup (Committed \ {"done"})
      BY DEF EarlyStep, GoesEarly, TopupInv, TypeInv, TypeOK, Actors
    <3>2. \A id \in DOMAIN queues' : queues'[id].by # s
      BY <1>1 DEF EarlyStep, TopupInv, StartIsRight
    <3> QED BY <2>2, <3>1, <3>2 DEF StartIsRight
  <2> QED BY <2>1, <2>2
<1> QED BY <1>3, <1>4, <1>5, <1>6 DEF Kept

LEMMA SelectionKeeps ==
    ASSUME TopupInv, NEW s \in Starts, NEW items, SelectionStep(s, items)
    PROVE  Kept
<1> USE SessionAssumption
<1>1. /\ pc[s] \in {"listing", "recording"} /\ items \in Seq(Item) /\ Distinct(items)
      /\ Len(items) <= InitialQueueSize(Length(SetCfg[job[s].set]))
      /\ UNCHANGED <<queues, tick>> /\ job' = [job EXCEPT ![s].items = items]
  BY DEF SelectionStep, HeldStep, CommitStep
<1>2. \E stage \in {"recording"} \cup Committed : pc' = [pc EXCEPT ![s] = stage]
  BY DEF SelectionStep, HeldStep, CommitStep
<1>3. /\ \A b \in Actors \ {s} : pc'[b] = pc[b]
      /\ pc'[s] \in {"recording"} \cup Committed
  BY <1>2 DEF TopupInv, TypeInv, TypeOK, Actors
<1>4. /\ job[s].set \in Sets /\ job[s] \in Job
      /\ \A a \in (Starts \cup Advances) \ {s} : job'[a] = job[a]
      /\ job'[s].items = items /\ job'[s].set = job[s].set
  <2>1. job \in [Starts \cup Advances -> Job] /\ job[s] \in Job
    BY DEF TopupInv, TypeInv, TypeOK
  <2>2. job[s].set \in Sets
    BY <1>1 DEF TopupInv, TypeInv, KnownSets
  <2>3. job'[s] = [job[s] EXCEPT !.items = items]
    BY <1>1, <2>1
  <2>4. \A a \in (Starts \cup Advances) \ {s} : job'[a] = job[a]
    BY <1>1, <2>1
  <2> QED BY <2>1, <2>2, <2>3, <2>4 DEF Job
<1>5. InFlight(s) /\ pc[s] \notin Committed
  BY <1>1 DEF InFlight, Committed
<1>6. \A b \in (Starts \cup Ticks) \ {s} : ~InFlight(b)
  BY <1>5, Alone DEF TopupInv
<1>7. QueuesKept /\ \A id \in DOMAIN queues : queues[id].by # s
  <2>1. QueuesKept
    BY <1>1 DEF QueuesKept
  <2> QED BY <1>5, <2>1 DEF TopupInv, StartIsRight
<1>8. \/ UNCHANGED <<session, armed>> /\ pc'[s] = "recording"
      \/ /\ session'.queue = items /\ session'.queuedTotal = Len(items)
         /\ session'.playQueue = session.playQueue /\ armed' = s
  BY DEF SelectionStep, HeldStep, CommitStep, TopupInv, TypeInv, TypeOK, Session, Actors
<1>9. NothingTwice'
  <2>1. Distinct(session'.queue)
    BY <1>1, <1>8 DEF TopupInv, NothingTwice
  <2>2. ASSUME NEW a \in Starts \cup Advances PROVE Distinct(job'[a].items)
    BY <1>1, <1>4 DEF TopupInv, NothingTwice
  <2> QED BY <1>1, <1>7, <2>1, <2>2, ListsStay DEF TopupInv
<1>10. TotalIsRight'
  <2>1. CASE UNCHANGED <<session, armed>>
    <3>1. armed \in Starts => job'[armed].set = job[armed].set
      BY <1>4
    <3> QED BY <1>7, <2>1, <3>1, TotalStays DEF TopupInv
  <2>2. CASE armed' = s /\ session'.playQueue = session.playQueue
    <3>1. session.playQueue # NoQueue => session.playQueue \in DOMAIN queues
      BY KnownQueue DEF TopupInv
    <3>2. ~(session'.playQueue # NoQueue /\ queues'[session'.playQueue].by = armed')
      BY <1>1, <1>7, <2>2, <3>1
    <3> QED BY <3>2 DEF TotalIsRight
  <2> QED BY <1>8, <2>1, <2>2
<1>11. \A t \in Ticks : TickIsRight(t)'
  <2>1. \A t \in Ticks : ~InFlight(t) /\ pc'[t] = pc[t]
    BY <1>3, <1>6 DEF Actors
  <2> QED BY <2>1, NoTicks
<1>12. ASSUME NEW r \in Starts PROVE StartIsRight(r)'
  <2>1. CASE r # s
    <3>1. \A id \in DOMAIN queues' : id \in DOMAIN queues /\ queues'[id].by = queues[id].by
      BY <1>1
    <3> QED BY <1>3, <1>6, <2>1, <3>1, IdleStart DEF TopupInv, Actors
  <2>2. CASE r = s
    <3>1. \A id \in DOMAIN queues' : queues'[id].by # s
      BY <1>1, <1>7
    <3>2. CASE pc'[s] = "recording"
      <4>1. pc'[s] \notin Committed
        BY <3>2 DEF Committed
      <4> QED BY <1>1, <1>4, <2>2, <3>1, <4>1 DEF StartIsRight
    <3>3. CASE pc'[s] # "recording"
      <4>1. armed' = s /\ session'.queuedTotal = Len(job'[s].items)
        BY <1>4, <1>8, <3>3
      <4>2. Fits(items, job[s].set)
        <5>1. Length(SetCfg[job[s].set]) \in Target
          BY <1>4, CfgType, LengthType
        <5>2. Len(items) \in Nat
          BY <1>1, LenProperties
        <5> HIDE DEF Committed
        <5> QED BY <1>1, <5>1, <5>2, WindowAssumption, SentinelAssumption
                DEF Fits, Target, InitialQueueSize, Smaller
      <4>3. Fits(job'[s].items, job'[s].set)
        BY <1>4, <4>2
      <4> QED BY <2>2, <3>1, <3>3, <4>1, <4>3 DEF StartIsRight, Fits
    <3> QED BY <3>2, <3>3
  <2> QED BY <2>1, <2>2
<1> QED BY <1>9, <1>10, <1>11, <1>12 DEF Kept

LEMMA CommittedKeeps ==
    ASSUME TopupInv, NEW a \in Starts \cup Advances, CommittedStep(a), QueuesKept, QueuesAddedBy(a)
    PROVE  Kept
<1> USE SessionAssumption
<1>1. /\ pc[a] \in Committed \ {"done"} /\ pc'[a] \in Committed
      /\ \A b \in Actors \ {a} : pc'[b] = pc[b]
  BY DEF CommittedStep, TopupInv, TypeInv, TypeOK, Actors
<1>2. /\ \A b \in Starts \cup Advances : job'[b].items = job[b].items /\ job'[b].set = job[b].set
      /\ session'.queue = session.queue /\ session'.queuedTotal = session.queuedTotal
      /\ armed' = armed /\ UNCHANGED tick
  BY DEF CommittedStep
<1>3. NothingTwice'
  <2>1. Distinct(session'.queue)
    BY <1>2 DEF TopupInv, NothingTwice
  <2>2. \A b \in Starts \cup Advances : Distinct(job'[b].items)
    BY <1>2 DEF TopupInv, NothingTwice
  <2>3. \A id \in DOMAIN queues' \ DOMAIN queues : Distinct(queues'[id].items)
    BY DEF QueuesAddedBy
  <2> QED BY <2>1, <2>2, <2>3, ListsStay DEF TopupInv
<1>4. ASSUME NEW s \in Starts, s # a PROVE StartIsRight(s)'
  <2>1. \A id \in DOMAIN queues' \ DOMAIN queues : queues'[id].by # s
    BY <1>4 DEF QueuesAddedBy
  <2>2. pc'[s] = pc[s]
    BY <1>1, <1>4 DEF Actors
  <2> QED BY <1>2, <2>1, <2>2, StartStays DEF TopupInv
<1>5. CASE a \in Advances
  <2>1. session'.playQueue = session.playQueue
    BY <1>5 DEF CommittedStep
  <2>2. TotalIsRight'
    BY <1>2, <2>1, TotalStays DEF TopupInv
  <2>3. \A t \in Ticks : pc'[t] = pc[t]
    BY <1>1, <1>5 DEF Actors
  <2>4. \A t \in Ticks : TickIsRight(t)'
    BY <1>2, <2>1, <2>3, TicksStay DEF TopupInv
  <2> QED BY <1>3, <1>4, <1>5, <2>2, <2>4 DEF Kept
<1>6. CASE a \in Starts
  <2>1. InFlight(a)
    BY <1>1 DEF InFlight, Committed
  <2>2. \A t \in Ticks : TickIsRight(t)'
    <3>1. \A t \in Ticks : ~InFlight(t) /\ pc'[t] = pc[t]
      BY <1>1, <1>6, <2>1, Alone DEF Actors, TopupInv
    <3> QED BY <3>1, NoTicks
  <2>3. /\ armed = a /\ session.queuedTotal = Len(job[a].items) /\ Fits(job[a].items, job[a].set)
        /\ \A id \in DOMAIN queues : queues[id].by = a =>
              /\ Len(queues[id].items) <= Len(job[a].items)
              /\ ~PlexDrops => Len(queues[id].items) = Len(job[a].items)
    BY <1>1, <1>6 DEF TopupInv, StartIsRight
  <2>4. \A id \in DOMAIN queues' : queues'[id].by = a =>
              /\ Len(queues'[id].items) <= Len(job[a].items)
              /\ ~PlexDrops => Len(queues'[id].items) = Len(job[a].items)
    BY <2>3 DEF QueuesKept, QueuesAddedBy
  <2>5. StartIsRight(a)'
    <3>1. pc'[a] # "recording"
      BY <1>1 DEF Committed
    <3>2. Fits(job'[a].items, job'[a].set)
      BY <1>2, <2>3
    <3> QED BY <1>1, <1>2, <2>3, <2>4, <3>1, <3>2 DEF StartIsRight, Fits
  <2>6. TotalIsRight'
    <3> DEFINE id == session'.playQueue
    <3> SUFFICES ASSUME id # NoQueue, queues'[id].by = armed'
                 PROVE  /\ Len(queues'[id].items) <= session'.queuedTotal
                        /\ ~PlexDrops => session'.queuedTotal = Len(queues'[id].items)
                        /\ Fits(queues'[id].items, job'[armed'].set)
      BY DEF TotalIsRight, Fits
    <3>1. id \in DOMAIN queues'
      <4>1. id = session.playQueue \/ id = job[a].playQueue
        BY DEF CommittedStep
      <4>2. job[a].playQueue \in Nat /\ job[a].playQueue <= Len(queues)
        BY DEF TopupInv, TypeInv, TypeOK, KnownQueues, Job
      <4> HIDE DEF id
      <4>3. id \in DOMAIN queues
        BY <4>1, <4>2, KnownQueue DEF TopupInv, NoQueue
      <4> QED BY <4>3 DEF QueuesKept
    <3> HIDE DEF id
    <3>2. /\ Len(queues'[id].items) <= Len(job[a].items)
          /\ ~PlexDrops => Len(queues'[id].items) = Len(job[a].items)
      BY <1>2, <2>3, <2>4, <3>1
    <3>3. Fits(queues'[id].items, job[a].set)
      <4>1. /\ job[a].items \in Seq(Item) /\ job[a].set \in Sets
        BY <1>1, <1>6 DEF TopupInv, TypeInv, TypeOK, KnownSets, Job, Committed
      <4>2. Length(SetCfg[job[a].set]) \in Target /\ Len(job[a].items) \in Nat
        BY <4>1, CfgType, LengthType, LenProperties
      <4>3. Len(queues'[id].items) \in Nat
        BY <3>1, LenProperties
      <4> QED BY <2>3, <3>2, <4>2, <4>3, SentinelAssumption DEF Fits, Target
    <3> QED BY <1>2, <2>3, <3>2, <3>3
  <2> QED BY <1>3, <1>4, <2>2, <2>5, <2>6 DEF Kept
<1> QED BY <1>5, <1>6

LEMMA AdvanceKeeps ==
    ASSUME TopupInv, NEW a \in Advances, AdvanceCommand(a)
    PROVE  Kept
<1> USE SessionAssumption
<1>1. UNCHANGED <<queues, tick, armed>> /\ QueuesKept
  BY DEF AdvanceCommand, PlexUnchanged, TicksUnchanged, QueuesKept
<1>2. session.queue \in Seq(Item) /\ session.cursor \in Nat
  BY DEF TopupInv, TypeInv, TypeOK, Session
<1>3. /\ session'.queue = session.queue /\ session'.queuedTotal = session.queuedTotal
      /\ session'.playQueue = session.playQueue
  BY DEF AdvanceCommand, TopupInv, TypeInv, TypeOK, Session
<1>4. \A b \in Actors \ {a} : pc'[b] = pc[b]
  BY DEF AdvanceCommand, Moves, TopupInv, TypeInv, TypeOK
<1>5. \A b \in (Starts \cup Advances) \ {a} : job'[b] = job[b]
  BY DEF AdvanceCommand, TopupInv, TypeInv, TypeOK
<1>6. Distinct(job'[a].items)
  <2>1. CASE session.queue = << >>
    BY <2>1 DEF AdvanceCommand, TopupInv, NothingTwice
  <2>2. CASE session.queue # << >>
    <3> DEFINE last   == Len(session.queue) - 1
               cursor == IF session.cursor + 1 < last THEN session.cursor + 1 ELSE last
               rest   == SubSeq(session.queue, cursor + 1, last + 1)
    <3>1. Len(session.queue) \in Nat \ {0}
      BY <1>2, <2>2, EmptySeq
    <3>2. cursor \in Nat /\ cursor + 1 \in 1 .. last + 1 /\ last + 1 = Len(session.queue)
      BY <1>2, <3>1
    <3>3. job'[a].items = rest
      <4>1. job' = [job EXCEPT ![a] = [NoJob EXCEPT !.set = session.set, !.account = session.account,
                                                    !.items = rest]]
        BY <2>2 DEF AdvanceCommand
      <4> HIDE DEF rest
      <4>2. job'[a] = [NoJob EXCEPT !.set = session.set, !.account = session.account, !.items = rest]
        BY <4>1 DEF TopupInv, TypeInv, TypeOK
      <4> QED BY <4>2 DEF NoJob
    <3> HIDE DEF cursor
    <3>4. \A i \in cursor + 1 .. last + 1 : session.queue[i] \in Item
      BY <1>2, <3>2, ElementOfSeq
    <3>5. /\ rest \in Seq(Item) /\ Len(rest) = last - cursor + 1
          /\ \A i \in 1 .. last - cursor + 1 : rest[i] = session.queue[cursor + i]
      <4>1. cursor + 1 \in Int /\ last + 1 \in Int /\ cursor + 1 <= last + 1
        BY <3>1, <3>2
      <4>2. rest \in Seq(Item) /\ Len(rest) = (last + 1) - (cursor + 1) + 1
        BY <3>4, <4>1, SubSeqProperties
      <4>3. \A i \in 1 .. (last + 1) - (cursor + 1) + 1 : rest[i] = session.queue[(cursor + 1) + i - 1]
        BY <3>4, <4>1, SubSeqProperties
      <4>4. /\ (last + 1) - (cursor + 1) + 1 = last - cursor + 1
            /\ \A i \in 1 .. last - cursor + 1 : (cursor + 1) + i - 1 = cursor + i
        BY <3>1, <3>2
      <4> HIDE DEF rest, last
      <4> QED BY <4>2, <4>3, <4>4
    <3> HIDE DEF rest
    <3>6. Distinct(session.queue) /\ DOMAIN session.queue = 1 .. last + 1
      BY <1>2, <3>2, LenProperties DEF TopupInv, NothingTwice
    <3>7. DOMAIN rest = 1 .. last - cursor + 1
      BY <3>5, LenProperties
    <3> SUFFICES ASSUME NEW i \in DOMAIN rest, NEW j \in DOMAIN rest, rest[i] = rest[j]
                 PROVE  i = j
      BY <3>3 DEF Distinct
    <3>8. /\ cursor + i \in DOMAIN session.queue /\ cursor + j \in DOMAIN session.queue
          /\ i \in Int /\ j \in Int
      BY <3>1, <3>2, <3>6, <3>7
    <3>9. session.queue[cursor + i] = session.queue[cursor + j]
      BY <3>5, <3>7
    <3>10. cursor + i = cursor + j
      BY <3>6, <3>8, <3>9 DEF Distinct
    <3> QED BY <3>2, <3>8, <3>10
  <2> QED BY <2>1, <2>2
<1>7. NothingTwice'
  <2>1. Distinct(session'.queue)
    BY <1>3 DEF TopupInv, NothingTwice
  <2>2. \A b \in Starts \cup Advances : Distinct(job'[b].items)
    BY <1>5, <1>6 DEF TopupInv, NothingTwice
  <2> QED BY <1>1, <2>1, <2>2, ListsStay DEF TopupInv
<1>8. TotalIsRight'
  BY <1>1, <1>3, <1>5, TotalStays DEF TopupInv
<1>9. \A t \in Ticks : TickIsRight(t)'
  <2>1. \A t \in Ticks : pc'[t] = pc[t]
    BY <1>4 DEF Actors
  <2> QED BY <1>1, <1>3, <2>1, TicksStay DEF TopupInv
<1>10. ASSUME NEW s \in Starts PROVE StartIsRight(s)'
  <2>1. pc'[s] = pc[s] /\ job'[s] = job[s]
    BY <1>4, <1>5 DEF Actors
  <2> QED BY <1>1, <1>3, <2>1, StartStays DEF TopupInv
<1> QED BY <1>7, <1>8, <1>9, <1>10 DEF Kept

\* Nothing but the locals of ticks, the cooldowns, the device and what Plex says of a
\* queue besides its items.
AllElseStays ==
    /\ UNCHANGED <<session, job, armed>> /\ QueuesKept /\ DOMAIN queues' = DOMAIN queues
    /\ \A a \in Starts \cup Advances : pc'[a] = pc[a]

LEMMA AllElseKeeps ==
    ASSUME TopupInv, AllElseStays
    PROVE  NothingTwice' /\ TotalIsRight' /\ \A s \in Starts : StartIsRight(s)'
<1>1. NothingTwice'
  <2>1. Distinct(session'.queue) /\ \A b \in Starts \cup Advances : Distinct(job'[b].items)
    BY DEF AllElseStays, TopupInv, NothingTwice
  <2> QED BY <2>1, ListsStay DEF AllElseStays, TopupInv
<1>2. TotalIsRight'
  BY TotalStays DEF AllElseStays, TopupInv
<1>3. ASSUME NEW s \in Starts PROVE StartIsRight(s)'
  BY StartStays DEF AllElseStays, TopupInv
<1> QED BY <1>1, <1>2, <1>3

LEMMA EnvironmentKeeps ==
    ASSUME TopupInv, [Next]_vars, Environment \/ UNCHANGED vars
    PROVE  Kept
<1>1. /\ UNCHANGED <<session, job, armed, pc, tick>>
      /\ ~ (\E a \in Starts \cup Advances : CreateQueue(a)) /\ ~ (\E t \in Ticks : TickExtended(t))
  <2>1. UNCHANGED <<session, job, armed, pc, tick>>
    BY DEF Environment, ViewerNext, QueueForgotten, CooldownOver, EnvironmentUnchanged, vars
  <2>2. \A a \in Starts \cup Advances : ~CreateQueue(a)
    <3> SUFFICES ASSUME NEW a \in Starts \cup Advances, CreateQueue(a) PROVE FALSE
      OBVIOUS
    <3>1. pc[a] = "creating" /\ \E stage \in {"pushing", "done"} : pc' = [pc EXCEPT ![a] = stage]
      BY DEF CreateQueue, EndsSaying, Moves
    <3>2. pc \in [Actors -> Stages] /\ a \in Actors
      BY DEF TopupInv, TypeInv, TypeOK, Actors
    <3> QED BY <2>1, <3>1, <3>2
  <2>3. \A t \in Ticks : ~TickExtended(t)
    BY <2>1 DEF TickExtended, TickMoves, Moves, TopupInv, TypeInv, TypeOK, Actors
  <2> QED BY <2>1, <2>2, <2>3
<1>2. QueuesKept /\ DOMAIN queues' = DOMAIN queues
  BY <1>1, QueuesOtherwise DEF TopupInv
<1>3. AllElseStays
  BY <1>1, <1>2 DEF AllElseStays
<1>4. \A t \in Ticks : TickIsRight(t)'
  BY <1>1, <1>2, TicksStay DEF TopupInv
<1> QED BY <1>3, <1>4, AllElseKeeps DEF Kept

-----------------------------------------------------------------------------
(* The steps of a tick.                                                    *)

\* A tick begins or moves on; it leaves everything but its own locals alone.
QuietTick(t, k, stage) ==
    /\ pc' = [pc EXCEPT ![t] = stage] /\ tick' = [tick EXCEPT ![t] = k]
    /\ UNCHANGED <<session, job, armed, queues>>

LEMMA QuietTickKeeps ==
    ASSUME TopupInv, NEW t \in Ticks, NEW k, NEW stage, QuietTick(t, k, stage), TickIsRight(t)'
    PROVE  Kept
<1> USE SessionAssumption
<1>1. \A b \in Actors \ {t} : pc'[b] = pc[b]
  BY DEF QuietTick, TopupInv, TypeInv, TypeOK
<1>2. AllElseStays
  BY <1>1 DEF AllElseStays, QuietTick, QueuesKept, Actors
<1>3. ASSUME NEW b \in Ticks, b # t PROVE TickIsRight(b)'
  <2>1. tick'[b] = tick[b] /\ pc'[b] = pc[b]
    BY <1>1, <1>3 DEF QuietTick, TopupInv, TypeInv, TypeOK, Actors
  <2> QED BY <2>1 DEF TickIsRight, QuietTick, TopupInv
<1> QED BY <1>2, <1>3, AllElseKeeps DEF Kept

LEMMA TickEndsRight ==
    ASSUME TypeInv, NEW t \in Ticks, pc' = [pc EXCEPT ![t] = "done"]
    PROVE  TickIsRight(t)'
<1>1. pc'[t] = "done"
  BY DEF TypeInv, TypeOK, Actors
<1> QED BY <1>1 DEF TickIsRight

LEMMA TickEndsKeeps ==
    ASSUME TopupInv, NEW t \in Ticks, pc' = [pc EXCEPT ![t] = "done"], UNCHANGED tick,
           UNCHANGED <<session, job, armed, queues>>
    PROVE  Kept
<1>1. QuietTick(t, tick[t], "done")
  BY DEF QuietTick, TopupInv, TypeInv, TypeOK
<1> QED BY <1>1, TickEndsRight, QuietTickKeeps DEF TopupInv

\* The facts of a tick that a step goes by, and what its next locals have to be.
LEMMA TickGoesOn ==
    ASSUME TopupInv, NEW t \in Ticks, NEW k, NEW stage, QuietTick(t, k, stage), stage # "idle",
           stage # "done",
           ~IsTargetMet(Length(SetCfg[k.set]), session.queuedTotal),
           stage \in {"reading", "building", "extending"} =>
              /\ k.playQueue = session.playQueue
              /\ k.window = TopupWindow(Length(SetCfg[k.set]), session.queuedTotal),
           stage \in {"building", "extending"} =>
              k.seen = queues[k.playQueue].items /\ k.want <= k.window,
           stage = "extending" =>
              /\ Len(k.slice) <= k.want /\ OfOneSet(k.slice, k.set)
              /\ Distinct(k.slice) /\ ItemsOf(k.slice) \cap ItemsOf(k.seen) = {}
    PROVE  Kept
<1>1. pc'[t] = stage /\ tick'[t] = k
  BY DEF QuietTick, TopupInv, TypeInv, TypeOK, Actors
<1>2. UNCHANGED <<session, queues>>
  BY DEF QuietTick
<1>3. TickIsRight(t)'
  BY <1>1, <1>2 DEF TickIsRight
<1> QED BY <1>3, QuietTickKeeps

LEMMA TickCommandKeeps ==
    ASSUME TopupInv, NEW t \in Ticks, TickCommand(t)
    PROVE  Kept
<1>1. UNCHANGED <<session, job, armed, queues>>
  BY QuietTicks
<1>2. CASE WantsTopup(session.set)
  <2>0. PICK account : tick' = [tick EXCEPT ![t].set = session.set, ![t].account = account]
    BY <1>2 DEF TickCommand
  <2> DEFINE k == [tick[t] EXCEPT !.set = session.set, !.account = account]
  <2>1. QuietTick(t, k, "authorising")
    BY <1>1, <1>2, <2>0 DEF TickCommand, TickMoves, Moves, QuietTick, TopupInv, TypeInv, TypeOK
  <2>2. k.set = session.set
    BY TickKnows DEF Tick, TopupInv
  <2> HIDE DEF k
  <2>3. ~IsTargetMet(Length(SetCfg[k.set]), session.queuedTotal)
    BY <1>2, <2>2 DEF WantsTopup
  <2> QED BY <2>1, <2>3, TickGoesOn
<1>3. CASE ~WantsTopup(session.set)
  BY <1>1, <1>3, TickEndsKeeps DEF TickCommand, TickMoves, Moves
<1> QED BY <1>2, <1>3

LEMMA TickAuthorisedKeeps ==
    ASSUME TopupInv, NEW t \in Ticks, TickAuthorised(t)
    PROVE  Kept
<1> DEFINE window == TopupWindow(Length(SetCfg[tick[t].set]), session.queuedTotal)
           k      == [tick[t] EXCEPT !.window = window, !.playQueue = session.playQueue]
<1>1. UNCHANGED <<session, job, armed, queues>>
  BY QuietTicks
<1>2. ~IsTargetMet(Length(SetCfg[tick[t].set]), session.queuedTotal)
  BY DEF TopupInv, TickIsRight, TickAuthorised
<1>3. tick' = [tick EXCEPT ![t] = k]
  BY DEF TickAuthorised
<1>4. k.set = tick[t].set /\ k.playQueue = session.playQueue /\ k.window = window
  BY TickKnows DEF Tick, TopupInv
<1> HIDE DEF k
<1>5. CASE session.playQueue = NoQueue
  <2>1. QuietTick(t, k, "done")
    BY <1>1, <1>3, <1>5 DEF TickAuthorised, TickMoves, Moves, QuietTick
  <2>2. pc' = [pc EXCEPT ![t] = "done"]
    BY <2>1 DEF QuietTick
  <2> QED BY <2>1, <2>2, TickEndsRight, QuietTickKeeps DEF TopupInv
<1>6. CASE session.playQueue # NoQueue
  <2>1. QuietTick(t, k, "reading")
    BY <1>1, <1>3, <1>6 DEF TickAuthorised, TickMoves, Moves, QuietTick
  <2> QED BY <1>2, <1>4, <2>1, TickGoesOn
<1> QED BY <1>5, <1>6

LEMMA TickReadKeeps ==
    ASSUME TopupInv, NEW t \in Ticks, TickRead(t)
    PROVE  Kept
<1> DEFINE q    == queues[tick[t].playQueue]
           want == tick[t].window - Remaining(q)
           k    == [tick[t] EXCEPT !.want = want, !.seen = q.items]
<1>0. pc[t] = "reading"
  BY DEF TickRead
<1>1. UNCHANGED <<session, job, armed, queues>>
  BY QuietTicks
<1>2. q \in PlayQueue
  BY <1>0, KnownQueue DEF TopupInv
<1>3. Remaining(q) \in Nat /\ tick[t].window \in Nat
  BY <1>2, TickKnows, LenProperties, SMTT(30) DEF Remaining, PlayQueue, Tick, TopupInv
<1>4. CASE q.gone \/ Remaining(q) > TopupAt \/ want <= 0
  BY <1>1, <1>4, TickEndsKeeps DEF TickRead, TickMoves, Moves
<1>5. CASE ~(q.gone \/ Remaining(q) > TopupAt \/ want <= 0)
  <2>1. tick' = [tick EXCEPT ![t] = k] /\ pc' = [pc EXCEPT ![t] = "building"]
    BY <1>5 DEF TickRead, TickMoves, Moves
  <2>2. want <= tick[t].window
    BY <1>3
  <2>3. q.items = queues[tick[t].playQueue].items
    OBVIOUS
  <2> HIDE DEF q, want
  <2>4. /\ k.set = tick[t].set /\ k.playQueue = tick[t].playQueue /\ k.window = tick[t].window
        /\ k.want = want /\ k.seen = q.items
    BY TickKnows DEF Tick, TopupInv
  <2> HIDE DEF k
  <2>5. QuietTick(t, k, "building")
    BY <1>1, <2>1 DEF QuietTick
  <2>6. TickIsRight(t)
    BY DEF TopupInv
  <2>7. /\ ~IsTargetMet(Length(SetCfg[k.set]), session.queuedTotal)
        /\ k.playQueue = session.playQueue
        /\ k.window = TopupWindow(Length(SetCfg[k.set]), session.queuedTotal)
    BY <1>0, <2>4, <2>6 DEF TickIsRight
  <2>8. k.seen = queues[k.playQueue].items /\ k.want <= k.window
    BY <2>2, <2>3, <2>4
  <2> QED BY <2>5, <2>7, <2>8, TickGoesOn
<1> QED BY <1>4, <1>5

LEMMA TickBuiltKeeps ==
    ASSUME TopupInv, NEW t \in Ticks, TickBuilt(t)
    PROVE  Kept
<1>0. pc[t] = "building"
  BY DEF TickBuilt
<1>1. UNCHANGED <<session, job, armed, queues>>
  BY QuietTicks
<1>2. tick[t] \in Tick /\ tick[t].set \in Sets
  BY <1>0, TickKnows DEF TopupInv
<1> DEFINE size == InitialQueueSize(Length(SetCfg[tick[t].set]))
<1>3. size \in Nat
  BY <1>2, CfgType, LengthType, SizeTypes
<1>4. PICK built \in LineupsUpTo(tick[t].set, size) :
         /\ pc' = [pc EXCEPT ![t] = IF Fresh(built, tick[t].seen) = << >> THEN "done" ELSE "extending"]
         /\ tick' = [tick EXCEPT ![t].slice = Take(Fresh(built, tick[t].seen), tick[t].want),
                                 ![t].playQueue = session.playQueue]
  BY DEF TickBuilt, TickMoves, Moves
<1> HIDE DEF size
<1>5. built \in Seq(Item) /\ Distinct(built) /\ OfOneSet(built, tick[t].set)
  BY <1>2, <1>3, LineupsAreRuns
<1> DEFINE fresh == Fresh(built, tick[t].seen)
           slice == Take(fresh, tick[t].want)
           k     == [tick[t] EXCEPT !.slice = slice, !.playQueue = session.playQueue]
<1>6. /\ fresh \in Seq(Item) /\ Distinct(fresh) /\ OfOneSet(fresh, tick[t].set)
      /\ ItemsOf(fresh) \cap ItemsOf(tick[t].seen) = {}
  BY <1>2, <1>5, FreshItems DEF Tick
<1>7. pc' = [pc EXCEPT ![t] = IF fresh = << >> THEN "done" ELSE "extending"]
      /\ tick' = [tick EXCEPT ![t] = k]
  BY <1>4
<1> HIDE DEF fresh
<1>8. /\ Len(slice) <= tick[t].want /\ OfOneSet(slice, tick[t].set)
      /\ Distinct(slice) /\ ItemsOf(slice) \cap ItemsOf(tick[t].seen) = {}
  <2>1. tick[t].want \in Nat
    BY <1>2 DEF Tick
  <2> QED BY <1>6, <2>1, TakenLineup
<1> HIDE DEF slice
<1>9. /\ k.set = tick[t].set /\ k.playQueue = session.playQueue /\ k.window = tick[t].window
      /\ k.want = tick[t].want /\ k.seen = tick[t].seen /\ k.slice = slice
  BY <1>2 DEF Tick
<1> HIDE DEF k
<1>10. CASE fresh = << >>
  <2>1. QuietTick(t, k, "done")
    BY <1>1, <1>7, <1>10 DEF QuietTick
  <2>2. pc' = [pc EXCEPT ![t] = "done"]
    BY <2>1 DEF QuietTick
  <2> QED BY <2>1, <2>2, TickEndsRight, QuietTickKeeps DEF TopupInv
<1>11. CASE fresh # << >>
  <2>1. QuietTick(t, k, "extending")
    BY <1>1, <1>7, <1>11 DEF QuietTick
  <2>2. TickIsRight(t)
    BY DEF TopupInv
  <2>3. /\ ~IsTargetMet(Length(SetCfg[k.set]), session.queuedTotal)
        /\ k.window = TopupWindow(Length(SetCfg[k.set]), session.queuedTotal)
        /\ k.seen = queues[k.playQueue].items /\ k.want <= k.window
    BY <1>0, <1>9, <2>2 DEF TickIsRight
  <2>4. /\ Len(k.slice) <= k.want /\ OfOneSet(k.slice, k.set)
        /\ Distinct(k.slice) /\ ItemsOf(k.slice) \cap ItemsOf(k.seen) = {}
    BY <1>8, <1>9
  <2> QED BY <1>9, <2>1, <2>3, <2>4, TickGoesOn
<1> QED BY <1>10, <1>11

LEMMA TickFailedKeeps ==
    ASSUME TopupInv, NEW t \in Ticks, TickFailed(t)
    PROVE  Kept
BY QuietTicks, TickEndsKeeps DEF TickFailed, TickMoves, Moves

\* The window of a top-up is within what is left of a finite target.
LEMMA WindowFits ==
    ASSUME NEW target \in Target, NEW total \in Nat, ~IsTargetMet(target, total), target # Infinite
    PROVE  total + TopupWindow(target, total) <= target
BY WindowAssumption DEF Target, IsTargetMet, TopupWindow, Smaller

LEMMA TickExtendedKeeps ==
    ASSUME TopupInv, NEW t \in Ticks, TickExtended(t)
    PROVE  Kept
<1> USE SessionAssumption
<1> DEFINE id == tick[t].playQueue
           q  == queues[id]
<1>0. pc[t] = "extending"
  BY DEF TickExtended
<1>1. id \in DOMAIN queues /\ tick[t] \in Tick /\ tick[t].set \in Sets
  BY <1>0, TickKnows DEF TopupInv
<1>2. q \in PlayQueue /\ q.at \in 1 .. Len(q.items) /\ q.items \in Seq(Item)
  BY <1>1, KnownQueue DEF TopupInv, TypeInv, KnownQueues
<1>3. /\ id = session.playQueue /\ tick[t].seen = q.items
      /\ ~IsTargetMet(Length(SetCfg[tick[t].set]), session.queuedTotal)
      /\ tick[t].window = TopupWindow(Length(SetCfg[tick[t].set]), session.queuedTotal)
      /\ tick[t].want <= tick[t].window /\ Len(tick[t].slice) <= tick[t].want
      /\ OfOneSet(tick[t].slice, tick[t].set) /\ Distinct(tick[t].slice)
      /\ ItemsOf(tick[t].slice) \cap ItemsOf(q.items) = {}
  <2>1. TickIsRight(t)
    BY DEF TopupInv
  <2> QED BY <1>0, <2>1 DEF TickIsRight
<1>4a. PICK accepted \in Accepted(tick[t].slice) :
         /\ queues' = [queues EXCEPT ![id] = Inserted(q, accepted)]
         /\ \E added \in {Growth(Len(Inserted(q, accepted).items), tick[t].seen), Len(tick[t].slice)} :
               session' = [session EXCEPT !.queuedTotal = @ + added]
  BY DEF TickExtended
<1>4. PICK more \in {Growth(Len(Inserted(q, accepted).items), tick[t].seen), Len(tick[t].slice)} :
         session' = [session EXCEPT !.queuedTotal = @ + more]
  BY <1>4a
<1>5. tick[t].slice \in Seq(Item)
  BY <1>1 DEF Tick
<1>6. /\ accepted \in Seq(Item) /\ Distinct(accepted) /\ Len(accepted) <= Len(tick[t].slice)
      /\ ItemsOf(accepted) \cap ItemsOf(q.items) = {} /\ OfOneSet(accepted, tick[t].set)
  BY <1>3, <1>5, AcceptedItems
<1> DEFINE all == Inserted(q, accepted).items
<1>7. all \in Seq(Item) /\ Len(all) = Len(q.items) + Len(accepted)
      /\ Inserted(q, accepted) = [q EXCEPT !.items = all]
  <2>1. all = Inserted(q, accepted).items
    OBVIOUS
  <2> HIDE DEF all, q
  <2> QED BY <1>2, <1>6, <2>1, InsertedItems
<1>8. Distinct(q.items) /\ Distinct(all)
  <2>1. Distinct(q.items)
    BY <1>1 DEF TopupInv, NothingTwice
  <2> QED BY <1>2, <1>6, <2>1, InsertedFresh
<1>9. ASSUME NEW set, OfOneSet(all, set)
      PROVE  OfOneSet(q.items, set) /\ OfOneSet(accepted, set)
  <2>1. all = Inserted(q, accepted).items
    OBVIOUS
  <2> HIDE DEF all, q
  <2> QED BY <1>2, <1>6, <1>9, <2>1, InsertedOfOneSet
<1>10. /\ more \in Nat /\ more >= Len(accepted)
       /\ ~PlexDrops => more = Len(accepted)
  <2>1. Len(q.items) \in Nat /\ Len(accepted) \in Nat /\ Len(tick[t].slice) \in Nat
    BY <1>2, <1>5, <1>6, LenProperties
  <2>2. more \in {Growth(Len(all), tick[t].seen), Len(tick[t].slice)}
    BY <1>4
  <2> HIDE DEF all
  <2>3. Growth(Len(all), tick[t].seen) = Len(accepted)
    BY <1>3, <1>7, <2>1 DEF Growth
  <2>4. ~PlexDrops => accepted = tick[t].slice
    BY <1>4a DEF Accepted
  <2> QED BY <1>6, <2>1, <2>2, <2>3, <2>4
<1> HIDE DEF all
<1>11. /\ queues' = [queues EXCEPT ![id] = [q EXCEPT !.items = all]]
       /\ session' = [session EXCEPT !.queuedTotal = @ + more]
  BY <1>4, <1>4a, <1>7 DEF all
<1> HIDE DEF id, q
<1>12. /\ session'.queue = session.queue /\ session'.playQueue = session.playQueue
       /\ session'.queuedTotal = session.queuedTotal + more
  BY <1>11 DEF TopupInv, TypeInv, TypeOK, Session
<1>13. /\ DOMAIN queues' = DOMAIN queues
       /\ queues'[id].items = all /\ queues'[id].by = q.by
       /\ \A n \in DOMAIN queues : n # id => queues'[n] = queues[n]
  <2>1. queues'[id] = [q EXCEPT !.items = all]
    BY <1>1, <1>11
  <2>2. \A n \in DOMAIN queues : n # id => queues'[n] = queues[n]
    BY <1>11
  <2>3. DOMAIN queues' = DOMAIN queues
    BY <1>11
  <2> QED BY <1>2, <2>1, <2>2, <2>3 DEF PlayQueue
<1>14. UNCHANGED <<job, armed, tick>> /\ pc' = [pc EXCEPT ![t] = "done"]
  BY DEF TickExtended, TickMoves, Moves
<1>15. \A b \in (Starts \cup Ticks) \ {t} : ~InFlight(b) /\ pc'[b] = pc[b]
  <2>1. InFlight(t)
    BY <1>0 DEF InFlight
  <2> QED BY <1>14, <2>1, Alone DEF TopupInv, TypeInv, TypeOK, Actors
<1>16. NothingTwice'
  <2>1. \A n \in DOMAIN queues' : Distinct(queues'[n].items)
    BY <1>8, <1>13 DEF TopupInv, NothingTwice
  <2>2. Distinct(session'.queue) /\ \A a \in Starts \cup Advances : Distinct(job'[a].items)
    BY <1>12, <1>14 DEF TopupInv, NothingTwice
  <2> QED BY <2>1, <2>2 DEF NothingTwice, Distinct
<1>17. TotalIsRight'
  <2> DEFINE set == job[armed].set
  <2> SUFFICES ASSUME q.by = armed
               PROVE  /\ Len(all) <= session'.queuedTotal
                      /\ ~PlexDrops => session'.queuedTotal = Len(all)
                      /\ OfOneSet(all, set) => Fits(all, set)
    BY <1>3, <1>12, <1>13, <1>14 DEF TotalIsRight, OfOneSet, Fits
  <2>1. session.playQueue # NoQueue
    BY <1>0, TickKnows DEF TopupInv
  <2>2. /\ Len(q.items) <= session.queuedTotal
        /\ ~PlexDrops => session.queuedTotal = Len(q.items)
        /\ OfOneSet(q.items, set) => Fits(q.items, set)
    BY <1>3, <2>1 DEF TopupInv, TotalIsRight, q
  <2>3. /\ Len(q.items) \in Nat /\ Len(accepted) \in Nat /\ session.queuedTotal \in Nat
        /\ tick[t].want \in Nat /\ tick[t].window \in Nat /\ Len(tick[t].slice) \in Nat
    BY <1>1, <1>2, <1>5, <1>6, TickKnows, LenProperties DEF TopupInv, Tick
  <2> HIDE DEF set
  <2>4. ASSUME OfOneSet(all, set), Length(SetCfg[set]) # Infinite
        PROVE  Len(all) <= Length(SetCfg[set])
    <3>1. OfOneSet(q.items, set) /\ OfOneSet(accepted, set)
      BY <1>9, <2>4
    <3>2. CASE Len(accepted) = 0
      <4>1. Len(all) = Len(q.items)
        BY <1>7, <2>3, <3>2
      <4> QED BY <2>2, <2>4, <3>1, <4>1 DEF Fits
    <3>3. CASE Len(accepted) # 0
      <4>1. 1 \in DOMAIN accepted
        BY <1>6, <2>3, <3>3, LenProperties
      <4>2. set = tick[t].set
        BY <1>6, <3>1, <4>1 DEF OfOneSet
      <4> DEFINE target == Length(SetCfg[set])
      <4>3. target \in Target
        BY <1>1, <4>2, CfgType, LengthType
      <4>4. target \in Nat
        BY <2>4, <4>3 DEF Target
      <4>5. session.queuedTotal + TopupWindow(target, session.queuedTotal) <= target
        BY <1>3, <2>3, <2>4, <4>2, <4>3, WindowFits
      <4>6. tick[t].window = TopupWindow(target, session.queuedTotal)
        BY <1>3, <4>2
      <4> HIDE DEF target
      <4>7. Len(all) <= target
        <5>1. Len(accepted) <= tick[t].window
          BY <1>3, <1>6, <2>3
        <5>2. session.queuedTotal + tick[t].window <= target
          BY <4>5, <4>6
        <5> QED BY <1>7, <2>2, <2>3, <4>4, <5>1, <5>2, SMTT(30)
      <4> QED BY <4>7 DEF target
    <3> QED BY <3>2, <3>3
  <2>5. OfOneSet(all, set) => Fits(all, set)
    BY <2>4 DEF Fits
  <2>6. Len(all) <= session'.queuedTotal
    BY <1>7, <1>10, <1>12, <2>2, <2>3
  <2>7. ~PlexDrops => session'.queuedTotal = Len(all)
    BY <1>7, <1>10, <1>12, <2>2, <2>3
  <2> QED BY <2>5, <2>6, <2>7
<1>18. ASSUME NEW b \in Ticks PROVE TickIsRight(b)'
  <2>1. CASE b = t
    BY <1>14, <2>1, TickEndsRight DEF TopupInv
  <2>2. CASE b # t
    <3>1. ~InFlight(b) /\ pc'[b] = pc[b]
      BY <1>15, <2>2
    <3> QED BY <3>1 DEF InFlight, TickIsRight
  <2> QED BY <2>1, <2>2
<1>19. ASSUME NEW s \in Starts PROVE StartIsRight(s)'
  <2>1. ~InFlight(s) /\ pc'[s] = pc[s]
    BY <1>15
  <2>2. \A n \in DOMAIN queues' : n \in DOMAIN queues /\ queues'[n].by = queues[n].by
    BY <1>13 DEF q
  <2> QED BY <2>1, <2>2, IdleStart DEF TopupInv
<1> QED BY <1>16, <1>17, <1>18, <1>19 DEF Kept

LEMMA StartStepKeeps ==
    ASSUME TopupInv, [Next]_vars, NEW s \in Starts, StartCommand(s) \/ StartStep(s)
    PROVE  Kept
<1>1. CASE StartCommand(s) \/ PlexOpened(s) \/ ProfileDetected(s) \/ GateSettled(s) \/ Bound(s)
              \/ SelectionFailed(s)
  BY <1>1, EarlySteps, EarlyKeeps DEF TopupInv
<1>2. CASE LineupBuilt(s) \/ QueueRecorded(s)
  BY <1>2, SelectionSteps, EarlyKeeps, SelectionKeeps DEF TopupInv
<1>3. CASE Joined(s) \/ Woken(s) \/ ProfileDriven(s) \/ Probed(s) \/ BackedOff(s) \/ Audited(s)
              \/ AuditStopped(s)
  <2>1. CommittedStep(s)
    BY <1>3, CommittedSteps DEF TopupInv
  <2>2. QueuesKept /\ QueuesAddedBy(s)
    <3>1. UNCHANGED queues
      BY <1>3 DEF Joined, Woken, ProfileDriven, Probed, BackedOff, Audited, AuditStopped, StepUnchanged,
                  PlexUnchanged
    <3> QED BY <3>1 DEF QueuesKept, QueuesAddedBy
  <2> QED BY <2>1, <2>2, CommittedKeeps
<1> QED BY <1>1, <1>2, <1>3 DEF StartStep

LEMMA PlayStepKept ==
    ASSUME TopupInv, NEW a \in Starts \cup Advances, PlayStep(a)
    PROVE  Kept
<1>1. CommittedStep(a)
  BY CommittedSteps DEF TopupInv
<1>2. QueuesKept /\ QueuesAddedBy(a)
  <2>1. CASE CreateQueue(a)
    BY <2>1, QueueCreated DEF TopupInv
  <2>2. CASE UNCHANGED queues
    BY <2>2 DEF QueuesKept, QueuesAddedBy
  <2>3. CreateQueue(a) \/ UNCHANGED queues
    BY DEF PlayStep, CreateFailed, PushLanded, PushFailed, PlexUnchanged
  <2> QED BY <2>1, <2>2, <2>3
<1> QED BY <1>1, <1>2, CommittedKeeps

-----------------------------------------------------------------------------
(* The invariant holds, and what follows from it.                          *)

LEMMA TopupPreserved == ASSUME Serial PROVE TopupInv /\ [Next]_vars => TopupInv'
<1> SUFFICES ASSUME TopupInv, [Next]_vars PROVE TopupInv'
  OBVIOUS
<1>1. TypeInv' /\ LineupInv' /\ OneAtATime'
  BY TypesPreserved, LineupPreserved, OneAtATimeStays DEF TopupInv
<1>2. ASSUME NEW s \in Starts, StartCommand(s) \/ StartStep(s) PROVE Kept
  BY <1>2, StartStepKeeps
<1>3. ASSUME NEW a \in Advances, AdvanceCommand(a) PROVE Kept
  BY <1>3, AdvanceKeeps
<1>4. ASSUME NEW a \in Starts \cup Advances, PlayStep(a) PROVE Kept
  BY <1>4, PlayStepKept
<1>5. ASSUME NEW t \in Ticks, TickCommand(t) \/ TickStep(t) PROVE Kept
  BY <1>5, TickCommandKeeps, TickAuthorisedKeeps, TickReadKeeps, TickBuiltKeeps, TickExtendedKeeps,
     TickFailedKeeps DEF TickStep
<1>6. ASSUME Environment \/ UNCHANGED vars PROVE Kept
  BY <1>6, EnvironmentKeeps
<1>7. Kept
  BY <1>2, <1>3, <1>4, <1>5, <1>6 DEF Next
<1> QED BY <1>1, <1>7 DEF TopupInv, Kept

LEMMA TopupInitially == Init => TopupInv
<1> SUFFICES ASSUME Init PROVE TopupInv
  OBVIOUS
<1> USE SessionAssumption
<1>1. TypeInv
  BY TypesInitially
<1>2. LineupInv
  BY DEF Init, LineupInv
<1>3. \A a \in Actors : pc[a] = "idle"
  BY DEF Init
<1>4. OneAtATime
  BY <1>3 DEF OneAtATime, InFlight, Actors
<1>5. queues = << >> /\ session.queue = << >> /\ session.playQueue = NoQueue
  BY DEF Init
<1>6. NothingTwice
  <2>1. \A a \in Starts \cup Advances : job[a].items = << >>
    BY DEF Init, NoJob
  <2> QED BY <1>5, <2>1, EmptySeq DEF NothingTwice, Distinct
<1>7. TotalIsRight
  BY <1>5 DEF TotalIsRight
<1>8. \A t \in Ticks : TickIsRight(t)
  BY <1>3 DEF TickIsRight, Actors
<1>9. \A s \in Starts : StartIsRight(s)
  BY <1>3, <1>5, EmptySeq DEF StartIsRight, Actors, Committed
<1> QED BY <1>1, <1>2, <1>4, <1>6, <1>7, <1>8, <1>9 DEF TopupInv

LEMMA TopupAlways == ASSUME Serial PROVE Spec => []TopupInv
BY TopupInitially, TopupPreserved, PTL DEF Spec

\* As long as no start and no tick arrives while another command is handled, a top-up never
\* queues what its queue already holds, watched or not, whatever advances do meanwhile.
THEOREM NoRepeatsHolds == ASSUME Serial PROVE Spec => []NoRepeats
<1>1. TopupInv => NoRepeats
  <2> SUFFICES ASSUME TopupInv, NEW id \in DOMAIN queues
               PROVE  Cardinality(ItemsOf(queues[id].items)) = Len(queues[id].items)
    BY DEF NoRepeats
  <2>1. queues[id].items \in Seq(Item) /\ Distinct(queues[id].items)
    BY KnownQueue DEF TopupInv, NothingTwice
  <2> QED BY <2>1, DistinctItemsCount
<1> QED BY <1>1, TopupAlways, PTL

\* Under the same condition, and while Plex takes every item it is handed, queuedTotal is
\* the length of the queue that SESSION's own start pushed.
THEOREM TotalCountsTheQueueHolds ==
    ASSUME Serial, ~PlexDrops PROVE Spec => []TotalCountsTheQueue
<1>1. TopupInv => TotalCountsTheQueue
  BY DEF TopupInv, TotalIsRight, TotalCountsTheQueue, OwnQueue
<1> QED BY <1>1, TopupAlways, PTL

\* Under the same condition, a set that plays N items hands over at most N, even when Plex
\* drops some of what it was handed.
THEOREM WithinTargetHolds == ASSUME Serial PROVE Spec => []WithinTarget
<1>1. TopupInv => WithinTarget
  <2> DEFINE items == queues[session.playQueue].items
  <2> SUFFICES ASSUME TopupInv, OwnQueue, session.target # Infinite,
                      \A i \in ItemsOf(items) : i.set = session.set
               PROVE  Len(items) <= session.target
    BY DEF WithinTarget
  <2>1. session.playQueue \in DOMAIN queues /\ queues[session.playQueue].by = armed
    BY KnownQueue DEF TopupInv, OwnQueue
  <2>2. armed # NoStart
    BY <2>1, KnownQueue, SessionAssumption DEF TopupInv
  <2>3. session.target = Length(SetCfg[job[armed].set]) /\ session.set = job[armed].set
    BY <2>2 DEF TopupInv, LineupInv, OwnQueue
  <2>4. OfOneSet(items, job[armed].set)
    BY <2>3 DEF OfOneSet, ItemsOf
  <2> QED BY <2>1, <2>3, <2>4 DEF TopupInv, TotalIsRight, OwnQueue, Fits
<1> QED BY <1>1, TopupAlways, PTL

-----------------------------------------------------------------------------
(* The account a top-up selects as.                                        *)

Selecting == {"listing", "recording"}

BoundRight(s) == job[s].account \in BindingsOf(job[s].set, job[s].profile)

\* Inductive strengthening of TopupsAreTheScansAccount: the start being selected, and the
\* one the plan is armed for, have an account of their own set and title; a tick has one
\* of the set and the title SESSION names.
AccountInv ==
    /\ \A s \in Starts : pc[s] \in Selecting \/ s = armed => BoundRight(s)
    /\ \A t \in Ticks : InFlight(t) =>
          tick[t].account \in BindingsOf(session.set, session.profile)

SameBinding(s) ==
    /\ job'[s].set = job[s].set /\ job'[s].profile = job[s].profile
    /\ job'[s].account = job[s].account

\* A step after which no start is bound that was not, and no binding has moved.
KeepsBindings ==
    /\ \A s \in Starts : pc'[s] \in Selecting => pc[s] \in Selecting
    /\ \A s \in Starts : pc[s] \in Selecting \cup Committed => SameBinding(s)
    /\ armed' # armed => armed' \in Starts /\ pc[armed'] \in Selecting
    /\ session'.set = session.set /\ session'.profile = session.profile

\* A step of one handler: what it has to keep of its own.
LEMMA OwnStepKeepsBindings ==
    ASSUME TypeInv, NEW a \in Actors, NEW stage \in Stages, pc' = [pc EXCEPT ![a] = stage],
           \A s \in Starts \ {a} : job'[s] = job[s],
           a \in Starts /\ stage \in Selecting => pc[a] \in Selecting,
           a \in Starts /\ pc[a] \in Selecting \cup Committed => SameBinding(a),
           armed' # armed => armed' = a /\ a \in Starts /\ pc[a] \in Selecting,
           session'.set = session.set, session'.profile = session.profile
    PROVE  KeepsBindings
<1>1. \A s \in Starts : IF s = a THEN pc'[s] = stage ELSE pc'[s] = pc[s]
  BY DEF TypeInv, TypeOK, Actors
<1>2. \A s \in Starts : pc'[s] \in Selecting => pc[s] \in Selecting
  BY <1>1
<1>3. \A s \in Starts : pc[s] \in Selecting \cup Committed => SameBinding(s)
  BY DEF SameBinding
<1> QED BY <1>2, <1>3 DEF KeepsBindings

LEMMA EarlyKeepsBindings ==
    ASSUME TypeInv, NEW s \in Starts,
           StartCommand(s) \/ PlexOpened(s) \/ ProfileDetected(s) \/ GateSettled(s)
    PROVE  KeepsBindings
<1>1. pc[s] \notin Selecting \cup Committed
  BY DEF StartCommand, PlexOpened, ProfileDetected, GateSettled, Selecting, Committed
<1>2. UNCHANGED <<session, armed>>
  BY DEF StartCommand, PlexOpened, ProfileDetected, GateSettled, SessionUnchanged
<1>3. ASSUME NEW j, Resolve(s, j)
      PROVE  /\ \E stage \in Stages \ Selecting : pc' = [pc EXCEPT ![s] = stage]
             /\ \A r \in Starts \ {s} : job'[r] = job[r]
  BY <1>3 DEF Resolve, Admit, Admission, Stages, Selecting, TypeInv, TypeOK
<1>4. /\ \E stage \in Stages \ Selecting : pc' = [pc EXCEPT ![s] = stage]
      /\ \A r \in Starts \ {s} : job'[r] = job[r]
  <2>1. CASE StartCommand(s)
    <3>1. PICK payload \in Payloads :
             IF AdbEnabled THEN /\ pc' = [pc EXCEPT ![s] = "opening"]
                                /\ job' = [job EXCEPT ![s] = JobOf(payload)]
                           ELSE Resolve(s, JobOf(payload))
      BY <2>1 DEF StartCommand
    <3> QED BY <1>3, <3>1 DEF Stages, Selecting, TypeInv, TypeOK
  <2>2. CASE PlexOpened(s)
    BY <1>3, <2>2 DEF PlexOpened
  <2>3. CASE ProfileDetected(s)
    BY <2>3 DEF ProfileDetected, Admit, Admission, Stages, Selecting, TypeInv, TypeOK
  <2>4. CASE GateSettled(s)
    BY <2>4 DEF GateSettled, Stages, Selecting, TypeInv, TypeOK
  <2> QED BY <2>1, <2>2, <2>3, <2>4
<1> QED BY <1>1, <1>2, <1>4, OwnStepKeepsBindings DEF Actors

LEMMA SelectionKeepsBindings ==
    ASSUME TypeInv, NEW s \in Starts, LineupBuilt(s) \/ QueueRecorded(s) \/ SelectionFailed(s)
    PROVE  KeepsBindings
<1>1. CASE SelectionFailed(s)
  BY <1>1, OwnStepKeepsBindings
  DEF SelectionFailed, NothingToPlay, EndsSaying, Moves, SessionUnchanged, SameBinding, Selecting,
      Stages, Actors
<1> SUFFICES ASSUME ~SelectionFailed(s)
             PROVE  KeepsBindings
  BY <1>1
<1>0. pc[s] \in Selecting
  BY DEF LineupBuilt, QueueRecorded, Selecting
<1>2. UNCHANGED job \/ \E items : job' = [job EXCEPT ![s].items = items]
  BY DEF LineupBuilt, QueueRecorded, NothingToPlay, Commit
<1>3. SameBinding(s) /\ \A r \in Starts \ {s} : job'[r] = job[r]
  <2>1. job \in [Starts \cup Advances -> Job]
    BY DEF TypeInv, TypeOK
  <2>2. CASE UNCHANGED job
    BY <2>2 DEF SameBinding
  <2>3. ASSUME NEW items, job' = [job EXCEPT ![s].items = items]
        PROVE  SameBinding(s) /\ \A r \in Starts \ {s} : job'[r] = job[r]
    BY <2>1, <2>3 DEF SameBinding, Job
  <2> QED BY <1>2, <2>2, <2>3
<1>4. (armed' # armed => armed' = s)
      /\ session'.set = session.set /\ session'.profile = session.profile
  BY DEF LineupBuilt, QueueRecorded, NothingToPlay, SessionUnchanged, Commit, TypeInv, TypeOK,
         Session
<1>5. \E stage \in Stages : pc' = [pc EXCEPT ![s] = stage]
  BY StartStepMoves DEF OwnStep, Arrived, StartStep
<1> QED BY <1>0, <1>3, <1>4, <1>5, OwnStepKeepsBindings DEF Actors

LEMMA HandoffKeepsBindings ==
    ASSUME TypeInv, NEW a \in Starts \cup Advances,
           \/ a \in Starts /\ (Joined(a) \/ Woken(a) \/ ProfileDriven(a) \/ Probed(a) \/ BackedOff(a)
                               \/ Audited(a) \/ AuditStopped(a))
           \/ PlayStep(a)
    PROVE  KeepsBindings
<1>1. armed' = armed /\ session'.set = session.set /\ session'.profile = session.profile
  BY DEF Joined, Woken, ProfileDriven, Probed, BackedOff, Audited, AuditStopped, Finish, PlayStep,
         CreateQueue, CreateFailed, PushLanded, PushFailed, StepUnchanged, SessionUnchanged, TypeInv,
         TypeOK, Session
<1>2. \/ UNCHANGED job
      \/ job' = [job EXCEPT ![a].attempts = @ + 1]
      \/ job' = [job EXCEPT ![a].playQueue = Len(queues) + 1]
  BY DEF Joined, Woken, ProfileDriven, Probed, BackedOff, Audited, AuditStopped, PlayStep, CreateQueue,
         CreateFailed, PushLanded, PushFailed, AttemptFailed, StepUnchanged
<1>3. (a \in Starts => SameBinding(a)) /\ \A r \in Starts \ {a} : job'[r] = job[r]
  <2>1. job \in [Starts \cup Advances -> Job]
    BY DEF TypeInv, TypeOK
  <2>2. CASE UNCHANGED job
    BY <2>2 DEF SameBinding
  <2>3. CASE job' = [job EXCEPT ![a].attempts = @ + 1]
    BY <2>1, <2>3 DEF SameBinding, Job
  <2>4. CASE job' = [job EXCEPT ![a].playQueue = Len(queues) + 1]
    BY <2>1, <2>4 DEF SameBinding, Job
  <2> QED BY <1>2, <2>2, <2>3, <2>4
<1>4. \E stage \in Stages \ Selecting : pc' = [pc EXCEPT ![a] = stage]
  BY DEF Joined, Woken, ProfileDriven, Probed, BackedOff, Retry, Audited, AuditStopped, Finish,
         PlayStep, CreateQueue, CreateFailed, PushLanded, PushFailed, AttemptFailed, EndsSaying, Moves,
         Stages, Selecting
<1> QED BY <1>1, <1>3, <1>4, OwnStepKeepsBindings DEF Actors

LEMMA OthersKeepBindings ==
    ASSUME TypeInv,
           \/ \E a \in Advances : AdvanceCommand(a)
           \/ \E t \in Ticks : TickCommand(t) \/ TickStep(t)
           \/ Environment \/ UNCHANGED vars
    PROVE  KeepsBindings
<1> USE SessionAssumption
<1>1. CASE \E a \in Advances : AdvanceCommand(a)
  <2>1. PICK a \in Advances : AdvanceCommand(a)
    BY <1>1
  <2>2. \E stage \in Stages : pc' = [pc EXCEPT ![a] = stage]
    BY <2>1 DEF AdvanceCommand, Moves, Stages
  <2>3. armed' = armed /\ session'.set = session.set /\ session'.profile = session.profile
    BY <2>1 DEF AdvanceCommand, TypeInv, TypeOK, Session
  <2>4. \A r \in Starts \ {a} : job'[r] = job[r]
    BY <2>1 DEF AdvanceCommand, TypeInv, TypeOK
  <2> QED BY <2>2, <2>3, <2>4, OwnStepKeepsBindings DEF Actors
<1>2. CASE \E t \in Ticks : TickCommand(t) \/ TickStep(t)
  <2>1. PICK t \in Ticks : TickCommand(t) \/ TickStep(t)
    BY <1>2
  <2>2. \E stage \in Stages : pc' = [pc EXCEPT ![t] = stage]
    BY <2>1 DEF TickCommand, TickStep, TickAuthorised, TickRead, TickBuilt, TickExtended,
                TickFailed, TickMoves, Moves, Stages
  <2>3. armed' = armed /\ session'.set = session.set /\ session'.profile = session.profile
        /\ job' = job
    BY <2>1 DEF TickCommand, TickStep, TickAuthorised, TickRead, TickBuilt, TickExtended,
                TickFailed, TickMoves, SessionUnchanged, TypeInv, TypeOK, Session
  <2> QED BY <2>2, <2>3, OwnStepKeepsBindings DEF Actors
<1>3. CASE Environment \/ UNCHANGED vars
  BY <1>3 DEF Environment, ViewerNext, QueueForgotten, CooldownOver, EnvironmentUnchanged, vars,
              KeepsBindings, SameBinding
<1> QED BY <1>1, <1>2, <1>3

\* Only the step in which a start takes SESSION over binds anyone.
LEMMA BindingsKept ==
    ASSUME TypeInv, [Next]_vars, \A s \in Starts : ~Bound(s)
    PROVE  KeepsBindings
<1>1. ASSUME NEW s \in Starts, StartCommand(s) \/ StartStep(s)
      PROVE  KeepsBindings
  BY <1>1, EarlyKeepsBindings, SelectionKeepsBindings, HandoffKeepsBindings DEF StartStep
<1>2. ASSUME NEW a \in Starts \cup Advances, PlayStep(a)
      PROVE  KeepsBindings
  BY <1>2, HandoffKeepsBindings
<1> QED BY <1>1, <1>2, OthersKeepBindings DEF Next

\* A tick keeps the account it was given when it arrived.
LEMMA TicksKeepAccounts ==
    ASSUME TypeInv, [Next]_vars, NEW t \in Ticks, InFlight(t)'
    PROVE  \/ InFlight(t) /\ tick'[t].account = tick[t].account
           \/ session' = session /\ tick'[t].account \in BindingsOf(session.set, session.profile)
<1> USE SessionAssumption
<1>1. CASE UNCHANGED <<tick, pc>>
  BY <1>1 DEF InFlight
<1>2. ASSUME NEW a \in Starts \cup Advances, \E stage \in Stages : pc' = [pc EXCEPT ![a] = stage],
             UNCHANGED tick
      PROVE  InFlight(t) /\ tick'[t].account = tick[t].account
  BY <1>2 DEF InFlight, TypeInv, TypeOK
<1>3. ASSUME NEW u \in Ticks, TickStep(u)
      PROVE  InFlight(t) /\ tick'[t].account = tick[t].account
  <2>1. InFlight(u) /\ \A b \in Actors \ {u} : pc'[b] = pc[b]
    BY <1>3, TickStepMoves DEF OwnStep, TypeInv, TypeOK
  <2>2. InFlight(t)
    BY <2>1 DEF InFlight, Actors
  <2>3. tick'[t].account = tick[t].account
    <3>1. tick \in [Ticks -> Tick]
      BY DEF TypeInv, TypeOK
    <3>2. CASE TickAuthorised(u)
      BY <3>1, <3>2 DEF TickAuthorised, Tick
    <3>3. CASE TickRead(u)
      <4>1. CASE UNCHANGED tick
        BY <4>1
      <4>2. ASSUME NEW want, NEW seen,
                   tick' = [tick EXCEPT ![u].want = want, ![u].seen = seen]
            PROVE  tick'[t].account = tick[t].account
        <5>1. CASE t = u
          <6>1. tick'[u] = [tick[u] EXCEPT !.want = want, !.seen = seen] /\ tick[u] \in Tick
            BY <3>1, <4>2
          <6> QED BY <5>1, <6>1 DEF Tick
        <5>2. CASE t # u
          BY <3>1, <4>2, <5>2
        <5> QED BY <5>1, <5>2
      <4> QED BY <3>3, <4>1, <4>2 DEF TickRead
    <3>4. CASE TickBuilt(u)
      <4>1. PICK slice, id :
               tick' = [tick EXCEPT ![u].slice = slice, ![u].playQueue = id]
        BY <3>4 DEF TickBuilt
      <4> QED BY <3>1, <4>1 DEF Tick
    <3>5. CASE TickExtended(u) \/ TickFailed(u)
      BY <3>5 DEF TickExtended, TickFailed
    <3> QED BY <1>3, <3>2, <3>3, <3>4, <3>5 DEF TickStep
  <2> QED BY <2>2, <2>3
<1>4. ASSUME NEW u \in Ticks, TickCommand(u)
      PROVE  \/ InFlight(t) /\ tick'[t].account = tick[t].account
             \/ session' = session /\ tick'[t].account \in BindingsOf(session.set, session.profile)
  <2>1. session' = session /\ \A v \in Ticks \ {u} : pc'[v] = pc[v] /\ tick'[v] = tick[v]
    BY <1>4 DEF TickCommand, TickMoves, Moves, SessionUnchanged, TypeInv, TypeOK, Actors
  <2>2. CASE t # u
    BY <2>1, <2>2 DEF InFlight
  <2>3. CASE t = u
    <3>1. pc'[u] # "done"
      BY <2>3 DEF InFlight
    <3>2. WantsTopup(session.set)
      BY <1>4, <3>1 DEF TickCommand, TickMoves, Moves, TypeInv, TypeOK, Actors
    <3>3. PICK account \in BindingsOf(session.set, session.profile) :
             tick' = [tick EXCEPT ![u].set = session.set, ![u].account = account]
      BY <1>4, <3>2 DEF TickCommand, TopupProfile
    <3>4. tick'[u].account = account
      BY <3>3 DEF TypeInv, TypeOK, Tick
    <3> QED BY <2>1, <2>3, <3>3, <3>4
  <2> QED BY <2>2, <2>3
<1>5. ASSUME NEW s \in Starts, StartCommand(s) \/ StartStep(s)
      PROVE  (\E stage \in Stages : pc' = [pc EXCEPT ![s] = stage]) /\ UNCHANGED tick
  <2>1. \E stage \in Stages : pc' = [pc EXCEPT ![s] = stage]
    BY <1>5, StartCommandMoves, StartStepMoves DEF StartArrival, OwnStep, Arrived
  <2>2. UNCHANGED tick
    BY <1>5 DEF StartCommand, StartStep, PlexOpened, ProfileDetected, GateSettled, Bound, LineupBuilt,
                QueueRecorded, SelectionFailed, Joined, Woken, ProfileDriven, Probed, BackedOff, Audited,
                AuditStopped, StepUnchanged, TicksUnchanged
  <2> QED BY <2>1, <2>2
<1>6. ASSUME NEW a \in Starts \cup Advances, PlayStep(a)
      PROVE  (\E stage \in Stages : pc' = [pc EXCEPT ![a] = stage]) /\ UNCHANGED tick
  <2>1. \E stage \in Stages : pc' = [pc EXCEPT ![a] = stage]
    BY <1>6, PlayStepMoves DEF OwnStep, Arrived
  <2>2. UNCHANGED tick
    BY <1>6 DEF PlayStep, CreateQueue, CreateFailed, PushLanded, PushFailed, TicksUnchanged
  <2> QED BY <2>1, <2>2
<1>7. ASSUME NEW a \in Advances, AdvanceCommand(a)
      PROVE  (\E stage \in Stages : pc' = [pc EXCEPT ![a] = stage]) /\ UNCHANGED tick
  BY <1>7 DEF AdvanceCommand, Moves, Stages, TicksUnchanged
<1>8. CASE Environment \/ UNCHANGED vars
  BY <1>1, <1>8 DEF Environment, ViewerNext, QueueForgotten, CooldownOver, EnvironmentUnchanged, vars
<1> QED BY <1>2, <1>3, <1>4, <1>5, <1>6, <1>7, <1>8 DEF Next

LEMMA AccountPreserved ==
    ASSUME TypeInv, LineupInv, OneAtATime, AccountInv, [Next]_vars
    PROVE  AccountInv'
<1> USE SessionAssumption
<1>1. CASE \A s \in Starts : ~Bound(s)
  <2>1. KeepsBindings
    BY <1>1, BindingsKept
  <2>2. ASSUME NEW s \in Starts, pc'[s] \in Selecting \/ s = armed'
        PROVE  BoundRight(s)'
    <3>1. pc[s] \in Selecting \/ s = armed
      BY <2>1, <2>2 DEF KeepsBindings
    <3>2. pc[s] \in Selecting \cup Committed
      BY <3>1 DEF LineupInv
    <3>3. BoundRight(s) /\ SameBinding(s)
      BY <2>1, <3>1, <3>2 DEF KeepsBindings, AccountInv
    <3> QED BY <3>3 DEF BoundRight, SameBinding
  <2>3. ASSUME NEW t \in Ticks, InFlight(t)'
        PROVE  tick'[t].account \in BindingsOf(session'.set, session'.profile)
    BY <2>1, <2>3, TicksKeepAccounts DEF KeepsBindings, AccountInv
  <2> QED BY <2>2, <2>3 DEF AccountInv
<1>2. ASSUME NEW s \in Starts, Bound(s)
      PROVE  AccountInv'
  <2>1. InFlight(s) /\ s \in Starts \cup Ticks
    BY <1>2 DEF Bound, InFlight
  <2>2. armed' = armed /\ tick' = tick /\ pc' = [pc EXCEPT ![s] = "listing"]
    BY <1>2 DEF Bound, TicksUnchanged
  <2>3. PICK account \in BindingsOf(job[s].set, job[s].profile) :
           job' = [job EXCEPT ![s].account = account]
    BY <1>2 DEF Bound
  <2>4. BoundRight(s)'
    <3>1. /\ job'[s].account = account /\ job'[s].set = job[s].set
          /\ job'[s].profile = job[s].profile
      BY <2>3 DEF TypeInv, TypeOK, Job
    <3> QED BY <2>3, <3>1 DEF BoundRight
  <2>5. \A r \in Starts \ {s} : job'[r] = job[r] /\ pc'[r] = pc[r]
    BY <2>2, <2>3 DEF TypeInv, TypeOK
  <2>6. ASSUME NEW r \in Starts, pc'[r] \in Selecting \/ r = armed'
        PROVE  BoundRight(r)'
    BY <2>2, <2>4, <2>5, <2>6 DEF AccountInv, BoundRight
  <2>7. ASSUME NEW t \in Ticks
        PROVE  ~InFlight(t)'
    <3>1. pc'[t] = pc[t]
      BY <2>2 DEF TypeInv, TypeOK
    <3>2. ~InFlight(t)
      BY <2>1, Alone
    <3> QED BY <3>1, <3>2 DEF InFlight
  <2> QED BY <2>6, <2>7 DEF AccountInv
<1> QED BY <1>1, <1>2

\* As long as no start and no tick arrives while another command is handled, a top-up selects
\* as the account the lineup it extends was selected as, whichever starts came and failed in
\* between, with the exceptions the property names.
THEOREM TopupsAreTheScansAccountHolds ==
    ASSUME Serial PROVE Spec => []TopupsAreTheScansAccount
<1>1. Init => AccountInv
  BY SessionAssumption DEF Init, AccountInv, InFlight, Selecting, Actors
<1>2. TopupInv /\ AccountInv /\ [Next]_vars => AccountInv'
  BY AccountPreserved DEF TopupInv
<1>3. TopupInv /\ AccountInv => TopupsAreTheScansAccount
  <2> SUFFICES ASSUME TopupInv, AccountInv, NEW t \in Ticks, pc[t] = "extending", OwnQueue,
                      session.profile = job[armed].profile,
                      BindingFor(session.set, session.profile) # NoProfile
               PROVE  tick[t].account = job[queues[tick[t].playQueue].by].account
    BY DEF TopupsAreTheScansAccount
  <2>1. TickIsRight(t) /\ InFlight(t)
    BY DEF TopupInv, InFlight
  <2>2. tick[t].playQueue = session.playQueue /\ queues[session.playQueue].by = armed
    BY <2>1 DEF TickIsRight, OwnQueue
  <2>3. session.playQueue \in DOMAIN queues
    BY KnownQueue DEF TopupInv, OwnQueue
  <2>4. armed \in Starts
    BY <2>2, <2>3, KnownQueue, SessionAssumption DEF TopupInv, TypeInv, TypeOK
  <2>5. job[armed].account \in BindingsOf(session.set, session.profile)
    BY <2>4 DEF AccountInv, BoundRight, OwnQueue
  <2>6. tick[t].account \in BindingsOf(session.set, session.profile)
    BY <2>1 DEF AccountInv
  <2> QED BY <2>2, <2>5, <2>6 DEF BindingsOf
<1> QED BY <1>1, <1>2, <1>3, TopupInitially, TopupPreserved, PTL DEF Spec
=============================================================================
