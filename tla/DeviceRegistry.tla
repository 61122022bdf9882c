-------------------------- MODULE DeviceRegistry --------------------------
(***************************************************************************)
(* The registry of players (devices.ts, announced by mqttd.ts, read back   *)
(* by mqttc.ts): every round asks plex.tv for its players, announces them  *)
(* on retained topics and clears the topic of what has gone.  REGISTRY is  *)
(* what the process believes is retained.  A publish is dropped while      *)
(* mqttd has no connection, the reader misses what is published while it   *)
(* has none, and rounds overlap: one starts on every connect as well as on *)
(* the interval.                                                           *)
(*                                                                         *)
(* A payload is its stamp, the time its round began; 0 is no payload.      *)
(***************************************************************************)
EXTENDS Naturals

CONSTANTS
    Devices,   \* players other than the default one
    Shield,    \* the env-default player
    Rounds,    \* rounds that may be in flight at once
    MaxTime, MaxComings, MaxFaults \* bounds: time, players coming or going, faults

ASSUME DevicesAssumption ==
    /\ Shield \notin Devices
    /\ MaxTime \in Nat \ {0} /\ MaxComings \in Nat /\ MaxFaults \in Nat

Ids == Devices \cup {Shield}

VARIABLES
    players,      \* what plex.tv lists
    registry,     \* REGISTRY, id -> stamp
    retained,     \* the broker's retained topics, id -> stamp
    listed,       \* DEVICES of mqttc, the dropdown's source, id -> stamp
    online,       \* mqttd's connection
    reading,      \* mqttc's connection
    round,        \* the rounds in flight
    time, comings, faults,
    lastThere,    \* history: when plex.tv last listed a player
    lost          \* history: players a fault may have made ghosts of: retained at a restart,
                  \* or gone by a message that did not reach the broker or the reader

devicesVars == <<players, registry, retained, listed, online, reading, round, time, comings,
                 faults, lastThere, lost>>

worldVars == <<players, time, comings, lastThere>>

IdleRound == [stage |-> "idle", stamp |-> 0, rows |-> {}]

DevicesInit ==
    /\ players \in SUBSET Devices
    /\ registry = [i \in Ids |-> 0] /\ retained = [i \in Ids |-> 0] /\ listed = [i \in Ids |-> 0]
    /\ online = TRUE /\ reading = TRUE
    /\ round = [r \in Rounds |-> IdleRound]
    /\ time = 1 /\ comings = 0 /\ faults = 0
    /\ lastThere = [d \in Devices |-> IF d \in players THEN 1 ELSE 0]
    /\ lost = {}

-----------------------------------------------------------------------------
(* A round: announceDevices.                                               *)

\* The interval, or a connect.
RoundStarts(r) ==
    /\ round[r].stage = "idle"
    /\ round' = [round EXCEPT ![r] = [stage |-> "asking", stamp |-> time, rows |-> {}]]
    /\ UNCHANGED <<worldVars, registry, retained, listed, online, reading, faults, lost>>

\* plex.tv has made its answer, which may arrive after that of a later round.
RoundAnswered(r, isOk) ==
    /\ round[r].stage = "asking"
    /\ round' = [round EXCEPT ![r].stage = IF isOk THEN "swept" ELSE "failed",
                              ![r].rows  = IF isOk THEN players ELSE {}]
    /\ UNCHANGED <<worldVars, registry, retained, listed, online, reading, faults, lost>>

\* What the round announces; the row that is the default player is folded into it.
Wanted(r) == round[r].rows \cup {Shield}

\* ChangedOnly is wrong on purpose: what is believed to be retained is not repeated.
ChangedOnly(r) == {i \in round[r].rows \cup {Shield} : registry[i] = 0}
Announced(r)   == Wanted(r)

\* GoneNever is wrong on purpose: nothing is de-registered.
GoneNever(r) == {}

\* Only a sweep that succeeded may de-register.
Gone(r) == {i \in Ids : round[r].stage = "swept" /\ registry[i] # 0 /\ i \notin Wanted(r)}

\* StampedLate is wrong on purpose: the stamp is the time of the publish.
StampedLate(r) == time
Stamp(r)       == round[r].stamp

\* A topic map after the round's publishes.
After(map, r) == [i \in Ids |-> IF i \in Gone(r) THEN 0
                                ELSE IF i \in Announced(r) THEN Stamp(r) ELSE map[i]]

RoundEnds(r) ==
    /\ round[r].stage \in {"swept", "failed"}
    /\ registry' = After(registry, r)
    /\ retained' = IF online THEN After(retained, r) ELSE retained
    /\ listed' = IF online /\ reading THEN After(listed, r) ELSE listed
    /\ lost' = (lost \ Announced(r)) \cup (IF online /\ reading THEN {} ELSE Gone(r))
    /\ round' = [round EXCEPT ![r] = IdleRound]
    /\ UNCHANGED <<worldVars, online, reading, faults>>

-----------------------------------------------------------------------------
(* Connections and restarts.                                               *)

Offline ==
    /\ online /\ faults < MaxFaults
    /\ online' = FALSE /\ faults' = faults + 1
    /\ UNCHANGED <<worldVars, registry, retained, listed, reading, round, lost>>

Online ==
    /\ ~online /\ online' = TRUE
    /\ \E r \in Rounds :
          round' = IF round[r].stage = "idle"
                   THEN [round EXCEPT ![r] = [stage |-> "asking", stamp |-> time, rows |-> {}]]
                   ELSE round
    /\ UNCHANGED <<worldVars, registry, retained, listed, reading, faults, lost>>

ReaderLeaves ==
    /\ reading /\ faults < MaxFaults
    /\ reading' = FALSE /\ faults' = faults + 1
    /\ UNCHANGED <<worldVars, registry, retained, listed, online, round, lost>>

\* The broker sends what is retained; what is not any more is not mentioned.
ReaderReturns ==
    /\ ~reading /\ reading' = TRUE
    /\ listed' = [i \in Ids |-> IF retained[i] # 0 THEN retained[i] ELSE listed[i]]
    /\ UNCHANGED <<worldVars, registry, retained, online, round, faults, lost>>

\* The process starts anew: REGISTRY is empty, the topics are not.
RegistryRestarts ==
    /\ faults < MaxFaults /\ faults' = faults + 1
    /\ registry' = [i \in Ids |-> 0]
    /\ listed' = retained
    /\ online' = TRUE /\ reading' = TRUE
    /\ round' = [r \in Rounds |-> IdleRound]
    /\ lost' = lost \cup {d \in Devices : retained[d] # 0}
    /\ UNCHANGED <<worldVars, retained>>

-----------------------------------------------------------------------------
(* The players.                                                            *)

ComesOrGoes(d) ==
    /\ comings < MaxComings /\ comings' = comings + 1
    /\ players' = IF d \in players THEN players \ {d} ELSE players \cup {d}
    /\ lastThere' = IF d \in players THEN lastThere ELSE [lastThere EXCEPT ![d] = time]
    /\ UNCHANGED <<registry, retained, listed, online, reading, round, time, faults, lost>>

TimePasses ==
    /\ time < MaxTime /\ time' = time + 1
    /\ lastThere' = [d \in Devices |-> IF d \in players THEN time' ELSE lastThere[d]]
    /\ UNCHANGED <<players, comings, registry, retained, listed, online, reading, round, faults,
                   lost>>

-----------------------------------------------------------------------------
DevicesNext ==
    \/ \E r \in Rounds :
          RoundStarts(r) \/ RoundEnds(r) \/ \E ok \in BOOLEAN : RoundAnswered(r, ok)
    \/ Offline \/ Online \/ ReaderLeaves \/ ReaderReturns \/ RegistryRestarts
    \/ \E d \in Devices : ComesOrGoes(d)
    \/ TimePasses

DevicesSpec == DevicesInit /\ [][DevicesNext]_devicesVars

\* The interval goes on, plex.tv answers again and again, the broker comes back.
DevicesFairness ==
    /\ \A r \in Rounds :
          /\ WF_devicesVars(RoundStarts(r)) /\ WF_devicesVars(RoundEnds(r))
          /\ SF_devicesVars(RoundAnswered(r, TRUE))
    /\ WF_devicesVars(Online) /\ WF_devicesVars(ReaderReturns)

-----------------------------------------------------------------------------
Stamps == 0..MaxTime

DevicesTypeOK ==
    /\ players \subseteq Devices
    /\ registry \in [Ids -> Stamps] /\ retained \in [Ids -> Stamps] /\ listed \in [Ids -> Stamps]
    /\ online \in BOOLEAN /\ reading \in BOOLEAN
    /\ round \in [Rounds -> [stage : {"idle", "asking", "swept", "failed"}, stamp : Stamps,
                             rows : SUBSET Devices]]
    /\ time \in 1..MaxTime /\ comings \in 0..MaxComings /\ faults \in 0..MaxFaults
    /\ lastThere \in [Devices -> Stamps] /\ lost \subseteq Devices

\* A stamp is no younger than the last time plex.tv listed the player, whatever
\* rounds overlap, fail or are lost: that is what it lets a reader age out
\* (devices.ts, on `seen`).
StampsAreTruthful ==
    \A d \in Devices : retained[d] <= lastThere[d] /\ listed[d] <= lastThere[d]

\* No topic is cleared but by a round that asked plex.tv and did not find the player.
OnlyASweepDeregisters ==
    [][\A d \in Devices : retained[d] # 0 /\ retained'[d] = 0 =>
          \E r \in Rounds : round[r].stage = "swept" /\ d \notin round[r].rows
                            /\ round'[r].stage = "idle"]_devicesVars

\* A player plex.tv goes on listing is in the dropdown again and again: a publish or a
\* message that was lost is made up for by a later round.
LiveDevicesAreListed ==
    \A d \in Devices : <>[](d \in players) => []<>(listed[d] # 0)

\* A player that has gone for good leaves the dropdown: "a device that stops appearing must
\* have its topic cleared or it becomes exactly the ghost this whole module exists to end".
GhostsAreEnded == \A d \in Devices : <>[](d \notin players) => []<>(listed[d] = 0)

\* The same where nothing is lost.  Not for a player that was retained when the process
\* restarted, which the empty REGISTRY does not know any more, for one whose empty payload
\* was dropped after it had left REGISTRY, nor for one the reader was not there to see go:
\* those no later round takes up.
GoneAreRemoved ==
    \A d \in Devices : <>[](d \notin players) => []<>(listed[d] = 0 \/ d \in lost)

\* Between faults the dropdown follows plex.tv both ways (announceDevices): who stays comes
\* to be listed, through faults too, and who has gone for good comes to be removed, unless
\* a restart or a lost message has made a ghost of it.
ListingFollowsPlex == LiveDevicesAreListed /\ GoneAreRemoved

\* What is retained never claims more than a round of announceDevices has seen, and only
\* such a round takes an entry away, whatever rounds overlap, fail or are lost.
RetainedIsAsSeen == [][StampsAreTruthful']_devicesVars /\ OnlyASweepDeregisters
=============================================================================
