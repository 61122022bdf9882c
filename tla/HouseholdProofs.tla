--------------------------- MODULE HouseholdProofs ---------------------------
(***************************************************************************)
(* Proofs about the household: DeviceRegistry, for any players, rounds,    *)
(* times and faults, ProfileGate, for any tiles, aliases, locks and people,*)
(* and PlaybackEnd, for any sets, keys, policies and any number of write   *)
(* sides at once.                                                          *)
(***************************************************************************)
EXTENDS DeviceRegistry, ProfileGate, PlaybackEnd, QueueDocProofs

-----------------------------------------------------------------------------
(* DeviceRegistry.  A stamp is truthful because of what is known of the    *)
(* rounds in flight: a round that has been answered with a player is       *)
(* stamped no later than plex.tv last listed that player, and what plex.tv *)
(* lists now it listed last at this moment.                                *)

\* A round in flight is stamped with a time that has been, and knows of no player that was
\* not listed since.
RoundsAreHonest ==
    \A r \in Rounds : round[r].stage # "idle" =>
        /\ round[r].stamp \in 1..time
        /\ round[r].stage = "failed" => round[r].rows = {}
        /\ \A d \in round[r].rows : round[r].stamp <= lastThere[d]

LivesAreNow ==
    /\ \A d \in Devices : lastThere[d] <= time
    /\ \A d \in players : lastThere[d] = time

RegistryInv == DevicesTypeOK /\ StampsAreTruthful /\ RoundsAreHonest /\ LivesAreNow

(* The types, named for the leaves below.                                  *)
Stages     == {"idle", "asking", "swept", "failed"}
RoundState == [stage : Stages, stamp : Stamps, rows : SUBSET Devices]

LEMMA TypesOfRounds ==
    ASSUME DevicesTypeOK
    PROVE  round \in [Rounds -> RoundState]
BY DEF DevicesTypeOK, RoundState, Stages

-----------------------------------------------------------------------------
LEMMA InitIsHonest == DevicesInit => RegistryInv
<1> SUFFICES ASSUME DevicesInit PROVE RegistryInv
  OBVIOUS
<1>1. 0 \in Stamps /\ 1 \in Stamps
  BY DevicesAssumption DEF Stamps
<1>2. IdleRound \in RoundState
  BY <1>1 DEF IdleRound, RoundState, Stages
<1>3. round \in [Rounds -> RoundState]
  BY <1>2 DEF DevicesInit
<1>4. lastThere \in [Devices -> {0, 1}] /\ players \subseteq Devices /\ time = 1
  BY DEF DevicesInit
<1>5. \A d \in Devices : retained[d] = 0 /\ listed[d] = 0
  BY DEF DevicesInit, Ids
<1>6. \A d \in players : lastThere[d] = 1
  BY DEF DevicesInit
<1>7. DevicesTypeOK
  <2>1. lastThere \in [Devices -> Stamps] /\ lost \subseteq Devices /\ players \subseteq Devices
    BY <1>1, <1>4 DEF DevicesInit
  <2>2. registry \in [Ids -> Stamps] /\ retained \in [Ids -> Stamps] /\ listed \in [Ids -> Stamps]
    BY <1>1 DEF DevicesInit
  <2>3. time \in 1..MaxTime /\ comings \in 0..MaxComings /\ faults \in 0..MaxFaults
    BY DevicesAssumption DEF DevicesInit
  <2>4. online \in BOOLEAN /\ reading \in BOOLEAN
    BY DEF DevicesInit
  <2> QED BY <1>3, <2>1, <2>2, <2>3, <2>4 DEF DevicesTypeOK, RoundState, Stages
<1>8. \A d \in Devices : 0 <= lastThere[d] /\ lastThere[d] <= 1
  BY <1>4
<1>9. StampsAreTruthful
  BY <1>5, <1>8 DEF StampsAreTruthful
<1>10. RoundsAreHonest
  BY DEF RoundsAreHonest, IdleRound, DevicesInit
<1>11. LivesAreNow
  BY <1>4, <1>6, <1>8 DEF LivesAreNow
<1> QED BY <1>7, <1>9, <1>10, <1>11 DEF RegistryInv

(* A round starts, on the interval or on a connect.                        *)
LEMMA StartingKeeps ==
    ASSUME RegistryInv, NEW r \in Rounds,
           round' = [round EXCEPT ![r] = [stage |-> "asking", stamp |-> time, rows |-> {}]],
           UNCHANGED <<worldVars, registry, retained, listed, reading, faults, lost>>,
           online' \in BOOLEAN
    PROVE  RegistryInv'
<1> USE DevicesAssumption DEF RegistryInv
<1>1. [stage |-> "asking", stamp |-> time, rows |-> {}] \in RoundState
  BY DEF DevicesTypeOK, RoundState, Stages, Stamps
<1>2. round' \in [Rounds -> RoundState]
  BY <1>1, TypesOfRounds
<1>3. DevicesTypeOK'
  BY <1>2 DEF DevicesTypeOK, worldVars, RoundState, Stages, Stamps
<1>4. StampsAreTruthful'
  BY DEF StampsAreTruthful, worldVars
<1>5. RoundsAreHonest'
  <2> SUFFICES ASSUME NEW q \in Rounds, round'[q].stage # "idle"
               PROVE  /\ round'[q].stamp \in 1..time'
                      /\ round'[q].stage = "failed" => round'[q].rows = {}
                      /\ \A d \in round'[q].rows : round'[q].stamp <= lastThere'[d]
    BY DEF RoundsAreHonest
  <2>1. CASE q = r
    <3>1. round'[q] = [stage |-> "asking", stamp |-> time, rows |-> {}]
      BY <2>1, TypesOfRounds
    <3>2. time' = time /\ time \in 1..time
      BY DEF worldVars, DevicesTypeOK
    <3> QED BY <3>1, <3>2
  <2>2. CASE q # r
    <3>1. round'[q] = round[q]
      BY <2>2, TypesOfRounds
    <3> QED BY <3>1 DEF RoundsAreHonest, worldVars
  <2> QED BY <2>1, <2>2
<1>6. LivesAreNow'
  BY DEF LivesAreNow, worldVars
<1> QED BY <1>3, <1>4, <1>5, <1>6

(* plex.tv answers: the players of this moment.                            *)
LEMMA AnswerKeeps ==
    ASSUME RegistryInv, NEW r \in Rounds, NEW ok \in BOOLEAN, RoundAnswered(r, ok)
    PROVE  RegistryInv'
<1> DEFINE stage == IF ok THEN "swept" ELSE "failed"
           rows  == IF ok THEN players ELSE {}
<1>0. round \in [Rounds -> RoundState]
  BY TypesOfRounds DEF RegistryInv
<1>1. stage \in Stages /\ rows \in SUBSET Devices
  BY DEF Stages, DevicesTypeOK, RegistryInv
<1>2. round' = [round EXCEPT ![r].stage = stage, ![r].rows = rows]
  BY DEF RoundAnswered
<1>3. (stage = "failed" => rows = {}) /\ rows \subseteq players
  OBVIOUS
<1> HIDE DEF stage, rows
<1>4. round' \in [Rounds -> RoundState]
  BY <1>0, <1>1, <1>2 DEF RoundState
<1>5. UNCHANGED <<worldVars, registry, retained, listed, online, reading, faults, lost>>
  BY DEF RoundAnswered
<1>6. DevicesTypeOK'
  BY <1>4, <1>5 DEF DevicesTypeOK, worldVars, RoundState, Stages, Stamps, RegistryInv
<1>7. StampsAreTruthful' /\ LivesAreNow'
  BY <1>5 DEF StampsAreTruthful, LivesAreNow, worldVars, RegistryInv
<1>8. RoundsAreHonest'
  <2> SUFFICES ASSUME NEW q \in Rounds, round'[q].stage # "idle"
               PROVE  /\ round'[q].stamp \in 1..time'
                      /\ round'[q].stage = "failed" => round'[q].rows = {}
                      /\ \A d \in round'[q].rows : round'[q].stamp <= lastThere'[d]
    BY DEF RoundsAreHonest
  <2>1. CASE q = r
    <3>1. round[r].stamp \in 1..time /\ time \in Nat
      BY DEF RoundsAreHonest, DevicesTypeOK, RegistryInv, RoundAnswered
    <3>2. \A d \in rows : lastThere[d] = time
      BY <1>3 DEF LivesAreNow, RegistryInv
    <3>3. round'[q].stage = stage /\ round'[q].rows = rows /\ round'[q].stamp = round[r].stamp
      BY <2>1, <1>2, <1>0 DEF RoundState
    <3> QED BY <1>3, <3>1, <3>2, <3>3, <1>5 DEF worldVars
  <2>2. CASE q # r
    <3>1. round'[q] = round[q]
      BY <2>2, <1>2, <1>0
    <3> QED BY <3>1, <1>5 DEF RoundsAreHonest, worldVars, RegistryInv
  <2> QED BY <2>1, <2>2
<1> QED BY <1>6, <1>7, <1>8 DEF RegistryInv

(* A round ends: its publishes arrive at the registry, and, connections    *)
(* permitting, at the broker and at the reader.                            *)
LEMMA AfterIsTyped ==
    ASSUME DevicesTypeOK, NEW r \in Rounds, NEW map \in [Ids -> Stamps]
    PROVE  After(map, r) \in [Ids -> Stamps]
<1>1. round[r].stamp \in Stamps
  BY TypesOfRounds DEF RoundState
<1>2. 0 \in Stamps
  BY DevicesAssumption DEF Stamps
<1> QED BY <1>1, <1>2 DEF After, Stamp

LEMMA AfterIsTruthful ==
    ASSUME RegistryInv, NEW r \in Rounds, round[r].stage # "idle", NEW map \in [Ids -> Stamps],
           \A d \in Devices : map[d] <= lastThere[d]
    PROVE  \A d \in Devices : After(map, r)[d] <= lastThere[d]
<1> SUFFICES ASSUME NEW d \in Devices PROVE After(map, r)[d] <= lastThere[d]
  OBVIOUS
<1>1. d \in Ids /\ d # Shield /\ lastThere[d] \in Nat
  BY DevicesAssumption DEF Ids, DevicesTypeOK, RegistryInv, Stamps
<1>2. CASE d \in Gone(r)
  BY <1>1, <1>2 DEF After
<1>3. CASE d \notin Gone(r) /\ d \in Announced(r)
  <2>1. d \in round[r].rows
    BY <1>1, <1>3 DEF Announced, Wanted
  <2>2. round[r].stamp <= lastThere[d]
    BY <2>1 DEF RegistryInv, RoundsAreHonest
  <2> QED BY <1>1, <1>3, <2>2 DEF After, Stamp
<1>4. CASE d \notin Gone(r) /\ d \notin Announced(r)
  BY <1>1, <1>4 DEF After
<1> QED BY <1>2, <1>3, <1>4

LEMMA EndingKeeps ==
    ASSUME RegistryInv, NEW r \in Rounds, RoundEnds(r)
    PROVE  RegistryInv'
<1>0. /\ registry \in [Ids -> Stamps] /\ retained \in [Ids -> Stamps] /\ listed \in [Ids -> Stamps]
      /\ round \in [Rounds -> RoundState] /\ lost \subseteq Devices /\ round[r].stage # "idle"
  BY TypesOfRounds DEF RegistryInv, DevicesTypeOK, RoundEnds
<1>1. /\ registry' \in [Ids -> Stamps] /\ retained' \in [Ids -> Stamps] /\ listed' \in [Ids -> Stamps]
  BY <1>0, AfterIsTyped DEF RoundEnds, RegistryInv
<1>2. IdleRound \in RoundState
  BY DevicesAssumption DEF IdleRound, RoundState, Stages, Stamps
<1>3. round' \in [Rounds -> RoundState] /\ round' = [round EXCEPT ![r] = IdleRound]
  BY <1>0, <1>2 DEF RoundEnds
<1>4. lost' \subseteq Devices
  <2>1. Gone(r) \subseteq Devices
    BY DEF Gone, Ids, Wanted
  <2> QED BY <1>0, <2>1 DEF RoundEnds
<1>5. UNCHANGED <<worldVars, online, reading, faults>>
  BY DEF RoundEnds
<1>6. DevicesTypeOK'
  BY <1>1, <1>3, <1>4, <1>5 DEF RegistryInv, DevicesTypeOK, RoundState, Stages, Stamps, worldVars
<1>7. StampsAreTruthful'
  <2>1. /\ \A d \in Devices : After(retained, r)[d] <= lastThere[d]
        /\ \A d \in Devices : After(listed, r)[d] <= lastThere[d]
    BY <1>0, AfterIsTruthful DEF RegistryInv, StampsAreTruthful
  <2> QED BY <2>1, <1>5 DEF RegistryInv, StampsAreTruthful, RoundEnds, worldVars
<1>8. RoundsAreHonest'
  BY <1>0, <1>3, <1>5 DEF RegistryInv, RoundsAreHonest, IdleRound, worldVars
<1>9. LivesAreNow'
  BY <1>5 DEF RegistryInv, LivesAreNow, worldVars
<1> QED BY <1>6, <1>7, <1>8, <1>9 DEF RegistryInv

(* The connections.                                                        *)
LEMMA LinksKeep ==
    ASSUME RegistryInv, Offline \/ ReaderLeaves
    PROVE  RegistryInv'
<1>1. UNCHANGED <<worldVars, registry, retained, listed, round, lost>>
  BY DEF Offline, ReaderLeaves
<1>2. online' \in BOOLEAN /\ reading' \in BOOLEAN
  BY DEF Offline, ReaderLeaves, RegistryInv, DevicesTypeOK
<1>3. faults' \in 0..MaxFaults
  BY DevicesAssumption DEF Offline, ReaderLeaves, RegistryInv, DevicesTypeOK
<1>4. DevicesTypeOK'
  BY <1>1, <1>2, <1>3 DEF RegistryInv, DevicesTypeOK, worldVars, Stamps
<1> QED BY <1>1, <1>4 DEF RegistryInv, StampsAreTruthful, RoundsAreHonest, LivesAreNow, worldVars

LEMMA OnlineKeeps ==
    ASSUME RegistryInv, Online
    PROVE  RegistryInv'
<1>1. PICK r \in Rounds :
         round' = IF round[r].stage = "idle"
                  THEN [round EXCEPT ![r] = [stage |-> "asking", stamp |-> time, rows |-> {}]]
                  ELSE round
  BY DEF Online
<1>2. /\ UNCHANGED <<worldVars, registry, retained, listed, reading, faults, lost>>
      /\ online' \in BOOLEAN
  BY DEF Online
<1>3. CASE round[r].stage = "idle"
  BY <1>1, <1>2, <1>3, StartingKeeps
<1>4. CASE round[r].stage # "idle"
  <2>1. round' = round
    BY <1>1, <1>4
  <2>2. DevicesTypeOK'
    BY <2>1, <1>2 DEF RegistryInv, DevicesTypeOK, worldVars, Stamps
  <2> QED BY <2>1, <2>2, <1>2 DEF RegistryInv, StampsAreTruthful, RoundsAreHonest, LivesAreNow,
                                  worldVars
<1> QED BY <1>3, <1>4

LEMMA ReturningKeeps ==
    ASSUME RegistryInv, ReaderReturns
    PROVE  RegistryInv'
<1>1. /\ UNCHANGED <<worldVars, registry, retained, online, round, faults, lost>>
      /\ reading' \in BOOLEAN
      /\ listed' = [i \in Ids |-> IF retained[i] # 0 THEN retained[i] ELSE listed[i]]
  BY DEF ReaderReturns
<1>2. listed' \in [Ids -> Stamps]
  BY <1>1 DEF RegistryInv, DevicesTypeOK
<1>3. DevicesTypeOK'
  BY <1>1, <1>2 DEF RegistryInv, DevicesTypeOK, worldVars, Stamps
<1>4. StampsAreTruthful'
  BY <1>1 DEF RegistryInv, StampsAreTruthful, worldVars, Ids
<1> QED BY <1>1, <1>3, <1>4 DEF RegistryInv, RoundsAreHonest, LivesAreNow, worldVars

(* A restart forgets the rounds and what was believed; the broker does not.*)
LEMMA RestartKeeps ==
    ASSUME RegistryInv, RegistryRestarts
    PROVE  RegistryInv'
<1>1. 0 \in Stamps
  BY DevicesAssumption DEF Stamps
<1>2. registry' \in [Ids -> Stamps] /\ listed' \in [Ids -> Stamps]
  BY <1>1 DEF RegistryRestarts, RegistryInv, DevicesTypeOK
<1>3. IdleRound \in RoundState
  BY <1>1 DEF IdleRound, RoundState, Stages
<1>4. round' \in [Rounds -> RoundState] /\ \A q \in Rounds : round'[q].stage = "idle"
  BY <1>3 DEF RegistryRestarts, IdleRound
<1>5. faults' \in 0..MaxFaults /\ online' \in BOOLEAN /\ reading' \in BOOLEAN
  BY DevicesAssumption DEF RegistryRestarts, RegistryInv, DevicesTypeOK
<1>6. lost' \subseteq Devices /\ UNCHANGED <<worldVars, retained>>
  BY DEF RegistryRestarts, RegistryInv, DevicesTypeOK
<1>7. DevicesTypeOK'
  BY <1>2, <1>4, <1>5, <1>6 DEF RegistryInv, DevicesTypeOK, RoundState, Stages, Stamps, worldVars
<1>8. StampsAreTruthful'
  BY <1>6 DEF RegistryRestarts, RegistryInv, StampsAreTruthful, worldVars
<1> QED BY <1>4, <1>6, <1>7, <1>8 DEF RegistryInv, RoundsAreHonest, LivesAreNow, worldVars

(* The world: what plex.tv listed last is only ever later.                 *)
LEMMA LaterIsTruthful ==
    ASSUME RegistryInv, UNCHANGED <<retained, listed, round>>,
           lastThere' \in [Devices -> Stamps], time' \in Nat, time <= time',
           \A d \in Devices : lastThere[d] <= lastThere'[d]
    PROVE  StampsAreTruthful' /\ RoundsAreHonest'
<1>1. retained \in [Ids -> Nat] /\ listed \in [Ids -> Nat] /\ lastThere \in [Devices -> Nat]
      /\ time \in Nat /\ lastThere' \in [Devices -> Nat]
  BY DEF RegistryInv, DevicesTypeOK, Stamps
<1>2. \A r \in Rounds : round[r].stamp \in Nat /\ round[r].rows \subseteq Devices
  BY TypesOfRounds DEF RegistryInv, RoundState, Stamps
<1>3. StampsAreTruthful'
  <2> SUFFICES ASSUME NEW d \in Devices
               PROVE  retained[d] <= lastThere'[d] /\ listed[d] <= lastThere'[d]
    BY DEF StampsAreTruthful
  <2>1. retained[d] <= lastThere[d] /\ listed[d] <= lastThere[d] /\ d \in Ids
    BY DEF RegistryInv, StampsAreTruthful, Ids
  <2> QED BY <1>1, <2>1
<1>4. RoundsAreHonest'
  <2> SUFFICES ASSUME NEW r \in Rounds, round[r].stage # "idle"
               PROVE  /\ round[r].stamp \in 1..time'
                      /\ round[r].stage = "failed" => round[r].rows = {}
                      /\ \A d \in round[r].rows : round[r].stamp <= lastThere'[d]
    BY DEF RoundsAreHonest
  <2>1. /\ round[r].stamp \in 1..time
        /\ round[r].stage = "failed" => round[r].rows = {}
        /\ \A d \in round[r].rows : round[r].stamp <= lastThere[d]
    BY DEF RegistryInv, RoundsAreHonest
  <2>2. \A d \in round[r].rows : round[r].stamp <= lastThere'[d]
    BY <1>1, <1>2, <2>1
  <2> QED BY <1>1, <2>1, <2>2
<1> QED BY <1>3, <1>4

LEMMA ComingKeeps ==
    ASSUME RegistryInv, NEW d \in Devices, ComesOrGoes(d)
    PROVE  RegistryInv'
<1>1. /\ UNCHANGED <<registry, retained, listed, online, reading, round, time, faults, lost>>
      /\ players' = IF d \in players THEN players \ {d} ELSE players \cup {d}
      /\ lastThere' = IF d \in players THEN lastThere ELSE [lastThere EXCEPT ![d] = time]
  BY DEF ComesOrGoes
<1>2. time \in Stamps /\ time \in Nat /\ lastThere \in [Devices -> Stamps]
  BY DevicesAssumption DEF RegistryInv, DevicesTypeOK, Stamps
<1>3. lastThere' \in [Devices -> Stamps] /\ players' \subseteq Devices
  BY <1>1, <1>2 DEF RegistryInv, DevicesTypeOK
<1>4. comings' \in 0..MaxComings
  BY DevicesAssumption DEF ComesOrGoes, RegistryInv, DevicesTypeOK
<1>5. \A e \in Devices : lastThere[e] <= lastThere'[e] /\ lastThere'[e] <= time
  <2> SUFFICES ASSUME NEW e \in Devices
               PROVE  lastThere[e] <= lastThere'[e] /\ lastThere'[e] <= time
    OBVIOUS
  <2>1. lastThere[e] <= time /\ lastThere[e] \in Nat
    BY <1>2 DEF RegistryInv, LivesAreNow, Stamps
  <2> QED BY <1>1, <1>2, <2>1
<1>6. DevicesTypeOK'
  BY <1>1, <1>3, <1>4 DEF RegistryInv, DevicesTypeOK, Stamps
<1>7. StampsAreTruthful' /\ RoundsAreHonest'
  BY <1>1, <1>2, <1>3, <1>5, LaterIsTruthful
<1>8. LivesAreNow'
  <2>1. \A e \in players' : lastThere'[e] = time
    BY <1>1, <1>2 DEF RegistryInv, LivesAreNow, DevicesTypeOK
  <2> QED BY <1>1, <1>5, <2>1 DEF LivesAreNow
<1> QED BY <1>6, <1>7, <1>8 DEF RegistryInv

LEMMA TimeKeeps ==
    ASSUME RegistryInv, TimePasses
    PROVE  RegistryInv'
<1>1. /\ UNCHANGED <<players, comings, registry, retained, listed, online, reading, round,
                     faults, lost>>
      /\ time' = time + 1 /\ time < MaxTime
      /\ lastThere' = [d \in Devices |-> IF d \in players THEN time' ELSE lastThere[d]]
  BY DEF TimePasses
<1>2. time \in Nat /\ time' \in 1..MaxTime /\ time' \in Stamps /\ time <= time'
  BY <1>1, DevicesAssumption DEF RegistryInv, DevicesTypeOK, Stamps
<1>3. lastThere' \in [Devices -> Stamps]
  BY <1>1, <1>2 DEF RegistryInv, DevicesTypeOK
<1>4. \A e \in Devices : lastThere[e] <= lastThere'[e] /\ lastThere'[e] <= time'
  <2> SUFFICES ASSUME NEW e \in Devices
               PROVE  lastThere[e] <= lastThere'[e] /\ lastThere'[e] <= time'
    OBVIOUS
  <2>1. lastThere[e] <= time /\ lastThere[e] \in Nat
    BY DEF RegistryInv, LivesAreNow, DevicesTypeOK, Stamps
  <2> QED BY <1>1, <1>2, <2>1
<1>5. DevicesTypeOK'
  BY <1>1, <1>2, <1>3 DEF RegistryInv, DevicesTypeOK, Stamps
<1>6. StampsAreTruthful' /\ RoundsAreHonest'
  BY <1>1, <1>2, <1>3, <1>4, LaterIsTruthful
<1>7. LivesAreNow'
  BY <1>1, <1>4 DEF RegistryInv, LivesAreNow, DevicesTypeOK
<1> QED BY <1>5, <1>6, <1>7 DEF RegistryInv

-----------------------------------------------------------------------------
LEMMA NextKeepsRegistry == RegistryInv /\ [DevicesNext]_devicesVars => RegistryInv'
<1> SUFFICES ASSUME RegistryInv, [DevicesNext]_devicesVars PROVE RegistryInv'
  OBVIOUS
<1>1. ASSUME NEW r \in Rounds, RoundStarts(r) PROVE RegistryInv'
  <2>1. /\ round' = [round EXCEPT ![r] = [stage |-> "asking", stamp |-> time, rows |-> {}]]
        /\ UNCHANGED <<worldVars, registry, retained, listed, reading, faults, lost>>
        /\ online' \in BOOLEAN
    BY <1>1 DEF RoundStarts, RegistryInv, DevicesTypeOK
  <2> QED BY <2>1, StartingKeeps
<1>2. ASSUME NEW r \in Rounds, RoundEnds(r) PROVE RegistryInv'
  BY <1>2, EndingKeeps
<1>3. ASSUME NEW r \in Rounds, NEW ok \in BOOLEAN, RoundAnswered(r, ok) PROVE RegistryInv'
  BY <1>3, AnswerKeeps
<1>4. CASE Offline \/ ReaderLeaves
  BY <1>4, LinksKeep
<1>5. CASE Online
  BY <1>5, OnlineKeeps
<1>6. CASE ReaderReturns
  BY <1>6, ReturningKeeps
<1>7. CASE RegistryRestarts
  BY <1>7, RestartKeeps
<1>8. ASSUME NEW d \in Devices, ComesOrGoes(d) PROVE RegistryInv'
  BY <1>8, ComingKeeps
<1>9. CASE TimePasses
  BY <1>9, TimeKeeps
<1>10. CASE UNCHANGED devicesVars
  <2>1. DevicesTypeOK'
    BY <1>10 DEF RegistryInv, DevicesTypeOK, devicesVars, Stamps
  <2> QED BY <2>1, <1>10 DEF RegistryInv, StampsAreTruthful, RoundsAreHonest, LivesAreNow,
                             devicesVars
<1> QED BY <1>1, <1>2, <1>3, <1>4, <1>5, <1>6, <1>7, <1>8, <1>9, <1>10 DEF DevicesNext

(* A topic is cleared by a round alone, and by one that swept.             *)
LEMMA ClearedByASweep ==
    ASSUME RegistryInv, [DevicesNext]_devicesVars, NEW d \in Devices,
           retained[d] # 0, retained'[d] = 0
    PROVE  \E r \in Rounds : round[r].stage = "swept" /\ d \notin round[r].rows
                             /\ round'[r].stage = "idle"
<1>1. PICK r \in Rounds : RoundEnds(r)
  <2>1. retained' # retained
    OBVIOUS
  <2> QED BY <2>1 DEF DevicesNext, devicesVars, RoundStarts, RoundAnswered, Offline, Online,
                      ReaderLeaves, ReaderReturns, RegistryRestarts, ComesOrGoes, TimePasses
<1>2. d \in Ids /\ round \in [Rounds -> RoundState] /\ round[r].stage # "idle"
  BY <1>1, TypesOfRounds DEF Ids, RegistryInv, RoundEnds
<1>3. retained' = After(retained, r)
  BY <1>1 DEF RoundEnds
<1>4. d \in Gone(r)
  <2>1. SUFFICES ASSUME d \notin Gone(r) PROVE FALSE
    OBVIOUS
  <2>2. d \in Announced(r) /\ Stamp(r) = 0
    BY <1>2, <1>3, <2>1 DEF After
  <2>3. round[r].stamp \in 1..time
    BY <1>2 DEF RegistryInv, RoundsAreHonest
  <2> QED BY <2>2, <2>3 DEF Stamp, RegistryInv, DevicesTypeOK
<1>5. round[r].stage = "swept" /\ d \notin round[r].rows
  BY <1>4 DEF Gone, Wanted
<1>6. round'[r].stage = "idle"
  BY <1>1, <1>2 DEF RoundEnds, IdleRound
<1> QED BY <1>5, <1>6

-----------------------------------------------------------------------------
\* The registry's state is of its types, for any players, rounds, times and faults.
THEOREM RegistryIsTyped == DevicesSpec => []DevicesTypeOK
<1>1. RegistryInv => DevicesTypeOK
  BY DEF RegistryInv
<1> QED BY <1>1, InitIsHonest, NextKeepsRegistry, PTL DEF DevicesSpec

\* What is retained, and what the dropdown is fed from, is never stamped later than
\* plex.tv last listed the player (devices.ts, on `seen`): rounds that overlap, fail,
\* are answered out of order, or are lost on the way do not forge a sighting.
THEOREM StampsStayTruthful == DevicesSpec => []StampsAreTruthful
<1>1. RegistryInv => StampsAreTruthful
  BY DEF RegistryInv
<1> QED BY <1>1, InitIsHonest, NextKeepsRegistry, PTL DEF DevicesSpec

\* Both parts of what the Household run checks of the retained topics: they are stamped
\* truthfully after every step, and only a sweep of announceDevices clears one.
THEOREM RetainedStaysAsSeen == DevicesSpec => RetainedIsAsSeen
<1>1. RegistryInv /\ [DevicesNext]_devicesVars => StampsAreTruthful'
  BY NextKeepsRegistry DEF RegistryInv
<1>2. RegistryInv /\ [DevicesNext]_devicesVars
        => [\A d \in Devices : retained[d] # 0 /\ retained'[d] = 0 =>
              \E r \in Rounds : round[r].stage = "swept" /\ d \notin round[r].rows
                                /\ round'[r].stage = "idle"]_devicesVars
  BY ClearedByASweep
<1> QED BY <1>1, <1>2, InitIsHonest, NextKeepsRegistry, PTL
        DEF DevicesSpec, RetainedIsAsSeen, OnlyASweepDeregisters

-----------------------------------------------------------------------------
(* ProfileGate.  A gate clears on one of two kinds of evidence: an         *)
(* observed log line, or a commit on a tile the walk has read              *)
(* itself.  Each is worth what it was when it was had, as long as nobody   *)
(* else has used the Shield since.                                         *)

GateStages == {"new", "detecting", "gating", "waiting", "attempting", "summoning", "comparing",
           "pressing", "reading", "committing", "accepting", "failed"} \cup Ended
Calm   == GateStages \ {"comparing", "committing", "accepting"}
Titles == Names \cup {NoName}

DriveState ==
    [stage : GateStages, required : Titles, cancelled : BOOLEAN, tries : Int, hint : Titles,
     current : Titles, verified : BOOLEAN, touched : BOOLEAN, presses : 0..MaxPresses, menus : Int]

GateTypes ==
    /\ screenOn \in {"asleep", "home", "player", "picker"}
    /\ tile \in Slots /\ signed \in Slots /\ line \in Slots \cup {0}
    /\ lastSeen \in [title : Titles, isObserved : BOOLEAN]
    /\ drive \in [Drives -> DriveState] /\ changed \in BOOLEAN

\* An observation is of the profile signed in, unless that has changed since.
SeenIsSigned ==
    lastSeen.isObserved =>
        lastSeen.title \in Names /\ (changed \/ SlotOf[lastSeen.title] = signed)

\* What a walk has seen for itself is so, unless somebody has used the Shield since.
SightIsTrue(c, up, lit) ==
    c.stage \in {"comparing", "committing"} /\ c.verified /\ ~c.touched =>
        up /\ c.current \in Names /\ SlotOf[c.current] = lit

CommitsTheRequired(c) ==
    c.stage = "committing" => c.verified /\ c.current \in Names /\ SlotOf[c.current] = SlotOf[c.required]

\* A commit has signed in, or a PIN keeps the picker up.
CommitIsMade(c, up, lit, who) ==
    c.stage = "accepting" =>
        c.verified /\ (c.touched \/ (up /\ lit \in Locked) \/ who = SlotOf[c.required])

\* What a drive knows is right of a Shield that has its picker up, this tile lit and this
\* profile signed in.
Good(c, up, lit, who) ==
    /\ c.stage # "new" => c.required \in Required
    /\ SightIsTrue(c, up, lit) /\ CommitsTheRequired(c) /\ CommitIsMade(c, up, lit, who)

DrivesAreGood == \A d \in Drives : Good(drive[d], OnPicker, tile, signed)

GateInv == GateTypes /\ SeenIsSigned /\ DrivesAreGood

\* A gate clears with the required profile signed in, or with an excuse.
ClearsRightly(d) ==
    ~At(d, "cleared") /\ drive'[d].stage = "cleared" =>
        \/ signed = SlotOf[drive[d].required]
        \/ IF At(d, "accepting") THEN drive[d].touched ELSE changed'

Outcome == GateInv' /\ \A d \in Drives : ClearsRightly(d)

-----------------------------------------------------------------------------
(* The records a step makes of a drive.                                    *)
LEMMA FreshIsTyped ==
    /\ Fresh \in DriveState /\ Fresh.stage = "new" /\ ~Fresh.verified /\ ~Fresh.touched
BY GateAssumption DEF Fresh, DriveState, GateStages, Titles

LEMMA LeftIsCalm ==
    ASSUME GateInv, NEW d \in Drives, NEW stage \in GateStages
    PROVE  /\ Left(d, stage) \in DriveState
           /\ Left(d, stage).stage = stage /\ Left(d, stage).required = drive[d].required
<1>1. drive[d] \in DriveState
  BY DEF GateInv, GateTypes
<1> QED BY <1>1, FreshIsTyped DEF Left, Fresh, DriveState

LEMMA SeesIsTyped ==
    ASSUME GateInv, NEW d \in Drives, NEW name \in Titles, NEW isSight \in BOOLEAN
    PROVE  /\ Sees(d, name, isSight) \in DriveState
           /\ Sees(d, name, isSight).stage = "comparing"
           /\ Sees(d, name, isSight).required = drive[d].required
           /\ Sees(d, name, isSight).current = name
           /\ Sees(d, name, isSight).verified = isSight
           /\ Sees(d, name, isSight).touched = FALSE
<1>1. drive[d] \in DriveState
  BY DEF GateInv, GateTypes
<1>2. Sees(d, name, isSight) \in DriveState
  <2> DEFINE c == [drive[d] EXCEPT !.stage = "comparing", !.current = name, !.verified = isSight]
  <2>1. "comparing" \in GateStages /\ NoName \in Titles
    BY DEF GateStages, Titles
  <2>2. c \in DriveState
    BY <1>1, <2>1 DEF DriveState
  <2>3. Sees(d, name, isSight) = [c EXCEPT !.touched = FALSE, !.hint = NoName, !.menus = 0]
    BY <1>1 DEF Sees, DriveState
  <2> HIDE DEF c
  <2> DEFINE e == [c EXCEPT !.touched = FALSE, !.hint = NoName]
  <2>4. e \in DriveState
    BY <2>1, <2>2 DEF DriveState
  <2>5. Sees(d, name, isSight) = [e EXCEPT !.menus = 0]
    BY <2>2, <2>3 DEF DriveState
  <2> HIDE DEF e
  <2> QED BY <2>4, <2>5 DEF DriveState
<1>3. /\ Sees(d, name, isSight).stage = "comparing"
      /\ Sees(d, name, isSight).required = drive[d].required
      /\ Sees(d, name, isSight).current = name
  BY <1>1 DEF Sees, DriveState
<1>4. Sees(d, name, isSight).verified = isSight /\ Sees(d, name, isSight).touched = FALSE
  BY <1>1 DEF Sees, DriveState
<1> QED BY <1>2, <1>3, <1>4

LEMMA TouchedIsTyped ==
    ASSUME GateInv, NEW e \in Drives
    PROVE  /\ Touched(e) \in DriveState
           /\ Touched(e).stage = drive[e].stage /\ Touched(e).required = drive[e].required
           /\ Touched(e).current = drive[e].current
           /\ Touched(e).verified = drive[e].verified /\ Touched(e).touched = drive[e].verified
<1>1. drive[e] \in DriveState
  BY DEF GateInv, GateTypes
<1> QED BY <1>1 DEF Touched, DriveState

\* A tile that is read is the tile that is lit.
LEMMA ReadsTheTile ==
    ASSUME GateInv, NEW d \in Drives, OnPicker, drive[d].stage # "new"
    PROVE  Reads(d) \in DriveState /\ Reads(d).stage = "comparing" /\ Good(Reads(d), OnPicker, tile, signed)
<1>1. TileName[tile] \in Names /\ SlotOf[TileName[tile]] = tile
  BY GateAssumption DEF GateInv, GateTypes
<1>2. drive[d].required \in Required
  BY DEF GateInv, DrivesAreGood, Good
<1>3. TileName[tile] \in Titles
  BY <1>1 DEF Titles
<1> DEFINE c == Reads(d)
<1>4. /\ c \in DriveState /\ c.stage = "comparing" /\ c.required = drive[d].required
      /\ c.current = TileName[tile]
  BY <1>3, SeesIsTyped DEF Reads
<1> HIDE DEF c
<1>5. Good(c, OnPicker, tile, signed)
  BY <1>1, <1>2, <1>4 DEF Good, SightIsTrue, CommitsTheRequired, CommitIsMade
<1> QED BY <1>4, <1>5 DEF c

LEMMA ResummonIsCalm ==
    ASSUME GateInv, NEW d \in Drives
    PROVE  /\ Resummon(d) \in DriveState
           /\ Resummon(d).stage = "summoning" /\ Resummon(d).required = drive[d].required
<1>1. NoName \in Titles
  BY DEF Titles
<1>2. Sees(d, NoName, FALSE) \in DriveState /\ Sees(d, NoName, FALSE).required = drive[d].required
  BY <1>1, SeesIsTyped
<1> QED BY <1>2 DEF Resummon, DriveState, GateStages

-----------------------------------------------------------------------------
(* A step of one drive that does not touch the Shield.                     *)
LEMMA QuietStep ==
    ASSUME GateInv, NEW d \in Drives, NEW to \in DriveState, Drive(d, to),
           UNCHANGED shieldVars, line' \in Slots \cup {0},
           lastSeen' \in [title : Titles, isObserved : BOOLEAN], changed' \in BOOLEAN, SeenIsSigned',
           Good(to, OnPicker, tile, signed), ClearsRightly(d)
    PROVE  Outcome
<1>1. drive' = [drive EXCEPT ![d] = to] /\ drive \in [Drives -> DriveState]
  BY DEF Drive, GateInv, GateTypes
<1>2. drive' \in [Drives -> DriveState] /\ drive'[d] = to
      /\ \A e \in Drives \ {d} : drive'[e] = drive[e]
  BY <1>1
<1>3. GateTypes'
  BY <1>2 DEF GateInv, GateTypes, shieldVars
<1>4. \A e \in Drives : Good(drive'[e], OnPicker, tile, signed)
  BY <1>2 DEF GateInv, DrivesAreGood
<1>5. DrivesAreGood'
  BY <1>4 DEF DrivesAreGood, OnPicker, shieldVars
<1>6. \A e \in Drives \ {d} : ClearsRightly(e)
  BY <1>2 DEF ClearsRightly, At
<1> QED BY <1>3, <1>5, <1>6 DEF Outcome, GateInv

\* One that only goes on to a stage that claims nothing.
LEMMA CalmStep ==
    ASSUME GateInv, NEW d \in Drives, NEW to \in DriveState, Drive(d, to),
           UNCHANGED <<shieldVars, lastSeen, changed>>, line' \in Slots \cup {0},
           to.stage \in Calm, to.stage = "cleared" => ClearsRightly(d), to.required \in Required
    PROVE  Outcome
<1>1. Good(to, OnPicker, tile, signed)
  BY DEF Good, SightIsTrue, CommitsTheRequired, CommitIsMade, Calm
<1>2. drive'[d] = to
  BY DEF Drive, GateInv, GateTypes
<1>3. ClearsRightly(d)
  BY <1>2 DEF ClearsRightly
<1> QED BY <1>1, <1>3, QuietStep DEF GateInv, GateTypes, SeenIsSigned, shieldVars

(* A step that uses the Shield: what the others have seen is touched.      *)
LEMMA TouchedIsGood ==
    ASSUME GateInv, NEW e \in Drives, NEW up, NEW lit, NEW who
    PROVE  Good(Touched(e), up, lit, who)
<1>1. Good(drive[e], OnPicker, tile, signed)
  BY DEF GateInv, DrivesAreGood
<1> DEFINE c == Touched(e)
<1>2. /\ c.stage = drive[e].stage /\ c.required = drive[e].required /\ c.current = drive[e].current
      /\ c.verified = drive[e].verified /\ c.touched = drive[e].verified
  BY TouchedIsTyped
<1> HIDE DEF c
<1>3. Good(c, up, lit, who)
  BY <1>1, <1>2 DEF Good, SightIsTrue, CommitsTheRequired, CommitIsMade
<1> QED BY <1>3 DEF c

LEMMA ShieldStep ==
    ASSUME GateInv, NEW d \in Drives, NEW to \in DriveState, Uses(d, to),
           screenOn' \in {"asleep", "home", "player", "picker"}, tile' \in Slots, signed' \in Slots,
           UNCHANGED <<line, lastSeen>>, changed' \in BOOLEAN, SeenIsSigned',
           Good(to, OnPicker', tile', signed'), to.stage # "cleared"
    PROVE  Outcome
<1>1. drive' = [e \in Drives |-> IF e = d THEN to ELSE Touched(e)]
  BY DEF Uses
<1>2. drive'[d] = to /\ \A e \in Drives \ {d} : drive'[e] = Touched(e)
  BY <1>1
<1>3. drive' \in [Drives -> DriveState]
  BY <1>1, TouchedIsTyped
<1>4. GateTypes'
  BY <1>3 DEF GateInv, GateTypes
<1>5. \A e \in Drives : Good(drive'[e], OnPicker', tile', signed')
  BY <1>2, TouchedIsGood
<1>6. DrivesAreGood'
  BY <1>5 DEF DrivesAreGood
<1>7. \A e \in Drives : ClearsRightly(e)
  BY <1>2, TouchedIsTyped DEF ClearsRightly, At
<1> QED BY <1>4, <1>6, <1>7 DEF Outcome, GateInv

\* One of people: every drive's sight is touched.
LEMMA PersonStep ==
    ASSUME GateInv, drive' = [d \in Drives |-> Touched(d)],
           screenOn' \in {"asleep", "home", "player", "picker"}, tile' \in Slots, signed' \in Slots,
           UNCHANGED <<line, lastSeen>>, changed' \in BOOLEAN, SeenIsSigned'
    PROVE  Outcome
<1>1. drive' \in [Drives -> DriveState] /\ \A d \in Drives : drive'[d] = Touched(d)
  BY TouchedIsTyped
<1>2. GateTypes'
  BY <1>1 DEF GateInv, GateTypes
<1>3. DrivesAreGood'
  <2>1. \A d \in Drives : Good(drive'[d], OnPicker', tile', signed')
    BY <1>1, TouchedIsGood
  <2> QED BY <2>1 DEF DrivesAreGood
<1>4. \A d \in Drives : ClearsRightly(d)
  BY <1>1, TouchedIsTyped DEF ClearsRightly, At
<1> QED BY <1>2, <1>3, <1>4 DEF Outcome, GateInv

-----------------------------------------------------------------------------
(* Names.                                                                  *)
LEMMA SameMeansSlot ==
    ASSUME NEW a, NEW b \in Names, SameProfile(a, b)
    PROVE  a \in Names /\ SlotOf[a] = SlotOf[b]
BY DEF SameProfile

LEMMA ObservedIsEvidence ==
    ASSUME GateInv, NEW name \in Required, OnRequired(name)
    PROVE  changed \/ signed = SlotOf[name]
<1>1. lastSeen.isObserved /\ SameProfile(lastSeen.title, name) /\ name \in Names
  BY GateAssumption DEF OnRequired
<1> QED BY <1>1, SameMeansSlot DEF GateInv, SeenIsSigned

LEMMA DrivesAreTyped ==
    ASSUME GateInv, NEW d \in Drives, drive[d].stage # "new"
    PROVE  /\ drive[d] \in DriveState /\ drive[d].required \in Required
           /\ drive[d].required \in Names /\ Good(drive[d], OnPicker, tile, signed)
           /\ (drive[d].verified \in BOOLEAN) /\ (drive[d].touched \in BOOLEAN)
BY GateAssumption DEF GateInv, GateTypes, DrivesAreGood, Good, DriveState

-----------------------------------------------------------------------------
(* driveProfile.                                                           *)
LEMMA StartsRightly == ASSUME GateInv, NEW d \in Drives, DriveStarts(d) PROVE Outcome
<1>1. PICK name \in Required, first \in {"detecting", "gating"} :
         drive' = [e \in Drives |->
                      IF e = d THEN [Fresh EXCEPT !.stage = first, !.required = name]
                      ELSE [drive[e] EXCEPT !.cancelled = drive[e].stage \notin Ended \cup {"new"}]]
  BY DEF DriveStarts
<1> DEFINE new == [Fresh EXCEPT !.stage = first, !.required = name]
<1>2. name \in Titles /\ first \in GateStages
  BY GateAssumption DEF Titles, GateStages
<1>3. new \in DriveState /\ new.stage = first /\ new.required = name
  BY <1>2, FreshIsTyped DEF DriveState, Fresh
<1>4. ASSUME NEW e \in Drives, e # d
      PROVE  /\ drive'[e] \in DriveState /\ drive'[e].stage = drive[e].stage
             /\ drive'[e].required = drive[e].required /\ drive'[e].current = drive[e].current
             /\ drive'[e].verified = drive[e].verified /\ drive'[e].touched = drive[e].touched
  <2>1. drive[e] \in DriveState
    BY DEF GateInv, GateTypes
  <2>2. drive'[e] = [drive[e] EXCEPT !.cancelled = drive[e].stage \notin Ended \cup {"new"}]
    BY <1>1, <1>4
  <2>3. (drive[e].stage \notin Ended \cup {"new"}) \in BOOLEAN
    OBVIOUS
  <2> QED BY <2>1, <2>2, <2>3 DEF DriveState
<1>5. drive'[d] = new
  BY <1>1
<1> HIDE DEF new
<1>6. drive' \in [Drives -> DriveState]
  <2>1. \A e \in Drives : drive'[e] \in DriveState
    BY <1>3, <1>4, <1>5
  <2>2. DOMAIN drive' = Drives /\ drive' = [e \in Drives |-> drive'[e]]
    BY <1>1
  <2> QED BY <2>1, <2>2
<1>7. UNCHANGED <<shieldVars, lastSeen, line, changed>>
  BY DEF DriveStarts
<1>8. GateTypes' /\ SeenIsSigned'
  BY <1>6, <1>7 DEF GateInv, GateTypes, SeenIsSigned, shieldVars
<1>9. \A e \in Drives : Good(drive'[e], OnPicker, tile, signed)
  <2> SUFFICES ASSUME NEW e \in Drives PROVE Good(drive'[e], OnPicker, tile, signed)
    OBVIOUS
  <2>1. CASE e = d
    BY <1>3, <1>5, <2>1 DEF Good, SightIsTrue, CommitsTheRequired, CommitIsMade
  <2>2. CASE e # d
    <3>1. Good(drive[e], OnPicker, tile, signed)
      BY DEF GateInv, DrivesAreGood
    <3> QED BY <1>4, <2>2, <3>1 DEF Good, SightIsTrue, CommitsTheRequired, CommitIsMade
  <2> QED BY <2>1, <2>2
<1>10. DrivesAreGood'
  BY <1>7, <1>9 DEF DrivesAreGood, OnPicker, shieldVars
<1>11. \A e \in Drives : ClearsRightly(e)
  BY <1>3, <1>4, <1>5 DEF ClearsRightly, At
<1> QED BY <1>8, <1>10, <1>11 DEF Outcome, GateInv

\* The line a wait reads is what it is compared with.
LEMMA WaitsRightly == ASSUME GateInv, NEW d \in Drives, WaitReads(d) PROVE Outcome
<1>1. /\ line \in Slots /\ UNCHANGED shieldVars /\ line' = 0
      /\ lastSeen' = [title |-> LogName[line], isObserved |-> TRUE] /\ changed' = (line # signed)
      /\ drive[d].stage \in {"detecting", "waiting"}
  BY DEF WaitReads, GateInv, GateTypes, At
<1>2. LogName[line] \in Names /\ SlotOf[LogName[line]] = line
  BY <1>1, GateAssumption
<1>3. lastSeen' \in [title : Titles, isObserved : BOOLEAN] /\ SeenIsSigned'
  BY <1>1, <1>2 DEF Titles, SeenIsSigned, shieldVars
<1>4. /\ drive[d] \in DriveState /\ drive[d].required \in Required
      /\ Good(drive[d], OnPicker, tile, signed) /\ drive \in [Drives -> DriveState]
  BY <1>1, DrivesAreTyped DEF GateInv, GateTypes
<1>5. ASSUME NEW to \in DriveState, Drive(d, to), Good(to, OnPicker, tile, signed),
             to.stage = "cleared" => LogName[line] = drive[d].required
      PROVE  Outcome
  <2>1. drive'[d] = to
    BY <1>4, <1>5 DEF Drive
  <2>2. ClearsRightly(d)
    BY <1>1, <1>2, <1>5, <2>1 DEF ClearsRightly, At
  <2> QED BY <1>1, <1>3, <1>5, <2>2, QuietStep
<1>6. CASE Out(d, "gating") \/ (Out(d, "cleared") /\ LogName[line] = drive[d].required)
  <2>1. ASSUME NEW stage \in {"gating", "cleared"}
        PROVE  /\ Left(d, stage) \in DriveState /\ Left(d, stage).stage = stage
               /\ Good(Left(d, stage), OnPicker, tile, signed)
    BY <1>4, LeftIsCalm DEF GateStages, Ended, Good, SightIsTrue, CommitsTheRequired, CommitIsMade
  <2> QED BY <1>5, <1>6, <2>1 DEF Out
<1>7. CASE UNCHANGED drive
  <2>1. Drive(d, drive[d])
    BY <1>4, <1>7 DEF Drive
  <2> QED BY <1>1, <1>4, <1>5, <2>1
<1> QED BY <1>6, <1>7 DEF WaitReads

\* Out of a walk or a wait, with nothing claimed.
LEMMA OutIsRight ==
    ASSUME GateInv, NEW d \in Drives, drive[d].stage # "new", NEW stage \in Calm \cap GateStages,
           Out(d, stage), UNCHANGED <<shieldVars, lastSeen, line, changed>>,
           stage = "cleared" => OnRequired(drive[d].required) /\ ~At(d, "accepting")
    PROVE  Outcome
<1>1. Left(d, stage) \in DriveState /\ Left(d, stage).stage = stage
      /\ Left(d, stage).required = drive[d].required
  BY LeftIsCalm
<1>2. drive[d].required \in Required
  BY DrivesAreTyped
<1>3. stage = "cleared" => ClearsRightly(d)
  BY <1>2, ObservedIsEvidence DEF ClearsRightly
<1>4. line' \in Slots \cup {0} /\ Drive(d, Left(d, stage))
  BY DEF GateInv, GateTypes, Out
<1> QED BY <1>1, <1>2, <1>3, <1>4, CalmStep

LEMMA EndsRightly ==
    ASSUME GateInv, NEW d \in Drives,
           WaitEnds(d) \/ Gate(d) \/ WalkFailed(d) \/ RunsLate(d) \/ SummonFails(d) \/ Rejected(d)
             \/ AdbFails(d)
    PROVE  Outcome
<1>1. /\ UNCHANGED <<shieldVars, lastSeen, line, changed>> /\ drive[d].stage # "new"
      /\ \E stage \in {"cancelled", "refused", "cleared", "attempting", "waiting", "failed"} :
            /\ Out(d, stage)
            /\ stage = "cleared" => OnRequired(drive[d].required) /\ ~At(d, "accepting")
  BY DEF WaitEnds, Gate, WalkFailed, RunsLate, SummonFails, Rejected, AdbFails, At
<1>2. {"cancelled", "refused", "cleared", "attempting", "waiting", "failed"} \subseteq Calm \cap GateStages
  BY DEF Calm, GateStages, Ended
<1> QED BY <1>1, <1>2, OutIsRight

LEMMA AttemptsRightly == ASSUME GateInv, NEW d \in Drives, Attempt(d) PROVE Outcome
<1>1. drive[d].stage = "attempting" /\ UNCHANGED <<shieldVars, lastSeen, line, changed>>
  BY DEF Attempt, At
<1>2. CASE Out(d, "cancelled") \/ Out(d, "refused")
  BY <1>1, <1>2, OutIsRight DEF Calm, GateStages, Ended
<1>3. CASE Drive(d, [Fresh EXCEPT !.stage = "summoning", !.required = drive[d].required,
                                  !.tries = TriesWith(d), !.hint = lastSeen.title])
  <2> DEFINE to == [Fresh EXCEPT !.stage = "summoning", !.required = drive[d].required,
                                 !.tries = TriesWith(d), !.hint = lastSeen.title]
  <2>1. drive[d] \in DriveState /\ drive[d].required \in Required
    BY <1>1, DrivesAreTyped
  <2>2. TriesWith(d) \in Int /\ lastSeen.title \in Titles
    BY <2>1 DEF TriesWith, DriveState, GateInv, GateTypes
  <2>3. to \in DriveState /\ to.stage = "summoning" /\ to.required = drive[d].required
    BY <2>1, <2>2, FreshIsTyped DEF DriveState, Fresh, GateStages
  <2> HIDE DEF to
  <2>4. Drive(d, to) /\ line' \in Slots \cup {0} /\ "summoning" \in Calm
    BY <1>1, <1>3 DEF to, GateInv, GateTypes, Calm, GateStages
  <2> QED BY <1>1, <2>1, <2>3, <2>4, CalmStep
<1> QED BY <1>2, <1>3 DEF Attempt

-----------------------------------------------------------------------------
(* The walk.                                                               *)

\* A step of the walk's own mind: what it takes the lit tile to be.
LEMMA MindStep ==
    ASSUME GateInv, NEW d \in Drives, drive[d].stage # "new", NEW to \in DriveState, Drive(d, to),
           UNCHANGED <<shieldVars, lastSeen, line, changed>>, Good(to, OnPicker, tile, signed),
           to.stage # "cleared"
    PROVE  Outcome
<1>1. drive'[d] = to
  BY DEF Drive, GateInv, GateTypes
<1>2. ClearsRightly(d)
  BY <1>1 DEF ClearsRightly
<1> QED BY <1>2, QuietStep DEF GateInv, GateTypes, SeenIsSigned, shieldVars

LEMMA ResummonIsGood ==
    ASSUME GateInv, NEW d \in Drives, drive[d].stage # "new"
    PROVE  Resummon(d) \in DriveState /\ Resummon(d).stage # "cleared"
           /\ Good(Resummon(d), OnPicker, tile, signed)
BY ResummonIsCalm, DrivesAreTyped DEF Good, SightIsTrue, CommitsTheRequired, CommitIsMade

LEMMA FindsRightly == ASSUME GateInv, NEW d \in Drives, PickerFound(d) PROVE Outcome
<1>1. /\ drive[d].stage = "summoning" /\ OnPicker /\ UNCHANGED <<shieldVars, lastSeen, line, changed>>
  BY DEF PickerFound, At
<1>2. CASE Drive(d, Reads(d))
  BY <1>1, <1>2, ReadsTheTile, MindStep
<1>3. CASE Drive(d, Sees(d, drive[d].hint, FALSE))
  <2> DEFINE to == Sees(d, drive[d].hint, FALSE)
  <2>1. drive[d] \in DriveState /\ drive[d].required \in Required /\ drive[d].hint \in Titles
    BY <1>1, DrivesAreTyped DEF DriveState
  <2>2. /\ to \in DriveState /\ to.stage = "comparing" /\ to.required = drive[d].required
        /\ to.verified = FALSE
    BY <2>1, SeesIsTyped
  <2> HIDE DEF to
  <2>3. Good(to, OnPicker, tile, signed)
    BY <2>1, <2>2 DEF Good, SightIsTrue, CommitsTheRequired, CommitIsMade
  <2> QED BY <1>1, <1>3, <2>2, <2>3, MindStep DEF to
<1> QED BY <1>2, <1>3 DEF PickerFound

\* What is required is committed only on a tile the walk has read.
LEMMA ComparesRightly == ASSUME GateInv, NEW d \in Drives, Compare(d) PROVE Outcome
<1>1. drive[d].stage = "comparing" /\ UNCHANGED <<shieldVars, lastSeen, line, changed>>
  BY DEF Compare, At
<1>2. /\ drive[d] \in DriveState /\ drive[d].required \in Names /\ drive[d].required \in Required
      /\ Good(drive[d], OnPicker, tile, signed)
  BY <1>1, DrivesAreTyped
<1>3. CASE SameProfile(drive[d].current, drive[d].required) /\ drive[d].verified
           /\ Drive(d, [drive[d] EXCEPT !.stage = "committing"])
  <2> DEFINE to == [drive[d] EXCEPT !.stage = "committing"]
  <2>1. to \in DriveState
    BY <1>2 DEF DriveState, GateStages
  <2>2. /\ to.stage = "committing" /\ to.required = drive[d].required /\ to.current = drive[d].current
        /\ to.verified = drive[d].verified /\ to.touched = drive[d].touched
    BY <1>2 DEF DriveState
  <2> HIDE DEF to
  <2>3. drive[d].current \in Names /\ SlotOf[drive[d].current] = SlotOf[drive[d].required]
    BY <1>2, <1>3, SameMeansSlot
  <2>4. Good(to, OnPicker, tile, signed)
    BY <1>1, <1>2, <1>3, <2>2, <2>3 DEF Good, SightIsTrue, CommitsTheRequired, CommitIsMade
  <2> QED BY <1>1, <1>3, <2>1, <2>2, <2>4, MindStep DEF to
<1>4. CASE OnPicker /\ Drive(d, Reads(d))
  BY <1>1, <1>4, ReadsTheTile, MindStep
<1>5. CASE Drive(d, Resummon(d))
  BY <1>1, <1>5, ResummonIsGood, MindStep
<1>6. CASE Drive(d, Failed(d))
  BY <1>1, <1>6, OutIsRight DEF Failed, Out, Calm, GateStages, Ended
<1>7. CASE Drive(d, [drive[d] EXCEPT !.stage = "pressing"])
  <2> DEFINE to == [drive[d] EXCEPT !.stage = "pressing"]
  <2>1. to \in DriveState /\ to.stage = "pressing" /\ to.required = drive[d].required
    BY <1>2 DEF DriveState, GateStages
  <2> HIDE DEF to
  <2>2. Good(to, OnPicker, tile, signed)
    BY <1>2, <2>1 DEF Good, SightIsTrue, CommitsTheRequired, CommitIsMade
  <2> QED BY <1>1, <1>7, <2>1, <2>2, MindStep DEF to
<1> QED BY <1>3, <1>4, <1>5, <1>6, <1>7 DEF Compare, Confirmed

LEMMA ReadsBackRightly == ASSUME GateInv, NEW d \in Drives, ReadBack(d) PROVE Outcome
<1>1. drive[d].stage = "reading" /\ UNCHANGED <<shieldVars, lastSeen, line, changed>>
  BY DEF ReadBack, At
<1>2. CASE Drive(d, Resummon(d))
  BY <1>1, <1>2, ResummonIsGood, MindStep
<1>3. CASE Drive(d, Failed(d))
  BY <1>1, <1>3, OutIsRight DEF Failed, Out, Calm, GateStages, Ended
<1>4. CASE OnPicker /\ Drive(d, Reads(d))
  BY <1>1, <1>4, ReadsTheTile, MindStep
<1> QED BY <1>2, <1>3, <1>4 DEF ReadBack

\* A claim is made of a picker that went after a commit: because the pick was taken,
\* unless somebody else made it go.
LEMMA AcceptsRightly == ASSUME GateInv, NEW d \in Drives, Accepted(d) PROVE Outcome
<1>1. /\ drive[d].stage = "accepting" /\ ~OnPicker /\ UNCHANGED <<shieldVars, line, changed>>
      /\ lastSeen' = Claim(drive[d].required) /\ Drive(d, Left(d, "cleared"))
  BY DEF Accepted, At, Out
<1>2. drive[d].required \in Required /\ drive[d].required \in Names /\ Good(drive[d], OnPicker, tile, signed)
  BY <1>1, DrivesAreTyped
<1>3. /\ Left(d, "cleared") \in DriveState /\ Left(d, "cleared").stage = "cleared"
      /\ Left(d, "cleared").required = drive[d].required
  BY LeftIsCalm DEF GateStages, Ended
<1>4. lastSeen' \in [title : Titles, isObserved : BOOLEAN] /\ SeenIsSigned'
  BY <1>1, <1>2 DEF Claim, Titles, SeenIsSigned
<1>5. ClearsRightly(d)
  BY <1>1, <1>2 DEF ClearsRightly, At, Good, CommitIsMade
<1>6. Good(Left(d, "cleared"), OnPicker, tile, signed)
  BY <1>2, <1>3 DEF Good, SightIsTrue, CommitsTheRequired, CommitIsMade
<1>7. line' \in Slots \cup {0} /\ changed' \in BOOLEAN
  BY <1>1 DEF GateInv, GateTypes
<1> QED BY <1>1, <1>3, <1>4, <1>5, <1>6, <1>7, QuietStep

-----------------------------------------------------------------------------
(* What the walk does to the Shield.                                       *)
LEMMA BacksOutRightly == ASSUME GateInv, NEW d \in Drives, BacksOut(d) PROVE Outcome
<1>1. /\ drive[d].stage = "summoning" /\ Uses(d, drive[d]) /\ screenOn' = "home"
      /\ UNCHANGED <<tile, signed, lastSeen, line, changed>>
  BY DEF BacksOut, At
<1>2. drive[d] \in DriveState /\ drive[d].required \in Required
  BY <1>1, DrivesAreTyped
<1>3. Good(drive[d], OnPicker', tile', signed')
  BY <1>1, <1>2 DEF Good, SightIsTrue, CommitsTheRequired, CommitIsMade
<1>4. /\ tile' \in Slots /\ signed' \in Slots /\ changed' \in BOOLEAN /\ SeenIsSigned'
  BY <1>1 DEF GateInv, GateTypes, SeenIsSigned
<1> QED BY <1>1, <1>2, <1>3, <1>4, ShieldStep

LEMMA OpensRightly ==
    ASSUME GateInv, NEW d \in Drives, NEW isOk \in BOOLEAN, OpensPicker(d, isOk) PROVE Outcome
<1> DEFINE to == IF drive[d].menus = MaxMenus THEN [drive[d] EXCEPT !.hint = NoName]
                 ELSE [drive[d] EXCEPT !.menus = @ + 1]
<1>1. /\ drive[d].stage = "summoning" /\ Uses(d, to)
      /\ UNCHANGED <<signed, lastSeen, line, changed>>
      /\ \/ screenOn' = "picker" /\ tile' = signed
         \/ UNCHANGED <<screenOn, tile>>
  BY DEF OpensPicker, At
<1>2. drive[d] \in DriveState /\ drive[d].required \in Required
  BY <1>1, DrivesAreTyped
<1>3. to \in DriveState /\ to.stage = drive[d].stage /\ to.required = drive[d].required
  <2>1. [drive[d] EXCEPT !.hint = NoName] \in DriveState
    BY <1>2 DEF DriveState, Titles
  <2>2. drive[d].menus + 1 \in Int
    BY <1>2 DEF DriveState
  <2>3. [drive[d] EXCEPT !.menus = @ + 1] \in DriveState
    BY <1>2, <2>2 DEF DriveState
  <2>4. to.stage = drive[d].stage /\ to.required = drive[d].required
    BY <1>2 DEF DriveState
  <2> QED BY <2>1, <2>3, <2>4
<1> HIDE DEF to
<1>4. Good(to, OnPicker', tile', signed')
  BY <1>1, <1>2, <1>3 DEF Good, SightIsTrue, CommitsTheRequired, CommitIsMade
<1>5. /\ screenOn' \in {"asleep", "home", "player", "picker"} /\ tile' \in Slots /\ signed' \in Slots
      /\ changed' \in BOOLEAN /\ SeenIsSigned'
  BY <1>1 DEF GateInv, GateTypes, SeenIsSigned
<1> QED BY <1>1, <1>3, <1>4, <1>5, ShieldStep

\* Neither past the goal nor past what may still be pressed.
LEMMA PressesStopInTime ==
    ASSUME NEW from \in Int, NEW goal \in Int, NEW may \in Nat,
           NEW n, n = Lesser(IF goal - from < 0 THEN 0 - (goal - from) ELSE goal - from, may)
    PROVE  /\ n \in 0..may
           /\ (IF goal - from < 0 THEN from - n ELSE from + n) \in (from..goal) \cup (goal..from)
<1>1. CASE goal < from
  <2>1. n = IF from - goal < may THEN from - goal ELSE may
    BY <1>1 DEF Lesser
  <2>2. n \in 0..may /\ n <= from - goal
    BY <1>1, <2>1
  <2> QED BY <1>1, <2>2
<1>2. CASE goal >= from
  <2>1. n = IF goal - from < may THEN goal - from ELSE may
    BY <1>2 DEF Lesser
  <2>2. n \in 0..may /\ n <= goal - from
    BY <1>2, <2>1
  <2> QED BY <1>2, <2>2
<1> QED BY <1>1, <1>2

\* Presses lead towards the tile of the required profile, which is in the row.
LEMMA PressesRightly == ASSUME GateInv, NEW d \in Drives, Press(d) PROVE Outcome
<1>1. drive[d].stage = "pressing" /\ UNCHANGED <<screenOn, signed, lastSeen, line, changed>>
  BY DEF Press, At
<1>2. /\ drive[d] \in DriveState /\ drive[d].required \in Required /\ drive[d].required \in Names
      /\ tile \in Slots /\ drive[d].presses \in 0..MaxPresses
  BY <1>1, DrivesAreTyped DEF GateInv, GateTypes, DriveState
<1> DEFINE far == IF Distance(d) < 0 THEN 0 - Distance(d) ELSE Distance(d)
           n   == Lesser(far, MaxPresses - drive[d].presses)
           lit == IF Distance(d) < 0 THEN tile - n ELSE tile + n
           to  == [drive[d] EXCEPT !.stage = "reading", !.presses = @ + n]
<1>3. CASE OnPicker /\ TileName[tile] = drive[d].current
  <2>1. tile' = lit /\ Uses(d, to)
    BY <1>3 DEF Press
  <2>2. SlotOf[drive[d].required] \in Slots /\ Slots \subseteq Int /\ MaxPresses \in Nat
    BY <1>2, GateAssumption
  <2> DEFINE goal == SlotOf[drive[d].required]
             may  == MaxPresses - drive[d].presses
  <2>3. goal \in Int /\ tile \in Int /\ may \in Nat /\ Distance(d) = goal - tile
    <3>1. goal \in Int /\ tile \in Int
      BY <1>2, <2>2
    <3>2. ASSUME NEW p \in 0..MaxPresses PROVE MaxPresses - p \in Nat
      BY <2>2
    <3>3. may \in Nat
      BY <1>2, <3>2
    <3> QED BY <3>1, <3>3 DEF Distance
  <2>4. n \in 0..may /\ lit \in (tile..goal) \cup (goal..tile)
    <3>1. n = Lesser(IF goal - tile < 0 THEN 0 - (goal - tile) ELSE goal - tile, may)
      BY <2>3
    <3>2. lit = IF goal - tile < 0 THEN tile - n ELSE tile + n
      BY <2>3
    <3> HIDE DEF n, goal, may, lit
    <3> QED BY <2>3, <3>1, <3>2, PressesStopInTime
  <2>5. lit \in Slots
    <3>1. goal \in Slots /\ tile \in Slots
      BY <1>2, <2>2
    <3>2. (tile..goal) \subseteq Slots /\ (goal..tile) \subseteq Slots
      BY <3>1, GateAssumption
    <3> HIDE DEF lit, goal
    <3> QED BY <2>4, <3>2
  <2>6. to \in DriveState /\ to.stage = "reading" /\ to.required = drive[d].required
    <3>1. drive[d].presses + n \in 0..MaxPresses
      <4> HIDE DEF n
      <4> QED BY <1>2, <2>2, <2>4
    <3> HIDE DEF n
    <3> QED BY <1>2, <3>1 DEF DriveState, GateStages
  <2> HIDE DEF to, lit
  <2>7. Good(to, OnPicker', tile', signed')
    BY <1>2, <2>6 DEF Good, SightIsTrue, CommitsTheRequired, CommitIsMade
  <2>8. /\ screenOn' \in {"asleep", "home", "player", "picker"} /\ tile' \in Slots /\ signed' \in Slots
        /\ changed' \in BOOLEAN /\ SeenIsSigned'
    BY <1>1, <2>1, <2>5 DEF GateInv, GateTypes, SeenIsSigned
  <2> QED BY <1>1, <2>1, <2>6, <2>7, <2>8, ShieldStep
<1>4. CASE ~(OnPicker /\ TileName[tile] = drive[d].current)
  <2>1. /\ UNCHANGED <<shieldVars, lastSeen, line, changed>>
        /\ Drive(d, Resummon(d)) \/ (OnPicker /\ Drive(d, Reads(d)))
    BY <1>1, <1>4 DEF Press, shieldVars
  <2> QED BY <1>1, <2>1, ResummonIsGood, ReadsTheTile, MindStep
<1> QED BY <1>3, <1>4

\* CENTER, on the tile that was read: signed in, or asked for a PIN.
LEMMA CommitsRightly == ASSUME GateInv, NEW d \in Drives, Commit(d) PROVE Outcome
<1> DEFINE to == [Left(d, "accepting") EXCEPT !.verified = TRUE, !.touched = drive[d].touched]
<1>1. drive[d].stage = "committing" /\ Uses(d, to) /\ UNCHANGED <<tile, lastSeen, line>>
  BY DEF Commit, At
<1>2. /\ drive[d] \in DriveState /\ drive[d].required \in Required
      /\ Good(drive[d], OnPicker, tile, signed) /\ (drive[d].touched \in BOOLEAN)
  BY <1>1, DrivesAreTyped
<1>3. Left(d, "accepting") \in DriveState /\ Left(d, "accepting").stage = "accepting"
      /\ Left(d, "accepting").required = drive[d].required
  BY LeftIsCalm DEF GateStages
<1>4. /\ to \in DriveState /\ to.stage = "accepting" /\ to.required = drive[d].required
      /\ to.verified = TRUE /\ to.touched = drive[d].touched
  BY <1>2, <1>3 DEF DriveState
<1> HIDE DEF to
<1>5. tile \in Slots /\ signed \in Slots /\ SeenIsSigned /\ changed \in BOOLEAN
      /\ screenOn \in {"asleep", "home", "player", "picker"}
  BY DEF GateInv, GateTypes
<1>6. ~drive[d].touched => OnPicker /\ SlotOf[drive[d].required] = tile
  BY <1>1, <1>2 DEF Good, SightIsTrue, CommitsTheRequired
<1>7. CASE OnPicker /\ tile \notin Locked
  <2>1. signed' = tile /\ screenOn' = "home" /\ changed' = (changed \/ tile # signed)
    BY <1>7 DEF Commit
  <2>2. Good(to, OnPicker', tile', signed')
    BY <1>2, <1>4, <1>6, <2>1 DEF Good, SightIsTrue, CommitsTheRequired, CommitIsMade
  <2>3. tile' \in Slots /\ signed' \in Slots /\ SeenIsSigned' /\ changed' \in BOOLEAN
    BY <1>1, <1>5, <2>1 DEF SeenIsSigned
  <2> QED BY <1>1, <1>4, <2>1, <2>2, <2>3, ShieldStep
<1>8. CASE ~(OnPicker /\ tile \notin Locked)
  <2>1. UNCHANGED <<signed, changed>> /\ screenOn' = IF screenOn = "home" THEN "player" ELSE screenOn
    BY <1>8 DEF Commit
  <2>2. OnPicker' = OnPicker
    BY <2>1 DEF OnPicker
  <2>3. Good(to, OnPicker', tile', signed')
    BY <1>1, <1>2, <1>4, <1>6, <1>8, <2>2 DEF Good, SightIsTrue, CommitsTheRequired, CommitIsMade
  <2>4. tile' \in Slots /\ signed' \in Slots /\ SeenIsSigned' /\ changed' \in BOOLEAN
        /\ screenOn' \in {"asleep", "home", "player", "picker"}
    BY <1>1, <1>5, <2>1 DEF SeenIsSigned
  <2> QED BY <1>1, <1>4, <2>3, <2>4, ShieldStep
<1> QED BY <1>7, <1>8

-----------------------------------------------------------------------------
(* Plex and people.                                                        *)
LEMMA LogIsRight ==
    ASSUME GateInv,
           LogLine \/ UNCHANGED <<shieldVars, lastSeen, line, drive, changed>>
    PROVE  Outcome
<1>1. UNCHANGED <<shieldVars, lastSeen, drive, changed>> /\ line' \in Slots \cup {0}
  BY DEF LogLine, GateInv, GateTypes
<1>2. GateTypes' /\ SeenIsSigned'
  BY <1>1 DEF GateInv, GateTypes, SeenIsSigned, shieldVars
<1>3. DrivesAreGood'
  BY <1>1 DEF GateInv, DrivesAreGood, OnPicker, shieldVars
<1> QED BY <1>1, <1>2, <1>3 DEF Outcome, GateInv, ClearsRightly, At

LEMMA PeopleAreRight ==
    ASSUME GateInv, PersonPicks \/ PersonMoves \/ PersonUses PROVE Outcome
<1>1. tile \in Slots /\ signed \in Slots /\ SeenIsSigned /\ changed \in BOOLEAN
  BY DEF GateInv, GateTypes
<1>2. CASE PersonPicks
  <2>1. PICK s \in Slots : Person("home") /\ signed' = s /\ tile' = s /\ changed' = (changed \/ s # signed)
    BY <1>2 DEF PersonPicks
  <2>2. SeenIsSigned' /\ changed' \in BOOLEAN
    BY <1>1, <2>1 DEF SeenIsSigned, Person
  <2> QED BY <2>1, <2>2, PersonStep DEF Person
<1>3. CASE PersonMoves
  <2>1. PICK s \in Slots : Person("picker") /\ tile' = s /\ UNCHANGED <<signed, changed>>
    BY <1>3 DEF PersonMoves
  <2>2. SeenIsSigned'
    BY <1>1, <2>1 DEF SeenIsSigned, Person
  <2> QED BY <1>1, <2>1, <2>2, PersonStep DEF Person
<1>4. CASE PersonUses
  <2>1. PICK to \in {"asleep", "home", "player", "picker"} :
           /\ Person(to) /\ tile' = (IF to = "picker" THEN signed ELSE tile)
           /\ UNCHANGED <<signed, changed>>
    BY <1>4 DEF PersonUses
  <2>2. SeenIsSigned' /\ tile' \in Slots
    BY <1>1, <2>1 DEF SeenIsSigned, Person
  <2> QED BY <1>1, <2>1, <2>2, PersonStep DEF Person
<1> QED BY <1>2, <1>3, <1>4

-----------------------------------------------------------------------------
LEMMA GateBegins == GateInit => GateInv
<1> SUFFICES ASSUME GateInit PROVE GateInv
  OBVIOUS
<1>1. /\ drive = [d \in Drives |-> Fresh] /\ line = 0 /\ changed = FALSE
      /\ lastSeen = [title |-> NoName, isObserved |-> FALSE]
      /\ screenOn \in {"asleep", "home"} /\ signed \in Slots /\ tile = signed
  BY DEF GateInit
<1>2. GateTypes
  BY <1>1, FreshIsTyped DEF GateTypes, Titles
<1>3. \A d \in Drives : Good(drive[d], OnPicker, tile, signed)
  BY <1>1, FreshIsTyped DEF Good, SightIsTrue, CommitsTheRequired, CommitIsMade
<1> QED BY <1>1, <1>2, <1>3 DEF GateInv, SeenIsSigned, DrivesAreGood

LEMMA NextIsRight == GateInv /\ [GateNext]_gateVars => Outcome
<1> SUFFICES ASSUME GateInv, [GateNext]_gateVars PROVE Outcome
  OBVIOUS
<1>1. ASSUME NEW d \in Drives, DriveStarts(d) \/ WaitReads(d) \/ Attempt(d) PROVE Outcome
  BY <1>1, StartsRightly, WaitsRightly, AttemptsRightly
<1>2. ASSUME NEW d \in Drives,
             WaitEnds(d) \/ Gate(d) \/ WalkFailed(d) \/ RunsLate(d) \/ SummonFails(d) \/ Rejected(d)
               \/ AdbFails(d)
      PROVE  Outcome
  BY <1>2, EndsRightly
<1>3. ASSUME NEW d \in Drives,
             PickerFound(d) \/ Compare(d) \/ ReadBack(d) \/ Accepted(d)
      PROVE  Outcome
  BY <1>3, FindsRightly, ComparesRightly, ReadsBackRightly, AcceptsRightly
<1>4. ASSUME NEW d \in Drives, BacksOut(d) \/ Press(d) \/ Commit(d) PROVE Outcome
  BY <1>4, BacksOutRightly, PressesRightly, CommitsRightly
<1>5. ASSUME NEW d \in Drives, NEW ok \in BOOLEAN, OpensPicker(d, ok) PROVE Outcome
  BY <1>5, OpensRightly
<1>6. CASE LogLine \/ UNCHANGED gateVars
  BY <1>6, LogIsRight DEF gateVars
<1>7. CASE PersonPicks \/ PersonMoves \/ PersonUses
  BY <1>7, PeopleAreRight
<1> QED BY <1>1, <1>2, <1>3, <1>4, <1>5, <1>6, <1>7 DEF GateNext, Walks

\* Whoever walks, waits, claims or uses the remote at the same time, a gate clears with the
\* required profile signed in, unless somebody else has used the Shield since the walk last
\* read its lit tile, or the profile has changed since the log line (driveProfile, switchTo).
THEOREM GateMeansTheProfile == GateSpec => GateMeansProfile
<1>1. GateInv /\ [GateNext]_gateVars => GateInv'
  BY NextIsRight DEF Outcome
<1>2. GateInv /\ [GateNext]_gateVars
        => [\A d \in Drives : ~At(d, "cleared") /\ drive'[d].stage = "cleared" =>
              \/ signed = SlotOf[drive[d].required]
              \/ IF At(d, "accepting") THEN drive[d].touched ELSE changed']_gateVars
  BY NextIsRight DEF Outcome, ClearsRightly
<1> QED BY <1>1, <1>2, GateBegins, PTL DEF GateSpec, GateMeansProfile

-----------------------------------------------------------------------------
(* PlaybackEnd.                                                            *)
JobStages == {"idle", "reading", "resolving", "clearing", "marking", "sweeping", "settling"}

JobRecord == [stage : JobStages, kind : {"scan", "reconcile"}, set : Sets \cup {NoSet},
              list : Seq(Entry), newly : SUBSET Keys, revived : SUBSET Keys,
              basis : [Keys -> Nat], calm : BOOLEAN]

Counts == [Sets -> [Keys -> Nat]]

EndTypes ==
    /\ doc \in Docs
    /\ aired \in Counts /\ watched \in Counts /\ reconciled \in Counts
    /\ credits \subseteq Episode /\ onScreen \in Episode \cup {NoEpisode}
    /\ active \in Sets \cup {NoSet} /\ timer \in Sets \cup {NoSet} /\ session \in Sets \cup {NoSet}
    /\ job \in [Jobs -> JobRecord]
    /\ \A j \in Jobs : job[j].stage # "idle" => job[j].set \in Sets
    /\ memo \in [isKnown : BOOLEAN, of : Counts]
    /\ clock \in Nat

\* History only grows: what a job has decided by, what has been reconciled and what the
\* memo holds are all of the past.
MemoInv ==
    /\ \A j \in Jobs, k \in Keys : job[j].stage # "idle" => job[j].basis[k] <= watched[job[j].set][k]
    /\ \A s \in Sets, k \in Keys : reconciled[s][k] <= watched[s][k]
    /\ MemoKnowsTheReconciled

\* After a job has cleared what it revives, a flag such an entry has again is the owner's
\* or of this very tick: too young to be swept.
SweepInv ==
    \A j \in Jobs :
        job[j].stage \in {"marking", "sweeping"} =>
            \A e \in ToSet(doc[job[j].set]) :
                e.key \in job[j].revived /\ e.done => e.at \in {0, clock}

\* How far the flags of a set agree with Plex when a job that nothing has disturbed is at
\* each of its stages.
JobSettles(j) ==
    LET s == job[j].set IN
    job[j].calm =>
        /\ job[j].stage = "resolving" => job[j].list = doc[s]
        /\ job[j].stage = "clearing" => job[j].revived = Revived(s, doc[s])
        /\ job[j].stage \in {"clearing", "marking"} => job[j].newly = NewlyDone(s, doc[s])
        /\ job[j].stage = "marking" => \A e \in ToSet(doc[s]) : ~IsRevived(s, e)
        /\ job[j].stage = "sweeping" \/ (job[j].stage = "settling" /\ PolicyOf[s] # "reel") =>
              \A e \in ToSet(doc[s]) : FlagIsRight(s, e)

SettleInv == \A j \in Jobs : JobSettles(j)

EndInv == EndTypes /\ MemoInv /\ SweepInv /\ SettleInv

-----------------------------------------------------------------------------
(* The file and the library at first.                                      *)

LEMMA FreshLists ==
    ASSUME NEW T, T = {NewEntry(k) : k \in Keys}
    PROVE  SetToSeq(T) \in Lists
<1>1. IsFiniteSet(T)
  <2> DEFINE f == [k \in Keys |-> NewEntry(k)]
  <2>1. f \in Surjection(Keys, T)
    BY DEF Surjection
  <2> QED BY <2>1, EndAssumption, FS_Surjection
<1>2. Cardinality(T) \in Nat /\ ExistsBijection(1..Cardinality(T), T)
  BY <1>1, FS_CardinalityType
<1>3. \E f \in [1..Cardinality(T) -> T] : IsInjective(f)
  BY <1>2 DEF ExistsBijection, Bijection, Injection
<1> DEFINE list == SetToSeq(T)
<1>4. list \in [1..Cardinality(T) -> T] /\ IsInjective(list)
  BY <1>3 DEF SetToSeq
<1> HIDE DEF list
<1>5. T \subseteq Entry /\ \A e, f \in T : e.key = f.key => e = f
  <2>1. \A k \in Keys : NewEntry(k) \in Entry /\ NewEntry(k).key = k
    BY DEF NewEntry, Entry
  <2> QED BY <2>1
<1>6. list \in Seq(Entry)
  <2>1. list = [n \in 1..Cardinality(T) |-> list[n]] /\ \A n \in 1..Cardinality(T) : list[n] \in Entry
    BY <1>4, <1>5
  <2>2. [n \in 1..Cardinality(T) |-> list[n]] \in Seq(Entry)
    BY <1>2, <2>1, IsASeq, SMTT(30)
  <2> QED BY <2>1, <2>2
<1>7. Unambiguous(list)
  BY <1>4, <1>5 DEF Unambiguous, IsInjective
<1> QED BY <1>6, <1>7 DEF Lists, list

LEMMA NoJobIsAJob == NoJob \in JobRecord /\ NoJob.stage = "idle" /\ \A k \in Keys : NoJob.basis[k] = 0
<1>1. << >> \in Seq(Entry)
  OBVIOUS
<1> QED BY <1>1 DEF NoJob, JobRecord, JobStages

LEMMA NothingCounted == Unplayed \in Counts /\ NoMemo \in [isKnown : BOOLEAN, of : Counts]
BY DEF Unplayed, NoMemo, Counts

LEMMA TypesAtFirst == EndInit => EndTypes
<1> SUFFICES ASSUME EndInit PROVE EndTypes
  OBVIOUS
<1>1. doc \in Docs
  BY FreshLists DEF EndInit, Docs
<1>2. aired \in Counts
  BY DEF EndInit, Counts
<1>3. job \in [Jobs -> JobRecord] /\ \A j \in Jobs : job[j].stage = "idle"
  BY NoJobIsAJob DEF EndInit
<1> QED BY <1>1, <1>2, <1>3, NothingCounted DEF EndInit, EndTypes

-----------------------------------------------------------------------------
(* Types.                                                                  *)

\* One job becomes another record of its kind.
LEMMA JobTypes ==
    ASSUME EndTypes, NEW j \in Jobs, NEW r \in JobRecord,
           job' = [job EXCEPT ![j] = r], r.stage # "idle" => r.set \in Sets
    PROVE  /\ job' \in [Jobs -> JobRecord]
           /\ \A i \in Jobs : job'[i].stage # "idle" => job'[i].set \in Sets
BY DEF EndTypes

LEMMA CalmOff ==
    ASSUME NEW r \in JobRecord
    PROVE  /\ [r EXCEPT !.calm = FALSE] \in JobRecord
           /\ [r EXCEPT !.calm = FALSE].stage = r.stage /\ [r EXCEPT !.calm = FALSE].set = r.set
<1> DEFINE k == [r EXCEPT !.calm = FALSE]
<1>1. k \in JobRecord
  BY DEF JobRecord
<1>2. k.stage = r.stage
  BY DEF JobRecord
<1>3. k.set = r.set
  BY DEF JobRecord
<1> QED BY <1>1, <1>2, <1>3

\* The jobs of a set are no longer alone.
LEMMA DisturbedTypes ==
    ASSUME EndTypes, NEW s, Disturbs(s)
    PROVE  /\ job' \in [Jobs -> JobRecord]
           /\ \A i \in Jobs : job'[i].stage # "idle" => job'[i].set \in Sets
<1>0. \A i \in Jobs : job[i] \in JobRecord
  BY DEF EndTypes
<1>1. \A i \in Jobs : [job[i] EXCEPT !.calm = FALSE] \in JobRecord
  BY <1>0, CalmOff
<1>2. \A i \in Jobs : job'[i] \in {job[i], [job[i] EXCEPT !.calm = FALSE]}
  BY DEF Disturbs
<1>3. job' = [i \in Jobs |-> job'[i]]
  BY DEF Disturbs
<1>4. \A i \in Jobs : job'[i] \in JobRecord
  BY <1>1, <1>2 DEF EndTypes
<1>5. ASSUME NEW i \in Jobs
      PROVE  job'[i].stage = job[i].stage /\ job'[i].set = job[i].set
  <2>1. /\ [job[i] EXCEPT !.calm = FALSE].stage = job[i].stage
        /\ [job[i] EXCEPT !.calm = FALSE].set = job[i].set
    BY <1>0, CalmOff
  <2> QED BY <1>2, <2>1
<1> QED BY <1>3, <1>4, <1>5 DEF EndTypes

\* A write: the job goes on, the others of its set are no longer alone.
LEMMA WroteTypes ==
    ASSUME EndTypes, NEW j \in Jobs, job[j].stage # "idle",
           NEW stage \in JobStages, job' = Disturbing(j, job[j].set, stage)
    PROVE  /\ job' \in [Jobs -> JobRecord]
           /\ \A i \in Jobs : job'[i].stage # "idle" => job'[i].set \in Sets
           /\ job'[j] = [job[j] EXCEPT !.stage = stage,
                            !.newly = IF stage = "marking" THEN @ ELSE {},
                            !.revived = IF stage = "settling" THEN {} ELSE @]
           /\ \A i \in Jobs \ {j} :
                 job'[i] = IF job[i].set = job[j].set THEN [job[i] EXCEPT !.calm = FALSE] ELSE job[i]
<1> DEFINE r == [job[j] EXCEPT !.stage = stage,
                    !.newly = IF stage = "marking" THEN @ ELSE {},
                    !.revived = IF stage = "settling" THEN {} ELSE @]
<1>0. \A i \in Jobs : job[i] \in JobRecord
  BY DEF EndTypes
<1>1. r \in JobRecord /\ r.set = job[j].set
  <2>1. r \in JobRecord
    BY <1>0 DEF JobRecord
  <2>2. r.set = job[j].set
    BY <1>0 DEF JobRecord
  <2> QED BY <2>1, <2>2
<1>2. /\ job'[j] = r /\ job' = [i \in Jobs |-> job'[i]]
      /\ \A i \in Jobs \ {j} :
            job'[i] = IF job[i].set = job[j].set THEN [job[i] EXCEPT !.calm = FALSE] ELSE job[i]
  BY DEF Disturbing
<1>3. \A i \in Jobs : [job[i] EXCEPT !.calm = FALSE] \in JobRecord
  BY <1>0, CalmOff
<1>4. \A i \in Jobs : /\ [job[i] EXCEPT !.calm = FALSE].stage = job[i].stage
                      /\ [job[i] EXCEPT !.calm = FALSE].set = job[i].set
  BY <1>0, CalmOff
<1> HIDE DEF r
<1>5. ASSUME NEW i \in Jobs
      PROVE  job'[i] \in JobRecord
  BY <1>0, <1>1, <1>2, <1>3
<1>6. ASSUME NEW i \in Jobs, job'[i].stage # "idle"
      PROVE  job'[i].set \in Sets
  <2>1. CASE i = j
    BY <1>1, <1>2, <2>1 DEF EndTypes
  <2>2. CASE i # j
    <3>1. job'[i].stage = job[i].stage /\ job'[i].set = job[i].set
      BY <1>2, <1>4, <2>2
    <3> QED BY <1>6, <3>1 DEF EndTypes
  <2> QED BY <2>1, <2>2
<1> QED BY <1>2, <1>5, <1>6 DEF r

\* What the write side decides, and by what.
LEMMA DecidesTypes ==
    ASSUME EndTypes, NEW s, NEW list \in Seq(Entry)
    PROVE  /\ Revived(s, list) \subseteq Keys /\ NewlyDone(s, list) \subseteq Keys
           /\ Playable(s, list) \in Seq(Entry)
           /\ FirstWrite(s, Revived(s, list), NewlyDone(s, list)) \in {"settling", "clearing", "marking", "sweeping"}
<1>1. \A e \in ToSet(list) : e.key \in Keys
  BY KeysOfLists DEF Entry
<1>2. Playable(s, list) \in Seq(Entry)
  BY PickedPicks DEF Playable
<1> QED BY <1>1, <1>2 DEF Revived, NewlyDone, FirstWrite

\* What the owner's flag does.
LEMMA HandMarks ==
    ASSUME NEW d \in Docs, NEW s \in Sets, NEW k \in Keys, NEW new,
           new = [d EXCEPT ![s] = Change(@, {k}, LAMBDA e : [e EXCEPT !.done = TRUE])]
    PROVE  /\ new \in Docs
           /\ \A t \in Sets \ {s} : new[t] = d[t]
           /\ \A e \in ToSet(new[s]) : e \in ToSet(d[s]) \/ e.at = 0
<1> DEFINE Flagged(e) == [e EXCEPT !.done = TRUE]
           list == [i \in DOMAIN d[s] |-> IF d[s][i].key \in {k} THEN Flagged(d[s][i]) ELSE d[s][i]]
           keys == {k}
<1>1. new = [d EXCEPT ![s] = list]
  BY DEF Change
<1>2. ASSUME NEW e \in Entry
      PROVE  /\ Flagged(e) \in Entry /\ Flagged(e).key = e.key /\ Flagged(e).at = e.at
             /\ e.done \/ e.at = 0
             /\ e.done => Flagged(e) = e
  BY DEF Entry
<1> HIDE DEF Flagged
<1>3. list \in [DOMAIN d[s] -> Entry]
  BY <1>2, EntriesOfDocs
<1>4. \A i \in DOMAIN d[s] : /\ list[i].key = d[s][i].key
                             /\ d[s][i].key \notin keys => list[i] = d[s][i]
  BY <1>2, EntriesOfDocs
<1>5. \A i \in DOMAIN d[s] : list[i] \in ToSet(d[s]) \/ list[i].at = 0
  <2> SUFFICES ASSUME NEW i \in DOMAIN d[s]
               PROVE  list[i] \in ToSet(d[s]) \/ list[i].at = 0
    OBVIOUS
  <2> DEFINE e == d[s][i]
  <2>1. e \in Entry /\ e \in ToSet(d[s])
    BY EntriesOfDocs DEF ToSet
  <2>2. list[i] = Flagged(e) \/ list[i] = e
    OBVIOUS
  <2> HIDE DEF e, list
  <2> QED BY <1>2, <2>1, <2>2
<1>6. DOMAIN list = DOMAIN d[s]
  OBVIOUS
<1> HIDE DEF list, keys
<1>7. new \in Docs
  <2>1. [d EXCEPT ![s] = list] \in Docs
    BY <1>3, <1>4, AltersEntries
  <2> QED BY <1>1, <2>1
<1>8. /\ \A t \in Sets \ {s} : new[t] = d[t]
      /\ \A e \in ToSet(new[s]) : \E i \in DOMAIN d[s] : e = list[i]
  BY <1>1, <1>6 DEF ToSet, Docs
<1> QED BY <1>5, <1>7, <1>8

LEMMA ScreenTypes ==
    ASSUME EndTypes, NEW to \in Episode \cup {NoEpisode}, Screen(to)
    PROVE  onScreen' \in Episode \cup {NoEpisode} /\ timer' \in Sets \cup {NoSet}
BY DEF Screen, Rearmed, EndTypes

LEMMA TypesStep ==
    ASSUME EndTypes, [EndNext]_endVars
    PROVE  EndTypes'
<1> USE DEF fileVars, libraryVars, screenVars, Becomes
<1>1. ASSUME NEW j \in Jobs, ReadList(j) PROVE EndTypes'
  <2> DEFINE r == [job[j] EXCEPT !.stage = "resolving", !.list = doc[job[j].set]]
  <2>1. job[j].stage = "reading" /\ job[j].set \in Sets /\ job[j] \in JobRecord
    BY <1>1 DEF ReadList, EndTypes
  <2>2. doc[job[j].set] \in Seq(Entry)
    BY <2>1 DEF EndTypes, Docs, Lists
  <2>3. r \in JobRecord /\ r.set \in Sets
    BY <2>1, <2>2 DEF JobRecord, JobStages
  <2>4. job' = [job EXCEPT ![j] = r]
    BY <1>1 DEF ReadList
  <2> HIDE DEF r
  <2>5. /\ job' \in [Jobs -> JobRecord]
        /\ \A i \in Jobs : job'[i].stage # "idle" => job'[i].set \in Sets
    BY <2>3, <2>4, JobTypes
  <2> QED BY <1>1, <2>5 DEF ReadList, EndTypes
<1>2. ASSUME NEW j \in Jobs, Resolve(j) PROVE EndTypes'
  <2> DEFINE s == job[j].set
             revived == Revived(s, job[j].list)
             newly == NewlyDone(s, job[j].list)
             left == IF job[j].kind = "scan" THEN Playable(s, job[j].list) ELSE << >>
             stage == FirstWrite(s, revived, newly)
             r == [job[j] EXCEPT !.revived = revived, !.newly = newly, !.basis = watched[s],
                                 !.list = left, !.stage = stage]
  <2>1. job[j].stage = "resolving" /\ s \in Sets /\ job[j] \in JobRecord /\ job[j].list \in Seq(Entry)
    BY <1>2 DEF Resolve, EndTypes, JobRecord
  <2>2. /\ revived \subseteq Keys /\ newly \subseteq Keys /\ left \in Seq(Entry)
        /\ stage \in JobStages /\ watched[s] \in [Keys -> Nat]
    <3>1. << >> \in Seq(Entry)
      OBVIOUS
    <3> QED BY <2>1, <3>1, DecidesTypes DEF JobStages, EndTypes, Counts
  <2>3. job' = [job EXCEPT ![j] = r]
    BY <1>2 DEF Resolve
  <2> HIDE DEF s, revived, newly, left, stage
  <2>4. r \in JobRecord /\ r.set = s
    BY <2>1, <2>2 DEF JobRecord, s
  <2> HIDE DEF r
  <2>5. /\ job' \in [Jobs -> JobRecord]
        /\ \A i \in Jobs : job'[i].stage # "idle" => job'[i].set \in Sets
    BY <2>1, <2>3, <2>4, JobTypes
  <2> QED BY <1>2, <2>5 DEF Resolve, EndTypes
<1>3. ASSUME NEW j \in Jobs, ClearRevived(j) PROVE EndTypes'
  <2>1. PICK stage \in JobStages : job' = Disturbing(j, job[j].set, stage)
    BY <1>3 DEF ClearRevived, JobStages
  <2>2. job[j].set \in Sets /\ job[j].stage # "idle"
    BY <1>3 DEF ClearRevived, EndTypes
  <2>3. doc' \in Docs
    BY <1>3, <2>2, ClearDoneEdits DEF ClearRevived, EndTypes
  <2> QED BY <1>3, <2>1, <2>2, <2>3, WroteTypes DEF ClearRevived, EndTypes
<1>4. ASSUME NEW j \in Jobs, MarkNewly(j) PROVE EndTypes'
  <2>1. job' = Disturbing(j, job[j].set, "sweeping") /\ "sweeping" \in JobStages
    BY <1>4 DEF MarkNewly, JobStages
  <2>2. job[j].set \in Sets /\ job[j].stage # "idle"
    BY <1>4 DEF MarkNewly, EndTypes
  <2>3. doc' \in Docs
    BY <1>4, <2>2, MarkDoneEdits DEF MarkNewly, EndTypes
  <2> QED BY <1>4, <2>1, <2>2, <2>3, WroteTypes DEF MarkNewly, EndTypes
<1>5. ASSUME NEW j \in Jobs, SweepAged(j) PROVE EndTypes'
  <2>1. job' = Disturbing(j, job[j].set, "settling") /\ "settling" \in JobStages
    BY <1>5 DEF SweepAged, JobStages
  <2>2. job[j].set \in Sets /\ job[j].stage # "idle"
    BY <1>5 DEF SweepAged, EndTypes
  <2>3. doc' \in Docs
    BY <1>5, <2>2, SweepEdits DEF SweepAged, EndTypes
  <2> QED BY <1>5, <2>1, <2>2, <2>3, WroteTypes DEF SweepAged, EndTypes
<1>6. ASSUME NEW j \in Jobs, Reconciled(j) PROVE EndTypes'
  <2>1. job' = [job EXCEPT ![j] = NoJob] /\ job[j].set \in Sets /\ job[j].basis \in [Keys -> Nat]
    BY <1>6 DEF Reconciled, EndTypes, JobRecord
  <2>2. /\ job' \in [Jobs -> JobRecord]
        /\ \A i \in Jobs : job'[i].stage # "idle" => job'[i].set \in Sets
    BY <2>1, NoJobIsAJob, JobTypes
  <2>3. reconciled' \in Counts
    BY <1>6, <2>1 DEF Reconciled, EndTypes, Counts
  <2>4. memo' \in [isKnown : BOOLEAN, of : Counts]
    BY <1>6, NothingCounted DEF Reconciled, MemoAfter
  <2> QED BY <1>6, <2>2, <2>3, <2>4 DEF Reconciled, EndTypes
<1>7. ASSUME NEW j \in Jobs, JobFails(j) PROVE EndTypes'
  <2>1. /\ job' \in [Jobs -> JobRecord]
        /\ \A i \in Jobs : job'[i].stage # "idle" => job'[i].set \in Sets
    BY <1>7, NoJobIsAJob, JobTypes DEF JobFails
  <2> QED BY <1>7, <2>1 DEF JobFails, EndTypes
<1>8. ASSUME NEW j \in Jobs, TimerFires(j) PROVE EndTypes'
  <2>1. timer \in Sets
    BY <1>8 DEF TimerFires, EndTypes
  <2> DEFINE r == [NoJob EXCEPT !.stage = "reading", !.kind = "reconcile", !.set = timer]
  <2>2. r \in JobRecord /\ r.set \in Sets
    BY <2>1, NoJobIsAJob DEF JobRecord, JobStages
  <2>3. job' \in {job, [job EXCEPT ![j] = r]}
    BY <1>8 DEF TimerFires
  <2> HIDE DEF r
  <2>4. /\ job' \in [Jobs -> JobRecord]
        /\ \A i \in Jobs : job'[i].stage # "idle" => job'[i].set \in Sets
    BY <2>2, <2>3, JobTypes DEF EndTypes
  <2> QED BY <1>8, <2>4 DEF TimerFires, EndTypes
<1>9. ASSUME NEW j \in Jobs, NEW s \in Sets, Scan(j, s) PROVE EndTypes'
  <2> DEFINE r == [NoJob EXCEPT !.stage = "reading", !.set = s]
  <2>1. r \in JobRecord /\ r.set \in Sets
    BY NoJobIsAJob DEF JobRecord, JobStages
  <2>2. job' = [job EXCEPT ![j] = r]
    BY <1>9 DEF Scan
  <2> HIDE DEF r
  <2>3. /\ job' \in [Jobs -> JobRecord]
        /\ \A i \in Jobs : job'[i].stage # "idle" => job'[i].set \in Sets
    BY <2>1, <2>2, JobTypes
  <2> QED BY <1>9, <2>3 DEF Scan, EndTypes
<1>10. ASSUME NEW j \in Jobs, ScanPlays(j) PROVE EndTypes'
  <2>1. /\ job[j].set \in Sets /\ job[j].list \in Seq(Entry) /\ job[j].basis \in [Keys -> Nat]
        /\ job' = [job EXCEPT ![j] = NoJob]
    BY <1>10 DEF ScanPlays, EndTypes, JobRecord
  <2>2. /\ job' \in [Jobs -> JobRecord]
        /\ \A i \in Jobs : job'[i].stage # "idle" => job'[i].set \in Sets
    BY <2>1, NoJobIsAJob, JobTypes
  <2>3. onScreen' \in Episode \cup {NoEpisode} /\ timer' \in Sets \cup {NoSet}
    <3>1. CASE job[j].list # << >>
      <4> DEFINE head == Head(job[j].list).key
                 to == [set |-> job[j].set, key |-> head, nr |-> job[j].basis[head] + 1]
      <4>1. head \in Keys
        BY <2>1, <3>1 DEF Entry
      <4>2. job[j].basis[head] + 1 \in Nat \ {0}
        <5>1. job[j].basis[head] \in Nat
          BY <2>1, <4>1
        <5> QED BY <5>1
      <4>3. to \in Episode
        BY <2>1, <4>1, <4>2 DEF Episode
      <4>4. Screen(to)
        BY <1>10, <3>1 DEF ScanPlays
      <4> HIDE DEF to
      <4> QED BY <4>3, <4>4, ScreenTypes
    <3>2. CASE job[j].list = << >>
      BY <1>10, <3>2 DEF ScanPlays, EndTypes
    <3> QED BY <3>1, <3>2
  <2> QED BY <1>10, <2>1, <2>2, <2>3 DEF ScanPlays, EndTypes
<1>11. CASE Tick
  BY <1>11 DEF Tick, EndTypes
<1>12. CASE Restart
  BY <1>12, NoJobIsAJob, NothingCounted DEF Restart, EndTypes
<1>13. ASSUME NEW isPlayedOut \in BOOLEAN, ItemLeaves(isPlayedOut) PROVE EndTypes'
  <2> DEFINE it == onScreen
  <2>1. it \in Episode /\ it.set \in Sets
    BY <1>13 DEF ItemLeaves, EndTypes, Episode
  <2>2. \A k \in Keys : NextOf(it.set, k) \in Episode
    BY <2>1 DEF NextOf, Episode, EndTypes, Counts
  <2>3. PICK to \in Episode \cup {NoEpisode} : Screen(to)
    BY <1>13, <2>2 DEF ItemLeaves
  <2>4. onScreen' \in Episode \cup {NoEpisode} /\ timer' \in Sets \cup {NoSet}
    BY <2>3, ScreenTypes
  <2>5. credits' \subseteq Episode
    BY <1>13, <2>1 DEF ItemLeaves, EndTypes
  <2>6. /\ job' \in [Jobs -> JobRecord]
        /\ \A i \in Jobs : job'[i].stage # "idle" => job'[i].set \in Sets
    BY <1>13, DisturbedTypes DEF ItemLeaves
  <2> QED BY <1>13, <2>4, <2>5, <2>6 DEF ItemLeaves, EndTypes
<1>14. ASSUME NEW it \in credits, Scrobble(it) PROVE EndTypes'
  <2>1. it \in Episode /\ it.set \in Sets /\ it.key \in Keys /\ it.nr \in Nat
    BY DEF EndTypes, Episode
  <2>2. watched' \in Counts
    BY <1>14, <2>1 DEF Scrobble, Counted, EndTypes, Counts
  <2>3. /\ job' \in [Jobs -> JobRecord]
        /\ \A i \in Jobs : job'[i].stage # "idle" => job'[i].set \in Sets
    BY <1>14, DisturbedTypes DEF Scrobble
  <2> QED BY <1>14, <2>2, <2>3 DEF Scrobble, EndTypes
<1>15. ASSUME NEW s \in Sets, NEW k \in Keys, NewEpisode(s, k) PROVE EndTypes'
  <2>1. aired' \in Counts
    BY <1>15 DEF NewEpisode, EndTypes, Counts
  <2>2. /\ job' \in [Jobs -> JobRecord]
        /\ \A i \in Jobs : job'[i].stage # "idle" => job'[i].set \in Sets
    BY <1>15, DisturbedTypes DEF NewEpisode
  <2> QED BY <1>15, <2>1, <2>2 DEF NewEpisode, EndTypes
<1>16. ASSUME NEW s \in Sets, NEW k \in Keys, MarkByHand(s, k) PROVE EndTypes'
  <2>1. doc' \in Docs
    BY <1>16, HandMarks DEF MarkByHand, EndTypes
  <2>2. /\ job' \in [Jobs -> JobRecord]
        /\ \A i \in Jobs : job'[i].stage # "idle" => job'[i].set \in Sets
    BY <1>16, DisturbedTypes DEF MarkByHand
  <2> QED BY <1>16, <2>1, <2>2 DEF MarkByHand, EndTypes
<1>17. CASE MemoReads
  <2>1. memo' \in [isKnown : BOOLEAN, of : Counts]
    BY <1>17 DEF MemoReads, EndTypes
  <2> QED BY <1>17, <2>1 DEF MemoReads, EndTypes
<1>18. CASE MemoExpires
  BY <1>18, NothingCounted DEF MemoExpires, EndTypes
<1>19. CASE UNCHANGED endVars
  BY <1>19 DEF endVars, EndTypes
<1> QED BY <1>1, <1>2, <1>3, <1>4, <1>5, <1>6, <1>7, <1>8, <1>9, <1>10, <1>11, <1>12, <1>13,
           <1>14, <1>15, <1>16, <1>17, <1>18, <1>19 DEF EndNext, Steps

-----------------------------------------------------------------------------
(* The memo.                                                               *)

LEMMA WatchedGrows ==
    ASSUME EndTypes, [EndNext]_endVars
    PROVE  \A s \in Sets, k \in Keys : watched[s][k] <= watched'[s][k]
<1>1. ASSUME NEW it \in credits, Scrobble(it)
      PROVE  \A s \in Sets, k \in Keys : watched[s][k] <= watched'[s][k]
  <2>1. it \in Episode /\ it.set \in Sets /\ it.key \in Keys /\ it.nr \in Nat
    BY DEF EndTypes, Episode
  <2>2. \A n \in Nat : n <= Counted(it, n)
    BY <2>1 DEF Counted
  <2>3. watched' = [watched EXCEPT ![it.set][it.key] = Counted(it, watched[it.set][it.key])]
    BY <1>1 DEF Scrobble
  <2>4. \A s \in Sets, k \in Keys : watched[s][k] \in Nat
    BY DEF EndTypes, Counts
  <2> QED BY <2>1, <2>2, <2>3, <2>4 DEF EndTypes, Counts
<1>2. CASE watched' = watched
  BY <1>2 DEF EndTypes, Counts
<1> QED BY <1>1, <1>2 DEF EndNext, Steps, ReadList, Resolve, ClearRevived, MarkNewly, SweepAged,
           Reconciled, ScanPlays, JobFails, TimerFires, Scan, Tick, Restart, ItemLeaves,
           NewEpisode, MarkByHand, MemoReads, MemoExpires, endVars, libraryVars

\* Where a job has what it decides by from.
BasisMoves(j) ==
    job'[j].stage = "idle"
    \/ (job'[j].basis = NoJob.basis)
    \/ (/\ job[j].stage # "idle" /\ job'[j].set = job[j].set
        /\ job'[j].basis = job[j].basis \/ job'[j].basis = watched[job[j].set])

LEMMA BasisStep ==
    ASSUME EndTypes, [EndNext]_endVars, NEW i \in Jobs
    PROVE  BasisMoves(i)
<1> USE DEF Becomes
<1>1. CASE job'[i] = job[i]
  BY <1>1 DEF BasisMoves
<1>2. ASSUME NEW j \in Jobs, ReadList(j) PROVE BasisMoves(i)
  <2>1. job'[i] = job[i] \/ (i = j /\ job'[i] = [job[i] EXCEPT !.stage = "resolving", !.list = doc[job[i].set]])
    BY <1>2 DEF ReadList, EndTypes
  <2>2. job[j].stage # "idle"
    BY <1>2 DEF ReadList
  <2> QED BY <2>1, <2>2, <1>1 DEF BasisMoves, EndTypes, JobRecord
<1>3. ASSUME NEW j \in Jobs, Resolve(j) PROVE BasisMoves(i)
  <2>1. job[j].stage # "idle" /\ job[i] \in JobRecord
    BY <1>3 DEF Resolve, EndTypes
  <2>2. job'[i] = job[i] \/ (i = j /\ job'[i].set = job[i].set /\ job'[i].basis = watched[job[i].set])
    BY <1>3 DEF Resolve, EndTypes, JobRecord
  <2> QED BY <2>1, <2>2, <1>1 DEF BasisMoves
<1>4. ASSUME NEW j \in Jobs, job[j].stage # "idle", NEW stage \in JobStages,
             job' = Disturbing(j, job[j].set, stage)
      PROVE  BasisMoves(i)
  <2>1. /\ job[i] \in JobRecord
        /\ i = j => job'[i] = [job[i] EXCEPT !.stage = stage,
                                  !.newly = IF stage = "marking" THEN @ ELSE {},
                                  !.revived = IF stage = "settling" THEN {} ELSE @]
        /\ i # j => job'[i] \in {job[i], [job[i] EXCEPT !.calm = FALSE]}
    <3>1. job[i] \in JobRecord
      BY DEF EndTypes
    <3>2. /\ job'[j] = [job[j] EXCEPT !.stage = stage,
                          !.newly = IF stage = "marking" THEN @ ELSE {},
                          !.revived = IF stage = "settling" THEN {} ELSE @]
          /\ \A k \in Jobs \ {j} :
                job'[k] = IF job[k].set = job[j].set THEN [job[k] EXCEPT !.calm = FALSE] ELSE job[k]
      BY <1>4, WroteTypes
    <3>3. CASE i = j
      BY <3>1, <3>2, <3>3
    <3>4. CASE i # j
      BY <3>1, <3>2, <3>4
    <3> QED BY <3>3, <3>4
  <2>2. /\ job'[i].basis = job[i].basis /\ job'[i].set = job[i].set
        /\ i # j => job'[i].stage = job[i].stage
    BY <2>1 DEF JobRecord
  <2> QED BY <1>4, <2>2 DEF BasisMoves
<1>5. ASSUME NEW s, Disturbs(s) PROVE BasisMoves(i)
  <2>1. job[i] \in JobRecord /\ job'[i] \in {job[i], [job[i] EXCEPT !.calm = FALSE]}
    BY <1>5 DEF Disturbs, EndTypes
  <2>2. job'[i].basis = job[i].basis /\ job'[i].set = job[i].set /\ job'[i].stage = job[i].stage
    BY <2>1 DEF JobRecord
  <2> QED BY <2>2 DEF BasisMoves
<1>6. ASSUME NEW j \in Jobs,
             \/ job' = [job EXCEPT ![j] = NoJob]
             \/ job' = [job EXCEPT ![j] = [NoJob EXCEPT !.stage = "reading", !.kind = "reconcile", !.set = timer]]
             \/ \E s \in Sets : job' = [job EXCEPT ![j] = [NoJob EXCEPT !.stage = "reading", !.set = s]]
             \/ job' = job
             \/ job' = [l \in Jobs |-> NoJob]
      PROVE  BasisMoves(i)
  <2>1. job'[i] = job[i] \/ job'[i].basis = NoJob.basis
    BY <1>6 DEF EndTypes, NoJob
  <2> QED BY <1>1, <2>1 DEF BasisMoves
<1>7. ASSUME NEW j \in Jobs, ClearRevived(j) \/ MarkNewly(j) \/ SweepAged(j) PROVE BasisMoves(i)
  <2>1. job[j].stage # "idle" /\ \E stage \in JobStages : job' = Disturbing(j, job[j].set, stage)
    BY <1>7 DEF ClearRevived, MarkNewly, SweepAged, JobStages
  <2> QED BY <1>4, <2>1
<1>8. ASSUME NEW j \in Jobs, \/ Reconciled(j) \/ ScanPlays(j) \/ JobFails(j) \/ TimerFires(j)
                             \/ \E s \in Sets : Scan(j, s)
      PROVE  BasisMoves(i)
  BY <1>6, <1>8 DEF Reconciled, ScanPlays, JobFails, TimerFires, Scan
<1>9. CASE Restart
  BY <1>6, <1>9 DEF Restart
<1>10. CASE \/ \E isPlayedOut \in BOOLEAN : ItemLeaves(isPlayedOut)
            \/ \E it \in credits : Scrobble(it)
            \/ \E s \in Sets, k \in Keys : NewEpisode(s, k) \/ MarkByHand(s, k)
  BY <1>5, <1>10 DEF ItemLeaves, Scrobble, NewEpisode, MarkByHand
<1>11. CASE Tick \/ MemoReads \/ MemoExpires \/ UNCHANGED endVars
  BY <1>1, <1>11 DEF Tick, MemoReads, MemoExpires, endVars
<1> QED BY <1>2, <1>3, <1>7, <1>8, <1>9, <1>10, <1>11 DEF EndNext, Steps

LEMMA MemoStep ==
    ASSUME EndTypes, MemoInv, [EndNext]_endVars
    PROVE  MemoInv'
<1>1. EndTypes' /\ \A s \in Sets, k \in Keys : watched[s][k] <= watched'[s][k]
  BY TypesStep, WatchedGrows
<1>2. \A s \in Sets, k \in Keys : /\ watched[s][k] \in Nat /\ watched'[s][k] \in Nat
                                  /\ reconciled[s][k] \in Nat /\ memo.of[s][k] \in Nat
  BY <1>1 DEF EndTypes, Counts
<1>3. ASSUME NEW j \in Jobs, NEW k \in Keys, job'[j].stage # "idle"
      PROVE  job'[j].basis[k] <= watched'[job'[j].set][k]
  <2>1. job'[j].set \in Sets /\ job[j] \in JobRecord
    BY <1>1, <1>3 DEF EndTypes
  <2>2. CASE job'[j].basis = NoJob.basis
    <3>1. job'[j].basis[k] = 0
      BY <2>2, NoJobIsAJob
    <3> QED BY <1>2, <2>1, <3>1
  <2>3. CASE /\ job[j].stage # "idle" /\ job'[j].set = job[j].set
             /\ job'[j].basis = job[j].basis \/ job'[j].basis = watched[job[j].set]
    <3>1. job[j].basis[k] <= watched[job[j].set][k] /\ job[j].basis[k] \in Nat
      BY <2>1, <2>3 DEF MemoInv, JobRecord
    <3>2. job'[j].basis[k] <= watched[job[j].set][k] /\ job'[j].basis[k] \in Nat
      BY <1>2, <2>1, <2>3, <3>1
    <3> QED BY <1>1, <1>2, <2>1, <2>3, <3>2
  <2> QED BY <1>3, <2>2, <2>3, BasisStep DEF BasisMoves
<1>4. ASSUME NEW s \in Sets, NEW k \in Keys PROVE reconciled'[s][k] <= watched'[s][k]
  <2>1. CASE reconciled' = reconciled
    BY <1>1, <1>2, <2>1 DEF MemoInv
  <2>2. ASSUME NEW j \in Jobs, Reconciled(j) PROVE reconciled'[s][k] <= watched'[s][k]
    <3>1. job[j].stage # "idle" /\ job[j].set \in Sets /\ job[j].basis[k] <= watched[job[j].set][k]
      BY <2>2 DEF Reconciled, EndTypes, MemoInv
    <3>2. watched' = watched
      BY <2>2 DEF Reconciled, libraryVars
    <3>3. reconciled'[s][k] = reconciled[s][k] \/ (s = job[j].set /\ reconciled'[s][k] = job[j].basis[k])
      BY <2>2 DEF Reconciled, EndTypes, Counts
    <3> QED BY <3>1, <3>2, <3>3 DEF MemoInv
  <2> QED BY <2>1, <2>2 DEF EndNext, Steps, ReadList, Resolve, ClearRevived, MarkNewly, SweepAged,
             ScanPlays, JobFails, TimerFires, Scan, Tick, Restart, ItemLeaves, Scrobble,
             NewEpisode, MarkByHand, MemoReads, MemoExpires, endVars
<1>5. MemoKnowsTheReconciled'
  <2>1. CASE ~memo'.isKnown
    BY <2>1 DEF MemoKnowsTheReconciled
  <2>2. CASE memo' = memo /\ reconciled' = reconciled
    BY <2>2 DEF MemoInv, MemoKnowsTheReconciled
  <2>3. CASE MemoReads
    BY <1>2, <2>3 DEF MemoReads, MemoInv, MemoKnowsTheReconciled
  <2>4. \A j \in Jobs : Reconciled(j) => memo' = NoMemo
    BY DEF Reconciled, MemoAfter
  <2>5. Restart \/ MemoExpires => memo' = NoMemo
    BY DEF Restart, MemoExpires
  <2>6. ~NoMemo.isKnown
    BY DEF NoMemo
  <2> QED BY <2>1, <2>2, <2>3, <2>4, <2>5, <2>6
          DEF EndNext, Steps, ReadList, Resolve, ClearRevived, MarkNewly, SweepAged,
              ScanPlays, JobFails, TimerFires, Scan, Tick, ItemLeaves, Scrobble,
              NewEpisode, MarkByHand, endVars
<1> QED BY <1>3, <1>4, <1>5 DEF MemoInv

-----------------------------------------------------------------------------
(* The sweep.                                                              *)

\* What a step is to a job: nothing, a disturbance, its beginning or end, or its own.
JobMoves(i) ==
    \/ job'[i] \in {job[i], [job[i] EXCEPT !.calm = FALSE]}
    \/ job'[i].stage \in {"idle", "reading"}
    \/ ReadList(i) \/ Resolve(i) \/ ClearRevived(i) \/ MarkNewly(i) \/ SweepAged(i)

LEMMA JobStep ==
    ASSUME EndTypes, [EndNext]_endVars, NEW i \in Jobs
    PROVE  JobMoves(i)
<1> USE DEF Becomes
<1>1. ASSUME NEW j \in Jobs, ReadList(j) \/ Resolve(j) PROVE JobMoves(i)
  <2>1. CASE i = j
    BY <1>1, <2>1 DEF JobMoves
  <2>2. CASE i # j
    BY <1>1, <2>2 DEF JobMoves, ReadList, Resolve, EndTypes
  <2> QED BY <2>1, <2>2
<1>2. ASSUME NEW j \in Jobs, ClearRevived(j) \/ MarkNewly(j) \/ SweepAged(j) PROVE JobMoves(i)
  <2>1. CASE i = j
    BY <1>2, <2>1 DEF JobMoves
  <2>2. CASE i # j
    <3>1. job[j].stage # "idle" /\ \E stage \in JobStages : job' = Disturbing(j, job[j].set, stage)
      BY <1>2 DEF ClearRevived, MarkNewly, SweepAged, JobStages
    <3>2. PICK stage \in JobStages : job' = Disturbing(j, job[j].set, stage)
      BY <3>1
    <3>3. job'[i] = IF job[i].set = job[j].set THEN [job[i] EXCEPT !.calm = FALSE] ELSE job[i]
      BY <2>2, <3>1, <3>2, WroteTypes
    <3> QED BY <3>3 DEF JobMoves
  <2> QED BY <2>1, <2>2
<1>3. ASSUME NEW s, Disturbs(s) PROVE JobMoves(i)
  BY <1>3 DEF Disturbs, JobMoves
<1>4. ASSUME NEW j \in Jobs, job'[j].stage \in {"idle", "reading"},
             \A l \in Jobs \ {j} : job'[l] = job[l]
      PROVE  JobMoves(i)
  BY <1>4 DEF JobMoves
<1>5. ASSUME NEW j \in Jobs, \/ Reconciled(j) \/ ScanPlays(j) \/ JobFails(j) \/ TimerFires(j)
                             \/ \E s \in Sets : Scan(j, s)
      PROVE  JobMoves(i)
  <2>1. /\ NoJob.stage = "idle"
        /\ [NoJob EXCEPT !.stage = "reading", !.kind = "reconcile", !.set = timer].stage = "reading"
        /\ \A s : [NoJob EXCEPT !.stage = "reading", !.set = s].stage = "reading"
    BY DEF NoJob
  <2>2. CASE Reconciled(j) \/ ScanPlays(j) \/ JobFails(j)
    <3>1. job' = [job EXCEPT ![j] = NoJob]
      BY <2>2 DEF Reconciled, ScanPlays, JobFails
    <3>2. job'[j] = NoJob /\ \A l \in Jobs \ {j} : job'[l] = job[l]
      BY <3>1 DEF EndTypes
    <3> QED BY <1>4, <2>1, <3>2
  <2>3. CASE TimerFires(j)
    <3> DEFINE r == [NoJob EXCEPT !.stage = "reading", !.kind = "reconcile", !.set = timer]
    <3>1. r.stage = "reading"
      BY <2>1
    <3>2. job' = job \/ job' = [job EXCEPT ![j] = r]
      BY <2>3 DEF TimerFires
    <3> HIDE DEF r
    <3>3. CASE job' = [job EXCEPT ![j] = r]
      <4>1. job'[j] = r /\ \A l \in Jobs \ {j} : job'[l] = job[l]
        BY <3>3 DEF EndTypes
      <4> QED BY <1>4, <3>1, <4>1
    <3>4. CASE job' = job
      BY <3>4 DEF JobMoves
    <3> QED BY <3>2, <3>3, <3>4
  <2>4. ASSUME NEW s \in Sets, Scan(j, s) PROVE JobMoves(i)
    <3> DEFINE r == [NoJob EXCEPT !.stage = "reading", !.set = s]
    <3>1. r.stage = "reading"
      BY <2>1
    <3>2. job' = [job EXCEPT ![j] = r]
      BY <2>4 DEF Scan
    <3> HIDE DEF r
    <3>3. job'[j] = r /\ \A l \in Jobs \ {j} : job'[l] = job[l]
      BY <3>2 DEF EndTypes
    <3> QED BY <1>4, <3>1, <3>3
  <2> QED BY <1>5, <2>2, <2>3, <2>4
<1>6. CASE Restart
  <2>1. job'[i].stage = "idle"
    BY <1>6 DEF Restart, NoJob
  <2> QED BY <2>1 DEF JobMoves
<1>7. CASE \/ \E isPlayedOut \in BOOLEAN : ItemLeaves(isPlayedOut)
           \/ \E it \in credits : Scrobble(it)
           \/ \E s \in Sets, k \in Keys : NewEpisode(s, k) \/ MarkByHand(s, k)
  BY <1>3, <1>7 DEF ItemLeaves, Scrobble, NewEpisode, MarkByHand
<1>8. CASE Tick \/ MemoReads \/ MemoExpires \/ UNCHANGED endVars
  BY <1>8 DEF Tick, MemoReads, MemoExpires, endVars, JobMoves
<1> QED BY <1>1, <1>2, <1>5, <1>6, <1>7, <1>8 DEF EndNext, Steps

\* A flag that is new is not aged.
LEMMA NewFlagsAreYoung ==
    ASSUME EndTypes, [EndNext]_endVars, NEW s \in Sets, NEW e \in ToSet(doc'[s])
    PROVE  e \in ToSet(doc[s]) \/ ~e.done \/ e.at \in {0, clock}
<1>1. CASE doc' = doc
  BY <1>1
<1>2. ASSUME NEW j \in Jobs, ClearRevived(j)
      PROVE  e \in ToSet(doc[s]) \/ ~e.done \/ e.at \in {0, clock}
  <2>1. doc \in Docs /\ job[j].set \in Sets /\ doc' = ClearDone(doc, job[j].set, job[j].revived)
    BY <1>2 DEF EndTypes, ClearRevived
  <2>2. CASE s = job[j].set
    BY <2>1, <2>2, ClearedEntries
  <2>3. CASE s # job[j].set
    <3>1. doc'[s] = doc[s]
      BY <2>1, <2>3, ClearedEntries
    <3> QED BY <3>1
  <2> QED BY <2>2, <2>3
<1>3. ASSUME NEW j \in Jobs, MarkNewly(j)
      PROVE  e \in ToSet(doc[s]) \/ ~e.done \/ e.at \in {0, clock}
  <2>1. doc \in Docs /\ job[j].set \in Sets /\ doc' = MarkDone(doc, job[j].set, job[j].newly, clock)
    BY <1>3 DEF EndTypes, MarkNewly
  <2>2. CASE s = job[j].set
    BY <2>1, <2>2, MarkedEntries
  <2>3. CASE s # job[j].set
    <3>1. doc'[s] = doc[s]
      BY <2>1, <2>3, MarkedEntries
    <3> QED BY <3>1
  <2> QED BY <2>2, <2>3
<1>4. ASSUME NEW j \in Jobs, SweepAged(j)
      PROVE  e \in ToSet(doc[s]) \/ ~e.done \/ e.at \in {0, clock}
  <2>1. CASE doc' = doc
    BY <2>1
  <2>2. CASE doc' = Sweep(doc, job[j].set, clock - Ttl[job[j].set])
    <3>1. doc \in Docs /\ job[j].set \in Sets
      BY <1>4 DEF EndTypes, SweepAged
    <3>2. CASE s = job[j].set
      BY <2>2, <3>1, <3>2, SweptEntries, SMTT(30)
    <3>3. CASE s # job[j].set
      <4>1. doc'[s] = doc[s]
        BY <2>2, <3>1, <3>3, SweptEntries
      <4> QED BY <4>1
    <3> QED BY <3>2, <3>3
  <2> QED BY <1>4, <2>1, <2>2 DEF SweepAged
<1>5. ASSUME NEW t \in Sets, NEW k \in Keys, MarkByHand(t, k)
      PROVE  e \in ToSet(doc[s]) \/ ~e.done \/ e.at \in {0, clock}
  <2>1. doc \in Docs /\ doc' = [doc EXCEPT ![t] = Change(@, {k}, LAMBDA f : [f EXCEPT !.done = TRUE])]
    BY <1>5 DEF EndTypes, MarkByHand
  <2>2. CASE s # t
    <3>1. doc'[s] = doc[s]
      BY <2>1, <2>2, HandMarks
    <3> QED BY <3>1
  <2>3. CASE s = t
    BY <2>1, <2>3, HandMarks, SMTT(30)
  <2> QED BY <2>2, <2>3
<1> QED BY <1>1, <1>2, <1>3, <1>4, <1>5
        DEF EndNext, Steps, ReadList, Resolve, Reconciled, ScanPlays, JobFails, TimerFires, Scan,
            Tick, Restart, ItemLeaves, Scrobble, NewEpisode, MemoReads, MemoExpires, endVars, fileVars

LEMMA WriterGoesOn ==
    ASSUME EndTypes, NEW j \in Jobs, job[j].stage # "idle",
           NEW stage \in JobStages, job' = Disturbing(j, job[j].set, stage)
    PROVE  /\ job'[j].stage = stage /\ job'[j].set = job[j].set /\ job'[j].calm = job[j].calm
           /\ stage = "marking" => job'[j].newly = job[j].newly
           /\ stage # "settling" => job'[j].revived = job[j].revived
<1>1. job[j] \in JobRecord
  BY DEF EndTypes
<1>2. job'[j] = [job[j] EXCEPT !.stage = stage,
                    !.newly = IF stage = "marking" THEN @ ELSE {},
                    !.revived = IF stage = "settling" THEN {} ELSE @]
  BY WroteTypes
<1> QED BY <1>1, <1>2 DEF JobRecord

LEMMA SweepStep ==
    ASSUME EndTypes, SweepInv, [EndNext]_endVars
    PROVE  SweepInv'
<1> SUFFICES ASSUME NEW i \in Jobs, job'[i].stage \in {"marking", "sweeping"},
                    NEW e \in ToSet(doc'[job'[i].set]), e.key \in job'[i].revived, e.done
             PROVE  e.at \in {0, clock'}
  BY DEF SweepInv
<1>1. job[i] \in JobRecord /\ job'[i].set \in Sets
  BY TypesStep DEF EndTypes
<1>2. job[i].stage # "idle" => clock' = clock
  BY DEF EndNext, Steps, ReadList, Resolve, ClearRevived, MarkNewly, SweepAged, Reconciled,
         ScanPlays, JobFails, TimerFires, Scan, Tick, Restart, ItemLeaves, Scrobble, NewEpisode,
         MarkByHand, MemoReads, MemoExpires, endVars, fileVars, IsIdle
<1>3. ASSUME job[i].stage \in {"marking", "sweeping"}, job'[i].set = job[i].set,
             job'[i].revived = job[i].revived
      PROVE  e.at \in {0, clock'}
  <2>1. e \in ToSet(doc[job[i].set]) => e.at \in {0, clock}
    BY <1>3 DEF SweepInv
  <2>2. e \in ToSet(doc[job[i].set]) \/ e.at \in {0, clock}
    BY <1>1, <1>3, NewFlagsAreYoung
  <2> QED BY <1>2, <1>3, <2>1, <2>2
<1>4. CASE job'[i] \in {job[i], [job[i] EXCEPT !.calm = FALSE]}
  <2>1. /\ job'[i].stage = job[i].stage /\ job'[i].set = job[i].set
        /\ job'[i].revived = job[i].revived
    BY <1>1, <1>4 DEF JobRecord
  <2> QED BY <1>3, <2>1
<1>5. CASE ReadList(i)
  <2>1. job'[i].stage = "resolving"
    BY <1>1, <1>5 DEF ReadList, Becomes, EndTypes, JobRecord
  <2> QED BY <2>1
<1>6. CASE Resolve(i)
  <2> DEFINE revived == Revived(job[i].set, job[i].list)
             newly == NewlyDone(job[i].set, job[i].list)
  <2>1. job'[i].stage = FirstWrite(job[i].set, revived, newly) /\ job'[i].revived = revived
    BY <1>1, <1>6 DEF Resolve, Becomes, EndTypes, JobRecord
  <2>2. revived = {}
    <3> HIDE DEF revived, newly
    <3> QED BY <2>1 DEF FirstWrite
  <2> QED BY <2>1, <2>2
<1>7. CASE ClearRevived(i)
  <2>1. job[i].stage = "clearing" /\ job[i].set \in Sets
    BY <1>7 DEF ClearRevived, EndTypes
  <2>2. PICK stage \in {"marking", "sweeping"} : job' = Disturbing(i, job[i].set, stage)
    BY <1>7 DEF ClearRevived
  <2>3. job'[i].set = job[i].set /\ job'[i].revived = job[i].revived
    BY <1>1, <2>1, <2>2, WriterGoesOn DEF JobStages
  <2>4. doc \in Docs /\ doc' = ClearDone(doc, job[i].set, job[i].revived)
    BY <1>7 DEF ClearRevived, EndTypes
  <2> QED BY <2>1, <2>3, <2>4, ClearedEntries
<1>8. CASE MarkNewly(i)
  <2>1. job[i].stage = "marking" /\ job' = Disturbing(i, job[i].set, "sweeping")
    BY <1>8 DEF MarkNewly
  <2>2. job'[i].set = job[i].set /\ job'[i].revived = job[i].revived
    BY <1>1, <2>1, WriterGoesOn DEF JobStages
  <2> QED BY <1>3, <2>1, <2>2
<1>9. CASE SweepAged(i)
  <2>1. job[i].stage = "sweeping" /\ job' = Disturbing(i, job[i].set, "settling")
    BY <1>9 DEF SweepAged
  <2>2. job'[i].stage = "settling"
    BY <1>1, <2>1, WriterGoesOn DEF JobStages
  <2> QED BY <2>2
<1> QED BY <1>4, <1>5, <1>6, <1>7, <1>8, <1>9, JobStep DEF JobMoves

LEMMA SweepsFinished ==
    ASSUME EndTypes, SweepInv, [EndNext]_endVars, NEW i \in Jobs,
           job[i].stage = "sweeping", job'[i].stage = "settling",
           NEW e \in ToSet(doc[job[i].set]) \ ToSet(doc'[job[i].set])
    PROVE  e.key \notin job[i].revived
<1>1. job[i] \in JobRecord /\ job[i].set \in Sets /\ doc \in Docs /\ clock \in Nat
  BY DEF EndTypes
<1>2. SweepAged(i)
  <2>1. job'[i] \notin {job[i], [job[i] EXCEPT !.calm = FALSE]}
    BY <1>1 DEF JobRecord
  <2> QED BY <2>1, JobStep DEF JobMoves, ReadList, Resolve, ClearRevived, MarkNewly
<1>3. /\ doc' = Sweep(doc, job[i].set, clock - Ttl[job[i].set])
      /\ Ttl[job[i].set] # 0
  BY <1>2 DEF SweepAged
<1>4. IsAged(e, clock - Ttl[job[i].set])
  BY <1>1, <1>3, SweptEntries
<1>5. Ttl[job[i].set] \in Nat
  BY <1>1, EndAssumption
<1>6. e.done /\ e.at \notin {0, clock}
  BY <1>1, <1>3, <1>4, <1>5 DEF IsAged
<1> QED BY <1>6 DEF SweepInv

-----------------------------------------------------------------------------
(* What a write side that nothing disturbs leaves.                         *)

\* What the decision about set s looks at stays as it is.
SetStays(s) ==
    /\ doc'[s] = doc[s] /\ watched'[s] = watched[s] /\ aired'[s] = aired[s]
    /\ \A k \in Keys : NextOf(s, k) \in begun' <=> NextOf(s, k) \in begun

LEMMA Undisturbed ==
    ASSUME EndTypes, [EndNext]_endVars, NEW i \in Jobs, NEW s \in Sets,
           job[i].stage # "idle", job[i].set = s, job'[i].calm, job'[i] = job[i]
    PROVE  SetStays(s)
<1>1. CASE doc' = doc /\ UNCHANGED libraryVars
  BY <1>1 DEF libraryVars, SetStays
<1>2. ASSUME NEW t, Disturbs(t) PROVE t # s
  <2>1. job[i] \in JobRecord
    BY DEF EndTypes
  <2>2. job[i].set = t => ~job'[i].calm
    BY <1>2, <2>1 DEF Disturbs, JobRecord
  <2> QED BY <2>2
<1>3. ASSUME NEW j \in Jobs, ClearRevived(j) \/ MarkNewly(j) \/ SweepAged(j)
      PROVE  SetStays(s)
  <2>1. /\ job[j].stage \in {"clearing", "marking", "sweeping"} /\ job[j].set \in Sets /\ doc \in Docs
        /\ job[i] \in JobRecord
    BY <1>3 DEF ClearRevived, MarkNewly, SweepAged, EndTypes
  <2>2. PICK stage \in JobStages : job' = Disturbing(j, job[j].set, stage) /\ stage # job[j].stage
    BY <1>3 DEF ClearRevived, MarkNewly, SweepAged, JobStages
  <2>3. i # j
    <3>1. job'[j].stage = stage
      BY <2>1, <2>2, WriterGoesOn
    <3> QED BY <2>2, <3>1
  <2>4. job[j].set # s
    <3>1. job'[i] = IF job[i].set = job[j].set THEN [job[i] EXCEPT !.calm = FALSE] ELSE job[i]
      BY <2>1, <2>2, <2>3, WroteTypes
    <3>2. ~[job[i] EXCEPT !.calm = FALSE].calm
      BY <2>1 DEF JobRecord
    <3> QED BY <3>1, <3>2
  <2>5. doc'[s] = doc[s]
    <3>1. CASE ClearRevived(j)
      BY <2>1, <2>4, <3>1, ClearedEntries DEF ClearRevived
    <3>2. CASE MarkNewly(j)
      BY <2>1, <2>4, <3>2, MarkedEntries DEF MarkNewly
    <3>3. CASE SweepAged(j)
      BY <2>1, <2>4, <3>3, SweptEntries DEF SweepAged
    <3> QED BY <1>3, <3>1, <3>2, <3>3
  <2> QED BY <1>3, <2>5 DEF ClearRevived, MarkNewly, SweepAged, libraryVars, SetStays
<1>4. ASSUME NEW isPlayedOut \in BOOLEAN, ItemLeaves(isPlayedOut) PROVE SetStays(s)
  <2>1. onScreen.set # s
    BY <1>2, <1>4 DEF ItemLeaves
  <2>2. \A k \in Keys : NextOf(s, k) # onScreen
    BY <2>1 DEF NextOf
  <2>3. begun' = begun \ {onScreen} \/ begun' = begun \cup {onScreen}
    BY <1>4 DEF ItemLeaves
  <2> QED BY <1>4, <2>2, <2>3 DEF ItemLeaves, SetStays, fileVars
<1>5. ASSUME NEW it \in credits, Scrobble(it) PROVE SetStays(s)
  <2>1. it.set # s
    BY <1>2, <1>5 DEF Scrobble
  <2>2. watched'[s] = watched[s]
    BY <1>5, <2>1 DEF Scrobble, EndTypes, Counts
  <2> QED BY <1>5, <2>2 DEF Scrobble, SetStays, fileVars
<1>6. ASSUME NEW t \in Sets, NEW k \in Keys, NewEpisode(t, k) PROVE SetStays(s)
  <2>1. t # s
    BY <1>2, <1>6 DEF NewEpisode
  <2>2. aired'[s] = aired[s]
    BY <1>6, <2>1 DEF NewEpisode, EndTypes, Counts
  <2> QED BY <1>6, <2>2 DEF NewEpisode, SetStays, fileVars
<1>7. ASSUME NEW t \in Sets, NEW k \in Keys, MarkByHand(t, k) PROVE SetStays(s)
  <2>1. t # s /\ doc \in Docs
    BY <1>2, <1>7 DEF MarkByHand, EndTypes
  <2>2. doc'[s] = doc[s]
    BY <1>7, <2>1, HandMarks DEF MarkByHand
  <2> QED BY <1>7, <2>2 DEF MarkByHand, SetStays, libraryVars
<1>8. ASSUME NEW j \in Jobs, \/ ReadList(j) \/ Resolve(j) \/ Reconciled(j) \/ ScanPlays(j)
                             \/ JobFails(j) \/ TimerFires(j) \/ \E t \in Sets : Scan(j, t)
      PROVE  SetStays(s)
  <2>1. doc' = doc /\ UNCHANGED libraryVars
    BY <1>8 DEF ReadList, Resolve, Reconciled, ScanPlays, JobFails, TimerFires, Scan, fileVars
  <2> QED BY <1>1, <2>1
<1>9. CASE Tick \/ Restart \/ MemoReads \/ MemoExpires \/ UNCHANGED endVars
  <2>1. doc' = doc /\ UNCHANGED libraryVars
    BY <1>9 DEF Tick, Restart, MemoReads, MemoExpires, endVars, fileVars, libraryVars
  <2> QED BY <1>1, <2>1
<1> QED BY <1>3, <1>4, <1>5, <1>6, <1>7, <1>8, <1>9 DEF EndNext, Steps

\* So does the decision.
LEMMA SameDecision ==
    ASSUME NEW s \in Sets, SetStays(s), doc \in Docs
    PROVE  /\ Revived(s, doc[s])' = Revived(s, doc[s])
           /\ NewlyDone(s, doc[s])' = NewlyDone(s, doc[s])
           /\ \A e \in ToSet(doc[s]) : /\ IsRevived(s, e)' <=> IsRevived(s, e)
                                       /\ FlagIsRight(s, e)' <=> FlagIsRight(s, e)
<1>1. doc'[s] = doc[s]
  BY DEF SetStays
<1>2. \A k \in Keys : /\ IsOpen(s, k)' <=> IsOpen(s, k)
                      /\ InProgress(s, k)' <=> InProgress(s, k)
  BY DEF SetStays, IsOpen, InProgress, NextOf
<1>3. \A e \in ToSet(doc[s]) : e.key \in Keys
  BY EntriesOfDocs DEF ToSet, Entry
<1>4. \A e \in ToSet(doc[s]) : /\ IsRevived(s, e)' <=> IsRevived(s, e)
                               /\ FlagIsRight(s, e)' <=> FlagIsRight(s, e)
  BY <1>2, <1>3 DEF IsRevived, FlagIsRight
<1>5. Revived(s, doc[s])' = Revived(s, doc[s])
  BY <1>1, <1>4 DEF Revived
<1>6. NewlyDone(s, doc[s])' = NewlyDone(s, doc[s])
  BY <1>1, <1>2, <1>3 DEF NewlyDone
<1> QED BY <1>4, <1>5, <1>6

\* The decision of a job, once it is made by the list as it is.
LEMMA DecisionSettles ==
    ASSUME NEW s \in Sets, doc \in Docs
    PROVE  /\ (Revived(s, doc[s]) = {}) => \A e \in ToSet(doc[s]) : ~IsRevived(s, e)
           /\ (\A e \in ToSet(doc[s]) : ~IsRevived(s, e)) /\ (NewlyDone(s, doc[s]) = {} \/ PolicyOf[s] = "keep")
              => \A e \in ToSet(doc[s]) : FlagIsRight(s, e)
<1>1. (Revived(s, doc[s]) = {}) => \A e \in ToSet(doc[s]) : ~IsRevived(s, e)
  BY DEF Revived
<1>2. ASSUME \A e \in ToSet(doc[s]) : ~IsRevived(s, e), NewlyDone(s, doc[s]) = {} \/ PolicyOf[s] = "keep",
             NEW e \in ToSet(doc[s])
      PROVE  FlagIsRight(s, e)
  <2>1. CASE e.done
    BY <1>2, <2>1 DEF IsRevived, FlagIsRight
  <2>2. CASE ~e.done
    <3>1. PolicyOf[s] = "plain" => NewlyDone(s, doc[s]) = {}
      BY <1>2
    <3>2. NewlyDone(s, doc[s]) = {} => IsOpen(s, e.key)
      BY <2>2 DEF NewlyDone
    <3> QED BY <2>2, <3>1, <3>2 DEF FlagIsRight
  <2> QED BY <2>1, <2>2
<1> QED BY <1>1, <1>2

LEMMA ResolveSettles ==
    ASSUME EndTypes, NEW i \in Jobs, NEW s \in Sets, job[i].set = s, JobSettles(i), Resolve(i)
    PROVE  JobSettles(i)'
<1> DEFINE revived == Revived(s, job[i].list)
           newly == NewlyDone(s, job[i].list)
<1>1. job[i] \in JobRecord /\ job[i].stage = "resolving" /\ doc \in Docs
  BY DEF Resolve, EndTypes
<1>2. /\ job'[i].stage = FirstWrite(s, revived, newly) /\ job'[i].set = s
      /\ job'[i].revived = revived /\ job'[i].newly = newly /\ job'[i].calm = job[i].calm
  BY <1>1 DEF Resolve, Becomes, EndTypes, JobRecord
<1>3. doc' = doc /\ UNCHANGED libraryVars
  BY DEF Resolve, fileVars
<1>4. SetStays(s)
  BY <1>3 DEF SetStays, libraryVars
<1> SUFFICES ASSUME job[i].calm PROVE JobSettles(i)'
  BY <1>2 DEF JobSettles
<1>5. revived = Revived(s, doc[s]) /\ newly = NewlyDone(s, doc[s])
  BY <1>1 DEF JobSettles
<1> HIDE DEF revived, newly
<1>6. revived = Revived(s, doc[s])' /\ newly = NewlyDone(s, doc[s])'
  BY <1>1, <1>4, <1>5, SameDecision
<1>7. doc'[s] = doc[s]
  BY <1>3
<1>8. CASE PolicyOf[s] = "reel"
  <2>1. job'[i].stage = "settling"
    BY <1>2, <1>8 DEF FirstWrite
  <2> QED BY <1>2, <1>8, <2>1 DEF JobSettles
<1>9. CASE PolicyOf[s] # "reel" /\ revived # {}
  <2>1. job'[i].stage = "clearing"
    BY <1>2, <1>9 DEF FirstWrite
  <2> QED BY <1>2, <1>6, <2>1 DEF JobSettles
<1>10. CASE PolicyOf[s] # "reel" /\ revived = {}
  <2>1. \A e \in ToSet(doc[s]) : ~IsRevived(s, e)
    BY <1>1, <1>5, <1>10, DecisionSettles
  <2>2. \A e \in ToSet(doc'[s]) : ~IsRevived(s, e)'
    BY <1>1, <1>4, <1>7, <2>1, SameDecision
  <2>3. CASE newly # {} /\ PolicyOf[s] # "keep"
    <3>1. job'[i].stage = "marking"
      BY <1>2, <1>10, <2>3 DEF FirstWrite
    <3> QED BY <1>2, <1>6, <2>2, <3>1 DEF JobSettles
  <2>4. CASE newly = {} \/ PolicyOf[s] = "keep"
    <3>1. job'[i].stage = "sweeping"
      BY <1>2, <1>10, <2>4 DEF FirstWrite
    <3>2. \A e \in ToSet(doc[s]) : FlagIsRight(s, e)
      BY <1>1, <1>5, <2>1, <2>4, DecisionSettles
    <3>3. \A e \in ToSet(doc'[s]) : FlagIsRight(s, e)'
      BY <1>1, <1>4, <1>7, <3>2, SameDecision
    <3> QED BY <1>2, <3>1, <3>3 DEF JobSettles
  <2> QED BY <2>3, <2>4
<1> QED BY <1>8, <1>9, <1>10

\* The writes leave the library alone.
LEMMA SameLibrary ==
    ASSUME UNCHANGED libraryVars, NEW s, NEW e
    PROVE  /\ IsOpen(s, e.key)' <=> IsOpen(s, e.key)
           /\ IsRevived(s, e)' <=> IsRevived(s, e)
           /\ FlagIsRight(s, e)' <=> FlagIsRight(s, e)
BY DEF libraryVars, IsOpen, IsRevived, InProgress, NextOf, FlagIsRight

LEMMA ClearRevivedSettles ==
    ASSUME EndTypes, NEW i \in Jobs, NEW s \in Sets, job[i].set = s, JobSettles(i), ClearRevived(i)
    PROVE  JobSettles(i)'
<1>1. /\ job[i] \in JobRecord /\ job[i].stage = "clearing" /\ doc \in Docs /\ doc' \in Docs
      /\ doc' = ClearDone(doc, s, job[i].revived) /\ UNCHANGED libraryVars
  <2>1. doc \in Docs
    BY DEF EndTypes
  <2> QED BY <2>1, ClearDoneEdits DEF ClearRevived, EndTypes
<1>2. PICK stage \in {"marking", "sweeping"} :
          /\ job' = Disturbing(i, s, stage)
          /\ stage = "marking" <=> job[i].newly # {} /\ PolicyOf[s] # "keep"
  BY DEF ClearRevived
<1>3. /\ job'[i].stage = stage /\ job'[i].set = s /\ job'[i].calm = job[i].calm
      /\ stage = "marking" => job'[i].newly = job[i].newly
  BY <1>1, <1>2, WriterGoesOn DEF JobStages
<1> SUFFICES ASSUME job[i].calm PROVE JobSettles(i)'
  BY <1>3 DEF JobSettles
<1>4. job[i].revived = Revived(s, doc[s]) /\ job[i].newly = NewlyDone(s, doc[s])
  BY <1>1 DEF JobSettles
<1>5. \A k \in job[i].revived : IsOpen(s, k)
  BY <1>4 DEF Revived, IsRevived
<1>6. /\ \A e \in ToSet(doc[s]) : e.key \notin job[i].revived => e \in ToSet(doc'[s])
      /\ \A e \in ToSet(doc'[s]) : \/ e \in ToSet(doc[s]) /\ e.key \notin job[i].revived
                                   \/ e.key \in job[i].revived /\ ~e.done
  BY <1>1, ClearedEntries
<1>7. \A e \in ToSet(doc'[s]) : ~IsRevived(s, e)
  <2> SUFFICES ASSUME NEW e \in ToSet(doc'[s]), IsRevived(s, e) PROVE FALSE
    OBVIOUS
  <2>1. e.done
    BY DEF IsRevived
  <2>2. e \in ToSet(doc[s]) /\ e.key \notin job[i].revived
    BY <1>6, <2>1
  <2> QED BY <1>4, <2>2 DEF Revived
<1>8. NewlyDone(s, doc'[s]) = NewlyDone(s, doc[s])
  <2>1. ASSUME NEW e, ~IsOpen(s, e.key), ~e.done
        PROVE  e \in ToSet(doc[s]) <=> e \in ToSet(doc'[s])
    BY <1>5, <1>6, <2>1
  <2> QED BY <2>1 DEF NewlyDone
<1>9. \A e \in ToSet(doc'[s]) : ~IsRevived(s, e)'
  BY <1>1, <1>7, SameLibrary
<1>10. NewlyDone(s, doc[s])' = job[i].newly
  BY <1>1, <1>4, <1>8 DEF NewlyDone, IsOpen, libraryVars
<1>11. CASE stage = "marking"
  BY <1>3, <1>9, <1>10, <1>11 DEF JobSettles
<1>12. CASE stage = "sweeping"
  <2>1. \A e \in ToSet(doc'[s]) : FlagIsRight(s, e)'
    <3> SUFFICES ASSUME NEW e \in ToSet(doc'[s]) PROVE FlagIsRight(s, e)'
      OBVIOUS
    <3>1. CASE e.done
      BY <1>9, <3>1 DEF IsRevived, FlagIsRight
    <3>2. CASE ~e.done
      <4>1. PolicyOf[s] = "plain" => NewlyDone(s, doc[s])' = {}
        BY <1>2, <1>10, <1>12
      <4>2. NewlyDone(s, doc[s])' = {} => IsOpen(s, e.key)'
        BY <3>2 DEF NewlyDone
      <4> QED BY <3>2, <4>1, <4>2 DEF FlagIsRight
    <3> QED BY <3>1, <3>2
  <2> QED BY <1>3, <1>12, <2>1 DEF JobSettles
<1> QED BY <1>11, <1>12

LEMMA MarkNewlySettles ==
    ASSUME EndTypes, NEW i \in Jobs, NEW s \in Sets, job[i].set = s, JobSettles(i), MarkNewly(i)
    PROVE  JobSettles(i)'
<1>1. /\ job[i] \in JobRecord /\ job[i].stage = "marking" /\ doc \in Docs
      /\ doc' = MarkDone(doc, s, job[i].newly, clock) /\ UNCHANGED libraryVars
      /\ job' = Disturbing(i, s, "sweeping")
  BY DEF MarkNewly, EndTypes
<1>2. job'[i].stage = "sweeping" /\ job'[i].set = s /\ job'[i].calm = job[i].calm
  BY <1>1, WriterGoesOn DEF JobStages
<1> SUFFICES ASSUME job[i].calm PROVE JobSettles(i)'
  BY <1>2 DEF JobSettles
<1>3. job[i].newly = NewlyDone(s, doc[s]) /\ \A e \in ToSet(doc[s]) : ~IsRevived(s, e)
  BY <1>1 DEF JobSettles
<1>4. \A e \in ToSet(doc'[s]) : \/ e \in ToSet(doc[s]) /\ (e.key \in job[i].newly => e.done)
                                \/ e.key \in job[i].newly /\ e.done /\ e.at = clock
  BY <1>1, MarkedEntries
<1>5. \A k \in job[i].newly : ~IsOpen(s, k)
  BY <1>3 DEF NewlyDone
<1>6. ASSUME NEW e \in ToSet(doc'[s]) PROVE FlagIsRight(s, e)
  <2>1. CASE e.key \in job[i].newly
    BY <1>4, <1>5, <2>1 DEF FlagIsRight
  <2>2. CASE e.key \notin job[i].newly
    <3>1. e \in ToSet(doc[s])
      BY <1>4, <2>2
    <3>2. ~e.done => IsOpen(s, e.key)
      BY <1>3, <2>2, <3>1 DEF NewlyDone
    <3>3. ~IsRevived(s, e)
      BY <1>3, <3>1
    <3> QED BY <3>2, <3>3 DEF FlagIsRight, IsRevived
  <2> QED BY <2>1, <2>2
<1>7. \A e \in ToSet(doc'[s]) : FlagIsRight(s, e)'
  BY <1>1, <1>6, SameLibrary
<1> QED BY <1>2, <1>7 DEF JobSettles

LEMMA SweepAgedSettles ==
    ASSUME EndTypes, NEW i \in Jobs, NEW s \in Sets, job[i].set = s, JobSettles(i), SweepAged(i)
    PROVE  JobSettles(i)'
<1>1. /\ job[i] \in JobRecord /\ job[i].stage = "sweeping" /\ doc \in Docs
      /\ doc' = doc \/ doc' = Sweep(doc, s, clock - Ttl[s])
      /\ UNCHANGED libraryVars /\ job' = Disturbing(i, s, "settling")
  BY DEF SweepAged, EndTypes
<1>2. job'[i].stage = "settling" /\ job'[i].set = s /\ job'[i].calm = job[i].calm
  BY <1>1, WriterGoesOn DEF JobStages
<1> SUFFICES ASSUME job[i].calm PROVE JobSettles(i)'
  BY <1>2 DEF JobSettles
<1>3. \A e \in ToSet(doc[s]) : FlagIsRight(s, e)
  BY <1>1 DEF JobSettles
<1>4. ToSet(doc'[s]) \subseteq ToSet(doc[s])
  BY <1>1, SweptEntries
<1>5. \A e \in ToSet(doc'[s]) : FlagIsRight(s, e)'
  BY <1>1, <1>3, <1>4, SameLibrary
<1> QED BY <1>2, <1>5 DEF JobSettles

LEMMA SettleStep ==
    ASSUME EndTypes, SettleInv, [EndNext]_endVars
    PROVE  SettleInv'
<1> SUFFICES ASSUME NEW i \in Jobs PROVE JobSettles(i)'
  BY DEF SettleInv
<1>1. JobSettles(i) /\ job[i] \in JobRecord
  BY DEF SettleInv, EndTypes
<1>2. CASE job'[i].stage \in {"idle", "reading"}
  BY <1>2 DEF JobSettles
<1>3. CASE job[i].stage = "idle" /\ job'[i] \in {job[i], [job[i] EXCEPT !.calm = FALSE]}
  BY <1>1, <1>2, <1>3 DEF JobRecord
<1>4. ASSUME job[i].stage # "idle" PROVE JobSettles(i)'
  <2>1. PICK s \in Sets : job[i].set = s
    BY <1>4 DEF EndTypes
  <2>2. CASE job'[i] = job[i]
    <3> SUFFICES ASSUME job'[i].calm PROVE JobSettles(i)'
      BY DEF JobSettles
    <3>1. SetStays(s) /\ doc \in Docs
      BY <1>4, <2>1, <2>2, Undisturbed DEF EndTypes
    <3>2. doc'[s] = doc[s]
      BY <3>1 DEF SetStays
    <3>3. /\ Revived(s, doc[s])' = Revived(s, doc[s])
          /\ NewlyDone(s, doc[s])' = NewlyDone(s, doc[s])
          /\ \A e \in ToSet(doc[s]) : /\ IsRevived(s, e)' <=> IsRevived(s, e)
                                      /\ FlagIsRight(s, e)' <=> FlagIsRight(s, e)
      BY <3>1, SameDecision
    <3>4. job[i].calm
      BY <2>2
    <3>5. job[i].stage = "resolving" => job'[i].list = doc'[s]
      BY <1>1, <2>1, <2>2, <3>2, <3>4 DEF JobSettles
    <3>6. job[i].stage = "clearing" => job'[i].revived = Revived(s, doc[s])'
      BY <1>1, <2>1, <2>2, <3>3, <3>4 DEF JobSettles
    <3>7. job[i].stage \in {"clearing", "marking"} => job'[i].newly = NewlyDone(s, doc[s])'
      BY <1>1, <2>1, <2>2, <3>3, <3>4 DEF JobSettles
    <3>8. job[i].stage = "marking" => \A e \in ToSet(doc'[s]) : ~IsRevived(s, e)'
      BY <1>1, <2>1, <3>2, <3>3, <3>4 DEF JobSettles
    <3>9. job[i].stage = "sweeping" \/ (job[i].stage = "settling" /\ PolicyOf[s] # "reel") =>
             \A e \in ToSet(doc'[s]) : FlagIsRight(s, e)'
      BY <1>1, <2>1, <3>2, <3>3, <3>4 DEF JobSettles
    <3>10. job'[i].set = s /\ job'[i].stage = job[i].stage
      BY <2>1, <2>2
    <3> QED BY <3>5, <3>6, <3>7, <3>8, <3>9, <3>10 DEF JobSettles
  <2>3. CASE job'[i] = [job[i] EXCEPT !.calm = FALSE]
    <3>1. ~job'[i].calm
      BY <1>1, <2>3 DEF JobRecord
    <3> QED BY <3>1 DEF JobSettles
  <2>4. CASE ReadList(i)
    <3>1. /\ job'[i].stage = "resolving" /\ job'[i].set = s /\ job'[i].list = doc[s] /\ doc' = doc
      BY <1>1, <2>1, <2>4 DEF ReadList, Becomes, EndTypes, JobRecord, fileVars
    <3> QED BY <3>1 DEF JobSettles
  <2>5. CASE Resolve(i)
    BY <1>1, <2>1, <2>5, ResolveSettles
  <2>6. CASE ClearRevived(i)
    BY <1>1, <2>1, <2>6, ClearRevivedSettles
  <2>7. CASE MarkNewly(i)
    BY <1>1, <2>1, <2>7, MarkNewlySettles
  <2>8. CASE SweepAged(i)
    BY <1>1, <2>1, <2>8, SweepAgedSettles
  <2> QED BY <1>2, <2>2, <2>3, <2>4, <2>5, <2>6, <2>7, <2>8, JobStep DEF JobMoves
<1>5. job[i].stage = "idle" => ~(ReadList(i) \/ Resolve(i) \/ ClearRevived(i) \/ MarkNewly(i) \/ SweepAged(i))
  BY DEF ReadList, Resolve, ClearRevived, MarkNewly, SweepAged
<1> QED BY <1>2, <1>3, <1>4, <1>5, JobStep DEF JobMoves

-----------------------------------------------------------------------------
LEMMA EndInvAtFirst == EndInit => EndInv
<1> SUFFICES ASSUME EndInit PROVE EndInv
  OBVIOUS
<1>1. EndTypes
  BY TypesAtFirst
<1>2. \A j \in Jobs : job[j].stage = "idle"
  BY NoJobIsAJob DEF EndInit
<1>3. MemoInv
  <2>1. ~memo.isKnown
    BY DEF EndInit, NoMemo
  <2>2. \A s \in Sets, k \in Keys : reconciled[s][k] <= watched[s][k]
    BY DEF EndInit, Unplayed
  <2> QED BY <1>2, <2>1, <2>2 DEF MemoInv, MemoKnowsTheReconciled
<1>4. SweepInv /\ SettleInv
  BY <1>2 DEF SweepInv, SettleInv, JobSettles
<1> QED BY <1>1, <1>3, <1>4 DEF EndInv

LEMMA EndInvStep == EndInv /\ [EndNext]_endVars => EndInv'
BY TypesStep, MemoStep, SweepStep, SettleStep DEF EndInv

LEMMA EndInvAlways == EndSpec => []EndInv
BY EndInvAtFirst, EndInvStep, PTL DEF EndSpec

\* Whatever the policies, the lifetimes and the number of write sides at once, with scans,
\* reconciles, the owner's own edits, new episodes, failures and restarts in between
\* (applyQueueWriteSide, sweepCompleted, watchedFor): a write side that nothing disturbed
\* leaves the flags in agreement with Plex, a sweep takes nothing its own run has revived,
\* and the memo is never from before a reconcile.
THEOREM ReconcilesStayRight == EndSpec => ReconcilesAreRight
<1>1. EndInv => WriteSideSettles /\ MemoKnowsTheReconciled
  <2> SUFFICES ASSUME EndInv PROVE WriteSideSettles
    BY DEF EndInv, MemoInv
  <2>1. \A j \in Jobs : JobSettles(j)
    BY DEF EndInv, SettleInv
  <2> QED BY <2>1 DEF WriteSideSettles, JobSettles
<1>2. EndInv /\ [EndNext]_endVars => [WriteSideSettles' /\ MemoKnowsTheReconciled']_endVars
  <2>1. (EndInv => WriteSideSettles /\ MemoKnowsTheReconciled)'
    BY <1>1, PTL
  <2> QED BY <2>1, EndInvStep
<1>3. EndInv /\ [EndNext]_endVars =>
          [\A j \in Jobs : job[j].stage = "sweeping" /\ job'[j].stage = "settling" =>
              \A e \in ToSet(doc[job[j].set]) \ ToSet(doc'[job[j].set]) :
                  e.key \notin job[j].revived]_endVars
  BY SweepsFinished DEF EndInv
<1> QED BY <1>2, <1>3, EndInvAlways, PTL DEF EndSpec, ReconcilesAreRight, SweptWereFinished
==============================================================================
