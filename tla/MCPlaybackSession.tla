------------------------- MODULE MCPlaybackSession -------------------------
(***************************************************************************)
(* Instances of PlaybackSession for TLC.  The server reads PLAYBACK_FSM    *)
(* once, when it starts: a run has the mode Fsm says, or both, when the    *)
(* module itself is the legacy path and Driver the state machine.          *)
(***************************************************************************)
EXTENDS PlaybackSession, TLC

CONSTANTS shorts, films, alice, bob, s1, s2, a1, t1, t2

\* A rotation channel: the account of each profile it binds, and of its first.
Rotation(length, requires, binds, first) ==
    [source |-> "rotation", curated |-> FALSE, length |-> length, refill |-> FALSE,
     enabled |-> TRUE, requires |-> requires, binds |-> binds, first |-> first, cap |-> 0]

\* An ordered queue, which plays its head entry.
Ordered(requires) ==
    [source |-> "queue", curated |-> FALSE, length |-> Unset, refill |-> FALSE, enabled |-> TRUE,
     requires |-> requires, binds |-> << >>, first |-> NoProfile, cap |-> 1]

\* A channel of the owner's alone, and one that binds both profiles.
Solo   == alice :> alice
Shared == alice :> alice @@ bob :> bob

OpenSets  == shorts :> Rotation(Infinite, NoProfile, Shared, alice)
             @@ films :> Rotation(3, NoProfile, Solo, alice)
GatedSets == shorts :> Rotation(Infinite, alice, Solo, alice) @@ films :> Ordered(NoProfile)
LooseSets == shorts :> Rotation(Infinite, alice, Solo, alice)
             @@ films :> Rotation(1, NoProfile, << >>, NoProfile)
KidsQueue == films :> Ordered(bob)
FiniteSet == shorts :> Rotation(3, alice, Solo, alice)

\* How many items the library has for a set; Mixed has films for two whole windows.
One   == [set \in Sets |-> 1]
Two   == [set \in Sets |-> 2]
Mixed == shorts :> 2 @@ films :> 4

ToShorts == [p \in Profiles |-> shorts]
NoChannels == [p \in Profiles |-> NoSet]
Named(names) == [set : names, profile : {NoProfile}]
ByName    == Named(Sets)
ByCard    == Named(Sets) \cup [set : {AutoSet}, profile : {NoProfile}]
             \cup [set : {films}, profile : {alice}]
ByEither  == [set : {shorts}, profile : {bob}] \cup [set : {films}, profile : {NoProfile}]
HandlerSymmetry == Permutations(Starts) \cup Permutations(Ticks)

-----------------------------------------------------------------------------
VARIABLE driven                    \* env PLAYBACK_FSM of this process

allVars == <<vars, driven>>

\* The state machine, without advances, which know no driver, and with a channel whose
\* account is not known, for which it audits nothing.
Driver == INSTANCE PlaybackSession
          WITH Fsm <- TRUE, Payloads <- ByName, SetCfg <- LooseSets, Advances <- {}

OneModeInit   == Init /\ driven = Fsm
OneMode       == OneModeInit /\ [][Next /\ UNCHANGED driven]_allVars
OneModeFairly == OneMode /\ Fairness

BothNext ==
    \/ ~driven /\ Next /\ UNCHANGED driven
    \/ driven /\ Driver!Next /\ UNCHANGED driven

BothInit  == Init /\ driven \in BOOLEAN
BothModes == BothInit /\ [][BothNext]_allVars
=============================================================================
