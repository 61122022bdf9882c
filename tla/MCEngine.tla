------------------------------ MODULE MCEngine ------------------------------
(* Instances for TLC of what decides what a set plays: a rotation channel,  *)
(* a curated queue, the registry of sets and the undo history.  They share  *)
(* no state; `focus` says which of them moves in a behaviour.               *)
EXTENDS RotationChannel, TileFace, SetRegistry, UndoHistory, TLC

VARIABLE focus

CONSTANTS alpha, beta, gamma, delta, tick, tock, pair, young, old

vars == <<focus, rotationVars, curatedVars, registryVars, undoVars>>

\* A small library: two series of two seasons or two episodes, one that has only a
\* special, a long one, two shorts and a collection.
Episode(show, season, n) == [of |-> show, season |-> season, episode |-> n, kind |-> "regular"]
Season(show, season, n) == [k \in 1..n |-> Episode(show, season, k)]

Listings == alpha :> Season(alpha, 1, 2) \o Season(alpha, 2, 1)
            @@ beta :> Season(beta, 1, 2) @@ gamma :> <<Episode(gamma, 0, 1), [Episode(gamma, 0, 301) EXCEPT !.kind = "extra"]>>
            @@ delta :> Season(delta, 1, 4)
Pair     == pair :> <<beta, tick>>
Reels    == [f \in {tick, tock} |-> Episode(f, 0, 0)]
TwoReels == <<tick, tock>>

Nothing == [x \in {} |-> 0]
Member(what, weight) ==
    [what |-> what, episodes |-> 0, stop |-> "absent", start |-> NoStart, weight |-> weight]

PlainChannel ==
    [shows |-> {alpha, beta}, hasItems |-> TRUE, blocked |-> {}, starts |-> Nothing,
     weights |-> Nothing, restarts |-> FALSE, completes |-> Nothing, members |-> << >>,
     split |-> FALSE, stop |-> "absent", specials |-> FALSE]

\* Unweighted; weighted, restarting; a collection whole and split; a member with a batch
\* beside a show that starts late and restarts by its own word.
SomeChannels == {
    PlainChannel,
    [PlainChannel EXCEPT !.shows = {delta}, !.weights = delta :> 3 @@ SectionKey :> 2,
                         !.restarts = TRUE, !.completes = delta :> "drop"],
    [PlainChannel EXCEPT !.members = <<Member(pair, 2)>>],
    [PlainChannel EXCEPT !.hasItems = FALSE, !.members = <<Member(pair, 2)>>, !.split = TRUE],
    [PlainChannel EXCEPT !.members = <<[Member(alpha, 2) EXCEPT !.episodes = 1]>>,
                         !.blocked = {tick}, !.completes = beta :> "restart",
                         !.starts = beta :> [series |-> beta, season |-> 1, episode |-> 2]]}

Entry(what) == [what |-> what, episodes |-> 0, stop |-> "absent", start |-> NoStart]

PlainQueue ==
    [source |-> "queue", curated |-> FALSE, length |-> Unset, refill |-> FALSE, reel |-> FALSE,
     keeps |-> FALSE, specials |-> FALSE, stop |-> "absent", episodes |-> 0, entries |-> << >>]

\* An ordered queue with batches that stop at a season; a curated pool; a collection that
\* starts late, in batches; a reel; a queue that keeps what is finished.
SomeQueues == {
    [PlainQueue EXCEPT !.entries = <<[Entry(alpha) EXCEPT !.episodes = 2, !.stop = "season"], Entry(tick)>>],
    [PlainQueue EXCEPT !.curated = TRUE, !.length = 2,
                       !.entries = <<[Entry(beta) EXCEPT !.episodes = 2], Entry(tick), Entry(tock)>>],
    [PlainQueue EXCEPT !.stop = "member", !.length = 2, !.episodes = 2,
                       !.entries = <<[Entry(pair) EXCEPT !.start = [series |-> beta, season |-> 1, episode |-> 2]],
                                     Entry(gamma)>>],
    [PlainQueue EXCEPT !.reel = TRUE, !.entries = <<Entry(pair)>>],
    [PlainQueue EXCEPT !.keeps = TRUE, !.entries = <<Entry(beta)>>]}

Tier(name, title, cap) ==
    [id |-> <<name, 1>>, source |-> "rotation", anime |-> FALSE, behavior |-> "absent",
     mode |-> "absent", length |-> Unset, refill |-> FALSE, profiles |-> << >>,
     top |-> [user |-> title, cap |-> cap], superseded |-> FALSE, enabled |-> TRUE]

LegacyTiers == {<<Tier("younger", young, "G"), Tier("older", old, "PG")>>}
TierOrder == <<<<"younger", 1>>, <<"older", 1>>>>
TierOf == young :> <<"younger", 1>> @@ old :> <<"older", 1>>

\* A component at rest.
RotationRests ==
    /\ channel = PlainChannel /\ seen = {} /\ order = << >> /\ credit = << >> /\ cursor = << >>
    /\ dealt = << >> /\ phase = "idle"
CuratedRests ==
    /\ recipe = PlainQueue /\ flags = << >> /\ missing = {} /\ aired = [show \in Shows |-> 1]
    /\ watched = {} /\ mine = {} /\ started = {} /\ play = << >> /\ asked = {}
RegistryRests == sets = << >> /\ form = Closed /\ last = "started" /\ changes = 0
UndoRests ==
    /\ files = [q |-> Absent, s |-> Absent] /\ undoStack = << >> /\ redoStack = << >>
    /\ mirror = [undo |-> << >>, redo |-> << >>] /\ request = Idle
    /\ edits = 0 /\ steps = 0 /\ marks = 0 /\ boots = 0

EngineInit ==
    \/ focus = "rotation" /\ RotationInit /\ CuratedRests /\ RegistryRests /\ UndoRests
    \/ focus = "curated"  /\ RotationRests /\ CuratedInit /\ RegistryRests /\ UndoRests
    \/ focus = "registry" /\ RotationRests /\ CuratedRests /\ RegistryInit /\ UndoRests
    \/ focus = "undo"     /\ RotationRests /\ CuratedRests /\ RegistryRests /\ UndoInit

EngineNext ==
    /\ UNCHANGED focus
    /\ \/ focus = "rotation" /\ RotationNext /\ UNCHANGED <<curatedVars, registryVars, undoVars>>
       \/ focus = "curated"  /\ CuratedNext /\ UNCHANGED <<rotationVars, registryVars, undoVars>>
       \/ focus = "registry" /\ RegistryNext /\ UNCHANGED <<rotationVars, curatedVars, undoVars>>
       \/ focus = "undo"     /\ UndoNext /\ UNCHANGED <<rotationVars, curatedVars, registryVars>>

EngineSpec == EngineInit /\ [][EngineNext]_vars /\ CuratedFairness
=============================================================================
