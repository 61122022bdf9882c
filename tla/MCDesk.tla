------------------------------- MODULE MCDesk -------------------------------
(* Instances for TLC of what a person does at the web app, the tools and   *)
(* the providers beside it, and what the server makes of it.  The parts    *)
(* share no state; `focus` says which of them moves in a behaviour, and    *)
(* the others stay as they start.                                          *)
EXTENDS PendingDesk, LeafCache, GroupsEditor, StartPicker, EntryCounts, MCGrid, ReadingList,
        GameShelf, MCMigration, TLC

VARIABLE focus

CONSTANTS bob, kid

vars == <<focus, pendingVars, leafVars, groupsVars, startVars, countVars, gridVars, readingVars,
          gameVars, migrationVars>>

(* What has arrived, and the sets it may already be in. *)
ByKey(k) == [kind |-> "key", key |-> k, name |-> "", title |-> "", year |-> 0, guid |-> 0]
ByTitle(t, year, guid) == [ByKey(0) EXCEPT !.kind = "title", !.title = t, !.year = year, !.guid = guid]
ByCollection(c) == [ByKey(0) EXCEPT !.kind = "collection", !.name = c]

Arrival(sec, added, title, year, guid) ==
    [sec |-> sec, added |-> added, title |-> title, year |-> year, guid |-> guid, rating |-> "G",
     views |-> 0, offset |-> 0, leaves |-> 1, seenLeaves |-> 0]
Libraries == [l \in {"films", "shows", "clips"} |->
    [kind |-> IF l = "shows" THEN "show" ELSE "movie", other |-> l = "clips"]]
Arrivals == 1 :> Arrival("films", 1, "saga", 1, 1) @@ 2 :> Arrival("films", 2, "saga two", 2, 0)
            @@ 3 :> Arrival("shows", 1, "saga", 1, 0)
QueueOf(secs, entries) ==
    [source |-> "queue", sections |-> secs, entries |-> entries, superseded |-> FALSE, enabled |-> TRUE,
     rewatch |-> FALSE, blocked |-> [keys |-> {}, names |-> {}], caps |-> {AnyRating}]
PoolOf(secs) == [QueueOf(secs, {}) EXCEPT !.source = "rotation"]
WorldOf(rules) ==
    [items |-> Arrivals, colls |-> 4 :> [sec |-> "films", name |-> "sagas", children |-> {1, 2}],
     sets |-> rules, libs |-> Libraries, found |-> 1..3]
SomeWorlds ==
    {WorldOf("q" :> QueueOf(<<"films", "shows">>, {e})) :
        e \in {ByTitle("saga", y, g) : y \in 0..2, g \in 0..1} \cup {ByTitle("saga two", 2, 0), ByTitle("old name", 0, 1)}}
    \cup {[WorldOf("q" :> QueueOf(<<"shows", "films">>, es) @@ "p" :> PoolOf(<<"films">>)) EXCEPT
             !.items[2].rating = "R", !.items[1].offset = v, !.items[3].seenLeaves = v,
             !.sets["p"].caps = {rule.cap}, !.sets["p"].blocked = rule.blocked]
            : es \in {{ByKey(3)}, {ByCollection("sagas")}, {}}, v \in 0..1,
              rule \in {[cap |-> {"G"}, blocked |-> [keys |-> {1}, names |-> {}]],
                        [cap |-> AnyRating, blocked |-> [keys |-> {}, names |-> {"sagas"}]]}}
SagaTitles == {<<"saga", "saga two">>}

(* A child's profile beside the owner's. *)
OneKid == "Older Kids" :> kid

(* Two sets, and a group that names one of them. *)
TwoSets  == <<"films", "cartoons">>
Players  == "films" :> {bob} @@ "cartoons" :> {kid, bob}
OneGroup == <<[id |-> <<"bob", 1>>, sets |-> {"films"}, accounts |-> {bob}]>>

(* A collection of two shows with a film between them, and a show of specials. *)
SomeEpisodes == "a" :> <<<<"a", 1, 1>>, <<"a", 1, 2>>, <<"a", 2, 1>>>> @@ "b" :> <<<<"b", 1, 1>>, <<"b", 1, 2>>>>
                @@ "ova" :> <<<<"ova", 0, 1>>, <<"ova", 0, 2>>>>
OneCollection == "saga" :> <<"a", "film", "b">>
TwoEntries    == "q1" :> "saga" @@ "q2" :> "ova"
SomeHistories ==
    {{<<"a", 1, 1>>}, {<<"a", 1, 1>>, <<"a", 1, 2>>, <<"a", 2, 1>>},
     {<<"a", 1, 2>>, <<"a", 2, 1>>, <<"film", 0, 0>>, <<"b", 1, 1>>}}
SomeStarts ==
    {"q1" :> s @@ "q2" :> NoStart : s \in {NoStart, [series |-> "b", season |-> 1, episode |-> 2],
                                            [series |-> "a", season |-> 2, episode |-> 1],
                                            [series |-> "a", season |-> 2, episode |-> 9], [NoStart EXCEPT !.series = "film"]}}

(* A manga in volumes with a loose chapter, and a webtoon without, to be read from its fifth
   chapter: as long as that is the only one out, it is taken for volume 1. *)
TwoSeries == <<"manga", "webtoon">>
Chapter(id, v, n) == [id |-> id, volume |-> v, number |-> n]
Vols      == "manga" :> {Chapter("m1", 1, 1), Chapter("m2", 2, 1)}
             @@ "webtoon" :> {Chapter("w1", 1, 5), Chapter("w2", 1, 6)}
Loosely   == "manga" :> {Chapter("m1", 0, 1), Chapter("m9", 0, 9)}
             @@ "webtoon" :> {Chapter("w1", 0, 5), Chapter("w2", 0, 6)}
InOrder   == "manga" :> <<"m1", "m2", "m9">> @@ "webtoon" :> <<"w1", "w2">>
PerVisit  == "manga" :> 2 @@ "webtoon" :> 2
OneVolume == "manga" :> 2 @@ "webtoon" :> 1
FromFive  == "manga" :> 1 @@ "webtoon" :> 5
SomeNames == <<"id", "manga">>

(* Two games, of which one owes two plays. *)
TwoGames == <<"go", "chess">>
Owed     == "go" :> 2 @@ "chess" :> 1

(* A part at rest is in one of its initial states. *)
DeskInit ==
    /\ focus \in {"pending", "leaves", "groups", "start", "counts", "grid", "reading", "games", "migration"}
    /\ PendingInit /\ LeafInit /\ GroupsInit
    /\ focus # "pending" => world = CHOOSE w \in Worlds : TRUE
    /\ StartInit
    /\ focus # "start" => watchedHere = (CHOOSE h \in Histories : TRUE) /\ starts = CHOOSE s \in Stored : TRUE
    /\ CountInit
    /\ focus # "counts" => override = NoOverride /\ setDefault = CHOOSE n \in Counts : TRUE
    /\ GridInit
    /\ focus # "grid" => page = "home" /\ filter = CHOOSE f \in Filters : \A g \in Filters : g \subseteq f
    /\ ReadingInit
    /\ focus # "reading" => \A s \in SeriesSet : out[s] = 1
    /\ GameInit
    /\ focus # "games" => kind = "picker" /\ \A g \in GameSet : log[g] = {}
    /\ MigrationInit
    /\ focus # "migration" => lines = CHOOSE f \in StartFiles : TRUE

DeskNext ==
    /\ UNCHANGED focus
    /\ \/ focus = "pending"   /\ PendingNext   /\ UNCHANGED <<leafVars, groupsVars, startVars, countVars, gridVars,
                                                              readingVars, gameVars, migrationVars>>
       \/ focus = "leaves"    /\ LeafNext      /\ UNCHANGED <<pendingVars, groupsVars, startVars, countVars, gridVars,
                                                              readingVars, gameVars, migrationVars>>
       \/ focus = "groups"    /\ GroupsNext    /\ UNCHANGED <<pendingVars, leafVars, startVars, countVars, gridVars,
                                                              readingVars, gameVars, migrationVars>>
       \/ focus = "start"     /\ StartNext     /\ UNCHANGED <<pendingVars, leafVars, groupsVars, countVars, gridVars,
                                                              readingVars, gameVars, migrationVars>>
       \/ focus = "counts"    /\ CountNext     /\ UNCHANGED <<pendingVars, leafVars, groupsVars, startVars, gridVars,
                                                              readingVars, gameVars, migrationVars>>
       \/ focus = "grid"      /\ GridNext      /\ UNCHANGED <<pendingVars, leafVars, groupsVars, startVars, countVars,
                                                              readingVars, gameVars, migrationVars>>
       \/ focus = "reading"   /\ ReadingNext   /\ UNCHANGED <<pendingVars, leafVars, groupsVars, startVars, countVars,
                                                              gridVars, gameVars, migrationVars>>
       \/ focus = "games"     /\ GameNext      /\ UNCHANGED <<pendingVars, leafVars, groupsVars, startVars, countVars,
                                                              gridVars, readingVars, migrationVars>>
       \/ focus = "migration" /\ MigrationNext /\ UNCHANGED <<pendingVars, leafVars, groupsVars, startVars, countVars,
                                                              gridVars, readingVars, gameVars>>

DeskSpec == DeskInit /\ [][DeskNext]_vars
=============================================================================
