------------------------------- MODULE TileFace -------------------------------
(***************************************************************************)
(* What the grid says of a curated entry between two scans: the tile the   *)
(* server resolves (plex.ts nextEpisode and collectionNext, tiles.ts,      *)
(* queuesRoutes.ts) and the face the browser draws of it (tileFace.ts).    *)
(* Another implementation than the engine's, over the same library, the    *)
(* view counts of one account and the stored flag.                         *)
(*                                                                         *)
(* A next-up is a sequence of one item and its member, or of none.         *)
(***************************************************************************)
EXTENDS CuratedQueue

\* isExtraOrPromo, isCountableEpisode: a file that is no trailer, opening or ending.
IsExtraOrPromo(ep) == ep.kind = "extra"
IsCountable(ep)    == ep.kind # "empty" /\ ~IsExtraOrPromo(ep)

\* isPlayableEpisode: specials count for a show that has nothing else.
IsPlayable(eps, ep) ==
    /\ IsCountable(ep)
    /\ ep.season # 0 \/ \A other \in Range(eps) : IsCountable(other) => other.season = 0

\* The tile's start: without an episode (0) at the first, and season 0 reads as the first.
AtOrAfterFloor(ep, start) ==
    LET First(n) == IF n = 0 THEN 1 ELSE n IN
    \/ start = NoStart \/ ep.season > First(start.season)
    \/ ep.season = First(start.season) /\ ep.episode >= First(start.episode)

\* nextEpisode, of a show whose episodes can be read.
NextEpisode(show, start, unread) ==
    LET eps == Listed[show]
        Waits(ep) == IsPlayable(eps, ep) /\ ep \notin mine /\ AtOrAfterFloor(ep, start)
    IN  IF show \in unread THEN << >>
        ELSE Tagged(AtMost(Only(eps, {ep \in Range(eps) : Waits(ep)}), 1), show)

\* The episode floor is that of the child the start names, not of later ones.
FloorOf(children, n, start) == IF n = StartMember(children, start) THEN start ELSE NoStart

\* collectionNext: the first child, from the start on, that has something left.
CollectionNext(name, start, unread) ==
    LET children == Children[name]
        Next(n) ==
            LET ch == children[n] IN
            IF n < StartMember(children, start) THEN << >>
            ELSE IF ch \in Shows THEN NextEpisode(ch, FloorOf(children, n, start), unread)
            ELSE IF Film[ch] \in mine THEN << >> ELSE Tagged(<<Film[ch]>>, ch)
    IN  IF name \in unread THEN << >> ELSE AtMost(FlattenSeq([n \in DOMAIN children |-> Next(n)]), 1)

\* resolveTile; a lookup that could not read answers null, which is not its failing.
NextUp(n, unread) ==
    LET desc == recipe.entries[n] IN
    IF ~Found(n) \/ desc.what \in Films THEN << >>
    ELSE IF desc.what \in Shows THEN NextEpisode(desc.what, desc.start, unread)
    ELSE CollectionNext(desc.what, desc.start, unread)

IsFilm(n) == recipe.entries[n].what \in Films

\* In progress: a film by its own resume point, the others by that of the next-up.
PartiallyWatched(n, unread) ==
    IF IsFilm(n) THEN Found(n) /\ Film[recipe.entries[n].what] \in started
    ELSE NextUp(n, unread) # << >> /\ NextUp(n, unread)[1].item \in started

\* tagFinishedMovies: a film the household has seen and nobody is in the middle of.
IsFinished(n) ==
    /\ IsFilm(n) /\ Found(n)
    /\ Film[recipe.entries[n].what] \in watched \ started

\* ByFlagAlone is wrong on purpose: the stored flag is what the grid goes by.
ByFlagAlone(n, unread) == FALSE

\* isRevivedEntry: what a scan retired and the next one will bring back.
IsRevivedTile(n, unread) == flags[n] = "stamped" /\ NextUp(n, unread) # << >>

\* isCompleted of tileFace.ts, under the badge of what is in progress.
IsCompleted(n, unread) ==
    /\ ~PartiallyWatched(n, unread) /\ ~IsRevivedTile(n, unread)
    /\ flags[n] # "open" \/ IsFinished(n)

\* tileFace: "All watched" of a show or a collection without a next-up.
SaysAllWatched(n, unread) == Found(n) /\ ~IsFilm(n) /\ NextUp(n, unread) = << >>

SaysFinished(n, unread) == IsCompleted(n, unread) \/ SaysAllWatched(n, unread)

-----------------------------------------------------------------------------
\* What the household has watched the queue's account has.
OneViewer == watched = mine

\* What the next scan decides: this entry plays nothing, and is flagged for it.
NextScanRetires(n) == IF flags[n] = "open" THEN n \in NewlyDone(Entries) ELSE ~IsRevived(n)

\* Where the two read the library differently: a show that has specials and, of seasons, only
\* files that are no episodes; and a start in a show without an episode, or among specials.
OnlyPlaceholders(show) ==
    /\ HasRealSeasons(Listed[show])
    /\ \A ep \in Range(Listed[show]) : IsCountable(ep) => ep.season = 0
IsWhole(start) == start = NoStart \/ (start.season >= 1 /\ start.episode >= 1)
ReadAlike(desc) ==
    LET plays == IF desc.what \in Collections THEN Range(Children[desc.what]) ELSE {desc.what} IN
    /\ \A show \in plays \cap Shows : ~OnlyPlaceholders(show)
    /\ IsWhole(desc.start) \/ plays \subseteq Films
       \/ (desc.what \in Collections /\ desc.start.series \notin Shows)

\* queuesRoutes.ts: the grid says now what the next scan will decide.  With one viewer, no
\* specials asked for and Plex answering, a tile reads finished exactly when the engine has
\* nothing to play of the entry, and names the very item the engine plays first.
TilesForetellScans ==
    ~recipe.reel /\ ~recipe.specials /\ OneViewer =>
        \A n \in Entries : ReadAlike(recipe.entries[n]) =>
            /\ SaysFinished(n, {}) = NextScanRetires(n)
            /\ Found(n) /\ ~IsFilm(n) =>
                [k \in DOMAIN NextUp(n, {}) |-> NextUp(n, {})[k].item]
                    = [k \in DOMAIN AtMost(Batch(n), 1) |-> Batch(n)[k].item]

\* "A null `nextEp` means two different things, nothing left to play and the lookup failed,
\* so the failure is recorded rather than collapsed" (tiles.ts): whatever cannot be read,
\* no tile says all is watched of an entry that has something to play.
OutageIsNotFinished ==
    ~recipe.reel /\ ~recipe.specials /\ OneViewer =>
        \A n \in Entries : Found(n) /\ flags[n] = "open" =>
            \A show \in Shows : SaysAllWatched(n, {show}) => Batch(n) = << >>
=============================================================================
