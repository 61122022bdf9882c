---------------------------- MODULE CuratedQueue ----------------------------
(***************************************************************************)
(* A curated queue over many sittings (engine/resolve.ts nextQueue and     *)
(* buildReel, called through providers/plex.ts): the entries a person put  *)
(* on a list, what each plays next, which are retired because nothing of   *)
(* them is left, and which come back when something new arrives.           *)
(*                                                                         *)
(* A recipe is the set's configuration and its entries.  The flag of an    *)
(* entry is "open", "stamped" (retired by a scan, with its time) or "hand" *)
(* (skipped by the owner, without one).                                    *)
(***************************************************************************)
EXTENDS MemberItems, PlaybackLength

CONSTANTS
    Recipes,    \* the queues there may be
    ReelLimit,  \* how many items a reel plays
    Losable     \* members the library may lose and find again

\* A set is a reel or a pool, by its kind.
ASSUME RecipeAssumption == \A cfg \in Recipes :
    /\ cfg.entries \in Seq({d \in Range(cfg.entries) : IsMember(d)})
    /\ cfg.curated \in BOOLEAN /\ cfg.reel \in BOOLEAN /\ ~(cfg.curated /\ cfg.reel)
    /\ cfg.episodes \in Nat

VARIABLES
    recipe,   \* the queue's configuration and entries
    flags,    \* the flag of each entry
    missing,  \* members the library does not find just now
    aired,    \* how many episodes of each show the library lists
    watched,  \* the household's history
    mine,     \* what of it the queue's own account has finished
    started,  \* what that account has begun and never finished
    play,     \* the queue that is loaded: items, each with its entry
    asked     \* the entries the step before asked for, if it was a scan

curatedVars == <<recipe, flags, missing, aired, watched, mine, started, play, asked>>

Entries == DOMAIN recipe.entries
Listed  == [show \in Shows |-> SubSeq(Episodes[show], 1, aired[show])]
Views   == [watched |-> watched, started |-> started]

Found(n) == recipe.entries[n].what \notin missing

\* What entry n plays next; << >> of an entry that is found means finished.
Batch(n) == ResolveMember(recipe.entries[n], Listed, recipe, Views, SetBatch(recipe), TRUE)

HeadStarted(n) == Batch(n)[1].item \in started

\* RevivedByWatching is wrong on purpose: a new episode brings nothing back.
RevivedByWatching(n) == Found(n) /\ Batch(n) # << >> /\ HeadStarted(n)

\* A flagged entry that has something to play again is revived: always if a scan
\* retired it, and one skipped by hand only when somebody is watching it.
IsRevived(n) ==
    /\ Found(n) /\ Batch(n) # << >>
    /\ flags[n] = "stamped" \/ HeadStarted(n)

NewlyDone(those) == {n \in those : flags[n] = "open" /\ Found(n) /\ Batch(n) = << >>}
Revived(those)   == {n \in those : flags[n] # "open" /\ IsRevived(n)}

\* The entries that have a batch, in file order.
Batches(those) ==
    Only([n \in Entries |-> n],
         {n \in those : Found(n) /\ Batch(n) # << >> /\ (flags[n] = "open" \/ IsRevived(n))})

Items(n) == LET batch == Batch(n) IN [k \in DOMAIN batch |-> [entry |-> n, item |-> batch[k].item]]

Cap == InitialQueueSize(Length(recipe))

\* Only an episode carries its progress here: a film in progress does not lead.
LeadsInProgress(n) == Batch(n)[1].item.of \in Shows /\ HeadStarted(n)

Shuffles(s) == {[k \in DOMAIN s |-> s[p[k]]] :
                    p \in {q \in [DOMAIN s -> DOMAIN s] : IsInjective(q)}}

\* ShuffleAll is wrong on purpose: what is in progress is shuffled with the rest.
ShuffleAll(batches) == Shuffles(batches)

\* A curated pool: what is in progress leads, in file order; the rest is shuffled,
\* weighted or not.
PoolOrders(batches) ==
    LET leading == {n \in Range(batches) : LeadsInProgress(n)}
        rest == Only(batches, Range(batches) \ leading)
    IN  {Only(batches, leading) \o shuffled : shuffled \in Shuffles(rest)}

Flat(batches) == FlattenSeq([k \in DOMAIN batches |-> Items(batches[k])])

\* nextQueue: a pool is cut at so many items, an ordered queue at so many entries.
Lineups(those) ==
    IF recipe.curated THEN {AtMost(Flat(order), Cap) : order \in PoolOrders(Batches(those))}
    ELSE {Flat(AtMost(Batches(those), Cap))}

\* buildReel: whole collections up to the limit, so many first episodes of a show,
\* whatever has been watched; only a flag leaves an entry out.
ReelItems(n) ==
    LET desc == recipe.entries[n]
        unseen == [watched |-> {}, started |-> {}]
        all == Left(desc, Listed, recipe, unseen, FALSE)
        most == IF desc.episodes # 0 THEN desc.episodes ELSE SeriesDefault
        of == IF ~Found(n) \/ flags[n] # "open" THEN << >>
              ELSE IF desc.what \in Shows
              THEN AtMost(Tagged(Listed[desc.what], desc.what), AtLeastOne(Smaller(most, SeriesLength)))
              ELSE all
    IN  [k \in DOMAIN of |-> [entry |-> n, item |-> of[k].item]]

Reel(those) ==
    FoldLeft(LAMBDA reel, n :
                IF n \notin those \/ Len(reel) >= ReelLimit THEN reel
                ELSE reel \o (IF recipe.entries[n].what \in Collections
                              THEN AtMost(ReelItems(n), ReelLimit - Len(reel)) ELSE ReelItems(n)),
             << >>, [n \in Entries |-> n])

CuratedInit ==
    /\ recipe \in Recipes
    /\ flags = [n \in Entries |-> "open"]
    /\ missing = {} /\ watched = {} /\ mine = {} /\ started = {} /\ play = << >> /\ asked = {}
    /\ aired = [show \in Shows |-> Smaller(1, Len(Episodes[show]))]

-----------------------------------------------------------------------------
\* buckets and the write side of a scan; a scan of one entry alone asks for that one.
Scan(those) ==
    /\ asked' = those
    /\ IF recipe.reel THEN play' = Reel(those) /\ UNCHANGED flags
       ELSE /\ flags' = LET revived == Revived(those)
                            done == IF recipe.keeps THEN {} ELSE NewlyDone(those)
                        IN  [n \in Entries |-> IF n \in revived THEN "open"
                                               ELSE IF n \in done THEN "stamped" ELSE flags[n]]
            /\ play' \in Lineups(those)
    /\ UNCHANGED <<recipe, missing, aired, watched, mine, started>>

\* The player plays the head to its end.
WatchHead ==
    /\ asked' = {}
    /\ play # << >>
    /\ watched' = watched \cup {Head(play).item}
    /\ mine' = mine \cup {Head(play).item}
    /\ started' = started \ {Head(play).item}
    /\ play' = Tail(play)
    /\ UNCHANGED <<recipe, flags, missing, aired>>

\* The player is stopped within the head; what was finished once is not in progress.
StopMidway ==
    /\ asked' = {}
    /\ play # << >>
    /\ started' = started \cup ({Head(play).item} \ mine)
    /\ play' = << >>
    /\ UNCHANGED <<recipe, flags, missing, aired, watched, mine>>

\* Another account of the household finishes an item.
WatchedElsewhere(item) ==
    /\ asked' = {}
    /\ item \notin watched
    /\ watched' = watched \cup {item}
    /\ UNCHANGED <<recipe, flags, missing, aired, mine, started, play>>

\* The next episode of a show is added to the library.
Airs(show) ==
    /\ asked' = {}
    /\ aired[show] < Len(Episodes[show])
    /\ aired' = [aired EXCEPT ![show] = @ + 1]
    /\ UNCHANGED <<recipe, flags, missing, watched, mine, started, play>>

\* The owner writes or takes away a skip.
TagByHand(n) ==
    /\ asked' = {}
    /\ flags' = [flags EXCEPT ![n] = IF @ = "hand" THEN "open" ELSE "hand"]
    /\ UNCHANGED <<recipe, missing, aired, watched, mine, started, play>>

\* The library loses a member, or finds it again.
LibraryChanges(what) ==
    /\ asked' = {}
    /\ missing' = IF what \in missing THEN missing \ {what} ELSE missing \cup {what}
    /\ UNCHANGED <<recipe, flags, aired, watched, mine, started, play>>

\* What the set plays, and what of it somebody may finish elsewhere: an opening seen
\* elsewhere changes nothing.
Members == {recipe.entries[n].what : n \in Entries}
Playing == (Members \ Collections) \cup UNION {Range(Children[c]) : c \in Members \cap Collections}
Finishable(what) ==
    IF what \in Films THEN {Film[what]} ELSE {ep \in Range(Listed[what]) : ep.kind = "regular"}

ScanAll   == Scan(Entries)
ScanOne   == \E n \in Entries : Scan({n})
Elsewhere == \E what \in Playing : \E item \in Finishable(what) : WatchedElsewhere(item)
Air       == \E show \in Shows \cap Playing : Airs(show)
Tag       == \E n \in Entries : TagByHand(n)
Library   == \E what \in Losable \cap Members : LibraryChanges(what)

CuratedNext == ScanAll \/ ScanOne \/ WatchHead \/ StopMidway \/ Elsewhere \/ Air \/ Tag \/ Library

\* Somebody keeps scanning the set and keeps watching to the end.
CuratedFairness == []<>(asked = Entries) /\ SF_curatedVars(WatchHead)

CuratedSpec == CuratedInit /\ [][CuratedNext]_curatedVars /\ CuratedFairness

-----------------------------------------------------------------------------
\* What of entry n there is to see yet, said without the code's batches: an episode
\* of it that is listed, regular, not before the entry's start, and unfinished.
StillToSee(n) ==
    LET desc == recipe.entries[n]
        Wants(item) == item \notin watched \/ item \in started
        Of(what) == IF what \in Films THEN {item \in {Film[what]} : Wants(item)}
                    ELSE {ep \in Range(Listed[what]) :
                            /\ Wants(ep) /\ ep.kind = "regular"
                            /\ ep.season # 0 \/ recipe.specials \/ ~HasRealSeasons(Listed[what])}
    IN  IF desc.what \notin Collections
        THEN {item \in Of(desc.what) : item.of \in Films \/ AtOrAfter(item, desc.start)}
        ELSE LET first == StartMember(Children[desc.what], desc.start) IN
             UNION {{item \in Of(Children[desc.what][k]) :
                        k = first => item.of \in Films \/ AtOrAfter(item, desc.start)} :
                        k \in {j \in DOMAIN Children[desc.what] : j >= first}}

\* resolve.ts: an empty list is the signal that retires an entry, so a batch is never
\* cut to nothing, and a member the library does not find is left alone.
RetiredIsWatched ==
    [][\A n \in Entries : flags[n] = "open" /\ flags'[n] = "stamped" =>
            StillToSee(n) = {} /\ recipe.entries[n].what \notin missing]_curatedVars

\* resolve.ts: a skip by hand outlives new episodes: a scan takes it away only of
\* an entry somebody is in the middle of.
HandSkipsStay ==
    [][asked' # {} =>
        \A n \in Entries : flags[n] = "hand" /\ flags'[n] # "hand" =>
            StillToSee(n) \cap started # {}]_curatedVars

\* resolve.ts: what an entry contributes to one lineup stays within one segment when
\* its batch is to stop there: no episode of the next season, or member, follows.  (Where
\* neither entry, set nor environment says how many, there is no batch to stop.)
BatchWithinSegment ==
    ~recipe.reel => \A i, j \in DOMAIN play :
        LET desc == recipe.entries[play[i].entry] IN
        play[i].entry = play[j].entry /\ (desc.episodes # 0 \/ SetBatch(recipe) # 0) =>
        /\ BatchStop(desc, recipe) \in Stops => play[i].item.of = play[j].item.of
        /\ BatchStop(desc, recipe) = "season" => play[i].item.season = play[j].item.season

\* resolve.ts: in a pool the shows somebody is in the middle of come before all
\* others, so that they resume.
InProgressLeads ==
    [][asked' # {} /\ recipe.curated =>
            LET Begins(k) == k = 1 \/ play'[k - 1].entry # play'[k].entry
                IsResumed(k) == play'[k].item \in started /\ play'[k].item.of \in Shows
            IN  \A k \in DOMAIN play' : Begins(k) /\ IsResumed(k) =>
                    \A j \in 1..k : Begins(j) => IsResumed(j)]_curatedVars

\* resolve.ts: an entry that finished comes back when something new of it arrives,
\* so a returning show plays again: with a household that keeps watching, nothing
\* that is found and is not skipped by hand stays unseen for ever.
WorkedOff ==
    recipe.reel \/ \A n \in Entries : flags[n] = "hand" \/ ~Found(n) \/ StillToSee(n) = {}

NothingIsForgotten == []<>WorkedOff

\* What no scan of a queue does (resolve.ts, nextQueue): batches stay in their segment,
\* only what is watched out retires, what is in progress leads, a skip by hand stays.
QueueKeepsItsRules ==
    /\ [][play' # play => BatchWithinSegment']_curatedVars
    /\ RetiredIsWatched
    /\ InProgressLeads
    /\ HandSkipsStay

\* A curated queue plays as its rules say, scan after scan (resolve.ts, nextQueue), and
\* nothing that is found is forgotten.
QueuePlaysAsRuled == QueueKeepsItsRules /\ NothingIsForgotten
=============================================================================
