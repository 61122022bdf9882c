----------------------------- MODULE PendingRule -----------------------------
(***************************************************************************)
(* What has arrived that nothing is going to play (pending.ts), and the    *)
(* engine's own answer to the same question (engine/resolve.ts, select.ts).*)
(*                                                                         *)
(* A world is a record: the items of the libraries, the collections, the   *)
(* sets, the libraries, and `found`, the items Plex's title search shows.  *)
(* Titles are names; Begins says which begins which.  Years and guids are  *)
(* small numbers, 0 for none.                                              *)
(***************************************************************************)
EXTENDS Integers, Sequences, SequencesExt, FiniteSets, FiniteSetsExt

CONSTANTS
    Begins,   \* pairs <<t, u>> of titles: u is longer than t and begins with it
    AnyRating, \* the cap of a profile that has none
    Unchosen  \* nobody has said which libraries

\* Rating keys are numbers, and what has one is an item or a collection.
IsWorld(w) ==
    /\ {"items", "colls", "sets", "libs", "found"} \subseteq DOMAIN w
    /\ DOMAIN w.items \subseteq Nat /\ DOMAIN w.colls \subseteq Nat \ DOMAIN w.items
    /\ w.found \subseteq DOMAIN w.items
    /\ \A c \in DOMAIN w.colls : w.colls[c].children \subseteq DOMAIN w.items
    /\ \A s \in DOMAIN w.sets :
          "sections" \in DOMAIN w.sets[s] /\ w.sets[s].sections \in Seq(DOMAIN w.libs)

(***************************************************************************)
(* Entries                                                                 *)
(***************************************************************************)
\* resolveTitle's score without its guid term, and couldName's.
TitleScore(desc, item) ==
    (IF desc.year = 0 THEN 0 ELSE IF item.year = desc.year THEN 10
     ELSE IF item.year = 0 THEN 0 ELSE -5)
    + (IF item.title = desc.title THEN 5
       ELSE IF <<desc.title, item.title>> \in Begins THEN 1 ELSE 0)

EngineScore(desc, item) ==
    TitleScore(desc, item) + (IF desc.guid # 0 /\ desc.guid = item.guid THEN 100 ELSE 0)

\* A bug's form of CouldName: the listing carries no guid, so a hint does not count.
ByTitleOnly(desc, item) == TitleScore(desc, item) > 0

\* The cheap test a title entry must pass before Plex is asked about it.
CouldName(desc, item) == desc.guid # 0 \/ TitleScore(desc, item) > 0

\* The best of what the search shows in one library, the lowest key among equals.
ResolveTitle(desc, sec, w) ==
    LET hits == {i \in w.found : w.items[i].sec = sec /\ EngineScore(desc, w.items[i]) > 0}
        best == {i \in hits : \A j \in hits :
                    EngineScore(desc, w.items[j]) <= EngineScore(desc, w.items[i])}
    IN  IF hits = {} THEN {} ELSE {Min(best)}

\* The first library that has an answer has the last word.
FirstAnswer(secs, Answer(_)) ==
    LET n == SelectInSeq(secs, LAMBDA sec : Answer(sec) # {})
    IN  IF n = 0 THEN {} ELSE Answer(secs[n])

ResolveQueueEntry(desc, set, w) ==
    CASE desc.kind = "key"   -> {desc.key} \cap DOMAIN w.items
      [] desc.kind = "title" -> FirstAnswer(set.sections, LAMBDA sec : ResolveTitle(desc, sec, w))
      [] OTHER               -> {}

\* findCollection: a collection by its name, in the first library that has it.
CollectionNamed(name, set, w) ==
    LET In(sec) == {c \in DOMAIN w.colls : w.colls[c].sec = sec /\ w.colls[c].name = name}
    IN  FirstAnswer(set.sections, LAMBDA sec : IF In(sec) = {} THEN {} ELSE {Min(In(sec))})

ChildrenOf(colls, w) == UNION {w.colls[c].children : c \in colls}

(***************************************************************************)
(* Coverage: what Pending takes as going to play                           *)
(***************************************************************************)
WorthResolving(desc, set, w, fresh) ==
    \E i \in fresh : w.items[i].sec \in Range(set.sections) /\ CouldName(desc, w.items[i])

NamedCollections(w) ==
    UNION {UNION {CollectionNamed(e.name, w.sets[s], w)
                    : e \in {x \in w.sets[s].entries : x.kind = "collection"}}
             : s \in DOMAIN w.sets}

\* A key entry names itself without a question; a title is resolved if it may matter.
CuratedKeys(w, fresh) ==
    LET Names(e, set) ==
            CASE e.kind = "key"   -> {e.key}
              [] e.kind = "title" -> IF WorthResolving(e, set, w, fresh)
                                     THEN ResolveQueueEntry(e, set, w) ELSE {}
              [] OTHER            -> {}
    IN  ChildrenOf(NamedCollections(w), w)
        \cup UNION {UNION {Names(e, w.sets[s]) : e \in w.sets[s].entries} : s \in DOMAIN w.sets}

RatingOk(rating, cap) == cap = AnyRating \/ rating \in cap

\* A live pool's libraries, its blocklist as it is written, and any profile's cap.
IsInAnyRule(i, w) ==
    \E s \in DOMAIN w.sets :
        LET set == w.sets[s] IN
        /\ set.source = "rotation" /\ ~set.superseded /\ set.enabled
        /\ w.items[i].sec \in Range(set.sections)
        /\ i \notin set.blocked.keys
        /\ \E cap \in set.caps : RatingOk(w.items[i].rating, cap)

(***************************************************************************)
(* The list                                                                *)
(***************************************************************************)
IsWatched(item, kind) ==
    IF kind = "show" THEN item.leaves > 0 /\ item.seenLeaves >= item.leaves
    ELSE item.views > 0 \/ item.offset > 0

\* Neither music nor photos, whoever asks; personal videos only when asked for.
SelectedLibraries(libs, chosen) ==
    {l \in DOMAIN libs : /\ libs[l].kind \in {"movie", "show"}
                         /\ IF chosen = Unchosen THEN ~libs[l].other ELSE l \in chosen}

Fresh(w, state) ==
    {i \in DOMAIN w.items :
        LET item == w.items[i] IN
        /\ item.sec \in SelectedLibraries(w.libs, state.libraries)
        /\ item.added > state.seenThrough /\ i \notin state.dismissed
        /\ ~IsWatched(item, w.libs[item.sec].kind)}

PendingFilms(w, state) ==
    LET fresh == Fresh(w, state)
    IN  {i \in fresh : i \notin CuratedKeys(w, fresh) /\ ~IsInAnyRule(i, w)}

\* A collection is news when one of its children is, and nothing names it already.
PendingCollections(w, state, films) ==
    {c \in DOMAIN w.colls :
        /\ \E i \in films : w.items[i].sec = w.colls[c].sec
        /\ c \notin state.dismissed \cup NamedCollections(w)
        /\ w.colls[c].children \cap films # {}}

PendingItems(w, state) ==
    LET films == PendingFilms(w, state) IN films \cup PendingCollections(w, state, films)

(***************************************************************************)
(* What the engine would play                                              *)
(***************************************************************************)
\* collectionItems and resolveMember, without the watched ones (a listed item is not).
PlaysEntry(e, set, w) ==
    IF e.kind = "collection" THEN ChildrenOf(CollectionNamed(e.name, set, w), w)
    ELSE ResolveQueueEntry(e, set, w)

\* The blocklist with its collections taken apart.
ExpandedBlocklist(set, w) ==
    set.blocked.keys
    \cup UNION {ChildrenOf(CollectionNamed(name, set, w), w) : name \in set.blocked.names}

\* The pool of a channel that names its libraries, for any of its profiles.
PlaysPool(set, w) ==
    {i \in DOMAIN w.items :
        /\ set.source = "rotation" /\ ~set.superseded /\ set.enabled /\ ~set.rewatch
        /\ w.items[i].sec \in Range(set.sections) /\ i \notin ExpandedBlocklist(set, w)
        /\ \E cap \in set.caps : RatingOk(w.items[i].rating, cap)}

WillPlay(w) ==
    UNION {PlaysPool(w.sets[s], w) \cup UNION {PlaysEntry(e, w.sets[s], w) : e \in w.sets[s].entries}
             : s \in DOMAIN w.sets}
=============================================================================
