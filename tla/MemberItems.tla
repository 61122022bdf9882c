---------------------------- MODULE MemberItems ----------------------------
(***************************************************************************)
(* What one member of a set plays next (engine/resolve.ts): a show's or a  *)
(* collection's episodes that are not watched yet, after the member's      *)
(* start, without extras and specials, cut to the member's batch.          *)
(*                                                                         *)
(* An item is a record: the show or film it belongs to, its season,        *)
(* episode and kind (regular, extra, empty for a zero-duration one).  A    *)
(* Plex search by title is abstracted to the name of what it finds.        *)
(***************************************************************************)
EXTENDS Integers, Sequences, SequencesExt, FiniteSets, Sublist

CONSTANTS
    Episodes,      \* what Plex lists of each show, in its order
    Children,      \* the members of each collection, in its order
    Film,          \* the item of each film
    SeriesDefault, \* env QUEUE_SERIES_DEFAULT
    SeriesLength,  \* env QUEUE_SERIES_LENGTH
    StopsAt,       \* env BATCH_STOPS_AT
    NoStart        \* no manual start

Shows       == DOMAIN Episodes
Collections == DOMAIN Children
Films       == DOMAIN Film

\* A listing names each thing once, and an item is of one show, or is one film.
IsListing(list, things) == list \in Seq(things) /\ IsInjective(list)

Kinds == {"regular", "extra", "empty"}

ASSUME LibraryAssumption ==
    /\ SeriesLength \in Int /\ SeriesDefault \in Int
    /\ Shows \cap Films = {} /\ (Shows \cup Films) \cap Collections = {}
    /\ \A show \in Shows :
        IsListing(Episodes[show], {ep \in Range(Episodes[show]) : ep.of = show /\ ep.kind \in Kinds})
    /\ \A film \in Films : Film[film].of = film
    /\ \A c \in Collections : IsListing(Children[c], Shows \cup Films)

\* What a member of a channel and an entry of a queue have in common.
IsMember(desc) == desc.what \in Shows \cup Films \cup Collections /\ desc.episodes \in Nat

Stops == {"member", "season"}

\* Bigger is the later of two positions (atOrAfterStart compares tuples).
AtOrAfter(ep, start) ==
    \/ start = NoStart \/ start.episode = 0
    \/ ep.season > start.season
    \/ ep.season = start.season /\ ep.episode >= start.episode

HasRealSeasons(eps) == \E ep \in Range(eps) : ep.season # 0

Keeps(ep, cfg, specialsOk) ==
    /\ ep.kind = "regular"
    /\ ep.season # 0 \/ cfg.specials \/ specialsOk

\* The household's history, and what the account has begun and never finished:
\* such an item is not done with, whoever else has seen it.
Wanted(item, views, resume) == item \notin views.watched \/ (resume /\ item \in views.started)

\* The episodes a show member has left; specials count for a show that has
\* nothing else, when a queue resumes.
ShowLeft(show, listed, cfg, views, start, resume) ==
    LET eps == listed[show]
        specialsOk == resume /\ ~HasRealSeasons(eps)
        Plays(ep) == /\ Wanted(ep, views, resume)
                     /\ Keeps(ep, cfg, specialsOk) /\ AtOrAfter(ep, start)
    IN  Only(eps, {ep \in Range(eps) : Plays(ep)})

Tagged(items, child) == [n \in DOMAIN items |-> [item |-> items[n], member |-> child]]

\* The child a manual start names, 0 for none.
StartMember(children, start) ==
    IF start = NoStart THEN 0 ELSE SelectInSeq(children, LAMBDA ch : ch = start.series)

\* collectionItems: children before the start are passed over, and the start
\* counts within its own child only.
CollectionLeft(name, listed, cfg, views, start, resume) ==
    LET children == Children[name]
        floor == StartMember(children, start)
        Left(n) ==
            LET ch == children[n] IN
            IF n < floor THEN << >>
            ELSE IF ch \in Shows
            THEN ShowLeft(ch, listed, cfg, views, IF n = floor THEN start ELSE NoStart, resume)
            ELSE IF Wanted(Film[ch], views, resume) THEN <<Film[ch]>> ELSE << >>
    IN  FlattenSeq([n \in DOMAIN children |-> Tagged(Left(n), children[n])])

\* batchStop: the entry's word, else the set's, else the environment's; a word
\* nobody knows is passed over.
BatchStop(desc, cfg) ==
    LET known == SelectSeq(<<desc.stop, cfg.stop, StopsAt>>, LAMBDA w : w \in Stops \cup {"none"})
    IN  IF known = << >> THEN "none" ELSE Head(known)

\* setBatch: what an entry contributes when it does not say; 0 is no number.
SetBatch(cfg) == IF cfg.episodes > 0 THEN IF cfg.episodes < SeriesLength THEN cfg.episodes
                                          ELSE SeriesLength
                 ELSE SeriesDefault

SegmentKey(entry, stop) ==
    IF stop = "season" THEN <<entry.member, entry.item.season>> ELSE <<entry.member>>

AtLeastOne(n) == IF n < 1 THEN 1 ELSE n

AtMost(items, n) == SubSeq(items, 1, IF Len(items) < n THEN Len(items) ELSE n)

\* CutBelow is wrong on purpose: the cut falls before the boundary's last item.
CutBelow(items, stop) ==
    IF stop \notin Stops THEN items
    ELSE LET others == {n \in DOMAIN items : SegmentKey(items[n], stop) # SegmentKey(items[1], stop)}
         IN  IF others = {} THEN items
             ELSE SubSeq(items, 1, (CHOOSE n \in others : \A k \in others : n <= k) - 2)

\* NeverCut is wrong on purpose: a batch runs on into the next segment.
NeverCut(items, stop) == items

\* Up to the first item of another segment.
CutAtBoundary(items, stop) ==
    IF stop \notin Stops THEN items
    ELSE LET others == {n \in DOMAIN items : SegmentKey(items[n], stop) # SegmentKey(items[1], stop)}
         IN  IF others = {} THEN items
             ELSE SubSeq(items, 1, (CHOOSE n \in others : \A k \in others : n <= k) - 1)

\* applyBatch: without a batch the list is whole, and a batch is never nothing.
ApplyBatch(items, batch, stop) ==
    IF batch = 0 THEN items
    ELSE LET most == IF batch < SeriesLength THEN batch ELSE SeriesLength
         IN  CutAtBoundary(AtMost(items, AtLeastOne(most)), stop)

Left(desc, listed, cfg, views, resume) ==
    CASE desc.what \in Collections -> CollectionLeft(desc.what, listed, cfg, views, desc.start, resume)
      [] desc.what \in Shows ->
            Tagged(ShowLeft(desc.what, listed, cfg, views, desc.start, resume), desc.what)
      [] desc.what \in Films ->
            Tagged(IF Wanted(Film[desc.what], views, resume) THEN <<Film[desc.what]>> ELSE << >>,
                   desc.what)

\* resolveMember, of a member that is found: the batch applies to shows and
\* collections; `standard` is what an entry gets that does not say, 0 for all.
ResolveMember(desc, listed, cfg, views, standard, resume) ==
    LET items == Left(desc, listed, cfg, views, resume) IN
    IF desc.what \in Films THEN items
    ELSE ApplyBatch(items, IF desc.episodes # 0 THEN desc.episodes ELSE standard,
                    BatchStop(desc, cfg))
=============================================================================
