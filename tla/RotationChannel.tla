-------------------------- MODULE RotationChannel --------------------------
(***************************************************************************)
(* A rotation channel over many sittings (engine/select.ts, rotation.ts):  *)
(* the pool of what is left to watch of its libraries and of its explicit  *)
(* members, dealt slot by slot into a lineup, and watched.  The scheduler  *)
(* is smooth weighted round-robin (engine/weight.ts): every live bucket is *)
(* credited its weight, the slot goes to the highest credit, and that      *)
(* bucket is charged all live weights.                                     *)
(***************************************************************************)
EXTENDS MemberItems, FiniteSetsExt

CONSTANTS
    Channels,   \* configurations a channel may have
    Shorts,     \* the films of its item section, in listing order
    LineupSize, \* the length asked of buildRotation
    MaxWeight   \* MAX_WEIGHT

\* A bucket per item section is known by this key.
SectionKey == "section"



ASSUME RotationAssumption ==
    /\ MaxWeight \in Nat \ {0}
    /\ IsListing(Shorts, Films)
    /\ SectionKey \notin Shows \cup Films \cup Collections
    /\ \A cfg \in Channels :
        /\ cfg.shows \subseteq Shows /\ IsFiniteSet(cfg.shows)
        /\ cfg.members \in Seq({d \in Range(cfg.members) : IsMember(d)})

VARIABLES
    channel,  \* the channel's configuration
    seen,     \* the household's history
    order,    \* the buckets of the lineup, shuffled
    credit, cursor, \* weightedInterleave: state of each bucket
    dealt,    \* the slots dealt: which bucket, which of its items
    phase     \* idle, dealing or playing

rotationVars == <<channel, seen, order, credit, cursor, dealt, phase>>

-----------------------------------------------------------------------------
(* The scheduler.                                                          *)

\* toWeight: what is not a number of at least 1 counts as 1.
ToWeight(value) ==
    IF value \in Int /\ value >= 1 THEN IF value > MaxWeight THEN MaxWeight ELSE value ELSE 1

\* Buckets are numbered in the order they are walked; these have items left.
LiveBuckets(size, taken) == {b \in DOMAIN size : taken[b] < size[b]}

\* What the numbers of a list come to.
SumOf(numbers) ==
    LET upTo[n \in 0..Len(numbers)] == IF n = 0 THEN 0 ELSE upTo[n - 1] + numbers[n]
    IN  upTo[Len(numbers)]

LiveWeight(weight, live) == SumOf([b \in DOMAIN weight |-> IF b \in live THEN weight[b] ELSE 0])

Credited(balance, weight, live) ==
    [b \in DOMAIN balance |-> IF b \in live THEN balance[b] + weight[b] ELSE balance[b]]

\* Of the highest credits the earliest bucket.
BestBucket(balance, live) ==
    LET highest == {b \in live : \A c \in live : balance[b] >= balance[c]}
    IN  Min(highest)

\* Uncharged is wrong on purpose: the winner keeps its credit.
Uncharged(balance, weight, live) == balance

\* The winner pays for the round.
Charged(balance, weight, live) ==
    [balance EXCEPT ![BestBucket(balance, live)] = @ - LiveWeight(weight, live)]

-----------------------------------------------------------------------------
(* The pool of a channel.                                                  *)

Seen == [watched |-> seen, started |-> {}]

\* restartsFor: a show's own word, else the pool's; a typo is not a word.
Restarts(cfg, key) ==
    LET own == IF key \in DOMAIN cfg.completes THEN cfg.completes[key] ELSE "absent" IN
    own = "restart" \/ (own # "drop" /\ cfg.restarts)

WeightOf(cfg, key) == ToWeight(IF key \in DOMAIN cfg.weights THEN cfg.weights[key] ELSE 1)

\* What is left, or all of it again when nothing is left and it restarts.
LeftOrAgain(cfg, key, all) ==
    LET left == Only(all, Range(all) \ seen) IN
    IF left = << >> /\ Restarts(cfg, key) THEN all ELSE left

Bucket(key, items, weight) == [key |-> key, items |-> items, weight |-> weight]

NonEmpty(buckets) == Only(buckets, {b \in Range(buckets) : b.items # << >>})

\* unwatchedBuckets: a bucket per allowed show, from its start on, and one for the
\* item section.  Specials and extras of a library are not left out.
RuleBuckets(cfg) ==
    LET shows == SetToSeq(cfg.shows \ cfg.blocked)
        ShowBucket(show) ==
            LET start == IF show \in DOMAIN cfg.starts THEN cfg.starts[show] ELSE NoStart
                all == Only(Episodes[show], {ep \in Range(Episodes[show]) : AtOrAfter(ep, start)})
            IN  Bucket(show, LeftOrAgain(cfg, show, all), WeightOf(cfg, show))
        section == Only(Shorts, IF cfg.hasItems THEN Films \ cfg.blocked ELSE {})
    IN  NonEmpty([n \in DOMAIN shows |-> ShowBucket(shows[n])]
                 \o <<Bucket(SectionKey,
                             LeftOrAgain(cfg, SectionKey, [n \in DOMAIN section |-> Film[section[n]]]),
                             WeightOf(cfg, SectionKey))>>)

ChildOf(desc, child) ==
    [what |-> child, episodes |-> 0, stop |-> "absent", start |-> NoStart, weight |-> desc.weight]

\* A split collection's children are members of their own, with its weight.
MembersOf(cfg) ==
    LET AsChildren(desc) ==
            IF desc.what \in Collections /\ cfg.split
            THEN [n \in DOMAIN Children[desc.what] |-> ChildOf(desc, Children[desc.what][n])]
            ELSE <<desc>>
    IN  FlattenSeq([n \in DOMAIN cfg.members |-> AsChildren(cfg.members[n])])

\* memberBuckets: every member that has something left, in the order of the list.
MemberBuckets(cfg) ==
    LET BucketOf(desc) ==
            LET items == ResolveMember(desc, Episodes, cfg, Seen, 0, FALSE)
            IN  Bucket(desc.what, [n \in DOMAIN items |-> items[n].item], ToWeight(desc.weight))
        all == MembersOf(cfg)
    IN  NonEmpty([n \in DOMAIN all |-> BucketOf(all[n])])

\* Uncovered is wrong on purpose: a collection's shows stay in the rule pool.
Uncovered(cfg) == {}

\* collectionCover: what the collection members speak for.
Cover(cfg) ==
    UNION {Range(Children[d.what]) : d \in {e \in Range(cfg.members) : e.what \in Collections}}

\* OnlyCovered is wrong on purpose: a show that is a member plays by the rule as well.
OnlyCovered(cfg) == Cover(cfg)

\* The keys the rule pool may not use any more: the members' and the covered ones.
Taken(cfg) == {b.key : b \in Range(MemberBuckets(cfg))} \cup Cover(cfg)

\* channelBuckets: the members and, without what they stand for, the rule pool.
ChannelBuckets(cfg) ==
    IF cfg.members = << >> THEN RuleBuckets(cfg)
    ELSE MemberBuckets(cfg)
            \o Only(RuleBuckets(cfg), {b \in Range(RuleBuckets(cfg)) : b.key \notin Taken(cfg)})

RotationInit ==
    /\ channel \in Channels
    /\ seen = {} /\ order = << >> /\ credit = << >> /\ cursor = << >> /\ dealt = << >>
    /\ phase = "idle"

Orders(buckets) == {[n \in DOMAIN buckets |-> buckets[p[n]]] :
                        p \in {q \in [DOMAIN buckets -> DOMAIN buckets] : IsInjective(q)}}

\* buildRotation: the shuffle decides who leads.
PoolBuilt ==
    /\ phase = "idle"
    /\ order' \in Orders(ChannelBuckets(channel))
    /\ credit' = [n \in DOMAIN order' |-> 0] /\ cursor' = credit'
    /\ dealt' = << >>
    /\ phase' = "dealing"
    /\ UNCHANGED <<channel, seen>>

Sizes   == [n \in DOMAIN order |-> Len(order[n].items)]
Weights == [n \in DOMAIN order |-> ToWeight(order[n].weight)]
LiveNow == LiveBuckets(Sizes, cursor)

\* weightedInterleave: one slot.
SlotDealt ==
    LET credited == Credited(credit, Weights, LiveNow)
        best == BestBucket(credited, LiveNow) IN
    /\ phase = "dealing" /\ Len(dealt) < LineupSize /\ LiveNow # {}
    /\ credit' = Charged(credited, Weights, LiveNow)
    /\ cursor' = [cursor EXCEPT ![best] = @ + 1]
    /\ dealt' = Append(dealt, [bucket |-> best, nth |-> cursor'[best]])
    /\ UNCHANGED <<channel, seen, order, phase>>

LineupDealt ==
    /\ phase = "dealing" /\ (Len(dealt) = LineupSize \/ LiveNow = {})
    /\ phase' = "playing"
    /\ UNCHANGED <<channel, seen, order, credit, cursor, dealt>>

ItemAt(n) == order[dealt[n].bucket].items[dealt[n].nth]
Lineup    == [n \in DOMAIN dealt |-> ItemAt(n)]

\* The household watches the first so many items, and the next sitting begins.
Watches ==
    /\ phase = "playing" /\ dealt # << >>
    /\ \E n \in 1..Len(dealt) : seen' = seen \cup Range(SubSeq(Lineup, 1, n))
    /\ phase' = "idle" /\ order' = << >> /\ credit' = << >> /\ cursor' = << >> /\ dealt' = << >>
    /\ UNCHANGED channel

RotationNext == PoolBuilt \/ SlotDealt \/ LineupDealt \/ Watches
RotationSpec == RotationInit /\ [][RotationNext]_rotationVars

-----------------------------------------------------------------------------
CountOf(b) == Cardinality({n \in DOMAIN dealt : dealt[n].bucket = b})

RoundWeight == LiveWeight(Weights, DOMAIN order)

\* All the buckets were there for every slot so far.
NoneRanDry == dealt = << >> \/ DOMAIN order = LiveNow \cup {dealt[Len(dealt)].bucket}

\* weight.ts: a weight is slots per round.  Until a bucket has run dry every round deals each
\* bucket its weight of slots exactly, and within a round none gets a whole slot ahead of its
\* share, nor as many behind as there are others to be ahead of it.
SharesAreKept ==
    NoneRanDry => \A b \in DOMAIN order :
        LET owed == Len(dealt) * Weights[b] - CountOf(b) * RoundWeight
        IN  /\ -owed < RoundWeight
            /\ owed <= (Len(order) - 1) * RoundWeight
            /\ \A rounds \in 0..Len(dealt) :
                    Len(dealt) = rounds * RoundWeight => CountOf(b) = rounds * Weights[b]

IsUnweighted == \A b \in DOMAIN order : Weights[b] = 1

\* weight.ts: with every weight 1 this is exactly the plain round-robin, also when
\* buckets run dry: first every bucket's first item, then every second one.
RoundRobinUnweighted ==
    IsUnweighted => \A i, j \in DOMAIN dealt : i < j =>
        \/ dealt[i].nth < dealt[j].nth
        \/ dealt[i].nth = dealt[j].nth /\ dealt[i].bucket < dealt[j].bucket

KeyAt(n) == order[dealt[n].bucket].key

\* All there is of a show or a film, and of a collection, in its order.
ListOf(thing) == IF thing \in Shows THEN Episodes[thing] ELSE <<Film[thing]>>
Whole(what) ==
    IF what \in Collections
    THEN FlattenSeq([n \in DOMAIN Children[what] |-> ListOf(Children[what][n])])
    ELSE ListOf(what)

\* Two members overlap in this item, or a member and the item section.
IsContested(item) ==
    LET members == MembersOf(channel)
        Claims(n) == item \in Range(Whole(members[n].what))
    IN  \E m, n \in DOMAIN members :
            /\ Claims(n)
            /\ \/ m # n /\ Claims(m)
               \/ channel.hasItems /\ item.of \in Range(Shorts)

\* rotation.ts: a member that matches the rule as well is not queued twice: no bucket deals an
\* item twice, and two buckets the same item only where members overlap with each other or
\* with the item section.
DealtOnce ==
    \A i, j \in DOMAIN dealt : i # j /\ ItemAt(i) = ItemAt(j) =>
        dealt[i].bucket # dealt[j].bucket /\ IsContested(ItemAt(i))

\* "Deduped by ratingKey (members win) so a member that also matches the rule isn't queued
\* twice" (rotation.ts), said of films as well.
QueuedOnce == \A i, j \in DOMAIN dealt : i # j => ItemAt(i) # ItemAt(j)

\* rotation.ts: the order of a collection that is a member is the only order its children
\* play in, unless it is split or another source has them too.
CollectionPlaysInOrder ==
    \A c \in {d.what : d \in Range(channel.members)} \cap Collections : ~channel.split =>
        LET InOrder(one, other) ==
                \E p, q \in DOMAIN Whole(c) : p < q /\ Whole(c)[p] = one /\ Whole(c)[q] = other
        IN  \A j \in DOMAIN dealt : ItemAt(j) \in Range(Whole(c)) /\ ~IsContested(ItemAt(j)) =>
                /\ KeyAt(j) = c
                /\ \A i \in DOMAIN dealt :
                        i < j /\ dealt[i].bucket = dealt[j].bucket => InOrder(ItemAt(i), ItemAt(j))

\* select.ts: something watched is dealt again only for a show that has nothing left
\* and is to restart, by its own word or the pool's.
OnlyFinishedReplays ==
    \A n \in DOMAIN order : \A item \in Range(order[n].items) : item \in seen =>
        /\ Range(order[n].items) \subseteq seen
        /\ LET own == IF order[n].key \in DOMAIN channel.completes
                      THEN channel.completes[order[n].key] ELSE "absent"
           IN  own = "restart" \/ (own \notin {"restart", "drop"} /\ channel.restarts)

\* A lineup is dealt as its channel says (rotation.ts, weight.ts, select.ts): each item once,
\* a collection in its order, buckets by their weights, and nothing watched but what is to restart.
DealKeepsTheRules ==
    /\ DealtOnce
    /\ CollectionPlaysInOrder
    /\ SharesAreKept
    /\ OnlyFinishedReplays
=============================================================================
