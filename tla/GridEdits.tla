------------------------------ MODULE GridEdits ------------------------------
(***************************************************************************)
(* Ordering by hand: the landing's cards (PlayView.tsx, useRowReorder.ts), *)
(* the Queues page's shelves and posters (useHomeDrags.ts), one queue's    *)
(* grid with its filter, its add box and its selection bar (QueueView.tsx, *)
(* useGridDrag.ts, SelectionBar.tsx, state/queueEntry.ts), and the writers *)
(* of queues.yaml and sets.yaml behind them (queues.ts, sets.ts).          *)
(*                                                                         *)
(* A gesture is one step, from the press to the request its drop sends:    *)
(* what a refresh may do in the middle of one is LiveFeed's subject.  A    *)
(* call of the server is one step, for each holds its file's lock.         *)
(***************************************************************************)
EXTENDS Integers, Sequences, SequencesExt, FiniteSets, Sublist

CONSTANTS
    Registered,   \* the sets in the order of sets.yaml at first
    Queued,       \* the keys of each queue at first, a function of the queues
    Flagged,      \* the keys whose entries carry `done`
    TitleOrder,   \* all keys by title
    Filters,      \* what a landing's group and provider let through: sets of sets
    Lenses,       \* the filters of a queue's grid: the keys that pass, sorted or not
    MaxGestures,  \* bound: gestures of this tab
    MaxOthers     \* bound: what other clients write, and what fails

VARIABLES
    order,      \* sets.yaml
    lists,      \* queues.yaml
    tabOrder,   \* the tab's reg.sets and data.order
    tabLists,   \* the tab's data.sets[..].items
    page,       \* "landing", "home" (the Queues page) or the queue it shows; it stays there
    filter,     \* the landing's
    lens,       \* the grid's
    picked,     \* the selection: queue and key, in the order they were ticked
    calls,      \* requests the server has not answered
    reads,      \* answers under way to the tab: what GET /sets or GET /queues read
    disturbed,  \* history: the surfaces whose drop moved an entry nobody dragged
    gestures, others

gridVars == <<order, lists, tabOrder, tabLists, page, filter, lens, picked, calls,
              reads, disturbed, gestures, others>>

QueueIds  == DOMAIN Queued
AllKeys == Range(TitleOrder)
WithoutKey(seq, those) == Only(seq, Range(seq) \ those)

ASSUME GridAssumption ==
    /\ Registered \in Seq(Range(Registered)) /\ Cardinality(Range(Registered)) = Len(Registered)
    /\ TitleOrder \in Seq(AllKeys) /\ Queued \in [QueueIds -> Seq(AllKeys)]

GridInit ==
    /\ order = Registered /\ lists = Queued /\ tabOrder = Registered /\ tabLists = Queued
    /\ page \in {"landing", "home"} \cup QueueIds
    /\ filter \in Filters /\ (page # "landing" => \A f \in Filters : f \subseteq filter)
    /\ lens \in Lenses /\ (page \notin QueueIds => lens = CHOOSE l \in Lenses : TRUE)
    /\ picked = << >> /\ calls = {} /\ reads = {}
    /\ disturbed = {} /\ gestures = 0 /\ others = 0

(***************************************************************************)
(* What is on screen, and what a drop sends                                *)
(***************************************************************************)
\* The dragged element alone moves.
Dragged(rows, e, n) == InsertAt(WithoutKey(rows, {e}), n, e)

\* Where it can be dropped: before, between or after the others.
Slots(rows, e) == 1..(Len(WithoutKey(rows, {e})) + 1)

\* The cards of the landing: buildEntries and isShown.
Cards == Only(tabOrder, filter)

\* VisibleOnly is wrong on purpose: what is on screen is sent as it is.
VisibleOnly(full, visible) == visible

\* The visible slots are permuted, the others stay.
SpliceOrder(full, visible) ==
    [n \in DOMAIN full |->
        IF full[n] \notin Range(visible) THEN full[n]
        ELSE visible[Cardinality({k \in 1..n : full[k] \in Range(visible)})]]

\* The shelves of the Queues page are the sets with a queue; the other sets go last.
Shelves == Only(tabOrder, QueueIds)
ShelvesFirst(rows) == rows \o WithoutKey(tabOrder, Range(rows))

\* applyFilters: what passes, by title if the grid is sorted.
Seen(queue) ==
    LET those == Only(tabLists[queue], lens.passes) IN
    IF lens.sorted THEN Only(TitleOrder, Range(those)) ELSE those

Gesture(where) == page \in where /\ gestures < MaxGestures /\ gestures' = gestures + 1

\* The request of a drop, with what was seen and known when it was sent.
Drop(kind, to, items, keys, surface, dragged, seen, known) ==
    [kind |-> kind, to |-> to, keys |-> keys, items |-> items, surface |-> surface,
     dragged |-> dragged, seen |-> seen, known |-> known, wantsLoad |-> FALSE]

Call(kind, to, items, keys, wantsLoad) ==
    [Drop(kind, to, items, keys, "none", "none", {}, << >>) EXCEPT !.wantsLoad = wantsLoad]

Item(queue, key) == [fromSet |-> queue, key |-> key]

SendsCall(c) == calls' = calls \cup {c}

\* commitOrder: the tab shows it at once; a drop where the drag began sends nothing.
DragCard(set, n) ==
    /\ Gesture({"landing"}) /\ set \in Range(Cards) /\ n \in Slots(Cards, set)
    /\ LET next == SpliceOrder(tabOrder, Dragged(Cards, set, n)) IN
       /\ next # tabOrder
       /\ tabOrder' = Only(next, Range(tabOrder))
       /\ SendsCall(Drop("sets", "none", << >>, next, "landing", set, Range(Cards), tabOrder))
    /\ UNCHANGED <<order, lists, tabLists, page, filter, lens, picked, reads, disturbed, others>>

\* onShelfUp.
DragShelf(set, n) ==
    /\ Gesture({"home"}) /\ set \in Range(Shelves) /\ n \in Slots(Shelves, set)
    /\ LET next == ShelvesFirst(Dragged(Shelves, set, n)) IN
       /\ tabOrder' = next
       /\ SendsCall(Drop("sets", "none", << >>, next, "shelves", set, Range(Shelves), tabOrder))
    /\ UNCHANGED <<order, lists, tabLists, page, filter, lens, picked, reads, disturbed, others>>

\* useGridDrag's onUp: the keys of the tiles in the grid, and no other item stays in the tab.
DragTile(queue, key, n) ==
    /\ Gesture({queue}) /\ key \in Range(Seen(queue)) \ Flagged /\ n \in Slots(Seen(queue), key)
    /\ LET next == Dragged(Seen(queue), key, n) IN
       /\ tabLists' = [tabLists EXCEPT ![queue] = next]
       /\ SendsCall(Drop("order", queue, << >>, next, "grid", key, Range(next), tabLists[queue]))
    /\ UNCHANGED <<order, lists, tabOrder, page, filter, lens, picked, reads, disturbed, others>>

\* onHomeUp: within a strip, or from one to another.
DragPoster(from, to, key, n) ==
    LET next == Dragged(tabLists[to], key, n) IN
    /\ Gesture({"home"}) /\ key \in Range(tabLists[from]) /\ n \in Slots(tabLists[to], key)
    /\ tabLists' = [tabLists EXCEPT ![from] = WithoutKey(@, {key}), ![to] = next]
    /\ SendsCall(Drop(IF from = to THEN "order" ELSE "move", to, <<Item(from, key)>>, next,
                      "strip", key, Range(next), tabLists[to]))
    /\ UNCHANGED <<order, lists, tabOrder, page, filter, lens, picked, reads, disturbed, others>>

(***************************************************************************)
(* The add box, the crosses and the selection                              *)
(***************************************************************************)
\* An optimistic tile; a pick of what is here already opens the entry instead.
PickHit(queue, key, position) ==
    LET list == tabLists[queue] IN
    /\ Gesture({queue}) /\ key \notin Range(list)
    /\ tabLists' = [tabLists EXCEPT ![queue] = IF position = "top" THEN <<key>> \o list
                                               ELSE Append(list, key)]
    /\ SendsCall(Call(IF position = "top" THEN "addTop" ELSE "addBottom", queue, << >>, <<key>>, FALSE))
    /\ UNCHANGED <<order, lists, tabOrder, page, filter, lens, picked, reads, disturbed, others>>

RemoveTile(queue, key) ==
    /\ Gesture({"home", queue}) /\ key \in Range(tabLists[queue])
    /\ tabLists' = [tabLists EXCEPT ![queue] = WithoutKey(@, {key})]
    /\ picked' = WithoutKey(picked, {Item(queue, key)})
    /\ SendsCall(Call("remove", "none", <<Item(queue, key)>>, << >>, FALSE))
    /\ UNCHANGED <<order, lists, tabOrder, page, filter, lens, reads, disturbed, others>>

\* Offered while a tile on screen is flagged; it asks for all of the queue.
RemoveCompleted(queue) ==
    /\ Gesture({queue}) /\ Range(Seen(queue)) \cap Flagged # {}
    /\ SendsCall(Call("completed", queue, << >>, << >>, TRUE))
    /\ UNCHANGED <<order, lists, tabOrder, tabLists, page, filter, lens, picked, reads, disturbed, others>>

ToggleSelect(queue, key) ==
    /\ Gesture({queue}) /\ key \in Range(Seen(queue))
    /\ picked' = IF Item(queue, key) \in Range(picked) THEN WithoutKey(picked, {Item(queue, key)})
                 ELSE Append(picked, Item(queue, key))
    /\ UNCHANGED <<order, lists, tabOrder, tabLists, page, filter, lens, calls, reads, disturbed, others>>

\* The selection bar; the selection is let go when the answer arrives.
MoveSelection(to) ==
    /\ Gesture(QueueIds) /\ picked # << >>
    /\ SendsCall(Call("moveBulk", to, picked, << >>, TRUE))
    /\ UNCHANGED <<order, lists, tabOrder, tabLists, page, filter, lens, picked, reads, disturbed, others>>

RemoveSelection ==
    /\ Gesture(QueueIds) /\ picked # << >>
    /\ SendsCall(Call("removeBulk", "none", picked, << >>, TRUE))
    /\ UNCHANGED <<order, lists, tabOrder, tabLists, page, filter, lens, picked, reads, disturbed, others>>

\* The landing's bar, or the grid's toolbar.
LookThrough(l, f) ==
    /\ gestures < MaxGestures
    /\ IF page = "landing" THEN l = lens /\ f # filter ELSE page \in QueueIds /\ f = filter /\ l # lens
    /\ lens' = l /\ filter' = f
    /\ UNCHANGED <<order, lists, tabOrder, tabLists, page, picked, calls, reads, disturbed, gestures, others>>

(***************************************************************************)
(* The server                                                              *)
(***************************************************************************)
\* applyOrder, reorderSets: the named ones in the order named, the others after them.
ApplyOrder(seq, keys) == Only(keys, Range(seq)) \o WithoutKey(seq, Range(keys))

\* moveItem: one entry, in one write of the file.
Moved(c) ==
    LET from == Head(c.items).fromSet
        key  == Head(c.items).key
        there == IF key \in Range(lists[c.to]) THEN lists[c.to] ELSE Append(lists[c.to], key)
    IN  IF key \notin Range(lists[from]) THEN lists
        ELSE [lists EXCEPT ![from] = WithoutKey(@, {key}), ![c.to] = ApplyOrder(there, c.keys)]

\* removeBulk, removeItem.
Removed(items) == [q \in QueueIds |-> WithoutKey(lists[q], {i.key : i \in {j \in Range(items) : j.fromSet = q}})]

\* moveBulk: what is there already only leaves its old queue; if nothing arrives, nothing is written.
MovedInBulk(c) ==
    LET going == Picked(c.items, {n \in DOMAIN c.items :
                                     /\ c.items[n].fromSet # c.to
                                     /\ c.items[n].key \in Range(lists[c.items[n].fromSet])})
        keys  == [n \in DOMAIN going |-> going[n].key]
        added == Picked(keys, {n \in DOMAIN keys : /\ keys[n] \notin Range(lists[c.to])
                                                   /\ \A k \in 1..(n - 1) : keys[k] # keys[n]})
    IN  IF added = << >> THEN lists
        ELSE [Removed(going) EXCEPT ![c.to] = lists[c.to] \o added]

ListsAfter(c) ==
    CASE c.kind = "order"      -> [lists EXCEPT ![c.to] = ApplyOrder(@, c.keys)]
      [] c.kind = "move"       -> Moved(c)
      [] c.kind = "moveBulk"   -> MovedInBulk(c)
      [] c.kind \in {"remove", "removeBulk"} -> Removed(c.items)
      [] c.kind = "completed"  -> [lists EXCEPT ![c.to] = WithoutKey(@, Flagged)]
      [] c.kind = "addTop"     -> [lists EXCEPT ![c.to] = WithoutKey(c.keys, Range(@)) \o @]
      [] c.kind = "addBottom"  -> [lists EXCEPT ![c.to] = @ \o WithoutKey(c.keys, Range(@))]
      [] OTHER                 -> lists

\* A drop, of a tab that had the list as it stands, that moves what nobody dragged: it
\* reorders the others on screen, or shifts one that is hidden.
Disturbs(c, before, after) ==
    LET was == Only(before, Range(c.known))
        now == Only(after, Range(c.known))
        rest == c.seen \ {c.dragged}
    IN  /\ was = c.known
        /\ \/ Only(now, rest) # Only(was, rest)
           \/ \E n \in DOMAIN was : was[n] \notin c.seen /\ now[n] # was[n]

Lands(c) ==
    /\ c \in calls /\ calls' = calls \ {c}
    /\ order' = IF c.kind = "sets" THEN ApplyOrder(order, c.keys) ELSE order
    /\ lists' = ListsAfter(c)
    /\ disturbed' =
         IF c.surface # "none" /\ (IF c.kind = "sets" THEN Disturbs(c, order, order')
                                   ELSE Disturbs(c, lists[c.to], lists'[c.to]))
         THEN disturbed \cup {c.surface} ELSE disturbed
    /\ tabOrder' = IF c.surface = "shelves" THEN c.keys ELSE tabOrder
    /\ picked' = IF c.kind \in {"moveBulk", "removeBulk"} THEN << >> ELSE picked
    /\ reads' = IF c.wantsLoad THEN reads \cup {[half |-> "queues", forced |-> TRUE, order |-> order,
                                                 lists |-> lists']}
                ELSE reads
    /\ UNCHANGED <<tabLists, page, filter, lens, gestures, others>>

Loaded == {[half |-> h, forced |-> TRUE, order |-> order, lists |-> lists] : h \in {"sets", "queues"}}

\* The request is refused: the page reads everything again.
CallFails(c) ==
    /\ others < MaxOthers /\ others' = others + 1
    /\ c \in calls /\ calls' = calls \ {c}
    /\ reads' = IF c.kind \in {"moveBulk", "removeBulk", "completed"} THEN reads ELSE reads \cup Loaded
    /\ UNCHANGED <<order, lists, tabOrder, tabLists, page, filter, lens, picked, disturbed, gestures>>

\* Another client: a new set at the end, a set deleted, an entry added on top or removed.
OtherWrites(set, queue, key) ==
    /\ others < MaxOthers /\ others' = others + 1
    /\ \/ /\ set \notin Range(order) /\ order' = Append(order, set) /\ UNCHANGED lists
       \/ /\ set \in Range(order) \ QueueIds /\ order' = WithoutKey(order, {set}) /\ UNCHANGED lists
       \/ /\ key \notin Range(lists[queue]) /\ lists' = [lists EXCEPT ![queue] = <<key>> \o @]
          /\ UNCHANGED order
       \/ /\ key \in Range(lists[queue]) /\ lists' = [lists EXCEPT ![queue] = WithoutKey(@, {key})]
          /\ UNCHANGED order
    /\ UNCHANGED <<tabOrder, tabLists, page, filter, lens, picked, calls, reads, disturbed, gestures>>

\* A refresh, sent at any time, reads one of the two files.
Fetch(half) ==
    LET answer == [half |-> half, forced |-> FALSE, order |-> order, lists |-> lists] IN
    /\ \A r \in reads : r.half # half
    /\ IF half = "sets" THEN tabOrder # order ELSE tabLists # lists
    /\ reads' = reads \cup {answer}
    /\ UNCHANGED <<order, lists, tabOrder, tabLists, page, filter, lens, picked, calls, disturbed, gestures, others>>

\* refreshOne keeps off a page with a selection; load does not.
Commits(r) ==
    /\ r \in reads /\ reads' = reads \ {r}
    /\ LET kept == ~r.forced /\ picked # << >> IN
       /\ tabOrder' = IF r.half = "sets" /\ ~kept THEN r.order ELSE tabOrder
       /\ tabLists' = IF r.half = "queues" /\ ~kept THEN r.lists ELSE tabLists
    /\ UNCHANGED <<order, lists, page, filter, lens, picked, calls, disturbed, gestures, others>>

GridNext ==
    \/ \E s \in Range(Registered), n \in 1..Len(Registered) : DragCard(s, n) \/ DragShelf(s, n)
    \/ \E q \in QueueIds, k \in AllKeys, n \in 1..Len(TitleOrder) : DragTile(q, k, n)
    \/ \E from, to \in QueueIds, k \in AllKeys, n \in 1..Len(TitleOrder) : DragPoster(from, to, k, n)
    \/ \E q \in QueueIds, k \in AllKeys : \E p \in {"top", "bottom"} : PickHit(q, k, p)
    \/ \E q \in QueueIds, k \in AllKeys : RemoveTile(q, k) \/ ToggleSelect(q, k)
    \/ \E q \in QueueIds : RemoveCompleted(q) \/ MoveSelection(q)
    \/ RemoveSelection
    \/ \E l \in Lenses, f \in Filters : LookThrough(l, f)
    \/ \E c \in calls : Lands(c) \/ CallFails(c)
    \/ \E s \in Range(Registered), q \in QueueIds, k \in AllKeys : OtherWrites(s, q, k)
    \/ \E h \in {"sets", "queues"} : Fetch(h)
    \/ \E r \in reads : Commits(r)

GridSpec == GridInit /\ [][GridNext]_gridVars

(***************************************************************************)
(* Properties                                                              *)
(***************************************************************************)
\* A drop on the landing, whatever group or provider filters it, and a drop on a strip move
\* what was dragged and nothing else (useRowReorder.ts: the hidden cards never move).
DropsMoveOne == disturbed \cap {"landing", "strip"} = {}

\* The same of a queue's grid, whose filter "only ever narrows what is already here"
\* (QueueView.tsx): a drop there would keep the hidden entries where they are.
FilterOnlyNarrows == "grid" \notin disturbed
==============================================================================
