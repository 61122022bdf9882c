------------------------------ MODULE QueueDoc ------------------------------
(***************************************************************************)
(* What the operations of queues.ts do to the contents of queues.yaml: an  *)
(* ordered list of entries per set.  The module is pure; QueueStore says   *)
(* when an operation reads and writes the file.                            *)
(*                                                                         *)
(* An entry is its key, its done flag with the time of it (0: none, as in  *)
(* a flag set by hand), and `weight`, which stands for every field that    *)
(* overrides something for the entry.  A set that has no list and one that *)
(* has an empty list are the same here, and no list has a key twice, which *)
(* only an edit by hand could bring about.                                 *)
(***************************************************************************)
EXTENDS Integers, SequencesExt, Sublist

CONSTANTS
    Sets,   \* the sets that have a list in the file
    Keys    \* entry keys

Entry == {e \in [key : Keys, done : BOOLEAN, at : Nat, weight : Nat \ {0}] : e.at # 0 => e.done}
Doc   == [Sets -> Seq(Entry)]

Item  == [set : Sets, key : Keys]
Kinds == {"add", "remove", "removeCompleted", "sweep", "reorder", "move", "moveBulk",
          "markDone", "clearDone", "rewrite", "deleteSet"}

\* An operation: the entries it is about, the set it is about or moves to, the order
\* it asks for, and a number: a time, a weight, or where to add (0: on top).
Operation ==
    {o \in [kind : Kinds, items : Seq(Item), set : Sets, order : Seq(Keys), nr : Nat] :
        /\ o.kind \in {"add", "move"} => o.items # << >>
        /\ o.kind = "rewrite" => o.nr # 0}

KeysIn(seq)        == {seq[i].key : i \in DOMAIN seq}
PlacesOf(seq, keys) == {i \in DOMAIN seq : seq[i].key \in keys}
Having(seq, keys)  == Picked(seq, PlacesOf(seq, keys))
Without(seq, keys) == Picked(seq, DOMAIN seq \ PlacesOf(seq, keys))
Find(seq, key)     == Head(Having(seq, {key}))
KeysOf(items)      == {i.key : i \in ToSet(items)}

\* f applied to the entries of a list that have one of these keys.
Change(seq, keys, f(_)) == [i \in DOMAIN seq |-> IF seq[i].key \in keys THEN f(seq[i]) ELSE seq[i]]

NewEntry(key) == [key |-> key, done |-> FALSE, at |-> 0, weight |-> 1]

\* addItem: an entry that is there already stays where it is.
Add(doc, set, key, nr) ==
    IF key \in KeysIn(doc[set]) THEN doc
    ELSE [doc EXCEPT ![set] = IF nr = 0 THEN Cons(NewEntry(key), @) ELSE Append(@, NewEntry(key))]

\* removeItem and removeBulk.
RemoveItems(doc, items) ==
    [set \in Sets |-> Without(doc[set], {i.key : i \in {j \in ToSet(items) : j.set = set}})]

RemoveCompleted(doc, set) == [doc EXCEPT ![set] = Picked(@, {i \in DOMAIN @ : ~@[i].done})]

IsAged(e, limit) == e.done /\ e.at # 0 /\ e.at <= limit

\* sweepCompleted: entries finished at `limit` or before; one with no time stays.
Sweep(doc, set, limit) ==
    [doc EXCEPT ![set] = Picked(@, {i \in DOMAIN @ : ~IsAged(@[i], limit)})]

\* The entries the order names, each where it names them last.
Named(seq, order) ==
    LET upTo[n \in 0..Len(order)] ==
            IF n = 0 THEN << >>
            ELSE IF \E m \in n + 1..Len(order) : order[m] = order[n] THEN upTo[n - 1]
            ELSE upTo[n - 1] \o Having(seq, {order[n]})
    IN  upTo[Len(order)]

\* NamedOnly is wrong on purpose: entries the order does not name are lost.
NamedOnly(seq, order) == Named(seq, order)

\* applyOrder: the entries named first, in that order; the others keep theirs.
ApplyOrder(seq, order) == Named(seq, order) \o Without(seq, ToSet(order))

\* TransferBlindly is wrong on purpose: it does not look for the key in the target.
TransferBlindly(doc, item, to) ==
    LET entry == Find(doc[item.set], item.key)
    IN  [doc EXCEPT ![item.set] = Without(@, {item.key}), ![to] = Append(@, entry)]

\* The entry leaves its list and joins the other one, unless it is there already.
Transfer(doc, item, to) ==
    LET entry == Find(doc[item.set], item.key)
        taken == [doc EXCEPT ![item.set] = Without(@, {item.key})]
    IN  IF item.key \in KeysIn(taken[to]) THEN taken
        ELSE [taken EXCEPT ![to] = Append(@, entry)]

Reorder(doc, set, order) == [doc EXCEPT ![set] = ApplyOrder(@, order)]

\* moveItem; within one set it is reorder.
Move(doc, item, to, order) ==
    IF item.set = to THEN Reorder(doc, to, order)
    ELSE IF item.key \notin KeysIn(doc[item.set]) THEN doc
    ELSE Reorder(Transfer(doc, item, to), to, order)

\* moveBulk: nothing is written unless an entry has reached the target list, so an
\* entry that was there already leaves its own list only in the company of another.
MoveBulk(doc, items, to) ==
    LET upTo[n \in 0..Len(items)] ==
            IF n = 0 THEN [doc |-> doc, moved |-> FALSE]
            ELSE LET acc  == upTo[n - 1]
                     item == items[n]
                 IN  IF item.set = to \/ item.key \notin KeysIn(acc.doc[item.set]) THEN acc
                     ELSE [doc   |-> Transfer(acc.doc, item, to),
                           moved |-> acc.moved \/ item.key \notin KeysIn(acc.doc[to])]
        end == upTo[Len(items)]
    IN  IF end.moved THEN end.doc ELSE doc

\* markDone: an entry with a done flag and a time keeps its time.
MarkDone(doc, set, keys, now) ==
    [doc EXCEPT ![set] = Change(@, keys, LAMBDA e :
        IF e.done /\ e.at # 0 THEN e ELSE [e EXCEPT !.done = TRUE, !.at = now])]

ClearDone(doc, set, keys) ==
    [doc EXCEPT ![set] = Change(@, keys, LAMBDA e : [e EXCEPT !.done = FALSE, !.at = 0])]

\* rewriteEntry, as setWeight calls it.
Rewrite(doc, set, keys, weight) ==
    [doc EXCEPT ![set] = Change(@, keys, LAMBDA e : [e EXCEPT !.weight = weight])]

DeleteSet(doc, set) == [doc EXCEPT ![set] = << >>]

\* The contents of the file after an operation.
Apply(op, doc) ==
    CASE op.kind = "add"             -> Add(doc, op.set, op.items[1].key, op.nr)
      [] op.kind = "remove"          -> RemoveItems(doc, op.items)
      [] op.kind = "removeCompleted" -> RemoveCompleted(doc, op.set)
      [] op.kind = "sweep"           -> Sweep(doc, op.set, op.nr)
      [] op.kind = "reorder"         -> Reorder(doc, op.set, op.order)
      [] op.kind = "move"            -> Move(doc, op.items[1], op.set, op.order)
      [] op.kind = "moveBulk"        -> MoveBulk(doc, op.items, op.set)
      [] op.kind = "markDone"        -> MarkDone(doc, op.set, KeysOf(op.items), op.nr)
      [] op.kind = "clearDone"       -> ClearDone(doc, op.set, KeysOf(op.items))
      [] op.kind = "rewrite"         -> Rewrite(doc, op.set, KeysOf(op.items), op.nr)
      [] op.kind = "deleteSet"       -> DeleteSet(doc, op.set)

\* Whether the operation writes the file: a new order and an override are written
\* whether they change anything or not.
Writes(op, doc) ==
    \/ Apply(op, doc) # doc
    \/ op.kind = "reorder" /\ doc[op.set] # << >>
    \/ op.kind = "move" /\ op.items[1].set = op.set /\ doc[op.set] # << >>
    \/ op.kind = "rewrite" /\ \E i \in ToSet(op.items) : i.key \in KeysIn(doc[i.set])

-----------------------------------------------------------------------------
(* What an operation may touch; used by the properties of QueueStore.      *)

\* The entries an operation may change or drop.
Addressed(op, doc) ==
    LET done == {[set |-> op.set, key |-> k] :
                   k \in {e.key : e \in {f \in ToSet(doc[op.set]) : f.done}}}
    IN  CASE op.kind \in {"sweep", "removeCompleted"} -> done
          [] op.kind = "deleteSet" -> [set : {op.set}, key : Keys]
          [] OTHER -> ToSet(op.items) \cup {[set |-> op.set, key |-> k] : k \in KeysOf(op.items)}

EntriesAt(doc, item) == Having(doc[item.set], {item.key})
=============================================================================
