---------------------------- MODULE MCQueueStore ----------------------------
(* Instances of QueueStore for TLC.                                        *)
EXTENDS QueueStore

CONSTANTS w1, w2, w3, server, tool, movies, later, k1, k2

\* Calls of the server, and one of another process.
OwnProcess == [w \in Writers |-> IF w = w2 THEN tool ELSE server]

Plain(key)    == NewEntry(key)
Done(key, at) == [NewEntry(key) EXCEPT !.done = TRUE, !.at = at]

\* Lists that overlap in a key, with an entry that is done.
Shelves == [set \in Sets |-> IF set = movies THEN <<Plain(k1), Done(k2, 1)>> ELSE <<Plain(k2)>>]
Startup == {Shelves}

On(set, key) == [set |-> set, key |-> key]
Op(kind, items, set, order, nr) ==
    [kind |-> kind, items |-> items, set |-> set, order |-> order, nr |-> nr]

EveryKind == {
    Op("add", <<On(later, k1)>>, later, << >>, 1),
    Op("remove", <<On(movies, k1), On(later, k2)>>, movies, << >>, 0),
    Op("removeCompleted", << >>, movies, << >>, 0),
    Op("sweep", << >>, movies, << >>, 1),
    Op("reorder", << >>, movies, <<k2>>, 0),
    Op("move", <<On(movies, k1)>>, later, <<k1>>, 0),
    Op("moveBulk", <<On(movies, k1), On(movies, k2)>>, later, << >>, 0),
    Op("markDone", <<On(movies, k1), On(movies, k2)>>, movies, << >>, 2),
    Op("clearDone", <<On(movies, k2)>>, movies, << >>, 0),
    Op("rewrite", <<On(later, k2)>>, later, << >>, 2),
    Op("deleteSet", << >>, later, << >>, 0)}

=============================================================================
