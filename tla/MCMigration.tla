----------------------------- MODULE MCMigration ----------------------------
(* Instances of EntryMigration for TLC.                                   *)
EXTENDS EntryMigration, TLC

(* Files of two lines in every spelling an entry has had. *)
Entry(mapping, key, coll, title) ==
    [set |-> "films", mapping |-> mapping, key |-> key, coll |-> coll, title |-> title, rest |-> "r0"]
Text(name, prefix, hint) == [name |-> name, prefix |-> prefix, hint |-> hint]
SomeLines ==
    { Entry(FALSE, None, None, Text("duel", FALSE, TRUE)), Entry(TRUE, None, None, Text("duel", FALSE, FALSE)),
      Entry(TRUE, None, None, Text("lost", FALSE, FALSE)), Entry(FALSE, "1", None, None),
      Entry(TRUE, "2", None, Text("saga", TRUE, FALSE)), Entry(FALSE, "2", None, None),
      Entry(TRUE, None, None, Text("saga", TRUE, TRUE)), Entry(FALSE, None, None, Text("saga", TRUE, FALSE)),
      Entry(TRUE, None, [name |-> "saga", hint |-> FALSE], None),
      [Entry(FALSE, None, None, Text("duel", FALSE, FALSE)) EXCEPT !.set = "books"],
      Entry(TRUE, None, None, None) }
SomeFiles == {<<a, b>> : a \in SomeLines, b \in SomeLines}
LibraryKeys == [duel |-> "1", lost |-> None, saga |-> None]
LibraryCaptions == "1" :> Text("duel", FALSE, FALSE) @@ "2" :> Text("saga", TRUE, FALSE)
=============================================================================
