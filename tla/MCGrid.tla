-------------------------------- MODULE MCGrid ------------------------------
(* Instances of GridEdits for TLC.                                        *)
EXTENDS GridEdits, TLC

(* Two queues and a set without one. *)
FileOrder == <<"queue", "second", "feed">>
FileLists == "queue" :> <<"a", "b", "c">> @@ "second" :> <<"b">>
ByName    == <<"c", "a", "b">>
GroupFilters == {{"queue", "second", "feed"}, {"queue", "feed"}}
GridLenses == {[passes |-> {"a", "b", "c"}, sorted |-> FALSE], [passes |-> {"a", "c"}, sorted |-> FALSE],
               [passes |-> {"a", "b", "c"}, sorted |-> TRUE]}
DoneKeys == {"b"}
=============================================================================
