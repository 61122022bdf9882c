---------------------------- MODULE LatestWins ----------------------------
(***************************************************************************)
(* What the session promises about commands that arrive on top of each     *)
(* other: a start is live from the moment it arrives until it returns or a *)
(* newer one arrives, and a start that was superseded never becomes live   *)
(* again (session.ts, _activeCancel).                                      *)
(***************************************************************************)
CONSTANTS
    Starts,  \* the start commands
    NoStart  \* none has arrived

VARIABLES
    newest,  \* the start that arrived last
    stage    \* "waiting" | "live" | "superseded" | "over"

Init ==
    /\ newest = NoStart
    /\ stage = [s \in Starts |-> "waiting"]

\* s arrives and takes over; `to` is "over" when it is refused at once.
Arrive(s, to) ==
    /\ stage[s] = "waiting"
    /\ newest' = s
    /\ stage' = [r \in Starts |-> IF r = s THEN to
                                  ELSE IF stage[r] = "live" THEN "superseded"
                                  ELSE stage[r]]

Return(s) ==
    /\ stage[s] \in {"live", "superseded"}
    /\ stage' = [stage EXCEPT ![s] = "over"]
    /\ UNCHANGED newest

Next == \E s \in Starts : Arrive(s, "live") \/ Arrive(s, "over") \/ Return(s)

Spec == Init /\ [][Next]_<<newest, stage>>
=============================================================================
