----------------------------- MODULE AtomicStore -----------------------------
(***************************************************************************)
(* What the queue store promises its callers: an operation takes effect at *)
(* one moment and as a whole, on what the operations before it have left,  *)
(* or it is refused and has no effect (queues.ts, withLock).               *)
(***************************************************************************)
CONSTANTS
    Writers,       \* the calls that may be made
    Ops,           \* the operations they may be
    Files,         \* the contents there may be at first
    Apply(_, _),   \* what an operation does to the contents
    NoOp           \* not called yet

VARIABLES
    content,  \* the contents of the store
    op,       \* the operation of each call
    result    \* "none" | "applied" | "refused"

Init ==
    /\ content \in Files
    /\ op = [w \in Writers |-> NoOp]
    /\ result = [w \in Writers |-> "none"]

Call(w) ==
    /\ op[w] = NoOp
    /\ \E o \in Ops : op' = [op EXCEPT ![w] = o]
    /\ UNCHANGED <<content, result>>

Waiting(w) == op[w] # NoOp /\ result[w] = "none"

Serve(w) ==
    /\ Waiting(w)
    /\ content' = Apply(op[w], content)
    /\ result' = [result EXCEPT ![w] = "applied"]
    /\ UNCHANGED op

\* A call gives up, or the process that made a group of them dies.
Refuse(group) ==
    /\ \A w \in group : Waiting(w)
    /\ result' = [w \in Writers |-> IF w \in group THEN "refused" ELSE result[w]]
    /\ UNCHANGED <<content, op>>

Next ==
    \/ \E w \in Writers : Call(w) \/ Serve(w)
    \/ \E group \in SUBSET Writers : Refuse(group)

Spec == Init /\ [][Next]_<<content, op, result>>
=============================================================================
