----------------------------- MODULE PendingDesk -----------------------------
(***************************************************************************)
(* The Pending screen (PendingView.tsx) and the file behind it             *)
(* (pending.ts, routes/pendingRoutes.ts).                                  *)
(*                                                                         *)
(* Requests are concurrent: the server reads and writes pending.yaml in    *)
(* two steps without a lock, and answers arrive in any order.  A request   *)
(* is a record whose stage goes sent, read, answered or failed; a person   *)
(* dismisses one thing at a time and no box meanwhile, while boxes may be  *)
(* clicked faster than the server answers.                                 *)
(***************************************************************************)
EXTENDS PendingRule

CONSTANTS
    Worlds,    \* what the libraries and the sets may hold when the screen opens
    MaxClicks  \* bound: gestures in a behaviour

ASSUME WorldsAssumption == \A w \in Worlds : IsWorld(w)

VARIABLES
    world,     \* libraries, collections and sets; adding to a queue changes it
    file,      \* pending.yaml: seenThrough, dismissed, libraries
    requests,  \* in flight, each with its number
    screen,    \* phase and items of the list, the boxes, the newest read's number, whether it came
    picks,     \* the items a start episode is chosen for
    begun,     \* the start episodes written to queues: pairs <<queue, item>>
    clicks     \* gestures so far

pendingVars == <<world, file, requests, screen, picks, begun, clicks>>

Now == 9  \* later than anything that has arrived

Queues == {s \in DOMAIN world.sets : world.sets[s].source = "queue"}

NewFile == [seenThrough |-> 0, dismissed |-> {}, libraries |-> Unchosen]

PendingInit ==
    /\ world \in Worlds /\ file = NewFile /\ requests = {}
    /\ screen = [phase |-> "closed", items |-> {}, drawn |-> FALSE, boxes |-> {}, isDefault |-> TRUE,
                  read |-> 0, shown |-> FALSE]
    /\ picks = {} /\ begun = {} /\ clicks = 0

Request(op, arg) ==
    [n |-> 1 + Max({0} \cup {r.n : r \in requests}), op |-> op, arg |-> arg, stage |-> "sent",
     seen |-> NewFile, answer |-> {}]
Send(op, arg) == requests' = requests \cup {Request(op, arg)}

Writers == {"libraries", "dismiss", "seen"}
Waiting(ops) == \E r \in requests : r.op \in ops

\* A gesture of the person; the screen has been opened.
Click == clicks < MaxClicks /\ clicks' = clicks + 1
Shows(item) == screen.phase = "listed" /\ item \in screen.items

\* load: the answer to any read but the newest is dropped.
Loading == [screen EXCEPT !.phase = "loading", !.items = {}, !.read = @ + 1, !.shown = FALSE]

IsNewest(r) == r.arg = screen.read

OpenView ==
    /\ Click /\ screen' = Loading /\ Send("read", screen.read + 1)
    /\ UNCHANGED <<world, file, picks, begun>>

\* A box is ticked or cleared, from the boxes as they are now, or the choice is dropped.
\* Boxes may be clicked as fast as one likes, but not while something is dismissed.
ChooseLibraries(next) ==
    /\ Click /\ screen.drawn /\ ~Waiting({"dismiss", "seen"})
    /\ screen' = [screen EXCEPT !.boxes = IF next = Unchosen THEN @ ELSE next,
                                !.isDefault = next = Unchosen]
    /\ Send("libraries", next)
    /\ UNCHANGED <<world, file, picks, begun>>

Toggled(box) == IF box \in screen.boxes THEN screen.boxes \ {box} ELSE screen.boxes \cup {box}

Toggle(box) == world.libs[box].kind \in {"movie", "show"} /\ ChooseLibraries(Toggled(box))
BackToDefault == ~screen.isDefault /\ ChooseLibraries(Unchosen)

\* The item leaves the screen with the click; one thing is dismissed at a time.
Dismiss(item) ==
    /\ Click /\ Shows(item) /\ ~Waiting(Writers)
    /\ screen' = [screen EXCEPT !.items = @ \ {item}]
    /\ Send("dismiss", item)
    /\ UNCHANGED <<world, file, picks, begun>>

MarkAllSeen ==
    /\ Click /\ screen.phase = "listed" /\ screen.items # {} /\ ~Waiting(Writers)
    /\ screen' = [screen EXCEPT !.items = {}]
    /\ Send("seen", Now)
    /\ UNCHANGED <<world, file, picks, begun>>

\* A start is chosen here and written by the add.
PickStart(item) ==
    /\ Click /\ Shows(item) /\ item \in DOMAIN world.items
    /\ world.libs[world.items[item].sec].kind = "show"
    /\ picks' = IF item \in picks THEN picks \ {item} ELSE picks \cup {item}
    /\ UNCHANGED <<world, file, requests, screen, begun>>

SectionOf(item) == IF item \in DOMAIN world.items THEN world.items[item].sec ELSE world.colls[item].sec

\* Only the queues that draw from the item's library are offered.
AddTo(item, queue) ==
    /\ Click /\ Shows(item) /\ SectionOf(item) \in Range(world.sets[queue].sections)
    /\ Send("add", [item |-> item, queue |-> queue, start |-> item \in picks])
    /\ UNCHANGED <<world, file, screen, picks, begun>>

(***************************************************************************)
(* The server                                                              *)
(***************************************************************************)
Moves(r, fields) == requests' = (requests \ {r}) \cup {fields}
Answers(r, answer) == Moves(r, [r EXCEPT !.stage = "answered", !.answer = answer])

ReadState(r) ==
    /\ r.stage = "sent" /\ r.op \in Writers \cup {"read"}
    /\ Moves(r, [r EXCEPT !.stage = "read", !.seen = file])
    /\ UNCHANGED <<world, file, screen, picks, begun, clicks>>

\* setLibraries, dismiss, markSeen: what was read, with the one change.
Written(r) ==
    CASE r.op = "libraries" -> [r.seen EXCEPT !.libraries = r.arg]
      [] r.op = "dismiss"   -> [r.seen EXCEPT !.dismissed = @ \cup {r.arg}]
      [] r.op = "seen"      -> [r.seen EXCEPT !.seenThrough = r.arg]

WriteState(r) ==
    /\ r.stage = "read" /\ r.op \in Writers
    /\ file' = Written(r) /\ Answers(r, "ok")
    /\ UNCHANGED <<world, screen, picks, begun, clicks>>

\* GET /pending: the boxes it sends are what the screen drew from, not what is stored.
List(r) ==
    /\ r.stage = "read" /\ r.op = "read"
    /\ Answers(r, [items |-> PendingItems(world, r.seen),
                   boxes |-> SelectedLibraries(world.libs, r.seen.libraries),
                   isDefault |-> r.seen.libraries = Unchosen])
    /\ UNCHANGED <<world, file, screen, picks, begun, clicks>>

EntryFor(item) ==
    IF item \in DOMAIN world.colls
    THEN [kind |-> "collection", key |-> 0, name |-> world.colls[item].name, title |-> "", year |-> 0, guid |-> 0]
    ELSE [kind |-> "key", key |-> item, name |-> "", title |-> "", year |-> 0, guid |-> 0]

\* POST items answers whether the queue named the item already, by whatever spelling.
Add(r) ==
    LET set == world.sets[r.arg.queue]
        isNew == \A e \in set.entries : PlaysEntry(e, set, world) # PlaysEntry(EntryFor(r.arg.item), set, world)
    IN
    /\ r.op = "add" /\ r.stage = "sent"
    /\ world' = IF isNew THEN [world EXCEPT !.sets[r.arg.queue].entries = @ \cup {EntryFor(r.arg.item)}]
                ELSE world
    /\ Answers(r, IF isNew THEN "added" ELSE "present")
    /\ UNCHANGED <<file, screen, picks, begun, clicks>>

WriteStart(r) ==
    /\ r.op = "start" /\ r.stage = "sent"
    /\ begun' = begun \cup {<<r.arg.queue, r.arg.item>>}
    /\ Answers(r, "ok")
    /\ UNCHANGED <<world, file, screen, picks, clicks>>

Fails(r) ==
    /\ r.stage \in {"sent", "read"} /\ Moves(r, [r EXCEPT !.stage = "failed"])
    /\ UNCHANGED <<world, file, screen, picks, begun, clicks>>

(***************************************************************************)
(* The answers                                                             *)
(***************************************************************************)
Settled(r) == r.stage \in {"answered", "failed"}
Done(r) == requests' = requests \ {r}
Reload(r) == screen' = Loading /\ requests' = (requests \ {r}) \cup {Request("read", screen.read + 1)}

ShowList(r) ==
    /\ r.op = "read" /\ Settled(r) /\ Done(r)
    /\ screen' = IF ~IsNewest(r) THEN screen
                 ELSE IF r.stage = "failed" THEN [screen EXCEPT !.phase = "listed", !.items = {}]
                 ELSE [screen EXCEPT !.phase = "listed", !.items = r.answer.items, !.drawn = TRUE,
                                     !.boxes = r.answer.boxes, !.isDefault = r.answer.isDefault,
                                     !.shown = TRUE]
    /\ UNCHANGED <<world, file, picks, begun, clicks>>

\* Well or not, the boxes are read again.
LibrariesAnswered(r) ==
    /\ r.op = "libraries" /\ Settled(r) /\ Reload(r)
    /\ UNCHANGED <<world, file, picks, begun, clicks>>

DismissAnswered(r) ==
    /\ r.op \in {"dismiss", "seen"} /\ Settled(r)
    /\ IF r.stage = "failed" THEN Reload(r) ELSE Done(r) /\ UNCHANGED screen
    /\ UNCHANGED <<world, file, picks, begun, clicks>>

\* The item is covered now and leaves the screen; the list may be loading meanwhile.
Leaves(item) ==
    /\ screen' = [screen EXCEPT !.phase = "listed", !.items = @ \ {item}]
    /\ picks' = picks \ {item}

AddAnswered(r) ==
    /\ r.op = "add" /\ Settled(r)
    /\ IF r.stage = "failed" THEN Done(r) /\ UNCHANGED <<screen, picks>>
       ELSE IF r.answer = "added" /\ r.arg.start
       THEN Moves(r, Request("start", r.arg)) /\ UNCHANGED <<screen, picks>>
       ELSE Done(r) /\ Leaves(r.arg.item)
    /\ UNCHANGED <<world, file, begun, clicks>>

StartAnswered(r) ==
    /\ r.op = "start" /\ Settled(r) /\ Done(r)
    /\ IF r.stage = "failed" THEN UNCHANGED <<screen, picks>> ELSE Leaves(r.arg.item)
    /\ UNCHANGED <<world, file, begun, clicks>>

Gestures ==
    \/ OpenView \/ BackToDefault \/ MarkAllSeen
    \/ \E box \in DOMAIN world.libs : Toggle(box)
    \/ \E item \in DOMAIN world.items \cup DOMAIN world.colls :
        Dismiss(item) \/ PickStart(item) \/ \E queue \in Queues : AddTo(item, queue)

Serves(r) == ReadState(r) \/ WriteState(r) \/ List(r) \/ Add(r) \/ WriteStart(r) \/ Fails(r)
Delivers(r) ==
    ShowList(r) \/ LibrariesAnswered(r) \/ DismissAnswered(r) \/ AddAnswered(r) \/ StartAnswered(r)

PendingNext == Gestures \/ \E r \in requests : Serves(r) \/ Delivers(r)

PendingSpec == PendingInit /\ [][PendingNext]_pendingVars

(***************************************************************************)
(* Properties                                                              *)
(***************************************************************************)
\* Nothing on the list is going to be played by anything: not by a queue that names it by
\* key, by collection or by a title Plex resolves, although titles are only resolved when a
\* cheap test says they may matter (pending.ts couldName), and not by a pool's rule.
ListedIsUnplayed ==
    \A r \in requests :
        r.op = "read" /\ r.stage = "read" => PendingItems(world, r.seen) \cap WillPlay(world) = {}

\* However boxes are ticked while reads and writes overlap and fail, once nothing is in
\* flight and the newest read was shown the boxes are the server's (PendingView.tsx
\* loadTicket, chooseLibraries).
BoxesAreTheServers ==
    requests = {} /\ screen.shown =>
        /\ screen.boxes = SelectedLibraries(world.libs, file.libraries)
        /\ screen.isDefault = (file.libraries = Unchosen)

\* Both: what the screen shows once it has come to rest is what the server would answer, and
\* none of it is played already.
PendingIsHonest == ListedIsUnplayed /\ BoxesAreTheServers
=============================================================================
