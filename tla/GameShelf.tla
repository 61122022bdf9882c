----------------------------- MODULE GameShelf -----------------------------
(***************************************************************************)
(* A queue of games, opened by a link: the lineup of the three providers   *)
(* whose unit is a play (board-game-picker.ts, steam.ts, mister.ts), the   *)
(* stamp that says since when plays count (pullLineup.ts, queues.ts        *)
(* stampQueuedAt), the tiles (providers/tiles.ts) and the library Steam's  *)
(* client remembers (steam-client.ts).                                     *)
(*                                                                         *)
(* External: the picker's log, Steam's last session, Home Assistant, which *)
(* marks a MiSTer game done when it closes.  Times are of one clock.       *)
(***************************************************************************)
EXTENDS Integers, Sequences, SequencesExt, FiniteSets, Sublist

CONSTANTS
    Games,     \* the queue, in the order of the file
    Owes,      \* per game: how many plays its entry owes ("episodes")
    PerOpen,   \* how many of them one Open takes (the set's "episodes")
    Kinds,     \* the providers a queue may be of: "picker", "steam", "mister"
    Tabs,      \* whoever follows the link
    MaxTime,   \* bound: the clock
    MaxOpens,  \* bound: links followed
    MaxLost    \* bound: games that leave the shelf

GameSet == Range(Games)

ASSUME GameAssumption == Games \in Seq(GameSet) /\ Owes \in [GameSet -> Nat]

VARIABLES
    kind,    \* the queue's provider
    clock,
    log,     \* per game: when it was played, before the queue and since
    owned,   \* the games on the shelf
    queued,  \* the games with an entry in the file
    stamp,   \* per game: its entry's queued_at, or 0
    done,    \* the entries tagged done
    memo,    \* Steam's library as the client remembers it, or NoMemo
    open,    \* per tab: the launch at work
    opens,
    since,   \* history, per game: when a launch first came upon its entry
    card     \* history: the last launch that answered, or NoCard

gameVars == <<kind, clock, log, owned, queued, stamp, done, memo, open, opens, since, card>>

NoMemo == [known |-> FALSE, last |-> [g \in GameSet |-> 0], owned |-> {}]
NoOpen == [step |-> "none", todo |-> << >>, refs |-> << >>]
NoCard == [passed |-> {}, taken |-> << >>]

Latest(times) == IF times = {} THEN 0 ELSE CHOOSE t \in times : \A u \in times : u <= t

(***************************************************************************)
(* What an entry still owes                                                *)
(***************************************************************************)
Ref(g, at) == [id |-> g, batch |-> Owes[g], queuedAt |-> at]

\* The picker is asked for the plays since the stamp: with none, for all there are.
PlayedOnPicker(r) == Cardinality({t \in log[r.id] : r.queuedAt = 0 \/ t >= r.queuedAt})

\* Steam knows one session, the last: with no stamp, none counts.
PlayedOnSteam(r, library) ==
    IF r.queuedAt > 0 /\ library.last[r.id] > r.queuedAt THEN 1 ELSE 0

OwedBy(r) == IF kind = "picker" THEN r.batch ELSE 1

\* entryState; nothing of a MiSTer game is known but that it is waiting.
EntryState(r, library) ==
    LET played == CASE kind = "picker" -> PlayedOnPicker(r)
                    [] kind = "steam"  -> PlayedOnSteam(r, library)
                    [] OTHER           -> 0
        left   == OwedBy(r) - played
    IN  [id |-> r.id, played |-> played, remaining |-> IF left > 0 THEN left ELSE 0]

IsThere(r, library) ==
    CASE kind = "picker" -> r.id \in owned
      [] kind = "steam"  -> r.id \in library.owned
      [] OTHER           -> TRUE

\* The lineup is the head's: as many of its plays as one Open takes.
HeadOf(states) ==
    LET waiting == {n \in DOMAIN states : states[n].remaining > 0}
    IN  IF waiting = {} THEN 0 ELSE CHOOSE n \in waiting : \A k \in waiting : n <= k
TakenOf(state) ==
    LET take == IF kind = "picker" /\ PerOpen < state.remaining THEN PerOpen ELSE state.remaining
    IN  [n \in 1..(IF kind = "picker" THEN take ELSE 1) |-> state.played + n]

(***************************************************************************)
(* Opening the queue                                                       *)
(***************************************************************************)
Listed == Picked(Games, {n \in DOMAIN Games : Games[n] \in queued \ done})

\* curatedEntries, until the file is read.
Follow(t) ==
    /\ open[t] = NoOpen /\ opens < MaxOpens /\ opens' = opens + 1
    /\ open' = [open EXCEPT ![t] = [step |-> "stamp", refs |-> << >>,
                    todo |-> [n \in DOMAIN Listed |-> Ref(Listed[n], stamp[Listed[n]])]]]
    /\ since' = [g \in GameSet |-> IF g \in Range(Listed) /\ since[g] = 0 THEN clock ELSE since[g]]
    /\ UNCHANGED <<kind, clock, log, owned, queued, stamp, done, memo, card>>

\* Unstamped is wrong on purpose: what has no stamp is left without.
Unstamped(r) == r.queuedAt

\* stampQueuedAt, under the file's lock: the first stamp stands; no entry, no stamp.
StampOf(r) ==
    IF r.queuedAt > 0 \/ kind = "mister" THEN r.queuedAt
    ELSE IF r.id \notin queued THEN 0
    ELSE IF stamp[r.id] > 0 THEN stamp[r.id] ELSE clock

StampNext(t) ==
    /\ open[t].step = "stamp" /\ open[t].todo # << >>
    /\ LET r  == Head(open[t].todo)
           at == StampOf(r)
       IN  /\ stamp' = IF r.id \in queued /\ stamp[r.id] = 0 THEN [stamp EXCEPT ![r.id] = at] ELSE stamp
           /\ open' = [open EXCEPT ![t] = [step |-> "stamp", todo |-> Tail(open[t].todo),
                                           refs |-> Append(open[t].refs, Ref(r.id, at))]]
    /\ UNCHANGED <<kind, clock, log, owned, queued, done, memo, opens, since, card>>

\* The library is asked for once in a while (LIBRARY_TTL_MS), and remembered.
Library == IF memo # NoMemo THEN memo
           ELSE [known |-> TRUE, last |-> [g \in GameSet |-> Latest(log[g])], owned |-> owned]

\* The entries are looked up, the picker's one by one, and a refusal drops the entry alone.
\* launchDescriptor: a card for the head, or nothing left; a MiSTer game is named, not opened.
Answer(t) ==
    /\ open[t].step = "stamp" /\ open[t].todo = << >>
    /\ \E refused \in IF kind = "picker" THEN {{g} : g \in GameSet} \cup {{}} ELSE {{}, GameSet} :
         LET asked  == open[t].refs
             refs   == Picked(asked, {n \in DOMAIN asked : /\ IsThere(asked[n], Library)
                                                            /\ asked[n].id \notin refused})
             states == [n \in DOMAIN refs |-> EntryState(refs[n], Library)]
             head   == HeadOf(states)
             ahead  == IF head = 0 THEN DOMAIN states ELSE 1..(head - 1)
         IN  /\ card' = [passed |-> {states[n].id : n \in ahead},
                         taken |-> IF head = 0 THEN << >> ELSE TakenOf(states[head])]
             /\ memo' = IF kind = "steam" /\ refused = {} /\ refs # << >> THEN Library ELSE memo
    /\ open' = [open EXCEPT ![t] = NoOpen]
    /\ UNCHANGED <<kind, clock, log, owned, queued, stamp, done, opens, since>>

(***************************************************************************)
(* Everybody else                                                          *)
(***************************************************************************)
\* A session ends and is logged; a MiSTer game that closes is marked done by Home Assistant.
Play(g) ==
    /\ g \in owned /\ clock < MaxTime /\ clock' = clock + 1
    /\ log' = [log EXCEPT ![g] = @ \cup {clock + 1}]
    /\ done' = IF kind = "mister" /\ g \in queued THEN done \cup {g} ELSE done
    /\ UNCHANGED <<kind, owned, queued, stamp, memo, open, opens, since, card>>

\* Time passes; the remembered library gets old.
Forget ==
    /\ memo.known /\ clock < MaxTime /\ clock' = clock + 1 /\ memo' = NoMemo
    /\ UNCHANGED <<kind, log, owned, queued, stamp, done, open, opens, since, card>>

\* What was answered of an entry that is gone says nothing of the next one.
Without(g) == [card EXCEPT !.passed = @ \ {g}]

Unqueue(g) ==
    /\ g \in queued /\ queued' = queued \ {g}
    /\ stamp' = [stamp EXCEPT ![g] = 0] /\ done' = done \ {g} /\ since' = [since EXCEPT ![g] = 0]
    /\ UNCHANGED <<kind, clock, log, owned, memo, open, opens, card>>

\* Queued again it is a new entry, without a stamp (bound: not while a launch is at work).
Requeue(g) ==
    /\ g \notin queued /\ queued' = queued \cup {g}
    /\ \A t \in Tabs : open[t] = NoOpen
    /\ card' = Without(g)
    /\ UNCHANGED <<kind, clock, log, owned, stamp, done, memo, open, opens, since>>

Lose(g) ==
    /\ Cardinality(GameSet \ owned) < MaxLost /\ owned' = owned \ {g}
    /\ UNCHANGED <<kind, clock, log, queued, stamp, done, memo, open, opens, since, card>>

GameInit ==
    /\ kind \in Kinds /\ clock = 2
    /\ log \in [GameSet -> SUBSET {1}] /\ owned = GameSet /\ queued = GameSet
    /\ stamp = [g \in GameSet |-> 0] /\ since = stamp /\ done = {} /\ memo = NoMemo
    /\ open = [t \in Tabs |-> NoOpen] /\ opens = 0 /\ card = NoCard

GameNext ==
    \/ \E t \in Tabs : Follow(t) \/ StampNext(t) \/ Answer(t)
    \/ \E g \in GameSet : Play(g) \/ Unqueue(g) \/ Requeue(g) \/ Lose(g)
    \/ Forget

GameSpec == GameInit /\ [][GameNext]_gameVars

(***************************************************************************)
(* Properties                                                              *)
(***************************************************************************)
\* The tile of an entry: what is left, asked with the entry's stamp as the file has it.
TileOf(g) == EntryState(Ref(g, stamp[g]), Library)

\* A game the launch passes over has been played as often as its entry owes since a launch
\* first came upon it, whatever was played of it before it was queued ("not 'since the
\* beginning of time', which on a lifetime play log means already finished", pullLineup.ts).
PassedOverWasPlayed ==
    \A g \in card.passed \cap queued : since[g] > 0 =>
        Cardinality({t \in log[g] : t >= since[g]}) >= OwedBy(Ref(g, 0))

\* "Progress is counted from queued_at, never from playCount: Wingspan at twenty lifetime
\* plays would be finished the instant it was queued" (board-game-picker.ts): the tile of a
\* game no launch came upon has plays left.
NotFinishedWhenQueued ==
    \A g \in queued \cap owned : since[g] = 0 => TileOf(g).remaining > 0
============================================================================
