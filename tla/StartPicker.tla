------------------------------ MODULE StartPicker ------------------------------
(***************************************************************************)
(* "Start from...": the window in which a person picks where an entry      *)
(* begins (StartModal.tsx, startPreset.ts, startCommit.ts), the write of   *)
(* it (queues.ts setStart) and how the engine reads it.                    *)
(*                                                                         *)
(* The window stays mounted between openings, so an answer asked for in    *)
(* an earlier one may land in a later one.  An episode is <<what, season,  *)
(* number>>, a film <<what, 0, 0>>; a start is the member it names, with   *)
(* the season and the episode of it, 0 for none.                           *)
(***************************************************************************)
EXTENDS Integers, Sequences, SequencesExt, FiniteSets, Sublist

CONSTANTS
    EpisodesOf,  \* per show, its playable episodes in order
    Members,     \* per collection, its members in order
    Holding,     \* what each entry of the queue is: a show or a collection
    Histories,   \* what may have been watched when the grid was fetched
    Stored,      \* the starts the file may hold at first, per entry
    NoSeries,    \* nothing: no start, no show, no entry
    MaxPicks     \* bound: openings, picks and saves

VARIABLES
    watchedHere,  \* what has been watched, as the grid knows it
    starts,       \* queues.yaml: the start of each entry
    tab,          \* the grid's copy of the starts
    form,         \* the window: its entry, and the state of its three pickers
    loads,        \* requests for children and episodes, each numbered
    saves,        \* starts on their way to the server
    told,         \* history: the last form that was saved
    pickGestures  \* so far; numbers the requests

startVars == <<watchedHere, starts, tab, form, loads, saves, told, pickGestures>>

StartEntries == DOMAIN Holding
Series   == DOMAIN EpisodesOf
NoStart == [series |-> NoSeries, season |-> 0, episode |-> 0]

(***************************************************************************)
(* The engine                                                              *)
(***************************************************************************)
MembersOf(e) == IF Holding[e] \in DOMAIN Members THEN Members[Holding[e]] ELSE <<Holding[e]>>
ItemsOf(member) == IF member \in Series THEN EpisodesOf[member] ELSE <<<<member, 0, 0>>>>

\* Taken for granted of the library: episodes are listed by season and number, both from 1;
\* specials, of season 0, only where a show has nothing else; a collection lists each of its
\* members once, and has one; a show without a playable episode is none here.
ASSUME StartAssumption ==
    /\ NoSeries \notin DOMAIN EpisodesOf \cup DOMAIN Holding
    /\ \A e \in DOMAIN Holding : Holding[e] \in DOMAIN EpisodesOf \cup DOMAIN Members
    /\ \A show \in DOMAIN EpisodesOf :
        /\ EpisodesOf[show] \in Seq({show} \X Nat \X (Nat \ {0})) /\ EpisodesOf[show] # << >>
        /\ \A n \in DOMAIN EpisodesOf[show] : \A k \in 1..n :
             LET ep == EpisodesOf[show][n] before == EpisodesOf[show][k] IN
             /\ before[2] < ep[2] \/ (before[2] = ep[2] /\ before[3] <= ep[3])
             /\ before[2] = 0 => ep[2] = 0
    /\ \A collection \in DOMAIN Members :
        /\ Members[collection] \in Seq(Range(Members[collection])) /\ IsInjective(Members[collection])
        /\ Members[collection] # << >> /\ NoSeries \notin Range(Members[collection])

\* What a start leaves out is the first.
OrFirst(n) == IF n = 0 THEN 1 ELSE n

AtOrAfterStart(ep, start) ==
    \/ start.episode = 0
    \/ ep[2] > OrFirst(start.season) \/ (ep[2] = OrFirst(start.season) /\ ep[3] >= OrFirst(start.episode))

\* startMemberIndex, 1 when the start names no member of it.
StartMember(e, start) ==
    IF start.series \in Range(MembersOf(e)) THEN CHOOSE n \in DOMAIN MembersOf(e) : MembersOf(e)[n] = start.series
    ELSE 1

IsStarted(e, start) == Holding[e] \notin DOMAIN Members \/ start.series \in Range(MembersOf(e))

\* What the entry plays next: the floor is that of the member the start names.
Upcoming(e, start, seen) ==
    LET Left(n) == Only(ItemsOf(MembersOf(e)[n]),
                        {ep \in Range(ItemsOf(MembersOf(e)[n])) :
                            /\ ep \notin seen
                            /\ n # StartMember(e, start) \/ ~IsStarted(e, start) \/ MembersOf(e)[n] \notin Series
                               \/ AtOrAfterStart(ep, start)})
        left == FlattenSeq([n \in DOMAIN MembersOf(e) |-> IF n < StartMember(e, start) THEN << >> ELSE Left(n)])
    IN  IF left = << >> THEN << >> ELSE <<left[1]>>

(***************************************************************************)
(* What the pickers are set to                                             *)
(***************************************************************************)
\* pickOptionValue.
Option(values, wanted) == IF wanted \in Range(values) THEN wanted ELSE values[1]

Seasons(show) == {ep[2] : ep \in Range(EpisodesOf[show])}
FirstSeason(show) == CHOOSE season \in Seasons(show) : \A other \in Seasons(show) : season <= other
Numbers(show, season) ==
    LET those == Only(EpisodesOf[show], {ep \in Range(EpisodesOf[show]) : ep[2] = season})
    IN  [n \in DOMAIN those |-> those[n][3]]

\* defaultStartPoint: the episode counts only in its own season.
DefaultStartPoint(show, preset) ==
    LET season == IF preset.season \in Seasons(show) THEN preset.season ELSE FirstSeason(show) IN
    [season  |-> season,
     episode |-> Option(Numbers(show, season),
                        IF preset.season \in {0, season} THEN preset.episode ELSE 0)]

Preset(ep) == [NoStart EXCEPT !.season = ep[2], !.episode = ep[3]]

\* StoredOnly is wrong on purpose: the member that plays next has no preset.
StoredOnly(start, next, member) == IF start.series = member THEN start ELSE NoStart

\* memberPreset: the stored start of this member, or where it plays next anyway.
MemberPreset(start, next, member) ==
    IF start.series = member THEN start
    ELSE IF next # << >> /\ next[1][1] = member THEN Preset(next[1]) ELSE NoStart

(***************************************************************************)
(* The window                                                              *)
(***************************************************************************)
Closed == [entry |-> NoSeries, start |-> NoStart, next |-> << >>, children |-> << >>, series |-> NoSeries,
           data |-> NoSeries, season |-> 0, episode |-> 0, shown |-> FALSE, loading |-> FALSE,
           touched |-> FALSE, asked |-> 0, late |-> FALSE]

StartInit ==
    /\ watchedHere \in Histories /\ starts \in Stored /\ tab = starts
    /\ form = Closed /\ loads = {} /\ saves = {} /\ pickGestures = 0
    /\ told = [entry |-> NoSeries, start |-> NoStart, from |-> NoStart, whole |-> FALSE, touched |-> FALSE]

PickerGesture == pickGestures < MaxPicks /\ pickGestures' = pickGestures + 1
IsCollection == form.entry # NoSeries /\ Holding[form.entry] \in DOMAIN Members

Load(what, key, preset) ==
    [n |-> pickGestures', what |-> what, key |-> key, preset |-> preset]

\* paintMember: a series asks for its episodes, a film has nothing more to pick.
Paints(member) ==
    IF member \in Series
    THEN [form EXCEPT !.series = member, !.shown = TRUE, !.loading = TRUE]
    ELSE [form EXCEPT !.series = member, !.shown = FALSE, !.data = NoSeries]

\* The pickers are emptied and what this entry needs is asked for.
Open(e) ==
    LET next == Upcoming(e, tab[e], watchedHere)
        blank == [Closed EXCEPT !.entry = e, !.start = tab[e], !.next = next, !.loading = form.loading,
                                   !.asked = pickGestures'] IN
    /\ form.entry = NoSeries /\ PickerGesture
    /\ IF Holding[e] \in DOMAIN Members
       THEN form' = blank /\ loads' = loads \cup {Load("children", Holding[e], NoStart)}
       ELSE /\ form' = [blank EXCEPT !.shown = TRUE, !.loading = TRUE]
            /\ loads' = loads \cup
                  {Load("episodes", Holding[e],
                        IF tab[e] # NoStart THEN tab[e] ELSE IF next = << >> THEN NoStart ELSE Preset(next[1]))}
    /\ UNCHANGED <<watchedHere, starts, tab, saves, told>>

Close ==
    /\ form.entry # NoSeries /\ form' = [form EXCEPT !.entry = NoSeries]
    /\ UNCHANGED <<watchedHere, starts, tab, loads, saves, told, pickGestures>>

PickSeries(member) ==
    /\ member \in Range(form.children) \ {form.series} /\ form.entry # NoSeries /\ PickerGesture
    /\ form' = [Paints(member) EXCEPT !.touched = TRUE, !.asked = pickGestures']
    /\ loads' = IF member \in Series
                THEN loads \cup {Load("episodes", member, MemberPreset(form.start, form.next, member))}
                ELSE loads
    /\ UNCHANGED <<watchedHere, starts, tab, saves, told>>

HasEpisodes == form.entry # NoSeries /\ form.shown /\ form.data # NoSeries

\* The episode goes to the season's first.
PickSeason(season) ==
    /\ HasEpisodes /\ season \in Seasons(form.data) \ {form.season} /\ PickerGesture
    /\ form' = [form EXCEPT !.season = season, !.episode = Numbers(form.data, season)[1], !.touched = TRUE]
    /\ UNCHANGED <<watchedHere, starts, tab, loads, saves, told>>

PickEpisode(number) ==
    /\ HasEpisodes /\ ~form.loading /\ PickerGesture
    /\ number \in Range(Numbers(form.data, form.season)) \ {form.episode}
    /\ form' = [form EXCEPT !.episode = number, !.touched = TRUE]
    /\ UNCHANGED <<watchedHere, starts, tab, loads, saves, told>>

\* loadEpisodes has come back: whoever asked, the pickers are set to it.
EpisodesLoaded(load) ==
    LET chosen == DefaultStartPoint(load.key, load.preset) IN
    /\ load.what = "episodes" /\ loads' = loads \ {load}
    /\ form' = [form EXCEPT !.loading = FALSE, !.data = load.key,
                            !.season = chosen.season, !.episode = chosen.episode,
                            !.late = load.n # form.asked]
    /\ UNCHANGED <<watchedHere, starts, tab, saves, told, pickGestures>>

EpisodesFailed(load) ==
    /\ load.what = "episodes" /\ loads' = loads \ {load}
    /\ form' = [form EXCEPT !.loading = FALSE, !.data = NoSeries, !.shown = FALSE]
    /\ UNCHANGED <<watchedHere, starts, tab, saves, told, pickGestures>>

\* The member the start names, or the one that plays next, or the first.
FirstMember(children) ==
    Option(children, IF form.start.series # NoSeries THEN form.start.series
                     ELSE IF form.next # << >> THEN form.next[1][1] ELSE NoSeries)

\* An opening that is over, or a failure, leaves the series unpicked.
ChildrenLoaded(load, answers) ==
    LET children == Members[load.key]
        chosen   == FirstMember(children)
        isStale  == form.entry = NoSeries \/ load.n # form.asked IN
    /\ load.what = "children"
    /\ IF isStale \/ ~answers THEN UNCHANGED form /\ loads' = loads \ {load}
       ELSE /\ form' = [Paints(chosen) EXCEPT !.children = children]
            /\ loads' = (loads \ {load}) \cup
                 (IF chosen \in Series
                  THEN {[load EXCEPT !.what = "episodes", !.key = chosen,
                                     !.preset = MemberPreset(form.start, form.next, chosen)]}
                  ELSE {})
    /\ UNCHANGED <<watchedHere, starts, tab, saves, told, pickGestures>>

(***************************************************************************)
(* The write                                                               *)
(***************************************************************************)
\* readForm: what the pickers say, or nothing.
ReadForm ==
    IF IsCollection /\ form.series = NoSeries THEN NoStart
    ELSE LET series == IF IsCollection THEN form.series ELSE NoSeries IN
         IF form.shown /\ form.episode # 0
         THEN [series |-> series, season |-> form.season, episode |-> form.episode]
         ELSE [NoStart EXCEPT !.series = series]

\* The pickers are those of the member on screen and nothing is on its way.
IsWhole ==
    /\ ~form.late /\ ~form.loading
    /\ IsCollection => form.series # NoSeries
    /\ form.series \in Series \/ ~IsCollection => HasEpisodes

\* commitStart closes the window first.
Commit(start) ==
    /\ form.entry # NoSeries /\ PickerGesture
    /\ saves' = saves \cup {[entry |-> form.entry, start |-> start, n |-> pickGestures']}
    /\ form' = [form EXCEPT !.entry = NoSeries]
    /\ UNCHANGED <<watchedHere, starts, tab, loads>>

SaveStart ==
    /\ Commit(ReadForm)
    /\ told' = [entry |-> form.entry, start |-> ReadForm, from |-> form.start, whole |-> IsWhole,
                touched |-> form.touched]

ClearStart == form.start # NoStart /\ Commit(NoStart) /\ UNCHANGED told

\* normalizeStart: a season and an episode are at least 1.
NormalizeStart(start) ==
    IF start.episode = 0 THEN start
    ELSE [start EXCEPT !.season = IF @ < 1 THEN 1 ELSE @, !.episode = IF @ < 1 THEN 1 ELSE @]

SetStart(save) ==
    /\ saves' = saves \ {save}
    /\ \/ starts' = [starts EXCEPT ![save.entry] = NormalizeStart(save.start)]
       \/ UNCHANGED starts  \* the request failed
    /\ UNCHANGED <<watchedHere, tab, form, loads, told, pickGestures>>

\* entry.refresh, or a `data` event.
Refetch == tab # starts /\ tab' = starts /\ UNCHANGED <<watchedHere, starts, form, loads, saves, told, pickGestures>>

StartNext ==
    \/ \E e \in StartEntries : Open(e)
    \/ Close \/ SaveStart \/ ClearStart \/ Refetch
    \/ \E member \in Range(form.children) : PickSeries(member)
    \/ \E ep \in UNION {Range(EpisodesOf[show]) : show \in Series} : PickSeason(ep[2]) \/ PickEpisode(ep[3])
    \/ \E load \in loads :
        EpisodesLoaded(load) \/ EpisodesFailed(load) \/ \E answers \in BOOLEAN : ChildrenLoaded(load, answers)
    \/ \E save \in saves : SetStart(save)

StartSpec == StartInit /\ [][StartNext]_startVars

(***************************************************************************)
(* Properties                                                              *)
(***************************************************************************)
HasSeasons(e) == \A m \in Range(MembersOf(e)) \cap Series : \E ep \in Range(EpisodesOf[m]) : ep[2] > 0

\* The start names nothing, or an episode that its member has.
StartIsThere(e, start) ==
    LET at == IF Holding[e] \in DOMAIN Members THEN start.series ELSE Holding[e] IN
    at \in Range(MembersOf(e)) \cap Series =>
        IF start.episode = 0 THEN start.season = 0
        ELSE <<at, OrFirst(start.season), start.episode>> \in Range(EpisodesOf[at])

\* Opening the window, waiting for it and saving what it shows does not move the entry: it
\* plays on from where it would have anyway, by its stored start or by what is unwatched,
\* and without a stored start the window shows the very episode that plays next
\* (startPreset.ts memberPreset, "without the `nextEp` fallback the modal seeded null").
\* Not so when the stored episode has gone, or was saved for another series by a late answer.
UntouchedSaveKeepsThePlace ==
    LET e == told.entry
        next == Upcoming(e, told.from, watchedHere)
    IN  e # NoSeries /\ told.whole /\ ~told.touched /\ HasSeasons(e) /\ StartIsThere(e, told.from) =>
            /\ Upcoming(e, NormalizeStart(told.start), watchedHere) = next
            /\ told.from = NoStart /\ next # << >> =>
                 <<told.start.season, told.start.episode>> = <<next[1][2], next[1][3]>>

\* "Playback begins here" (StartModal.tsx START_HINT): an episode picked from the list and
\* not yet watched is what the entry plays next.
PlaybackBeginsThere ==
    LET e == told.entry
        picked == <<IF told.start.series = NoSeries THEN Holding[e] ELSE told.start.series,
                    told.start.season, told.start.episode>>
    IN  e # NoSeries /\ told.whole /\ told.start.episode # 0 /\ picked \notin watchedHere =>
            Upcoming(e, NormalizeStart(told.start), watchedHere) = <<picked>>
=============================================================================
