----------------------------- MODULE ReadingList -----------------------------
(***************************************************************************)
(* A reading queue: the lineup drawn from Kavita (providers/kavita.ts,     *)
(* pullLineup.ts), the reading list a launch rebuilds (launcher.ts,        *)
(* materialize) and the tick that keeps it stocked (topup.ts, topupList).  *)
(*                                                                         *)
(* One set is modelled.  Kavita is external: it keeps the lists, their     *)
(* rows and what has been read.  Each request to it that changes a list is *)
(* a step of its own, so the reader reads and the owner renames in between.*)
(***************************************************************************)
EXTENDS Integers, Sequences, SequencesExt, FiniteSets, Sublist

CONSTANTS
    Entries,        \* the queue: series in the order of the file
    InVolumes,      \* per series: its chapters as its volumes list them
    Loose,          \* per series: its chapters as the series lists them
    Reading,        \* per series: the order a person reads them in
    Chapters,       \* per series: how many chapters a visit takes (batch)
    Volumes,        \* per series: how many volumes a visit takes
    Floors,         \* per series: the number it starts at
    Window,         \* the playback length, as a window
    TopupAt,        \* TOPUP_AT
    IsRandom,       \* kind: anime
    SetId, Labels,  \* the set's id, and the names its owner gives it in turn
    MaxJobs,        \* bound: launches and ticks
    MaxFaults       \* bound: requests Kavita refuses

VARIABLES
    out,           \* per series: how many of Reading are published
    read,          \* the chapters read to the end
    readingLists,  \* Kavita's reading lists, oldest first: title, locked cover, rows
    label,         \* how many names the set has had
    job,           \* the launch or tick at work, or NoJob
    clean,         \* history: no request was refused so far
    jobs, faults

readingVars == <<out, read, readingLists, label, job, clean, jobs, faults>>

SeriesSet == Range(Entries)

(***************************************************************************)
(* Series                                                                  *)
(***************************************************************************)
Published(s) == {Reading[s][n] : n \in 1..out[s]}

\* LooseFirst is wrong on purpose: a loose chapter counts as one of volume 0.
LooseFirst(a, b) == a.volume < b.volume \/ (a.volume = b.volume /\ a.number < b.number)

\* Volumes, the catch-up read, then the loose chapters.
ReadsBefore(a, b) ==
    \/ a.volume # 0 /\ b.volume = 0
    \/ /\ (a.volume = 0) = (b.volume = 0)
       /\ (a.volume < b.volume \/ (a.volume = b.volume /\ a.number < b.number))

\* Every chapter once, its copy in a volume rather than the loose one.
Copies(s) == InVolumes[s] \cup {c \in Loose[s] : \A v \in InVolumes[s] : v.id # c.id}

\* Taken for granted of Kavita: series share no chapter, and the order a person reads in is
\* that of the volumes, and of the numbers in one, with the loose chapters behind them.
ASSUME ReadingAssumption ==
    /\ Entries \in Seq(SeriesSet) /\ Labels \in Seq(Range(Labels)) /\ Labels # << >>
    /\ Window \in Nat
    /\ \A s \in SeriesSet :
        /\ Chapters[s] \in Nat /\ Volumes[s] \in Nat /\ Floors[s] \in Int
        /\ Reading[s] \in Seq(Range(Reading[s])) /\ IsInjective(Reading[s])
        /\ {c.id : c \in Copies(s)} = Range(Reading[s])
        /\ \A c \in Copies(s) : c.volume \in Int /\ c.number \in Int
        /\ \A c \in Loose[s] : c.volume = 0
        /\ \A b, c \in Copies(s) : b.id = c.id => b = c
        /\ \A b, c \in Copies(s) : \A n \in DOMAIN Reading[s] : \A k \in 1..n - 1 :
             b.id = Reading[s][k] /\ c.id = Reading[s][n] =>
               /\ c.volume # 0 => b.volume # 0 /\ b.volume <= c.volume
               /\ b.volume = c.volume => b.number < c.number
    /\ \A s, t \in SeriesSet : s # t => Range(Reading[s]) \cap Range(Reading[t]) = {}

OrderedAll(s) ==
    LET all == {c \in Copies(s) : c.id \in Published(s)}
        Place(c) == Cardinality({b \in all : b = c \/ ReadsBefore(b, c)})
    IN  [n \in 1..Cardinality(all) |-> CHOOSE c \in all : Place(c) = n]

OrderedUnread(s) == Only(OrderedAll(s), {c \in Copies(s) : c.id \notin read})

\* A volume of one chapter is read as the volume, and numbered like it.
IsWholeVolume(s, c) ==
    c.volume # 0 /\ \A d \in InVolumes[s] : (d.volume = c.volume /\ d.id \in Published(s)) => d = c
NumberOf(s, c) == IF IsWholeVolume(s, c) THEN c.volume ELSE c.number
AtOrAfterFloor(s, c) == NumberOf(s, c) >= Floors[s]

\* What a visit takes of a series; nothing is left of a finished one.
Bucket(s) ==
    LET unread == Only(OrderedUnread(s), {c \in Copies(s) : AtOrAfterFloor(s, c)})
        want   == IF unread # << >> /\ IsWholeVolume(s, Head(unread)) THEN Volumes[s] ELSE Chapters[s]
    IN  [n \in 1..(IF want < Len(unread) THEN want ELSE Len(unread)) |-> unread[n].id]

\* buckets: one round is all there is, for a bucket holds one visit; capped at the window.
Lineups ==
    LET orders == IF IsRandom THEN {o \in [DOMAIN Entries -> SeriesSet] : Range(o) = SeriesSet}
                  ELSE {Entries}
        Capped(play) == SubSeq(play, 1, IF Len(play) < Window THEN Len(play) ELSE Window)
    IN  {Capped(FlattenSeq([n \in DOMAIN o |-> Bucket(o[n])])) : o \in orders}

(***************************************************************************)
(* The list of the set                                                     *)
(***************************************************************************)
Title == Labels[label]

\* findSetList: by the label, else by the id; 0 when there is none.
Titled(title) == {n \in DOMAIN readingLists : readingLists[n].title = title}
Earliest(those) == CHOOSE n \in those : \A k \in those : n <= k
SetList ==
    IF Titled(Title) # {} THEN Earliest(Titled(Title))
    ELSE IF Titled(SetId) # {} THEN Earliest(Titled(SetId)) ELSE 0

NoJob == [kind |-> "none", step |-> "none", list |-> 0, todo |-> << >>, plan |-> << >>, added |-> 0]
AtRest == job = NoJob

RowsOf(n) == readingLists[n].rows
IsRead(c) == c \in read
Unread(rows) == Only(rows, Range(rows) \ read)

\* update-by-chapter: Kavita unions.
WithRow(n, c) == [readingLists EXCEPT ![n].rows = IF c \in Range(@) THEN @ ELSE Append(@, c)]

Faulty == faults < MaxFaults /\ faults' = faults + 1

(***************************************************************************)
(* A launch: GET /go/<set>                                                 *)
(***************************************************************************)
\* launchDescriptor: with nothing unread there is no launch.
Launch ==
    /\ AtRest /\ jobs < MaxJobs /\ jobs' = jobs + 1
    /\ \E lineup \in Lineups :
         /\ lineup # << >>
         /\ job' = [NoJob EXCEPT !.kind = "launch", !.step = "find", !.plan = lineup]
    /\ UNCHANGED <<out, read, readingLists, label, clean, faults>>

\* The list is found, renamed in place if need be, or made.
FindOrCreate ==
    /\ job.kind = "launch" /\ job.step = "find"
    /\ IF SetList = 0
       THEN /\ readingLists' = Append(readingLists, [title |-> Title, locked |-> FALSE, rows |-> << >>])
            /\ job' = [job EXCEPT !.step = "cover", !.list = Len(readingLists) + 1]
            /\ UNCHANGED faults
       ELSE /\ job' = [job EXCEPT !.step = "clear", !.list = SetList, !.todo = RowsOf(SetList)]
            /\ \/ /\ readingLists' = [readingLists EXCEPT ![SetList].title = Title]
                  /\ UNCHANGED faults
               \/ /\ Faulty
                  /\ UNCHANGED readingLists
    /\ UNCHANGED <<out, read, label, clean, jobs>>

Cleared(rows, c) == Only(rows, Range(rows) \ {c})

\* Row by row; one that refuses stays.
ClearRow ==
    /\ job.step = "clear"
    /\ IF job.todo = << >>
       THEN job' = [job EXCEPT !.step = "cover"] /\ UNCHANGED <<readingLists, clean, faults>>
       ELSE /\ job' = [job EXCEPT !.todo = Tail(@)]
            /\ \/ /\ readingLists' = [readingLists EXCEPT ![job.list].rows = Cleared(@, Head(job.todo))]
                  /\ UNCHANGED <<clean, faults>>
               \/ /\ Faulty /\ clean' = FALSE
                  /\ UNCHANGED readingLists
    /\ UNCHANGED <<out, read, label, jobs>>

\* A list without a cover of ours is given one.
PutCover ==
    /\ job.step = "cover"
    /\ job' = [job EXCEPT !.step = "add"]
    /\ IF readingLists[job.list].locked THEN UNCHANGED <<readingLists, faults>>
       ELSE \/ /\ readingLists' = [readingLists EXCEPT ![job.list].locked = TRUE]
               /\ UNCHANGED faults
            \/ /\ Faulty
               /\ UNCHANGED readingLists
    /\ UNCHANGED <<out, read, label, clean, jobs>>

\* The lineup in order; a refusal ends the launch.  The last row opens the reader.
AddRow ==
    /\ job.kind = "launch" /\ job.step = "add"
    /\ \/ /\ readingLists' = WithRow(job.list, Head(job.plan))
          /\ job' = IF Len(job.plan) = 1 THEN NoJob ELSE [job EXCEPT !.plan = Tail(@)]
          /\ UNCHANGED <<clean, faults>>
       \/ /\ Faulty /\ job' = NoJob /\ clean' = FALSE
          /\ UNCHANGED readingLists
    /\ UNCHANGED <<out, read, label, jobs>>

(***************************************************************************)
(* A tick                                                                  *)
(***************************************************************************)
\* topupList, until it knows what is on the list: no list or enough unread, no top-up.
Tick ==
    /\ AtRest /\ jobs < MaxJobs /\ jobs' = jobs + 1
    /\ SetList # 0 /\ Len(Unread(RowsOf(SetList))) <= TopupAt
    /\ job' = [NoJob EXCEPT !.kind = "tick", !.step = "build", !.list = SetList,
                            !.todo = RowsOf(SetList), !.added = Window - Len(Unread(RowsOf(SetList)))]
    /\ UNCHANGED <<out, read, readingLists, label, clean, faults>>

\* What a fresh lineup holds and the list does not, up to the window.
Build ==
    /\ job.step = "build"
    /\ \E lineup \in Lineups :
         LET fresh == Only(lineup, Range(lineup) \ Range(job.todo))
             want  == IF job.added < Len(fresh) THEN job.added ELSE Len(fresh)
         IN  job' = IF want <= 0 THEN NoJob
                    ELSE [job EXCEPT !.step = "append", !.plan = SubSeq(fresh, 1, want), !.added = 0]
    /\ UNCHANGED <<out, read, readingLists, label, clean, jobs, faults>>

\* Row by row; one that refuses is passed over.
AppendRow ==
    /\ job.step = "append"
    /\ LET next(n) == IF Len(job.plan) > 1 THEN [job EXCEPT !.plan = Tail(@), !.added = n]
                      ELSE IF n = 0 THEN NoJob ELSE [job EXCEPT !.step = "trim", !.added = n]
       IN  \/ /\ readingLists' = WithRow(job.list, Head(job.plan)) /\ job' = next(job.added + 1)
              /\ UNCHANGED <<clean, faults>>
           \/ /\ Faulty /\ job' = next(job.added) /\ clean' = FALSE
              /\ UNCHANGED readingLists
    /\ UNCHANGED <<out, read, label, jobs>>

\* remove-read, once something was added.
Trim ==
    /\ job.step = "trim" /\ job' = NoJob
    /\ \/ /\ readingLists' = [readingLists EXCEPT ![job.list].rows = Unread(@)]
          /\ UNCHANGED faults
       \/ /\ Faulty
          /\ UNCHANGED readingLists
    /\ UNCHANGED <<out, read, label, clean, jobs>>

(***************************************************************************)
(* Everybody else                                                          *)
(***************************************************************************)
ReadChapter(s, c) ==
    /\ c \in Published(s) \ read /\ read' = read \cup {c}
    /\ UNCHANGED <<out, readingLists, label, job, clean, jobs, faults>>

\* Chapters come out in reading order.
Publish(s) ==
    /\ out[s] < Len(Reading[s]) /\ out' = [out EXCEPT ![s] = @ + 1]
    /\ UNCHANGED <<read, readingLists, label, job, clean, jobs, faults>>

Rename ==
    /\ label < Len(Labels) /\ label' = label + 1
    /\ UNCHANGED <<out, read, readingLists, job, clean, jobs, faults>>

ReadingInit ==
    /\ out \in [SeriesSet -> {1, 2}] /\ (\A s \in SeriesSet : out[s] <= Len(Reading[s]))
    /\ read = {} /\ label = 1 /\ job = NoJob /\ clean = TRUE /\ jobs = 0 /\ faults = 0
    /\ readingLists = << >>

ReadingNext ==
    \/ Launch \/ FindOrCreate \/ ClearRow \/ PutCover \/ AddRow
    \/ Tick \/ Build \/ AppendRow \/ Trim
    \/ \E s \in SeriesSet : Publish(s) \/ (\E c \in Range(Reading[s]) : ReadChapter(s, c))
    \/ Rename

ReadingSpec == ReadingInit /\ [][ReadingNext]_readingVars

(***************************************************************************)
(* Properties                                                              *)
(***************************************************************************)
\* Reading down the list skips nothing: between jobs, and while no request was refused, a
\* chapter's row comes after those of the series' earlier chapters, and of these none that
\* is unread, from the start floor on, is missing (kavita.ts orderedAll, topupList).
ListNeverSkips ==
    AtRest /\ clean => \A n \in DOMAIN readingLists : \A s \in SeriesSet : \A k \in DOMAIN Reading[s] :
        LET rows == RowsOf(n)
            c == Reading[s][k]
            earlier == {d \in Range(SubSeq(Reading[s], 1, k - 1)) : d \in Range(rows) \/ ~IsRead(d)}
            from == {e.id : e \in {d \in Range(OrderedAll(s)) : AtOrAfterFloor(s, d)}}
        IN  c \in Range(rows) =>
              \A d \in earlier \cap from : \E i, j \in DOMAIN rows : i < j /\ rows[i] = d /\ rows[j] = c

\* "We reuse one list per set rather than littering the user's list view" (kavita.ts,
\* materialize): however often the set is launched, ticked and renamed, Kavita has one.
OneListPerSet == Len(readingLists) <= 1
==============================================================================
