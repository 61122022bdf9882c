--------------------------- MODULE EntryMigration ---------------------------
(***************************************************************************)
(* The command-line migration of queues.yaml to object entries             *)
(* (tools/migrate-entry-objects.ts, tools/entryObjects.ts), beside the     *)
(* app that edits the same file under the same lock, and the reader that   *)
(* says what an entry plays and which it refuses (engine/resolve.ts).      *)
(*                                                                         *)
(* An entry is whether it is a mapping, its rating key, its collection and *)
(* its title, and the rest of it as one value.  A text is its name,        *)
(* whether it starts with "Collection:", and whether it carries a (year)   *)
(* or [guid] hint; a collection's text has no prefix.                      *)
(***************************************************************************)
EXTENDS Integers, Sequences

CONSTANTS
    None,         \* a field the entry does not have
    StartFiles,   \* what queues.yaml may hold when the tool is first run
    PlexSets,     \* the sets whose titles may be looked up (policyFor)
    Lookup,       \* the library: the rating key a name resolves to, or None
    Caption,      \* the library: the title text of a rating key, or None
    Settings,     \* the values of the rest of an entry that the app writes
    MaxTools,     \* bound: runs of the tool
    MaxAppEdits,  \* bound: edits by the app
    MaxCrashes    \* bound: kills of the tool

StartLines == UNION {{file[n] : n \in DOMAIN file} : file \in StartFiles}

TitleText  == [name : DOMAIN Lookup, prefix : BOOLEAN, hint : BOOLEAN]
Collection == [name : DOMAIN Lookup, hint : BOOLEAN]

\* An entry with its set: a scalar is a key or a text.
EntryLine ==
    {e \in [set : PlexSets \cup {l.set : l \in StartLines}, mapping : BOOLEAN,
            key : DOMAIN Caption \cup {None}, coll : Collection \cup {None}, title : TitleText \cup {None},
            rest : Settings \cup {l.rest : l \in StartLines}] :
        ~e.mapping => e.coll = None /\ (e.key = None \/ e.title = None)}

ASSUME MigrationAssumption ==
    /\ StartFiles \subseteq Seq(EntryLine)
    /\ Lookup \in [DOMAIN Lookup -> DOMAIN Caption \cup {None}]
    /\ Caption \in [DOMAIN Caption -> TitleText \cup {None}]
    /\ None \notin DOMAIN Caption /\ None \notin Collection /\ None \notin TitleText

VARIABLES
    lines,    \* queues.yaml, a sequence of entries each with its set
    torn,     \* whether the last in-place write stopped half-way
    dirLock,  \* the directory both writers make: free, tool, app or stale
    backup,   \* the backup file, None before the first
    tool,     \* the tool: its step, the text it read, the document it edits, where it is
    owed,     \* history: the rest of every line as the app last left it
    tools, appEdits, crashes

migrationVars == <<lines, torn, dirLock, backup, tool, owed, tools, appEdits, crashes>>

(***************************************************************************)
(* The reader                                                              *)
(***************************************************************************)
Prefixed(e) == e.title # None /\ e.title.prefix

\* describe: the collection an entry names, hints peeled off a title but not off a field.
NamedCollection(e) ==
    IF e.coll # None THEN e.coll
    ELSE IF Prefixed(e) THEN [name |-> e.title.name, hint |-> FALSE] ELSE None

\* resolveMember: a collection, else the item of the key, else the one its title resolves to.
Names(e) ==
    IF NamedCollection(e) # None THEN [collection |-> NamedCollection(e)]
    ELSE [item |-> IF e.key # None THEN e.key ELSE IF e.title # None THEN Lookup[e.title.name] ELSE None]

\* entryKey: the identity of a line.
LineKey(e) ==
    IF e.key # None THEN [key |-> e.key]
    ELSE IF e.coll # None THEN [name |-> e.coll.name, prefix |-> TRUE, hint |-> e.coll.hint]
    ELSE e.title

\* loadEntries: a scalar is refused, and what has no identity is dropped.
Played(e) == e.mapping /\ LineKey(e) # None

(***************************************************************************)
(* The migration of one entry                                              *)
(***************************************************************************)
\* PrefixFirst is wrong on purpose: a keyed item whose title starts with the word is re-spelled.
PrefixFirst(e) ==
    IF e.coll = None /\ Prefixed(e)
    THEN [e EXCEPT !.coll = [name |-> e.title.name, hint |-> e.title.hint], !.title = None, !.key = None]
    ELSE e

\* splitValue: the older spelling of a collection gives up its title.
Split(e) ==
    IF e.coll = None /\ e.key = None /\ Prefixed(e)
    THEN [e EXCEPT !.coll = [name |-> e.title.name, hint |-> e.title.hint], !.title = None]
    ELSE e

\* What the library may say: a caption for a key without one, a key for a title; nothing when
\* the set is not looked up, and nothing during an outage.
LibraryAnswers(e) ==
    LET s == Split(e) IN
    {None} \cup
        (IF e.set \notin PlexSets \/ s.coll # None THEN {}
         ELSE IF s.key # None THEN IF s.title = None THEN {Caption[s.key]} ELSE {}
         ELSE IF s.title # None THEN {Lookup[s.title.name]} ELSE {})

Verdict(e, answer) ==
    LET s == Split(e) IN
    IF s.coll # None THEN IF e.mapping /\ e.coll # None THEN "keep" ELSE "collection"
    ELSE IF s.key # None THEN IF e.mapping THEN "keep" ELSE "reshaped"
    ELSE IF s.title = None THEN "keep"
    ELSE IF answer # None THEN "backfilled"
    ELSE IF e.mapping \/ e.set \in PlexSets THEN "unresolved" ELSE "reshaped"

Rewritten(e, answer) ==
    Verdict(e, answer) # "keep" /\ ~(Verdict(e, answer) = "unresolved" /\ e.mapping)

\* compose, and rebuild in place of the old node.
Migrated(e, answer) ==
    LET s == Split(e) IN
    IF ~Rewritten(e, answer) THEN e
    ELSE IF s.coll # None \/ answer = None THEN [s EXCEPT !.mapping = TRUE]
    ELSE IF s.key # None THEN [s EXCEPT !.mapping = TRUE, !.title = answer]
    ELSE [s EXCEPT !.mapping = TRUE, !.key = answer]

(***************************************************************************)
(* The tool                                                                *)
(***************************************************************************)
NoTool == [step |-> "idle", read |-> <<>>, doc |-> <<>>, at |-> 0, dirty |-> FALSE]

MigrationInit ==
    /\ lines \in StartFiles /\ torn = FALSE /\ dirLock = "free" /\ backup = None /\ tool = NoTool
    /\ owed = [n \in DOMAIN lines |-> lines[n].rest]
    /\ tools = 0 /\ appEdits = 0 /\ crashes = 0

\* main reads the file once, before any lookup and without the lock.
ToolReads ==
    /\ tool.step = "idle" /\ tools < MaxTools /\ tools' = tools + 1
    /\ tool' = [step |-> "resolves", read |-> lines, doc |-> lines, at |-> 1, dirty |-> FALSE]
    /\ UNCHANGED <<lines, torn, dirLock, backup, owed, appEdits, crashes>>

\* migrateDocument: entry by entry, awaiting the library.
ToolResolves ==
    LET e == tool.read[tool.at] IN
    /\ tool.step = "resolves" /\ tool.at <= Len(tool.read)
    /\ \E answer \in LibraryAnswers(e) :
           tool' = [tool EXCEPT !.doc[tool.at] = Migrated(e, answer), !.at = @ + 1,
                                !.dirty = @ \/ Rewritten(e, answer)]
    /\ UNCHANGED <<lines, torn, dirLock, backup, owed, tools, appEdits, crashes>>

\* Nothing to rewrite, or no --apply.
ToolReports ==
    /\ tool.step = "resolves" /\ tool.at > Len(tool.read) /\ tool' = NoTool
    /\ UNCHANGED <<lines, torn, dirLock, backup, owed, tools, appEdits, crashes>>

\* The backup is the text that was read; one name a day, so a second run replaces it.
ToolBacksUp ==
    /\ tool.step = "resolves" /\ tool.at > Len(tool.read) /\ tool.dirty
    /\ backup' = tool.read /\ tool' = [tool EXCEPT !.step = "locks"]
    /\ UNCHANGED <<lines, torn, dirLock, owed, tools, appEdits, crashes>>

ToolLocks ==
    /\ tool.step = "locks" /\ dirLock = "free" /\ dirLock' = "tool"
    /\ tool' = [tool EXCEPT !.step = "writes"]
    /\ UNCHANGED <<lines, torn, backup, owed, tools, appEdits, crashes>>

\* 10 s on a lock that is held, which this side never breaks.
ToolTimesOut ==
    /\ tool.step = "locks" /\ dirLock # "free" /\ tool' = NoTool
    /\ UNCHANGED <<lines, torn, dirLock, backup, owed, tools, appEdits, crashes>>

\* writeFile: the file is emptied, then filled.
ToolTruncates ==
    /\ tool.step = "writes"
    /\ lines' = <<>> /\ torn' = TRUE /\ tool' = [tool EXCEPT !.step = "fills"]
    /\ UNCHANGED <<dirLock, backup, owed, tools, appEdits, crashes>>

ToolFills ==
    /\ tool.step = "fills"
    /\ lines' = tool.doc /\ torn' = FALSE /\ dirLock' = "free" /\ tool' = NoTool
    /\ UNCHANGED <<backup, owed, tools, appEdits, crashes>>

\* Killed: what it holds stays as it is.
ToolDies ==
    /\ tool # NoTool /\ crashes < MaxCrashes /\ crashes' = crashes + 1 /\ tool' = NoTool
    /\ dirLock' = IF dirLock = "tool" THEN "stale" ELSE dirLock
    /\ UNCHANGED <<lines, torn, backup, owed, tools, appEdits>>

(***************************************************************************)
(* The app (external to the tool): read, edit and replace under the lock   *)
(***************************************************************************)
AppLocks ==
    /\ dirLock \in {"free", "stale"} /\ appEdits < MaxAppEdits /\ appEdits' = appEdits + 1
    /\ dirLock' = "app"
    /\ UNCHANGED <<lines, torn, backup, tool, owed, tools, crashes>>

Addressed(n) ==
    /\ n \in DOMAIN lines /\ LineKey(lines[n]) # None
    /\ \A k \in 1..(n - 1) : LineKey(lines[k]) # LineKey(lines[n])

\* rewriteEntry: a setting of the first line of a key; a scalar becomes a mapping on the way.
AppSaves(n, setting) ==
    /\ dirLock = "app" /\ dirLock' = "free"
    /\ IF Addressed(n)
       THEN /\ lines' = [lines EXCEPT ![n].mapping = TRUE, ![n].rest = setting]
            /\ owed' = [owed EXCEPT ![n] = setting]
       ELSE UNCHANGED <<lines, owed>>
    /\ UNCHANGED <<torn, backup, tool, tools, appEdits, crashes>>

MigrationNext ==
    \/ ToolReads \/ ToolResolves \/ ToolReports \/ ToolBacksUp \/ ToolLocks \/ ToolTimesOut
    \/ ToolTruncates \/ ToolFills \/ ToolDies \/ AppLocks
    \/ \E n \in DOMAIN owed, setting \in Settings : AppSaves(n, setting)

MigrationSpec == MigrationInit /\ [][MigrationNext]_migrationVars

(***************************************************************************)
(* Properties                                                              *)
(***************************************************************************)
\* What an entry names, the rest of it and the order of the lines survive the migration,
\* whichever lookups failed; every line keeps its key but one that gains a rating key; what was
\* migrated is played; and a second pass finds nothing left to spell (entryObjects.ts: "EVERY
\* SIBLING FIELD SURVIVES", "IDEMPOTENT").  A hint after a collection's name is left out, and
\* so is a bare key whose item is titled like a collection: see the README.
Hinted(e)    == NamedCollection(e) # None /\ e.title # None /\ e.title.hint
Misreads(e)  == e.key # None /\ e.title = None /\ ~e.mapping /\ Caption[e.key] # None /\ Caption[e.key].prefix

MigrationIsFaithful ==
    /\ Len(tool.doc) = Len(tool.read)
    /\ \A n \in DOMAIN tool.doc :
           LET before == tool.read[n] after == tool.doc[n] IN
           /\ after.set = before.set /\ after.rest = before.rest
           /\ ~Hinted(before) /\ ~Misreads(before) => Names(after) = Names(before)
           /\ LineKey(after) = LineKey(before) \/ (before.key = None /\ after.key # None)
           /\ n < tool.at /\ LineKey(after) # None => Played(after) /\ ~Rewritten(after, None)

\* A migration loses no edit of the app, because both take the lock (migrate-entry-objects.ts,
\* before withLock: without it "a migration that wrote while the editor held the lock could lose
\* whichever write finished second").
EditsSurvive ==
    ~torn => \A n \in DOMAIN owed : n \in DOMAIN lines /\ lines[n].rest = owed[n]
=============================================================================
