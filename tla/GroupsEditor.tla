----------------------------- MODULE GroupsEditor -----------------------------
(***************************************************************************)
(* The groups of the household: groups.yaml and its writers (groups.ts),   *)
(* who belongs where, and the editor of one browser tab (GroupsModal.tsx,  *)
(* store.ts refreshGroups).                                                *)
(*                                                                         *)
(* Every writer reads the whole file and writes the whole file, with no    *)
(* lock, so its two halves are two actions.  A stored group is its id, the *)
(* sets it names and the accounts it stands for; labels, comments and key  *)
(* order are left out, the label but for the id made of it.                *)
(***************************************************************************)
EXTENDS Integers, Sequences, SequencesExt, FiniteSets

CONSTANTS
    Registry,      \* the sets, in file order
    PlaysAs,       \* accountsForSet: the accounts each set plays as
    StoredGroups,  \* the file at first
    Label,         \* the label a person gives a new group, as slugify leaves it
    NoGroup,       \* nothing selected: the form of a new group
    MaxGroupEdits, \* bound: ticks and requests of the tab
    MaxFilings     \* bound: sets created in a group elsewhere

VARIABLES
    groupsFile,  \* groups.yaml
    writers,     \* the requests the server works on, each with the file it read
    shown,       \* the tab: the groups it last fetched
    selected,    \* the tab: the id under edit
    draft,       \* the tab: the sets and accounts on the form
    saving,      \* the tab: what its save waits for
    meant,       \* history: the sets a save of this form should leave
    clashed,     \* history: two writes overlapped, somebody else wrote, or a group was
                 \* selected while a request of this tab was under way
    groupEdits, filings

groupsVars == <<groupsFile, writers, shown, selected, draft, saving, meant, clashed, groupEdits, filings>>

SetIds == Range(Registry)

(***************************************************************************)
(* Membership                                                              *)
(***************************************************************************)
Ids(file) == {g.id : g \in Range(file)}

\* storedGroups: of two entries of one id the later counts.
GroupOf(file, id) ==
    file[CHOOSE n \in DOMAIN file : file[n].id = id /\ \A k \in DOMAIN file : file[k].id = id => k <= n]

ASSUME GroupsAssumption ==
    /\ StoredGroups \in Seq(Range(StoredGroups))
    /\ NoGroup \notin Ids(StoredGroups)

Claimed(file) == UNION {g.sets : g \in Range(file)}

\* A group names a set, or stands for who it plays as and nobody names it.
InGroup(file, g, set) ==
    set \in g.sets \/ (set \notin Claimed(file) /\ g.accounts \cap PlaysAs[set] # {})

\* resolveGroups, of one group.
SetsOf(file, id)  == {s \in SetIds : InGroup(file, GroupOf(file, id), s)}

(***************************************************************************)
(* The writers                                                             *)
(***************************************************************************)
\* createGroup's id: the slug, or the slug and the first number from 2 on that is free.
NewId(file, slug) ==
    LET Taken(n) == <<slug, n>> \in Ids(file) IN
    <<slug, CHOOSE n \in 1..(Len(file) + 1) : ~Taken(n) /\ \A k \in 1..(n - 1) : Taken(k)>>

At(doc, id) == CHOOSE n \in DOMAIN doc : doc[n].id = id /\ \A k \in DOMAIN doc : doc[k].id = id => n <= k

\* reorderGroups: by rank, what the list leaves out last, those of one rank in their order.
Reordered(doc, ids) ==
    LET Rank(n) == IF doc[n].id \in Range(ids) THEN CHOOSE k \in DOMAIN ids : ids[k] = doc[n].id
                   ELSE Len(ids) + 1
        Before(a, b) == Rank(a) < Rank(b) \/ (Rank(a) = Rank(b) /\ a < b)
        Place(n) == Cardinality({m \in DOMAIN doc : m = n \/ Before(m, n)})
    IN  [k \in DOMAIN doc |-> doc[CHOOSE n \in DOMAIN doc : Place(n) = k]]

\* What a request makes of the file it read; the id of a new group is free in the file now.
FileWritten(w) ==
    LET known == w.id \in Ids(w.doc) IN
    CASE w.kind = "create"  -> Append(w.doc, [id |-> NewId(groupsFile, Label), sets |-> w.sets,
                                              accounts |-> w.accounts])
      [] w.kind = "update"  -> IF known THEN [w.doc EXCEPT ![At(w.doc, w.id)] =
                                                  [@ EXCEPT !.sets = w.sets, !.accounts = w.accounts]]
                               ELSE groupsFile
      [] w.kind = "file"    -> IF known THEN [w.doc EXCEPT ![At(w.doc, w.id)].sets = @ \cup w.sets]
                               ELSE groupsFile
      [] w.kind = "delete"  -> IF known THEN RemoveAt(w.doc, At(w.doc, w.id)) ELSE groupsFile
      [] w.kind = "reorder" -> Reordered(w.doc, w.ids)

\* Sets are filed by somebody else; every other request is this tab's.
GroupCall(kind, id, sets, accounts, ids) ==
    [kind |-> kind, id |-> id, sets |-> sets, accounts |-> accounts, ids |-> ids,
     doc |-> << >>, step |-> "sent", mine |-> kind # "file"]

\* The tab with no save under way.
Resting == [step |-> "none", id |-> NoGroup, selects |-> FALSE, gone |-> FALSE]

\* readDoc.
WriterReads(w) ==
    /\ w.step = "sent"
    /\ writers' = (writers \ {w}) \cup {[w EXCEPT !.step = "read", !.doc = groupsFile]}
    /\ clashed' = (clashed \/ \E other \in writers : other.step = "read")
    /\ UNCHANGED <<groupsFile, shown, selected, draft, saving, meant, groupEdits, filings>>

\* writeDoc, and the answer.
Writes(w) ==
    /\ w.step = "read"
    /\ groupsFile' = FileWritten(w) /\ writers' = writers \ {w}
    /\ saving' = IF ~w.mine \/ w.kind = "reorder" THEN saving
                 ELSE IF w.kind = "update" /\ w.id \notin Ids(w.doc) THEN Resting
                 ELSE [step |-> "refreshes",
                       id |-> IF w.kind = "create" THEN NewId(groupsFile, Label) ELSE w.id,
                       selects |-> w.kind \in {"create", "delete"}, gone |-> w.kind = "delete"]
    /\ clashed' = (clashed \/ ~w.mine)
    /\ UNCHANGED <<shown, selected, draft, meant, groupEdits, filings>>

(***************************************************************************)
(* The tab                                                                 *)
(***************************************************************************)
DraftFrom(groups, id) ==
    IF id \in Ids(groups) THEN [sets |-> GroupOf(groups, id).sets, accounts |-> GroupOf(groups, id).accounts]
    ELSE [sets |-> {}, accounts |-> {}]

\* The form is filled when the selection changes, and only then; what a save of it should
\* leave starts from the file.
Selects(groups, id) ==
    /\ selected' = id
    /\ IF id = selected THEN UNCHANGED <<draft, meant>>
       ELSE draft' = DraftFrom(groups, id) /\ meant' = DraftFrom(groupsFile, id).sets

Select(id) ==
    /\ groupEdits < MaxGroupEdits /\ groupEdits' = groupEdits + 1
    /\ id # selected /\ Selects(shown, id)
    /\ clashed' = (clashed \/ writers # {} \/ saving.step # "none")
    /\ UNCHANGED <<groupsFile, writers, shown, saving, filings>>

\* A group's ticks that are there without its naming the set: ticked and locked.
Locked == IF selected \in Ids(shown) THEN SetsOf(shown, selected) \ draft.sets ELSE {}

TickBox(set) ==
    /\ groupEdits < MaxGroupEdits /\ groupEdits' = groupEdits + 1
    /\ set \notin Locked
    /\ LET Toggled(those) == IF set \in those THEN those \ {set} ELSE those \cup {set} IN
       /\ draft' = [draft EXCEPT !.sets = Toggled(@)]
       /\ meant' = Toggled(meant)
    /\ UNCHANGED <<groupsFile, writers, shown, selected, saving, clashed, filings>>

TickAccount(account) ==
    /\ groupEdits < MaxGroupEdits /\ groupEdits' = groupEdits + 1
    /\ draft' = [draft EXCEPT !.accounts = IF account \in @ THEN @ \ {account} ELSE @ \cup {account}]
    /\ UNCHANGED <<groupsFile, writers, shown, selected, saving, meant, clashed, filings>>

Sends(request) == writers' = writers \cup {request}

\* save: a group the tab knows is edited, any other form makes a new one.
SaveGroup ==
    /\ saving.step = "none" /\ groupEdits < MaxGroupEdits /\ groupEdits' = groupEdits + 1
    /\ Sends(GroupCall(IF selected \in Ids(shown) THEN "update" ELSE "create",
                       selected, draft.sets, draft.accounts, << >>))
    /\ saving' = [Resting EXCEPT !.step = "asks"]
    /\ UNCHANGED <<groupsFile, shown, selected, draft, meant, clashed, filings>>

DeleteGroup ==
    /\ saving.step = "none" /\ groupEdits < MaxGroupEdits /\ groupEdits' = groupEdits + 1
    /\ selected \in Ids(shown)
    /\ Sends(GroupCall("delete", selected, {}, {}, << >>))
    /\ saving' = [Resting EXCEPT !.step = "asks"]
    /\ UNCHANGED <<groupsFile, shown, selected, draft, meant, clashed, filings>>

\* move: the buttons are not held back by a save.
Move(n) ==
    LET ids == [k \in DOMAIN shown |-> shown[k].id] IN
    /\ groupEdits < MaxGroupEdits /\ groupEdits' = groupEdits + 1
    /\ n \in 1..(Len(ids) - 1)
    /\ Sends(GroupCall("reorder", NoGroup, {}, {}, [ids EXCEPT ![n] = ids[n + 1], ![n + 1] = ids[n]]))
    /\ UNCHANGED <<groupsFile, shown, selected, draft, saving, meant, clashed, filings>>

\* SelectsFirst is wrong on purpose: the new group is selected before it is fetched.
SelectsFirst == Selects(shown, IF saving.gone THEN NoGroup ELSE saving.id)

\* The refreshed groups are in the store before the new group is selected.
SelectsFetched == Selects(groupsFile, IF saving.gone THEN NoGroup ELSE saving.id)

\* refreshGroups, and what follows a save.
Refreshed ==
    /\ saving.step = "refreshes"
    /\ shown' = groupsFile /\ saving' = Resting
    /\ IF saving.selects THEN SelectsFetched ELSE UNCHANGED <<selected, draft, meant>>
    /\ UNCHANGED <<groupsFile, writers, clashed, groupEdits, filings>>

\* A `data` event, or the refresh after a move.
Fetches ==
    /\ shown # groupsFile /\ shown' = groupsFile
    /\ UNCHANGED <<groupsFile, writers, selected, draft, saving, meant, clashed, groupEdits, filings>>

\* POST /api/sets elsewhere: the set is written, then filed into the group on screen there.
FileSet(id, set) ==
    /\ filings < MaxFilings /\ filings' = filings + 1
    /\ Sends(GroupCall("file", id, {set}, {}, << >>))
    /\ UNCHANGED <<groupsFile, shown, selected, draft, saving, meant, clashed, groupEdits>>

GroupsInit ==
    /\ groupsFile = StoredGroups /\ writers = {} /\ shown = StoredGroups
    /\ selected = NoGroup /\ draft = DraftFrom(StoredGroups, NoGroup) /\ saving = Resting
    /\ meant = {} /\ clashed = FALSE /\ groupEdits = 0 /\ filings = 0

KnownAccounts == UNION {PlaysAs[s] : s \in SetIds}

GroupsNext ==
    \/ \E w \in writers : WriterReads(w) \/ Writes(w)
    \/ \E id \in Ids(shown) \cup {NoGroup} : Select(id)
    \/ \E s \in SetIds : TickBox(s)
    \/ \E a \in KnownAccounts : TickAccount(a)
    \/ SaveGroup \/ DeleteGroup \/ (\E n \in DOMAIN shown : Move(n)) \/ Refreshed \/ Fetches
    \/ \E id \in Ids(groupsFile), s \in SetIds : FileSet(id, s)

GroupsSpec == GroupsInit /\ [][GroupsNext]_groupsVars

(***************************************************************************)
(* Properties                                                              *)
(***************************************************************************)
\* GroupsModal.tsx: a save never un-files what the person did not touch.  The form, of the
\* group just created too, holds what the file held when it was filled with this person's
\* ticks on top, unless somebody else writes, two writes overlap or a group is selected
\* before the last save has been fetched.
FormKeepsTheFile == ~clashed => draft.sets = meant

\* "Matched by account" (GroupsModal.tsx): a tick that is locked is there because the group
\* stands for an account the set plays as.
LockedIsMatched == \A s \in Locked : GroupOf(shown, selected).accounts \cap PlaysAs[s] # {}
=============================================================================
