------------------------------ MODULE EntryCounts ------------------------------
(***************************************************************************)
(* How many episodes an entry plays in its turn: the count picker of the   *)
(* entry sheet (EntrySettings.tsx, CountPicker.tsx), the item and bulk     *)
(* routes, and the sparse writers behind them (queues.ts setEpisodes).     *)
(*                                                                         *)
(* A set has a default, an entry an override or none.  The routes read     *)
(* the default before they take the file's lock, the default is edited     *)
(* elsewhere, and a tab draws from its own copies of both.  Weights and    *)
(* batch stops go the same way, with a default that nobody edits.          *)
(***************************************************************************)
EXTENDS Integers, Sequences, FiniteSets

CONSTANTS
    Counts,         \* the counts a person may pick
    Presets,        \* COUNT_PRESET_COMMON: always in the list
    NoOverride,     \* no override; a bulk edit that sets no count
    MaxCountEdits,  \* bound: picks, bulk edits and edits of the default
    MaxPatchFaults  \* bound: requests that fail

ASSUME CountsAssumption == NoOverride \notin Counts /\ MaxCountEdits \in Nat

VARIABLES
    setDefault,  \* sets.yaml: the set's own count
    override,    \* queues.yaml: the entry's
    patches,     \* the requests the server works on
    countTab,    \* the tab's copies of the two
    picker,      \* the picker of the open sheet: the typed number, whether it is typed
    asked,       \* history: the last count that was written, and the default it was written under
    countEdits, patchFaults

countVars == <<setDefault, override, patches, countTab, picker, asked, countEdits, patchFaults>>

\* effectiveCount.
Effective(default, own) == IF own = NoOverride THEN default ELSE own

IsPreset(n, default) == n \in Presets \cup {default}

NoPicker == [open |-> FALSE, custom |-> FALSE, draft |-> 0]

CountInit ==
    /\ setDefault \in Counts /\ override \in Counts \cup {NoOverride} /\ override # setDefault
    /\ patches = {} /\ countTab = [default |-> setDefault, own |-> override]
    /\ picker = NoPicker
    /\ asked = [count |-> Effective(setDefault, override), under |-> setDefault, mixed |-> FALSE]
    /\ countEdits = 0 /\ patchFaults = 0

Edit == countEdits < MaxCountEdits /\ countEdits' = countEdits + 1

(***************************************************************************)
(* The sheet                                                               *)
(***************************************************************************)
Value == Effective(countTab.default, countTab.own)

\* What the picker is once its value or the default has moved underneath it.
Resynced(state) ==
    LET value == Effective(countTab'.default, countTab'.own) IN
    IF ~state.open THEN state
    ELSE [state EXCEPT !.draft = value, !.custom = @ \/ ~IsPreset(value, countTab'.default)]

\* A new copy reaches the picker only if it says something else.
Redraws ==
    picker' = IF <<countTab'.default, Effective(countTab'.default, countTab'.own)>> = <<countTab.default, Value>>
              THEN picker ELSE Resynced(picker)

OpenSheet ==
    /\ ~picker.open
    /\ picker' = [open |-> TRUE, custom |-> ~IsPreset(Value, countTab.default), draft |-> Value]
    /\ UNCHANGED <<setDefault, override, patches, countTab, asked, countEdits, patchFaults>>

CloseSheet ==
    /\ picker.open /\ picker' = NoPicker
    /\ UNCHANGED <<setDefault, override, patches, countTab, asked, countEdits, patchFaults>>

Patch(count, reset) ==
    [n |-> countEdits', count |-> count, reset |-> reset, step |-> "reads", default |-> 0, at |-> 0]

\* emit: a PATCH of the one field.
Emit(n) == Edit /\ patches' = patches \cup {Patch(n, FALSE)}

PickPreset(n) ==
    /\ picker.open /\ ~picker.custom /\ IsPreset(n, countTab.default)
    /\ Emit(n)
    /\ UNCHANGED <<setDefault, override, countTab, picker, asked, patchFaults>>

PickCustom ==
    /\ picker.open /\ ~picker.custom /\ picker' = [picker EXCEPT !.custom = TRUE]
    /\ UNCHANGED <<setDefault, override, patches, countTab, asked, countEdits, patchFaults>>

Type(n) ==
    /\ picker.open /\ picker.custom /\ picker.draft # n /\ picker' = [picker EXCEPT !.draft = n]
    /\ UNCHANGED <<setDefault, override, patches, countTab, asked, countEdits, patchFaults>>

\* commit: what is out of range snaps back, what is the value already is not sent.
CommitDraft ==
    /\ picker.open /\ picker.custom /\ picker.draft # Value
    /\ IF picker.draft \in Counts THEN Emit(picker.draft) /\ UNCHANGED picker
       ELSE picker' = [picker EXCEPT !.draft = Value] /\ UNCHANGED <<patches, countEdits>>
    /\ UNCHANGED <<setDefault, override, countTab, asked, patchFaults>>

\* A number that is no preset goes back to the default.
BackToPresets ==
    /\ picker.open /\ picker.custom /\ picker' = [picker EXCEPT !.custom = FALSE]
    /\ IF IsPreset(Value, countTab.default) THEN UNCHANGED <<patches, countEdits>> ELSE Emit(countTab.default)
    /\ UNCHANGED <<setDefault, override, countTab, asked, patchFaults>>

\* The selection bar: back to the defaults, and perhaps a count on top.
Bulk(count) ==
    /\ Edit /\ patches' = patches \cup {Patch(count, TRUE)}
    /\ UNCHANGED <<setDefault, override, countTab, picker, asked, patchFaults>>

(***************************************************************************)
(* The server                                                              *)
(***************************************************************************)
PatchGoes(p, to) == patches' = (patches \ {p}) \cup {to}

\* The bulk route asks for the set's default first, to hand it to setEpisodes.
ReadsReset(p) ==
    /\ p.reset /\ p.step = "reads" /\ p.at = 0
    /\ PatchGoes(p, [p EXCEPT !.at = setDefault])
    /\ UNCHANGED <<setDefault, override, countTab, picker, asked, countEdits, patchFaults>>

\* setCountDefault, without the lock.
ReadsDefault(p) ==
    /\ p.step = "reads" /\ (p.reset => p.at # 0)
    /\ PatchGoes(p, [p EXCEPT !.step = "writes", !.default = setDefault])
    /\ UNCHANGED <<setDefault, override, countTab, picker, asked, countEdits, patchFaults>>

\* FloorOnly is wrong on purpose: a reset writes the engine's floor of 1.
FloorOnly(p) == IF p.reset THEN 1 ELSE p.count

\* What setEpisodes is called with: a reset's own first pass is the default it read.
Wanted(p) == IF p.reset THEN p.at ELSE p.count

\* rewriteEntry under the lock: the default is dropped, anything else is kept.
Rewrites(p) ==
    LET n == Wanted(p) IN
    /\ p.step = "writes"
    /\ override' = IF n = p.default THEN NoOverride ELSE n
    /\ asked' = [count |-> IF p.reset THEN setDefault ELSE p.count, under |-> setDefault,
                 mixed |-> p.default # setDefault \/ (p.reset /\ p.at # setDefault)]
    /\ IF p.reset /\ p.count # NoOverride THEN PatchGoes(p, [p EXCEPT !.reset = FALSE, !.step = "reads"])
       ELSE PatchGoes(p, [p EXCEPT !.step = "answered"])
    /\ UNCHANGED <<setDefault, countTab, picker, countEdits, patchFaults>>

PatchFails(p) ==
    /\ p.step \in {"reads", "writes"} /\ patchFaults < MaxPatchFaults /\ patchFaults' = patchFaults + 1
    /\ PatchGoes(p, [p EXCEPT !.step = "failed"])
    /\ UNCHANGED <<setDefault, override, countTab, picker, asked, countEdits>>

\* Another tab saves the set.
EditDefault(n) ==
    /\ n # setDefault /\ Edit /\ setDefault' = n
    /\ UNCHANGED <<override, patches, countTab, picker, asked, patchFaults>>

(***************************************************************************)
(* The answers                                                             *)
(***************************************************************************)
\* patchEntry: the tab's copy takes the count, by the tab's own default; a bulk edit and a
\* failure fetch everything again.
PatchAnswered(p) ==
    /\ p.step \in {"answered", "failed"} /\ patches' = patches \ {p}
    /\ countTab' = IF p.step = "failed" \/ p.at # 0 THEN [default |-> setDefault, own |-> override]
              ELSE [countTab EXCEPT !.own = IF p.count = countTab.default THEN NoOverride ELSE p.count]
    /\ Redraws
    /\ UNCHANGED <<setDefault, override, asked, countEdits, patchFaults>>

\* A `data` event: the registry and the queues are fetched.
CountsRefetched ==
    /\ countTab' = [default |-> setDefault, own |-> override] /\ countTab' # countTab /\ Redraws
    /\ UNCHANGED <<setDefault, override, patches, asked, countEdits, patchFaults>>

CountNext ==
    \/ OpenSheet \/ CloseSheet \/ PickCustom \/ CommitDraft \/ BackToPresets \/ CountsRefetched
    \/ \E n \in Counts \cup {0} : Type(n)
    \/ \E n \in Counts : PickPreset(n) \/ EditDefault(n)
    \/ \E n \in Counts \cup {NoOverride} : Bulk(n)
    \/ \E p \in patches : ReadsReset(p) \/ ReadsDefault(p) \/ Rewrites(p) \/ PatchFails(p) \/ PatchAnswered(p)

CountSpec == CountInit /\ [][CountNext]_countVars

(***************************************************************************)
(* Properties                                                              *)
(***************************************************************************)
\* An entry plays the count it was given, and one that was reset follows the set's default
\* whatever it becomes, however edits of the entry overlap: only a default that is edited
\* between a request's own reads and its write may make a difference (queues.ts setEpisodes,
\* queuesRoutes.ts "a queue at episodes: 2 must not grow an `episodes: 1` override").
CountIsAsAsked ==
    ~asked.mixed =>
        /\ Effective(asked.under, override) = asked.count
        /\ asked.count = asked.under => override = NoOverride
=============================================================================
