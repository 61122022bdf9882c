---------------------------- MODULE SetRegistry ----------------------------
(***************************************************************************)
(* The registry of sets (sets.ts, sets.yaml), the two editors that write   *)
(* it (DynModal.tsx, SetModal.tsx), the owner who edits the file by hand,  *)
(* the migration of the legacy tiers, and what routing.ts reads of it: who *)
(* plays when a card is tapped, and how much.                              *)
(*                                                                         *)
(* An id is a label and a number (slugify).  The file is sparse: what is   *)
(* not written is Unset, "absent" or FALSE here.  A binding is a profile's *)
(* title (or Nobody) and its rating cap.  Every operation of sets.ts is    *)
(* one step, under the lock; an editor stays open over any number of them. *)
(***************************************************************************)
EXTENDS PlaybackLength, Sequences, SequencesExt, Sublist

CONSTANTS
    Registries,    \* what sets.yaml may hold at first
    Labels,        \* labels of new sets
    Picks,         \* lengths a person picks or writes, beside Infinite
    SetForProfile, \* env PROFILE_SET_MAP: the set of a profile's title
    TierIds,       \* ids of the legacy tiers, in the order they are migrated
    Nobody,        \* no profile's title, no binding
    MaxSets,       \* bound: sets in the file
    MaxChanges     \* bound: changes of the file

ShowsShorts == <<"shows_shorts", 1>>
Movies      == <<"movies", 1>>
Closed      == [id |-> <<"closed", 0>>]
NewSet      == <<"new", 0>>

\* A set as the registry reads it (normalize).
IsSet(set) ==
    /\ set \in [id : {set.id}, source : {"queue", "rotation"}, anime : BOOLEAN,
               behavior : {"absent", "progress", "rewatch"}, mode : {"absent", "both", "rewatch"},
               length : Int \cup {Infinite, Unset}, refill : BOOLEAN, profiles : {set.profiles},
               top : {set.top}, superseded : BOOLEAN, enabled : BOOLEAN]
    /\ set.id # NewSet
    /\ set.profiles \in Seq(Range(set.profiles))

\* A legacy set binds at its top level only the profile the map names it for.
OfItsProfile(set) ==
    set.top.user \in DOMAIN SetForProfile => set.id = SetForProfile[set.top.user]

\* A pool that waits for the migration with the binding of a mapped profile.
AwaitsMigration(set, title) ==
    /\ set.source = "rotation" /\ set.profiles = << >> /\ ~set.superseded
    /\ set.top.user = title /\ title \in DOMAIN SetForProfile

Binds(set, title) == \E n \in DOMAIN set.profiles : set.profiles[n].user = title

\* A file has an id once, and no profile is bound both ways.
IsRegistry(file) ==
    /\ file \in Seq(Range(file))
    /\ \A n \in DOMAIN file : IsSet(file[n]) /\ OfItsProfile(file[n])
    /\ \A m, n \in DOMAIN file :
        /\ file[m].id = file[n].id => m = n
        /\ \A title \in DOMAIN SetForProfile :
            AwaitsMigration(file[m], title) => ~Binds(file[n], title)

ASSUME RegistryAssumption ==
    /\ Picks \subseteq Nat
    /\ TierIds \in Seq(Range(TierIds))
    /\ Nobody \notin DOMAIN SetForProfile
    /\ \A file \in Registries : IsRegistry(file)

VARIABLES
    sets,    \* sets.yaml
    form,    \* the open editor, or Closed
    last,    \* what the step before was, for the properties
    changes

registryVars == <<sets, form, last, changes>>

Ids     == {sets[n].id : n \in DOMAIN sets}
At(id)  == SelectInSeq(sets, LAMBDA set : set.id = id)
Get(id) == sets[At(id)]

\* behavior supersedes the older mode.
Behavior(set) == IF set.behavior # "absent" THEN set.behavior ELSE set.mode
IsRewatch(set) == Behavior(set) = "rewatch"

\* What playbackLength and defaultFor read of a set.
AsPlayed(set) ==
    [source  |-> IF set.source = "rotation" /\ IsRewatch(set) THEN "rewatch" ELSE set.source,
     curated |-> set.anime, length |-> set.length, refill |-> set.refill]

\* The default a stated length is compared with, so that the file stays sparse.
KindDefault(set) == DefaultFor(AsPlayed(set))

\* readProfiles: a set without profiles has the one binding of its top level.
Bindings(set) == IF set.profiles # << >> THEN set.profiles ELSE <<set.top>>

\* readStoredLength, as the registry reports it.
Reported(set) ==
    IF set.length = Infinite \/ set.refill THEN Infinite
    ELSE IF set.length \in Nat \ {0} THEN set.length ELSE Unset

\* toLineupLength.
Clamped(pick) ==
    IF pick = Infinite THEN Infinite
    ELSE IF pick \in Nat \ {0} THEN Smaller(pick, RotationLengthMax) ELSE Unset

\* What writing a length stores: nothing if it is the default of the kind.
Stored(pick, set) == IF Clamped(pick) = KindDefault(set) THEN Unset ELSE Clamped(pick)

RegistryInit == sets \in Registries /\ form = Closed /\ last = "started" /\ changes = 0

Changes(what) == changes < MaxChanges /\ changes' = changes + 1 /\ last' = what

-----------------------------------------------------------------------------
\* The editors.  Opening one copies the set, with the length it plays by.
Prefilled(set) ==
    [id |-> set.id, source |-> set.source, anime |-> set.anime,
     behavior |-> IF IsRewatch(set) THEN "rewatch" ELSE "progress",
     shown |-> IF Reported(set) # Unset THEN Reported(set) ELSE KindDefault(set),
     bindings |-> Bindings(set)]

OpensOld ==
    /\ form = Closed
    /\ \E n \in DOMAIN sets : sets[n].superseded = FALSE /\ form' = Prefilled(sets[n])
    /\ last' = "opened"
    /\ UNCHANGED <<sets, changes>>

\* A new pool begins at one window, a new curated set at 1.
OpensNew ==
    /\ form = Closed
    /\ \E source \in {"queue", "rotation"} :
        form' = [id |-> NewSet, source |-> source, anime |-> FALSE, behavior |-> "progress",
                 shown |-> IF source = "rotation" THEN RotationLength ELSE 1,
                 bindings |-> <<[user |-> Nobody, cap |-> Nobody]>>]
    /\ last' = "opened"
    /\ UNCHANGED <<sets, changes>>

\* The controls: a length, a behaviour (pools), a kind (curated sets).
PicksControl ==
    /\ form # Closed
    /\ \/ \E pick \in (Picks \ {0}) \cup {Infinite} : form' = [form EXCEPT !.shown = pick]
       \/ /\ form.source = "rotation"
          /\ \E behavior \in {"progress", "rewatch"} : form' = [form EXCEPT !.behavior = behavior]
       \/ /\ form.source = "queue"
          /\ form' = [form EXCEPT !.anime = ~@]
    /\ last' = "picked"
    /\ UNCHANGED <<sets, changes>>

Dismisses ==
    /\ form # Closed
    /\ form' = Closed /\ last' = "dismissed"
    /\ UNCHANGED <<sets, changes>>

HasData(binding) == binding.user # Nobody \/ binding.cap # Nobody

\* The bindings that say anything.
Telling(bindings) == Only(bindings, {b \in Range(bindings) : HasData(b)})

\* The patch of the pool editor: the behaviour and every binding that says anything;
\* writing profiles drops the top level's binding.
PoolPatched(set) ==
    LET collected == Telling(form.bindings) IN
    IF collected = << >> THEN [set EXCEPT !.behavior = form.behavior]
    ELSE [set EXCEPT !.behavior = form.behavior, !.profiles = collected,
                     !.top = [user |-> Nobody, cap |-> Nobody]]

\* LengthOfTheOld is wrong on purpose: the default is the one of the kind the set has been.
LengthOfTheOld(set, patched) ==
    [patched EXCEPT !.length = Stored(form.shown, set),
                    !.refill = IF form.shown = Infinite THEN FALSE ELSE @]

\* updateSet's length branch: the default is the one of the kind the set becomes; only an
\* infinite length retires the legacy flag.
LengthPatched(set, patched) ==
    [patched EXCEPT !.length = Stored(form.shown, patched),
                    !.refill = IF form.shown = Infinite THEN FALSE ELSE @]

SavesOld ==
    /\ form # Closed /\ form.id \in Ids
    /\ Changes("saved")
    /\ LET set == Get(form.id)
           patched == IF set.source = "rotation" THEN PoolPatched(set)
                      ELSE [set EXCEPT !.anime = form.anime]
       IN  sets' = [sets EXCEPT ![At(form.id)] = LengthPatched(set, patched)]
    /\ form' = Closed

\* slugify: the first number that is free.
FreshId(label) ==
    <<label, CHOOSE n \in 1..(Len(sets) + 1) :
        <<label, n>> \notin Ids /\ \A k \in 1..(n - 1) : <<label, k>> \in Ids>>

Created(label) ==
    LET collected == Telling(form.bindings)
        plain == [id |-> FreshId(label), source |-> form.source, anime |-> form.anime,
                  behavior |-> IF form.source = "rotation" THEN form.behavior ELSE "absent",
                  mode |-> "absent", length |-> Unset, refill |-> FALSE, profiles |-> collected,
                  top |-> [user |-> Nobody, cap |-> Nobody], superseded |-> FALSE, enabled |-> TRUE]
    IN  [plain EXCEPT !.length = Stored(form.shown, plain)]

\* createSet: a curated set lands before the first pool, a pool at the end.
SavesNew ==
    /\ form # Closed /\ form.id = NewSet /\ Len(sets) < MaxSets
    /\ Changes("saved")
    /\ LET firstPool == SelectInSeq(sets, LAMBDA set : set.source = "rotation") IN
       \E label \in Labels :
        sets' = InsertAt(sets, IF form.source = "queue" /\ firstPool # 0 THEN firstPool
                               ELSE Len(sets) + 1, Created(label))
    /\ form' = Closed

\* PATCH of a set that is gone is refused; the editor stays open with the error.
SaveRefused ==
    /\ form # Closed /\ form.id # NewSet /\ form.id \notin Ids
    /\ last' = "refused"
    /\ UNCHANGED <<sets, form, changes>>

-----------------------------------------------------------------------------
DeleteSet ==
    /\ Changes("deleted")
    /\ \E n \in DOMAIN sets : sets' = RemoveAt(sets, n)
    /\ UNCHANGED form

\* reorderSets: the ids named come first, in that order; the others keep theirs.
Reordered(ids) ==
    LET known == Only(ids, Ids) IN
    [n \in DOMAIN known |-> Get(known[n])]
        \o Only(sets, {set \in Range(sets) : set.id \notin Range(known)})

ReorderSets ==
    /\ Changes("reordered")
    /\ \E id \in Ids, also \in Ids :
        sets' = Reordered(IF id = also THEN <<id>> ELSE <<id, also>>)
    /\ UNCHANGED form

\* sets.yaml is edited over SMB: any length, the legacy flag and mode, a switch.
HandEdits ==
    /\ Changes("edited")
    /\ \E n \in DOMAIN sets :
        \/ \E pick \in Picks \cup {Infinite, Unset} : sets' = [sets EXCEPT ![n].length = pick]
        \/ sets[n].source = "rotation" /\ sets' = [sets EXCEPT ![n].refill = ~@]
        \/ /\ sets[n].source = "rotation"
           /\ \E mode \in {"rewatch", "both", "absent"} : sets' = [sets EXCEPT ![n].mode = mode]
        \/ sets' = [sets EXCEPT ![n].enabled = ~@]
    /\ UNCHANGED form

\* The pools among the legacy ids that have no profiles, in the order of those.
Tiers ==
    LET ids == Only(TierIds, {set.id : set \in {old \in Range(sets) :
                                  old.source = "rotation" /\ old.profiles = << >>}})
    IN  [n \in DOMAIN ids |-> Get(ids[n])]

\* A channel of the migration: the bindings of the tiers, in the tiers' order.
Channel(id, behavior, tiers) ==
    [id |-> id, source |-> "rotation", anime |-> FALSE, behavior |-> behavior, mode |-> "absent",
     length |-> Unset, refill |-> FALSE, profiles |-> [n \in DOMAIN tiers |-> tiers[n].top],
     top |-> [user |-> Nobody, cap |-> Nobody], superseded |-> FALSE, enabled |-> TRUE]

\* migrateLegacyTiers: two channels by function take the place of the tiers, which stay.
MigrateLegacyTiers ==
    /\ ShowsShorts \notin Ids /\ Movies \notin Ids /\ Tiers # << >>
    /\ Changes("migrated")
    /\ sets' = [n \in DOMAIN sets |->
                    IF sets[n] \in Range(Tiers) THEN [sets[n] EXCEPT !.superseded = TRUE] ELSE sets[n]]
               \o <<Channel(ShowsShorts, "progress", Tiers), Channel(Movies, "rewatch", Tiers)>>
    /\ UNCHANGED form

RegistryNext ==
    \/ OpensOld \/ OpensNew \/ PicksControl \/ Dismisses
    \/ SavesOld \/ SavesNew \/ SaveRefused
    \/ DeleteSet \/ ReorderSets \/ HandEdits \/ MigrateLegacyTiers

RegistrySpec == RegistryInit /\ [][RegistryNext]_registryVars

-----------------------------------------------------------------------------
\* channelFor: the first pool, in file order, that binds the profile explicitly and is of
\* the card's kind.
ChannelFor(isMovie, title) ==
    SelectInSeq(sets, LAMBDA set :
        /\ set.source = "rotation" /\ set.enabled /\ ~set.superseded
        /\ set.profiles # << >>
        /\ IsRewatch(set) = isMovie
        /\ Binds(set, title))

\* Otherwise the legacy map; 0 when that names nothing in the registry.
Route(isMovie, title) ==
    IF ChannelFor(isMovie, title) # 0 THEN ChannelFor(isMovie, title)
    ELSE IF title \in DOMAIN SetForProfile THEN At(SetForProfile[title]) ELSE 0

\* DefaultBinding is wrong on purpose: the profile that is signed in does not matter.
DefaultBinding(set, title) == Bindings(set)[1]

\* bindingFor: the profile's binding, else the first.
BindingFor(set, title) ==
    LET own == SelectInSeq(Bindings(set), LAMBDA b : b.user = title)
    IN  Bindings(set)[IF own = 0 THEN 1 ELSE own]

\* The binding a card of this kind plays by, tapped by that profile.
WhoPlays(isMovie, title) ==
    LET n == Route(isMovie, title)
    IN  IF n = 0 \/ ~sets[n].enabled THEN [user |-> Nobody, cap |-> Nobody]
        ELSE BindingFor(sets[n], title)

-----------------------------------------------------------------------------
\* The set an editor has just written, in the next state.
SavedSet == CHOOSE set \in Range(sets') : IF form.id = NewSet THEN set.id \notin Ids ELSE set.id = form.id

Shown(pick) == IF pick = Infinite THEN Infinite ELSE Smaller(pick, RotationLengthMax)

\* playbackLength.ts: saving a set makes it play what its editor says.
PlaysAsShown == Length(AsPlayed(SavedSet)) = Shown(form.shown)

\* DynModal.tsx, playbackLength.ts: an editor opens on the length the set plays by and a save
\* makes the set play the length the editor shows, whatever else was switched with it and
\* whatever was written to the file meanwhile: neither a default nor a cap changes it in
\* between.  (Not for a set that carries the legacy flag.)
EditorTellsTheTruth ==
    [][/\ last' = "opened" /\ form'.id # NewSet =>
            Shown(form'.shown) = Length(AsPlayed(Get(form'.id)))
       /\ last' = "saved" /\ (form.id # NewSet => ~Get(form.id).refill) => PlaysAsShown]_registryVars

\* DynModal.tsx: saving a pool migrates it off the legacy flag, so what was picked plays.
ChosenLengthPlays == [][last' = "saved" => PlaysAsShown]_registryVars

\* sets.ts, routing.ts: the migration of the tiers leaves every profile that plays with the
\* binding it had, for both kinds of card; so does a save that leaves behaviour and bindings.
RoutingIsKept ==
    [][LET keeps == /\ last' = "saved" /\ form.id # NewSet /\ form.source = "rotation"
                    /\ (form.behavior = "rewatch") = IsRewatch(Get(form.id))
                    /\ form.bindings = Bindings(Get(form.id))
       IN  last' = "migrated" \/ keeps =>
            \A isMovie \in BOOLEAN, title \in DOMAIN SetForProfile :
                HasData(WhoPlays(isMovie, title)) =>
                    WhoPlays(isMovie, title)' = WhoPlays(isMovie, title)]_registryVars

\* sets.ts, DynModal.tsx, routing.ts: an edit of a set plays as its editor shows, and it
\* reroutes no profile it was not about.
RegistryKeepsItsWord == EditorTellsTheTruth /\ RoutingIsKept
=============================================================================
