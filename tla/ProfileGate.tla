---------------------------- MODULE ProfileGate ----------------------------
(***************************************************************************)
(* The profile gate: driveProfile of driver.ts, the walk of Plex's profile *)
(* picker over adb (adb.ts), and the profile the server's log shows        *)
(* (profiles.ts).  A drive takes the Shield to the profile a set requires. *)
(* LAST_SEEN is either an observation, a log line a wait has read, or the  *)
(* claim of a walk; only an observation lets a drive skip the walk.        *)
(*                                                                         *)
(* The picker is a row of tiles, one for each profile.  The log and the    *)
(* tile may name a profile differently: names with the same slot are       *)
(* aliases (profileOrder).  People use the remote at any time, and a drive *)
(* that has been superseded walks on until it looks at its cancel flag.    *)
(***************************************************************************)
EXTENDS Integers

CONSTANTS
    Drives,    \* scans that may be driving at once
    Slots,     \* tiles, a range of numbers from left to right
    Names,     \* what profiles are called
    SlotOf,    \* the tile of each name
    TileName,  \* what a tile reads
    LogName,   \* what the log calls the profile of a tile
    Required,  \* the profiles sets require, as the log calls them
    Locked,    \* tiles behind a PIN
    RestartEnabled, \* ADB_RESTART_TO_PICKER
    MaxPresses, MaxTries, MaxMenus, \* ADB_MAX_PRESSES, ..._SWITCH_ATTEMPTS, MAX_MENU_TRIES
    MaxTouches, \* bound on what people do
    NoName

ASSUME GateAssumption ==
    /\ Slots \subseteq Int /\ Locked \subseteq Slots
    /\ \A s, t \in Slots : s..t \subseteq Slots
    /\ SlotOf \in [Names -> Slots] /\ TileName \in [Slots -> Names] /\ LogName \in [Slots -> Names]
    /\ \A s \in Slots : SlotOf[TileName[s]] = s /\ SlotOf[LogName[s]] = s
    /\ Required \subseteq Names /\ NoName \notin Names
    /\ RestartEnabled \in BOOLEAN
    /\ MaxPresses \in Nat /\ MaxTries \in Nat /\ MaxMenus \in Nat /\ MaxTouches \in Nat

VARIABLES
    screenOn,  \* what the Shield shows: "asleep", "home", "player" or "picker"
    tile,      \* the tile that is lit
    signed,    \* the profile Plex is signed into
    lastSeen,      \* LAST_SEEN
    line,      \* the last log line no wait has read, as a tile; 0: none
    order,     \* whether the picker order can be had (the environment, plex.tv or its cache)
    adb,       \* ADB_ENABLED
    drive,     \* the drives; their field `touched` is history: somebody else has used
               \* the Shield since the drive read the lit tile
    changed,   \* history: the profile has changed since the last line that was read
    touches

shieldVars == <<screenOn, tile, signed>>
settings   == <<order, adb>>
gateVars   == <<shieldVars, lastSeen, line, settings, drive, changed, touches>>

Fresh == [stage |-> "new", required |-> NoName, cancelled |-> FALSE, tries |-> 0,
          hint |-> NoName, current |-> NoName, verified |-> FALSE, touched |-> FALSE,
          presses |-> 0, menus |-> 0]

Ended == {"cleared", "refused", "cancelled"}

GateInit ==
    /\ screenOn \in {"asleep", "home"} /\ signed \in Slots /\ tile = signed
    /\ lastSeen = [title |-> NoName, isObserved |-> FALSE]
    /\ line = 0 /\ adb \in BOOLEAN /\ order \in BOOLEAN
    /\ drive = [d \in Drives |-> Fresh]
    /\ changed = FALSE /\ touches = 0

At(d, stage) == drive[d].stage = stage

Drive(d, to) == drive' = [drive EXCEPT ![d] = to]

\* Out of the walk, or with nothing left to learn: what it knew is gone with it.
Left(d, stage) ==
    [Fresh EXCEPT !.stage = stage, !.required = drive[d].required,
                  !.tries = IF stage \in Ended THEN 0 ELSE drive[d].tries,
                  !.cancelled = stage \notin Ended /\ drive[d].cancelled]
Failed(d)     == Left(d, "failed")
Out(d, stage) == Drive(d, Left(d, stage))

\* What d, or a person, does to the Shield the other walks have not seen.
Touched(e)  == [drive[e] EXCEPT !.touched = drive[e].verified]
Uses(d, to) == drive' = [e \in Drives |-> IF e = d THEN to ELSE Touched(e)]

OnPicker == screenOn = "picker"

-----------------------------------------------------------------------------
(* Names and LAST_SEEN.                                                    *)

\* sameProfile: without an order it is string equality.
SameProfile(a, b) ==
    a = b \/ (a \in Names /\ b \in Names /\ order /\ SlotOf[a] = SlotOf[b])

\* ByTitle is wrong on purpose: a claim skips the walk like an observation.
ByTitle(name) == lastSeen.title # NoName /\ SameProfile(lastSeen.title, name)

OnRequired(name) == lastSeen.title # NoName /\ lastSeen.isObserved /\ SameProfile(lastSeen.title, name)

-----------------------------------------------------------------------------
(* driveProfile.                                                           *)

\* A scan; it cancels the others.  An automatic one first waits for any profile.
DriveStarts(d) ==
    /\ At(d, "new")
    /\ \E name \in Required, first \in {"detecting", "gating"} :
          drive' = [e \in Drives |->
                       IF e = d THEN [Fresh EXCEPT !.stage = first, !.required = name]
                       ELSE [drive[e] EXCEPT !.cancelled = drive[e].stage \notin Ended \cup {"new"}]]
    /\ UNCHANGED <<shieldVars, lastSeen, line, settings, changed, touches>>

\* A wait reads a line.  Without `match` it is content with any.
WaitReads(d) ==
    /\ At(d, "detecting") \/ At(d, "waiting")
    /\ line # 0 /\ line' = 0
    /\ lastSeen' = [title |-> LogName[line], isObserved |-> TRUE]
    /\ changed' = (line # signed)
    /\ IF At(d, "detecting") THEN Out(d, "gating")
       ELSE IF LogName[line] = drive[d].required THEN Out(d, "cleared")
       ELSE UNCHANGED drive
    /\ UNCHANGED <<shieldVars, settings, touches>>

\* It times out, is cancelled, or cannot read the log.
WaitEnds(d) ==
    /\ At(d, "detecting") \/ At(d, "waiting")
    /\ Out(d, IF drive[d].cancelled THEN "cancelled" ELSE "refused")
    /\ UNCHANGED <<shieldVars, lastSeen, line, settings, changed, touches>>

Gate(d) ==
    /\ At(d, "gating")
    /\ Out(d, IF OnRequired(drive[d].required) THEN "cleared"
                 ELSE IF adb THEN "attempting" ELSE "waiting")
    /\ UNCHANGED <<shieldVars, lastSeen, line, settings, changed, touches>>

\* NoTry is wrong on purpose: attempts are not counted.
NoTry(d) == drive[d].tries

\* The attempts made when another one begins.
TriesWith(d) == drive[d].tries + 1

Attempt(d) ==
    /\ At(d, "attempting")
    /\ IF drive[d].cancelled THEN Out(d, "cancelled")
       ELSE IF drive[d].tries >= MaxTries THEN Out(d, "refused")
       ELSE Drive(d, [Fresh EXCEPT !.stage = "summoning", !.required = drive[d].required,
                                   !.tries = TriesWith(d), !.hint = lastSeen.title])
    /\ UNCHANGED <<shieldVars, lastSeen, line, settings, changed, touches>>

\* A walk that failed: somebody may have signed in meanwhile.
WalkFailed(d) ==
    /\ At(d, "failed")
    /\ Out(d, IF OnRequired(drive[d].required) THEN "cleared" ELSE "attempting")
    /\ UNCHANGED <<shieldVars, lastSeen, line, settings, changed, touches>>

\* ADB_PICKER_WAIT_SECONDS are over, where the walk looks.
RunsLate(d) ==
    /\ At(d, "summoning") \/ At(d, "comparing")
    /\ Out(d, "failed")
    /\ UNCHANGED <<shieldVars, lastSeen, line, settings, changed, touches>>

-----------------------------------------------------------------------------
(* The walk: summonPicker and the loop of switchTo.                        *)

Sees(d, name, isSight) ==
    [drive[d] EXCEPT !.stage = "comparing", !.current = name, !.verified = isSight,
                     !.touched = FALSE, !.hint = NoName, !.menus = 0]
Reads(d)    == Sees(d, TileName[tile], TRUE)
Resummon(d) == [Sees(d, NoName, FALSE) EXCEPT !.stage = "summoning"]

\* The picker is there: the hint is taken for what is lit, or the tile is read.
PickerFound(d) ==
    /\ At(d, "summoning") /\ ~drive[d].cancelled /\ OnPicker
    /\ Drive(d, IF drive[d].hint # NoName THEN Sees(d, drive[d].hint, FALSE) ELSE Reads(d))
    /\ UNCHANGED <<shieldVars, lastSeen, line, settings, changed, touches>>

\* Wake the Shield, or back out of a player.
BacksOut(d) ==
    /\ At(d, "summoning") /\ ~drive[d].cancelled
    /\ screenOn \in {"asleep", "player"}
    /\ screenOn' = "home" /\ Uses(d, drive[d])
    /\ UNCHANGED <<tile, signed, lastSeen, line, settings, changed, touches>>

\* Plex's own way to the picker, twice; then Plex is stopped and started again.
OpensPicker(d, isOk) ==
    /\ At(d, "summoning") /\ ~drive[d].cancelled /\ screenOn = "home"
    /\ drive[d].menus < MaxMenus \/ RestartEnabled
    /\ drive[d].menus = MaxMenus => isOk
    /\ IF isOk THEN screenOn' = "picker" /\ tile' = signed ELSE UNCHANGED <<screenOn, tile>>
    /\ Uses(d, IF drive[d].menus = MaxMenus THEN [drive[d] EXCEPT !.hint = NoName]
                ELSE [drive[d] EXCEPT !.menus = @ + 1])
    /\ UNCHANGED <<signed, lastSeen, line, settings, changed, touches>>

SummonFails(d) ==
    /\ At(d, "summoning")
    /\ \/ drive[d].cancelled
       \/ screenOn = "home" /\ drive[d].menus = MaxMenus
    /\ Out(d, "failed")
    /\ UNCHANGED <<shieldVars, lastSeen, line, settings, changed, touches>>

\* HintTrusted is wrong on purpose: a hint that fits is committed without a look.
HintTrusted(d) == TRUE

\* Whether the walk knows the lit tile, rather than having guessed it.
Confirmed(d) == drive[d].verified

Compare(d) ==
    LET c == drive[d]
        same == SameProfile(c.current, c.required)
    IN  /\ At(d, "comparing")
        /\ Drive(d, IF same /\ Confirmed(d) THEN [c EXCEPT !.stage = "committing"]
                    ELSE IF same /\ OnPicker THEN Reads(d)
                    ELSE IF same THEN Resummon(d)
                    ELSE IF c.cancelled \/ c.presses >= MaxPresses \/ ~order
                         THEN Failed(d)
                    ELSE [c EXCEPT !.stage = "pressing"])
        /\ UNCHANGED <<shieldVars, lastSeen, line, settings, changed, touches>>

Lesser(m, n)  == IF m < n THEN m ELSE n
Distance(d)  == SlotOf[drive[d].required] - tile

\* The guard before a press, and the press: as many tiles as are left to go, or as
\* may still be pressed.
Press(d) ==
    LET far  == IF Distance(d) < 0 THEN 0 - Distance(d) ELSE Distance(d)
        n    == Lesser(far, MaxPresses - drive[d].presses)
        to   == IF Distance(d) < 0 THEN tile - n ELSE tile + n
    IN  /\ At(d, "pressing")
        /\ IF OnPicker /\ TileName[tile] = drive[d].current
           THEN /\ tile' = to
                /\ Uses(d, [drive[d] EXCEPT !.stage = "reading", !.presses = @ + n])
           ELSE /\ Drive(d, IF OnPicker THEN Reads(d) ELSE Resummon(d))
                /\ UNCHANGED tile
        /\ UNCHANGED <<screenOn, signed, lastSeen, line, settings, changed, touches>>

\* Where the presses have led.  Nothing moved: the end of the row, or another Plex.
ReadBack(d) ==
    /\ At(d, "reading")
    /\ Drive(d, IF ~OnPicker THEN Resummon(d)
                ELSE IF TileName[tile] = drive[d].current THEN Failed(d)
                ELSE Reads(d))
    /\ UNCHANGED <<shieldVars, lastSeen, line, settings, changed, touches>>

\* CENTER.  A PIN leaves the picker up; off the picker it starts something.
Commit(d) ==
    /\ At(d, "committing")
    /\ Uses(d, [Left(d, "accepting") EXCEPT !.verified = TRUE, !.touched = drive[d].touched])
    /\ IF OnPicker /\ tile \notin Locked
       THEN signed' = tile /\ screenOn' = "home" /\ changed' = (changed \/ tile # signed)
       ELSE /\ UNCHANGED <<signed, changed>>
            /\ screenOn' = IF screenOn = "home" THEN "player" ELSE screenOn
    /\ UNCHANGED <<tile, lastSeen, line, settings, touches>>

Claim(name)        == [title |-> name, isObserved |-> FALSE]

\* pickerGone: the picker went, which is taken for the pick; or it is still up.
Accepted(d) ==
    /\ At(d, "accepting") /\ ~OnPicker
    /\ lastSeen' = Claim(drive[d].required)
    /\ Out(d, "cleared")
    /\ UNCHANGED <<shieldVars, line, settings, changed, touches>>

Rejected(d) ==
    /\ At(d, "accepting") /\ OnPicker
    /\ Out(d, "failed")
    /\ UNCHANGED <<shieldVars, lastSeen, line, settings, changed, touches>>

\* An adb command fails.
AdbFails(d) ==
    /\ drive[d].stage \in {"summoning", "pressing", "committing"}
    /\ Out(d, "failed")
    /\ UNCHANGED <<shieldVars, lastSeen, line, settings, changed, touches>>

-----------------------------------------------------------------------------
(* Plex and people.                                                        *)

\* Signed in, the Shield makes a request, and the server logs it.
LogLine ==
    /\ screenOn \in {"home", "player"} /\ \E d \in Drives : At(d, "detecting") \/ At(d, "waiting")
    /\ line # signed /\ line' = signed
    /\ UNCHANGED <<shieldVars, lastSeen, settings, drive, changed, touches>>

Person(to) ==
    /\ touches < MaxTouches /\ touches' = touches + 1
    /\ screenOn' = to
    /\ drive' = [d \in Drives |-> Touched(d)]
    /\ UNCHANGED <<lastSeen, line, settings>>

PersonPicks == \E s \in Slots :
    OnPicker /\ Person("home") /\ signed' = s /\ tile' = s /\ changed' = (changed \/ s # signed)

PersonMoves == \E s \in Slots \ {tile} :
    OnPicker /\ Person("picker") /\ tile' = s /\ UNCHANGED <<signed, changed>>

PersonUses == \E to \in {"asleep", "home", "player", "picker"} \ {screenOn} :
    /\ Person(to)
    /\ tile' = IF to = "picker" THEN signed ELSE tile
    /\ UNCHANGED <<signed, changed>>

-----------------------------------------------------------------------------
Walks(d) ==
    \/ Gate(d) \/ Attempt(d) \/ WalkFailed(d) \/ PickerFound(d) \/ BacksOut(d) \/ SummonFails(d)
    \/ Compare(d) \/ Press(d) \/ ReadBack(d) \/ Commit(d) \/ Accepted(d) \/ Rejected(d)
    \/ \E ok \in BOOLEAN : OpensPicker(d, ok)

GateNext ==
    \/ \E d \in Drives : DriveStarts(d) \/ WaitReads(d) \/ WaitEnds(d) \/ Walks(d) \/ RunsLate(d)
                         \/ AdbFails(d)
    \/ LogLine \/ PersonPicks \/ PersonMoves \/ PersonUses

GateSpec == GateInit /\ [][GateNext]_gateVars

\* The process goes on, and every wait and walk has a deadline.
GateFairness ==
    \A d \in Drives : WF_gateVars(Walks(d)) /\ WF_gateVars(WaitEnds(d)) /\ WF_gateVars(RunsLate(d))

-----------------------------------------------------------------------------
GateTypeOK ==
    /\ screenOn \in {"asleep", "home", "player", "picker"}
    /\ tile \in Slots /\ signed \in Slots /\ line \in Slots \cup {0}
    /\ lastSeen \in [title : Names \cup {NoName}, isObserved : BOOLEAN]
    /\ \A d \in Drives :
          /\ drive[d].presses \in 0..MaxPresses /\ drive[d].tries \in 0..MaxTries
          /\ drive[d].stage # "new" => drive[d].required \in Required
          /\ drive[d].current \in Names \cup {NoName}

\* A gate that clears at the end of a walk leaves the Shield signed into the profile
\* that was required, unless somebody else has used it since the walk last read the
\* lit tile; one that clears at sight, unless the profile has changed since the log
\* line.  A claim, a stale hint or an alias never stand in for it (driveProfile,
\* switchTo).
GateMeansProfile ==
    [][\A d \in Drives : ~At(d, "cleared") /\ drive'[d].stage = "cleared" =>
          \/ signed = SlotOf[drive[d].required]
          \/ IF At(d, "accepting") THEN drive[d].touched ELSE changed']_gateVars

\* Every drive comes to an end: cleared, refused or cancelled; whatever people do, and
\* however often the picker goes and comes.
GatesSettle == \A d \in Drives : ~At(d, "new") ~> drive[d].stage \in Ended
=============================================================================
