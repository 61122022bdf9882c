----------------------------- MODULE MCHousehold -----------------------------
(***************************************************************************)
(* The players' side of the household, for TLC: the registry of players    *)
(* and the profile gate of the Shield.  They share no state, so a          *)
(* behaviour moves one of them, `focus`, and leaves the other as it        *)
(* starts, where no fair action of the gate is enabled.                    *)
(***************************************************************************)
EXTENDS DeviceRegistry, ProfileGate, TLC

CONSTANTS d1, r1, r2, sh, scan1, scan2, owner, bob, kids, none

VARIABLE focus

\* Two tiles; the log calls the first one owner, its tile reads bob.
TwoSlots == 1..2
Tiles    == 1 :> bob @@ 2 :> kids
Logged   == 1 :> owner @@ 2 :> kids
Aliases  == owner :> 1 @@ bob :> 1 @@ kids :> 2

vars == <<devicesVars, gateVars, focus>>

Init ==
    /\ DevicesInit /\ GateInit
    /\ focus \in {"devices", "gate"}
    /\ focus # "devices" => players = {}
    /\ focus # "gate" => ~adb /\ ~order /\ signed = 1 /\ screenOn = "home"

Next ==
    \/ focus = "devices" /\ DevicesNext /\ UNCHANGED <<gateVars, focus>>
    \/ focus = "gate" /\ GateNext /\ UNCHANGED <<devicesVars, focus>>

\* GateFairness, and DevicesFairness of the behaviours that move the devices.
Spec ==
    /\ Init /\ [][Next]_vars /\ GateFairness
    /\ \A r \in Rounds :
          /\ WF_devicesVars(focus = "devices" /\ RoundStarts(r))
          /\ WF_devicesVars(focus = "devices" /\ RoundEnds(r))
          /\ SF_devicesVars(focus = "devices" /\ RoundAnswered(r, TRUE))
    /\ WF_devicesVars(Online) /\ WF_devicesVars(ReaderReturns)

=============================================================================
