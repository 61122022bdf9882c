--------------------------- MODULE PlaybackLength ---------------------------
(***************************************************************************)
(* How many items a set plays in one sitting (engine/playbackLength.ts).   *)
(* The module is pure: session start, top-up and the selection engine all  *)
(* read the length of a set through these operators, so that "plays N and  *)
(* stops" and "never runs out" mean the same thing everywhere.             *)
(*                                                                         *)
(* A set is a record; the fields read here are                             *)
(*   source  "queue" | "rotation" | "rewatch" (a rotation whose behaviour  *)
(*           is rewatch)                                                   *)
(*   curated whether kind is anime: a curated pool                         *)
(*   length  what sets.yaml says: Infinite, a number, or Unset             *)
(*   refill  the legacy spelling of an infinite length                     *)
(***************************************************************************)
EXTENDS Integers

CONSTANTS
    RotationLength,    \* env ROTATION_LENGTH: one window of items
    RotationLengthMax, \* env ROTATION_LENGTH_MAX: ceiling of a stated length
    Infinite,          \* the named infinite length (null in the code)
    Unset              \* no usable length stated

ASSUME WindowAssumption ==
    /\ RotationLength \in Nat \ {0}
    /\ RotationLengthMax \in Nat
    /\ RotationLength <= RotationLengthMax

ASSUME SentinelAssumption ==
    /\ Infinite \notin Int
    /\ Unset \notin Int
    /\ Infinite # Unset

Smaller(a, b) == IF a <= b THEN a ELSE b

Target == (Nat \ {0}) \cup {Infinite}

\* What a set plays when it has never said.
DefaultFor(cfg) ==
    IF cfg.source = "rewatch" THEN 1
    ELSE IF cfg.source = "rotation" \/ cfg.curated THEN RotationLength
    ELSE 1

\* A length that is missing, zero or negative falls back; `fallback` is Unset
\* for every caller but the reading list, which states its own.
LengthOr(cfg, fallback) ==
    IF cfg.length = Infinite \/ cfg.refill THEN Infinite
    ELSE IF cfg.length \in Nat \ {0} THEN Smaller(cfg.length, RotationLengthMax)
    ELSE IF fallback = Unset THEN DefaultFor(cfg)
    ELSE fallback

Length(cfg) == LengthOr(cfg, Unset)

\* How many items to queue up front: never more than one window.
InitialQueueSize(target) ==
    IF target = Infinite THEN RotationLength ELSE Smaller(target, RotationLength)

\* A set tops up exactly when it wants more than one window holds.
NeedsTopup(target) == target = Infinite \/ target > RotationLength

IsTargetMet(target, queuedTotal) == target # Infinite /\ queuedTotal >= target

\* WholeWindow is wrong on purpose: it rounds a finite target up to a window.
WholeWindow(target, queuedTotal) == RotationLength

\* How far ahead a top-up stays: one window, or what is left of a finite target.
TopupWindow(target, queuedTotal) ==
    IF target = Infinite THEN RotationLength
    ELSE LET left == Smaller(RotationLength, target - queuedTotal)
         IN  IF left < 1 THEN 1 ELSE left
=============================================================================
