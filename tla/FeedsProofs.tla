----------------------------- MODULE FeedsProofs -----------------------------
(***************************************************************************)
(* Proofs about the two consumers of what the server publishes,            *)
(* ResumeOnAdvance and LiveFeed, for any players, polls, lineups and scans,*)
(* and any edits, drags, plays and faults.                                 *)
(***************************************************************************)
EXTENDS LiveFeed, ResumeOnAdvance, TLAPS

-----------------------------------------------------------------------------
(* ResumeOnAdvance.  The reason a scan seeks an episode once is not in any *)
(* poll: it is that what has been sought is seen, whichever poll sought    *)
(* it, and that plan, seen and lineup are only ever replaced together.     *)

\* What the armed plan and its memory of what was sought have to do with each other.
ResumeInv ==
    /\ plan = ResumePlan(lineup) /\ plan \subseteq Items
    /\ sought \in [Items -> Nat]
    /\ \A i \in Items : sought[i] <= 1
    /\ \A i \in Items : sought[i] > 0 => i \in seen \cap plan

(* A lineup's plan is of its items.                                        *)
LEMMA PlanIsOfTheLineup ==
    ASSUME NEW items, items \in Seq(Candidate)
    PROVE  /\ ResumePlan(items) \subseteq Items
           /\ \A i \in ResumePlan(items) :
                 /\ \E n \in 1..Len(items) : items[n].item = i /\ Usable(items[n])
                 /\ Head(items).item # i
<1> SUFFICES ASSUME NEW i \in ResumePlan(items)
             PROVE  /\ i \in Items
                    /\ \E n \in 1..Len(items) : items[n].item = i /\ Usable(items[n])
                    /\ Head(items).item # i
  OBVIOUS
<1>1. PICK c \in Range(items) : c.item = i /\ Usable(c) /\ c.item # Head(items).item
  BY DEF ResumePlan
<1>2. PICK n \in 1..Len(items) : items[n] = c
  BY DEF Range
<1>3. c \in Candidate
  BY <1>2
<1> QED BY <1>1, <1>2, <1>3 DEF Candidate

LEMMA ResumeBegins == ResumeInit => ResumeInv
<1> SUFFICES ASSUME ResumeInit PROVE ResumeInv
  OBVIOUS
<1>1. ResumePlan(<< >>) = {}
  BY DEF ResumePlan, Range
<1> QED BY <1>1 DEF ResumeInit, ResumeInv

(* A scan replaces the plan and forgets what was sought, all at once.      *)
LEMMA ArmingKeeps == ResumeInv /\ ScanArms => ResumeInv'
<1> SUFFICES ASSUME ResumeInv, ScanArms PROVE ResumeInv'
  OBVIOUS
<1>1. PICK items \in Lineups, d \in Players : Arm(items, d)
  BY DEF ScanArms
<1>2. items \in Seq(Candidate)
  BY ResumeAssumption
<1>3. plan' = ResumePlan(lineup') /\ plan' \subseteq Items
  BY <1>1, <1>2, PlanIsOfTheLineup DEF Arm
<1>4. sought' = [i \in Items |-> 0]
  BY <1>1 DEF Arm
<1> QED BY <1>3, <1>4 DEF ResumeInv

(* A poll that finds an episode due finds it unseen, hence not yet sought. *)
LEMMA ConsideringKeeps ==
    ASSUME ResumeInv, NEW p \in Polls, PollConsiders(p)
    PROVE  ResumeInv'
<1> DEFINE r == poll[p].reading
<1>1. UNCHANGED <<lineup, plan>> /\ seen' = MarkSeen(r) /\ seen \subseteq seen'
  BY DEF PollConsiders, MarkSeen
<1>2. CASE IsDue(r)
  <2>1. r.item \in plan /\ r.item \notin seen /\ ~r.late
    BY <1>2 DEF IsDue, Pending
  <2>2. r.item \in Items /\ r.item # NoItem
    BY <2>1, ResumeAssumption DEF ResumeInv
  <2>3. r.item \in seen'
    BY <1>1, <2>1, <2>2 DEF MarkSeen, Settles
  <2>4. sought[r.item] = 0
    BY <2>1, <2>2 DEF ResumeInv
  <2>5. sought' = [sought EXCEPT ![r.item] = @ + 1]
    BY <1>2 DEF PollConsiders
  <2>6. sought' = [sought EXCEPT ![r.item] = 1]
    BY <2>4, <2>5 DEF ResumeInv
  <2> HIDE DEF r
  <2>7. sought' \in [Items -> Nat] /\ \A i \in Items : sought'[i] <= 1
    BY <2>2, <2>6 DEF ResumeInv
  <2>8. \A i \in Items : sought'[i] > 0 => i \in seen' \cap plan'
    BY <1>1, <2>1, <2>2, <2>3, <2>6 DEF ResumeInv
  <2> QED BY <1>1, <2>7, <2>8 DEF ResumeInv
<1>3. CASE ~IsDue(r)
  <2>1. UNCHANGED sought
    BY <1>3 DEF PollConsiders
  <2> QED BY <1>1, <2>1 DEF ResumeInv
<1> QED BY <1>2, <1>3

(* Nothing else touches the plan or what is remembered of it.              *)
LEMMA NextKeepsResume == ResumeInv /\ [ResumeNext]_resumeVars => ResumeInv'
<1> SUFFICES ASSUME ResumeInv, [ResumeNext]_resumeVars PROVE ResumeInv'
  OBVIOUS
<1>1. CASE ScanArms
  BY <1>1, ArmingKeeps
<1>2. ASSUME NEW p \in Polls, PollConsiders(p) PROVE ResumeInv'
  BY <1>2, ConsideringKeeps
<1>3. CASE UNCHANGED <<lineup, plan, seen, sought>>
  BY <1>3 DEF ResumeInv
<1>4. ASSUME NEW isOver \in BOOLEAN, WatchEnds(isOver) PROVE UNCHANGED armedVars
  BY <1>4 DEF WatchEnds
<1>5. ASSUME NEW p \in Polls, NEW ok \in BOOLEAN,
             PollStarts(p) \/ PollFails(p) \/ PollReads(p, ok) \/ SeekEnds(p, ok)
      PROVE  UNCHANGED armedVars
  BY <1>5 DEF PollStarts, PollFails, PollReads, SeekEnds
<1>6. CASE LineupPushed
  BY <1>3, <1>6 DEF LineupPushed, Shows, armedVars
<1>7. ASSUME NEW d \in Players, PlayerAdvances(d) \/ PositionSettles(d) \/ PlaysOn(d)
      PROVE  UNCHANGED armedVars
  BY <1>7 DEF PlayerAdvances, PositionSettles, PlaysOn, Shows
<1>8. CASE UNCHANGED resumeVars
  BY <1>3, <1>8 DEF resumeVars
<1> QED BY <1>1, <1>2, <1>3, <1>4, <1>5, <1>6, <1>7, <1>8 DEF ResumeNext, armedVars

(* A lineup in Init and in every scan is a sequence of candidates.         *)
LEMMA LineupsAreSequences ==
    /\ ResumeInit => lineup \in Seq(Candidate)
    /\ lineup \in Seq(Candidate) /\ [ResumeNext]_resumeVars => (lineup \in Seq(Candidate))'
<1>1. ResumeInit => lineup \in Seq(Candidate)
  BY DEF ResumeInit
<1>2. ASSUME lineup \in Seq(Candidate), [ResumeNext]_resumeVars
      PROVE  lineup' \in Seq(Candidate)
  <2>1. CASE ScanArms
    BY <2>1, ResumeAssumption DEF ScanArms, Arm
  <2>2. CASE ~ScanArms
    BY <1>2, <2>2 DEF ResumeNext, resumeVars, armedVars, WatchEnds, PollStarts, PollFails,
                PollReads, PollConsiders, SeekEnds, LineupPushed, Shows, PlayerAdvances,
                PositionSettles, PlaysOn
  <2> QED BY <2>1, <2>2
<1> QED BY <1>1, <1>2

-----------------------------------------------------------------------------
\* However many polls overlap, are late, or outlive the scan they were started for, a scan
\* seeks an episode at most once, and only an episode of its own lineup that has a usable
\* marker and is not the head (considerSession, arm, resumePlan).
THEOREM SeeksStayRight == ResumeSpec => []SeeksAreRight
<1>1. ResumeInv /\ lineup \in Seq(Candidate) => SeeksAreRight
  <2> SUFFICES ASSUME ResumeInv, lineup \in Seq(Candidate) PROVE SeeksAreRight
    OBVIOUS
  <2>1. SoughtOnce
    BY DEF SoughtOnce, ResumeInv
  <2>2. SeeksAreOfThisScan
    BY PlanIsOfTheLineup DEF SeeksAreOfThisScan, ResumeInv
  <2> QED BY <2>1, <2>2 DEF SeeksAreRight
<1> QED BY <1>1, ResumeBegins, NextKeepsResume, LineupsAreSequences, PTL DEF ResumeSpec

-----------------------------------------------------------------------------
(* LiveFeed.  A refresh is safe because the tag is taken before the files  *)
(* are read: whatever an answer is tagged with, its body already has.      *)

Everything == Edits \union Drags

\* What a request in flight is made of.
Asked == [kind : {"tagged", "forced", "load", "now"},
          stage : {"sent", "reading", "unmodified", "answered"},
          since : SUBSET Everything, sends : SUBSET (SUBSET Everything),
          tag : SUBSET (SUBSET Everything), body : SUBSET Everything, now : 0..MaxPlays]

\* The stat comes before the read: while the files are being read they have all that the
\* tag claims, and so has the body in the end.
IsSound(r, files) ==
    /\ r \in Asked
    /\ r.since \subseteq files /\ r.body \subseteq files
    /\ r.stage = "sent" => r.tag = {}
    /\ r.stage = "reading" => \A t \in r.tag : t \subseteq files
    /\ r.stage = "answered" => \A t \in r.tag : t \subseteq r.body

FlightsAreSound ==
    /\ DOMAIN flight = Slots
    /\ \A s \in Slots : flight[s] = Idle \/ IsSound(flight[s], disk)

LiveInv ==
    /\ LiveTypeOK
    /\ FlightsAreSound
    /\ etag \subseteq SUBSET Everything
    /\ drags \subseteq Drags /\ gesture \notin drags
    /\ plays \in 0..MaxPlays
    /\ resolving \subseteq 0..MaxPlays

(* Files that grow make no request unsound.                                *)
LEMMA SoundAsFilesGrow ==
    ASSUME NEW r, NEW old, NEW new, old \subseteq new, IsSound(r, old)
    PROVE  IsSound(r, new)
BY DEF IsSound

LEMMA IdleIsNobodys == \A r \in Asked : r # Idle /\ r.kind # "idle"
BY DEF Asked, Idle

(* What sending leaves in flight: a free slot holds a request just made.   *)
LEMMA SendingIsSound ==
    ASSUME LiveInv, NEW kinds, kinds \subseteq {"tagged", "forced", "load", "now"},
           Send(flight, kinds), disk \subseteq disk'
    PROVE  FlightsAreSound'
<1> DEFINE free == {s \in Slots : flight[s] = Idle}
<1>1. PICK pick \in [kinds -> free] :
         flight' = [s \in Slots |-> IF \E k \in kinds : pick[k] = s
                                    THEN Request(CHOOSE k \in kinds : pick[k] = s)
                                    ELSE flight[s]]
  BY DEF Send
<1>2. ASSUME NEW k \in kinds PROVE IsSound(Request(k), disk)
  <2>1. disk \subseteq Everything /\ etag \subseteq SUBSET Everything /\ 0 \in 0..MaxPlays
    BY LiveAssumption DEF LiveInv, LiveTypeOK, Everything
  <2> QED BY <2>1 DEF Request, IsSound, Asked, NoTag
<1>3. ASSUME NEW s \in Slots PROVE flight'[s] = Idle \/ IsSound(flight'[s], disk')
  <2>1. CASE \E k \in kinds : pick[k] = s
    <3>1. (CHOOSE k \in kinds : pick[k] = s) \in kinds
      BY <2>1
    <3> QED BY <1>1, <1>2, <2>1, <3>1, SoundAsFilesGrow
  <2>2. CASE ~\E k \in kinds : pick[k] = s
    <3>1. flight'[s] = flight[s]
      BY <1>1, <2>2
    <3> QED BY <3>1, SoundAsFilesGrow DEF LiveInv, FlightsAreSound
  <2> QED BY <2>1, <2>2
<1> QED BY <1>1, <1>3 DEF FlightsAreSound

(* One request goes on, or is over.                                        *)
LEMMA OneRequestGoesOn ==
    ASSUME LiveInv, NEW s \in Slots, NEW r, flight' = [flight EXCEPT ![s] = r],
           r = Idle \/ IsSound(r, disk'), disk \subseteq disk'
    PROVE  FlightsAreSound'
<1>1. \A i \in Slots : flight'[i] = IF i = s THEN r ELSE flight[i]
  BY DEF LiveInv, FlightsAreSound
<1> QED BY <1>1, SoundAsFilesGrow DEF LiveInv, FlightsAreSound

LEMMA FilesOnlyGrow ==
    ASSUME LiveInv, disk \subseteq disk', UNCHANGED flight
    PROVE  FlightsAreSound'
BY SoundAsFilesGrow DEF LiveInv, FlightsAreSound

-----------------------------------------------------------------------------
LEMMA LiveBegins == LiveInit => LiveInv
<1> SUFFICES ASSUME LiveInit PROVE LiveInv
  OBVIOUS
<1>1. PICK b \in Budgets :
        /\ disk = Edits \ b.edits /\ isDue = FALSE /\ stream = "up" /\ wire = <<>>
        /\ flight = [s \in Slots |-> Idle]
        /\ shown = disk /\ etag \in {NoTag, {disk}} /\ isPending = FALSE /\ heard = disk
        /\ gesture = None /\ drags = b.drags /\ patches = {}
        /\ plays = b.plays /\ resolving = {} /\ announcing = {}
        /\ lastNow = 0 /\ framed = 0 /\ tabNow = 0
  BY DEF LiveInit
<1>2. FlightsAreSound
  BY <1>1 DEF FlightsAreSound
<1>3. LiveTypeOK
  BY <1>1, LiveAssumption DEF LiveTypeOK, Frames
<1> QED BY <1>1, <1>2, <1>3, LiveAssumption DEF LiveInv, Everything, NoTag, None

(* The server's half: files, stream and now-playing messages.              *)
LEMMA TheServerKeeps ==
    ASSUME LiveInv,
           \/ \E e \in Edits : EditLands(e)
           \/ DataBroadcast \/ StreamOpens \/ StreamRegisters \/ StreamReplayed \/ StreamDrops
           \/ NowArrives \/ \E p \in 1..MaxPlays : NowResolved(p) \/ NowBroadcast(p)
    PROVE  LiveInv'
<1> USE DEF LiveInv, LiveTypeOK, feed, tab, hand, playing, budget
<1>1. Data \in Frames /\ Open \in Frames /\ Now(lastNow) \in Frames
  BY DEF Frames
<1>2. Frames' = Frames
  BY DEF Frames, Data, Open, Now
<1>3. ASSUME NEW e \in Edits, EditLands(e) PROVE LiveInv'
  <2>1. FlightsAreSound'
    BY <1>3, FilesOnlyGrow DEF EditLands
  <2>2. \A s \in Slots : flight[s] = Idle \/ flight[s].since \subseteq disk'
    BY <1>3 DEF EditLands
  <2> QED BY <1>2, <1>3, <2>1, <2>2 DEF EditLands
<1>4. CASE UNCHANGED <<disk, flight>>
  <2>1. FlightsAreSound'
    BY <1>4 DEF FlightsAreSound
  <2>2. CASE DataBroadcast
    BY <1>1, <1>2, <2>1, <2>2 DEF DataBroadcast, Broadcast, IsRegistered
  <2>3. CASE StreamOpens
    <3>1. <<Open>> \in Seq(Frames)
      BY <1>1
    <3> QED BY <1>1, <1>2, <2>1, <2>3, <3>1 DEF StreamOpens
  <2>7. CASE StreamReplayed \/ StreamDrops
    <3>1. << >> \in Seq(Frames)
      OBVIOUS
    <3> QED BY <1>1, <1>2, <2>1, <2>7, <3>1 DEF StreamReplayed, StreamDrops
  <2>4. CASE StreamRegisters
    BY <1>1, <1>2, <2>1, <2>4 DEF StreamRegisters
  <2>5. CASE NowArrives
    BY <1>2, <2>1, <2>5, LiveAssumption DEF NowArrives
  <2>6. ASSUME NEW p \in 1..MaxPlays, NowResolved(p) PROVE LiveInv'
    BY <1>2, <2>1, <2>6, LiveAssumption DEF NowResolved
  <2>8. ASSUME NEW p \in 1..MaxPlays, NowBroadcast(p) PROVE LiveInv'
    BY <1>1, <1>2, <2>1, <2>8, LiveAssumption DEF NowBroadcast, Broadcast, IsRegistered
  <2> QED BY <1>3, <2>2, <2>3, <2>4, <2>5, <2>6, <2>7, <2>8
<1> QED BY <1>3, <1>4 DEF DataBroadcast, StreamOpens, StreamRegisters, StreamReplayed, StreamDrops,
                          NowArrives, NowResolved, NowBroadcast

(* The tab's half: requests that go on, and those that are over.           *)
LEMMA RequestsKeep ==
    ASSUME LiveInv, NEW s \in Slots,
           \/ ServerTags(s) \/ ServerReads(s) \/ ServerNow(s)
           \/ TabUnmodified(s) \/ TabReceives(s) \/ TabFails(s) \/ TabNow(s)
    PROVE  LiveInv'
<1> DEFINE r == flight[s]
<1>1. /\ disk \subseteq Everything /\ lastNow \in 0..MaxPlays
      /\ flight[s] = Idle \/ IsSound(r, disk)
      /\ DOMAIN flight = Slots
  BY DEF LiveInv, LiveTypeOK, FlightsAreSound, Everything
<1>2. CASE ServerTags(s) \/ ServerReads(s) \/ ServerNow(s)
  <2>1. IsSound(r, disk)
    BY <1>1, <1>2 DEF ServerTags, ServerReads, ServerNow, Idle
  <2>2. r \in Asked
    BY <2>1 DEF IsSound
  <2>3. \E q : IsSound(q, disk) /\ flight' = [flight EXCEPT ![s] = q]
    <3>1. CASE ServerTags(s)
      <4> DEFINE q == [r EXCEPT !.tag = {disk},
                                !.stage = IF r.sends = {disk} THEN "unmodified" ELSE "reading"]
      <4>1. flight' = [flight EXCEPT ![s] = q]
        BY <3>1, <1>1 DEF ServerTags
      <4>2. IsSound(q, disk)
        BY <1>1, <2>1, <2>2, ZenonT(30) DEF IsSound, Asked
      <4> QED BY <4>1, <4>2
    <3>2. CASE ServerReads(s)
      <4> DEFINE q == [r EXCEPT !.body = disk, !.stage = "answered"]
      <4>1. flight' = [flight EXCEPT ![s] = q]
        BY <3>2, <1>1 DEF ServerReads
      <4>2. IsSound(q, disk)
        BY <1>1, <2>1, <2>2, <3>2 DEF IsSound, Asked, ServerReads
      <4> QED BY <4>1, <4>2
    <3>3. CASE ServerNow(s)
      <4> DEFINE q == [r EXCEPT !.now = lastNow, !.stage = "answered"]
      <4>1. flight' = [flight EXCEPT ![s] = q]
        BY <3>3, <1>1 DEF ServerNow
      <4>2. IsSound(q, disk)
        BY <1>1, <2>1, <2>2, <3>3 DEF IsSound, Asked, ServerNow
      <4> QED BY <4>1, <4>2
    <3> QED BY <1>2, <3>1, <3>2, <3>3
  <2>4. UNCHANGED <<feed, shown, etag, isPending, heard, hand, playing, budget>>
    BY <1>2 DEF ServerTags, ServerReads, ServerNow
  <2>5. FlightsAreSound'
    BY <2>3, <2>4, OneRequestGoesOn DEF feed
  <2>6. \A i \in Slots : flight'[i] = Idle \/ flight'[i].since \subseteq disk'
    BY <2>5 DEF FlightsAreSound, IsSound
  <2> QED BY <2>4, <2>5, <2>6 DEF LiveInv, LiveTypeOK, Frames, Data, Open, Now,
                                  feed, hand, playing, budget
<1>3. CASE TabUnmodified(s) \/ TabReceives(s) \/ TabFails(s) \/ TabNow(s)
  <2>1. IsSound(r, disk)
    BY <1>1, <1>3 DEF TabUnmodified, TabReceives, TabFails, TabNow, Idle
  <2>2. r \in Asked
    BY <2>1 DEF IsSound
  <2>3. flight' = [flight EXCEPT ![s] = Idle] /\ UNCHANGED <<feed, hand>>
    BY <1>3 DEF TabUnmodified, TabReceives, TabFails, TabNow, Landed
  <2>4. FlightsAreSound'
    BY <2>3, OneRequestGoesOn DEF feed
  <2>5. \A i \in Slots : flight'[i] = Idle \/ flight'[i].since \subseteq disk'
    BY <2>4 DEF FlightsAreSound, IsSound
  <2>6. heard' \subseteq disk'
    BY <1>3, <2>1, <2>3 DEF TabUnmodified, TabReceives, TabFails, TabNow, Heard, IsSound, feed,
                            LiveInv, LiveTypeOK
  <2>7. shown' \subseteq Everything /\ etag' \subseteq SUBSET Everything
    BY <1>3, <2>2 DEF TabUnmodified, TabReceives, TabFails, TabNow, Asked, LiveInv, LiveTypeOK,
                      Everything
  <2>8. tabNow' \in 0..MaxPlays /\ UNCHANGED <<plays, resolving, announcing, lastNow, framed>>
    BY <1>3, <2>2 DEF TabUnmodified, TabReceives, TabFails, TabNow, Asked, LiveInv, LiveTypeOK,
                      playing
  <2> QED BY <2>3, <2>4, <2>5, <2>6, <2>7, <2>8
      DEF LiveInv, LiveTypeOK, Frames, Data, Open, Now, feed, hand, Everything
<1> QED BY <1>2, <1>3

(* Frames read, refreshes asked for, and gestures.                         *)
LEMMA TheTabKeeps ==
    ASSUME LiveInv,
           \/ TabReads \/ TabWakes \/ TabRetries
           \/ \E d \in Drags : GestureBegins(d) \/ PatchLands(d) \/ PatchFails(d)
           \/ GestureCancelled \/ GestureDrops
    PROVE  LiveInv'
<1> DEFINE Kinds == {"tagged", "forced", "load", "now"}
<1>1. Frames' = Frames
  BY DEF Frames, Data, Open, Now
<1>2. FlightsAreSound' => \A i \in Slots : flight'[i] = Idle \/ flight'[i].since \subseteq disk'
  BY DEF FlightsAreSound, IsSound
<1>3. ASSUME NEW kinds \in SUBSET Kinds, Send(flight, kinds), UNCHANGED disk PROVE FlightsAreSound'
  BY <1>3, SendingIsSound
<1>4. ASSUME NEW kinds \in SUBSET Kinds, NEW others \in SUBSET Kinds,
             LiveRefresh(flight, kinds, others), UNCHANGED disk
      PROVE  FlightsAreSound'
  BY <1>3, <1>4 DEF LiveRefresh
<1>5. CASE TabReads
  <2>1. /\ wire' = Tail(wire) /\ tabNow' \in {tabNow, Head(wire).now} /\ wire # << >>
        /\ UNCHANGED <<disk, isDue, stream, shown, etag, heard, hand, budget,
                       plays, resolving, announcing, lastNow, framed>>
    BY <1>5 DEF TabReads
  <2>2. FlightsAreSound'
    <3>1. CASE UNCHANGED flight
      BY <2>1, <3>1, FilesOnlyGrow
    <3>2. CASE LiveRefresh(flight, {"forced"}, {"now"}) \/ LiveRefresh(flight, {"tagged"}, {})
      BY <1>4, <2>1, <3>2
    <3> QED BY <1>5, <3>1, <3>2 DEF TabReads
  <2>3. wire \in Seq(Frames) /\ Head(wire) \in Frames /\ Tail(wire) \in Seq(Frames)
    BY <2>1 DEF LiveInv, LiveTypeOK
  <2>4. Head(wire).now \in 0..MaxPlays
    BY <2>3, LiveAssumption DEF Frames, Data, Open, Now
  <2>5. stream = "down" => wire = << >>
    BY DEF LiveInv, LiveTypeOK
  <2> QED BY <1>1, <1>2, <2>1, <2>2, <2>3, <2>4, <2>5 DEF LiveInv, LiveTypeOK, hand
<1>6. CASE TabWakes \/ TabRetries
  <2>1. UNCHANGED <<feed, shown, etag, heard, hand, playing>>
    BY <1>6 DEF TabWakes, TabRetries
  <2>2. FlightsAreSound'
    BY <1>4, <1>6, <2>1 DEF TabWakes, TabRetries, feed
  <2> QED BY <1>1, <1>2, <2>1, <2>2 DEF LiveInv, LiveTypeOK, hand, feed, playing
<1>7. ASSUME NEW d \in Drags, PatchFails(d) PROVE LiveInv'
  <2>1. UNCHANGED <<feed, shown, etag, heard, gesture, drags, playing>> /\ patches' \subseteq patches
    BY <1>7 DEF PatchFails
  <2>2. FlightsAreSound'
    BY <1>3, <1>7, <2>1 DEF PatchFails, feed
  <2> QED BY <1>1, <1>2, <2>1, <2>2 DEF LiveInv, LiveTypeOK, feed, playing
<1>8. ASSUME NEW d \in Drags, PatchLands(d) PROVE LiveInv'
  <2>1. FlightsAreSound'
    BY <1>8, FilesOnlyGrow DEF PatchLands, tab
  <2> QED BY <1>1, <1>2, <1>8, <2>1 DEF PatchLands, LiveInv, LiveTypeOK, playing, tab
<1>9. ASSUME NEW d \in Drags, GestureBegins(d) PROVE LiveInv'
  <2>1. FlightsAreSound'
    BY <1>9, FilesOnlyGrow DEF GestureBegins, tab, feed
  <2> QED BY <1>1, <1>2, <1>9, <2>1, LiveAssumption
      DEF GestureBegins, LiveInv, LiveTypeOK, playing, tab, feed, None, IsBusy
<1>10. CASE GestureCancelled \/ GestureDrops
  <2>1. FlightsAreSound'
    BY <1>10, FilesOnlyGrow DEF GestureCancelled, GestureDrops, tab, feed
  <2>2. gesture \in Drags \ drags
    BY <1>10 DEF GestureCancelled, GestureDrops, IsBusy, LiveInv, LiveTypeOK
  <2> QED BY <1>1, <1>2, <1>10, <2>1, <2>2, LiveAssumption
      DEF GestureCancelled, GestureDrops, LiveInv, LiveTypeOK, playing, tab, feed, None
<1> QED BY <1>5, <1>6, <1>7, <1>8, <1>9, <1>10

LEMMA NextKeepsLive == LiveInv /\ [LiveNext]_liveVars => LiveInv'
<1> SUFFICES ASSUME LiveInv, [LiveNext]_liveVars PROVE LiveInv'
  OBVIOUS
<1>1. CASE UNCHANGED liveVars
  BY <1>1 DEF LiveInv, LiveTypeOK, FlightsAreSound, Frames, Data, Open, Now, liveVars, feed, tab,
              hand, playing
<1> QED BY <1>1, TheServerKeeps, RequestsKeep, TheTabKeeps DEF LiveNext

-----------------------------------------------------------------------------
\* What is on the wire, what was heard and what is in flight is what the handshake and the
\* files allow (sse.ts), for any edits, gestures, requests and messages.
THEOREM LiveTypes == LiveSpec => []LiveTypeOK
BY LiveBegins, NextKeepsLive, PTL DEF LiveSpec, LiveInv

\* However edits, answers and gestures interleave, the tag an answer carries never claims
\* more than its body has, and no refresh replaces what is under a gesture
\* (queuesRoutes.ts, live.ts, busy.ts).
THEOREM RefreshesStaySafe == LiveSpec => RefreshesAreSafe
<1>1. LiveInv => TagsUnderstate
  BY DEF LiveInv, FlightsAreSound, TagsUnderstate, IsSound
<1>2. ASSUME LiveInv, [LiveNext]_liveVars, gesture # None, gesture' # None, shown' # shown
      PROVE  \E s \in Slots : flight[s].kind = "load" /\ flight'[s] = Idle
  <2>1. PICK s \in Slots : TabReceives(s)
    BY <1>2 DEF LiveNext, liveVars, feed, tab, hand, EditLands, DataBroadcast, StreamOpens,
                StreamRegisters, StreamReplayed, StreamDrops, NowArrives, NowResolved,
                NowBroadcast, ServerTags, ServerReads, ServerNow, TabUnmodified, TabFails, TabNow,
                TabReads, TabWakes, TabRetries, GestureBegins, PatchLands, PatchFails,
                GestureCancelled, GestureDrops
  <2>2. flight[s].kind = "load" /\ flight' = [flight EXCEPT ![s] = Idle]
    BY <1>2, <2>1 DEF TabReceives, MayCommit, IsBusy, Landed
  <2>3. flight'[s] = Idle
    BY <2>2, <1>2 DEF LiveInv, FlightsAreSound
  <2> QED BY <2>2, <2>3
<1>3. LiveSpec => [][TagsUnderstate']_liveVars
  BY <1>1, LiveBegins, NextKeepsLive, PTL DEF LiveSpec
<1>4. LiveSpec => NoCommitMidGesture
  BY <1>2, LiveBegins, NextKeepsLive, PTL DEF LiveSpec, NoCommitMidGesture
<1> QED BY <1>3, <1>4 DEF RefreshesAreSafe
=============================================================================
