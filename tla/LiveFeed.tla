------------------------------ MODULE LiveFeed ------------------------------
(***************************************************************************)
(* How a browser tab keeps up with the server: the event stream of sse.ts  *)
(* (a watcher on the YAML files, the handshake, the `now` frames), the     *)
(* conditional and unconditional reads of lib/api.ts and queuesRoutes.ts,  *)
(* the refresh of state/live.ts with its uiBusy() guard, and the           *)
(* optimistic edit of a drag.                                              *)
(*                                                                         *)
(* The YAML files are the set of edits made to them so far; the ETag is a  *)
(* stat of the files, so it is that set too.  One tab is modelled, and     *)
(* everybody else who edits the files is one environment.                  *)
(***************************************************************************)
EXTENDS Integers, Sequences, FiniteSets

CONSTANTS
    Edits,        \* edits somebody else makes to queues.yaml or sets.yaml
    Drags,        \* gestures of this tab; a drag that drops is an edit
    Slots,        \* requests in flight at once (bound)
    MaxPlays,     \* now-playing messages Home Assistant publishes (bound)
    Budgets       \* what may happen in a behaviour (bound): records of the edits
                  \* and drags to come, and of how many now-playing messages
                  \* (plays), failed requests (faults), dead streams (drops) and
                  \* returns to the foreground (wakes) there are

ASSUME LiveAssumption ==
    /\ MaxPlays \in Nat /\ "none" \notin Drags
    /\ \A b \in Budgets : b.drags \subseteq Drags /\ b.plays \in 0..MaxPlays

VARIABLES
    disk,         \* the edits in the files
    isDue,        \* the watcher's 300 ms debounce timer is armed
    stream,       \* the server's end of /api/events: down, hello, registered, up
    wire,         \* frames written to the stream and not read by the tab
    flight,       \* flight[s]: the request in slot s, or Idle
    shown,        \* the edits the tab's store shows
    etag,         \* the tag lib/api.ts remembers for the URL
    isPending,    \* live.ts: livePending
    gesture,      \* the drag in progress (uiBusy()), or None
    drags,        \* the gestures not begun yet
    patches,      \* PATCH requests sent and not landed
    heard,        \* the edits some answered request was sent after or brought (history)
    plays,        \* now-playing messages not delivered yet: the next is MaxPlays - plays + 1
    resolving,    \* onNowPlaying handlers awaiting the Plex context
    announcing,   \* handlers awaiting the cache, about to broadcast
    lastNow,      \* sse.ts: LAST_NOW
    framed,       \* the snapshot in the last `now` frame written to the tab (history)
    tabNow,       \* the snapshot the tab shows
    faults, drops, wakes

feed == <<disk, isDue, stream, wire>>
tab == <<flight, shown, etag, isPending, heard>>
hand == <<gesture, drags, patches>>
playing == <<plays, resolving, announcing, lastNow, framed, tabNow>>
budget == <<faults, drops, wakes>>
liveVars == <<feed, tab, hand, playing, budget>>

None == "none"
NoTag == {}                 \* otherwise a tag is {the edits in the files}
Idle == [kind |-> "idle"]
IsBusy == gesture # None

(* A request as it leaves the tab: `since` is a history field, the edits    *)
(* that were in the files when it was sent.                                 *)
Request(kind) ==
    [kind |-> kind, stage |-> "sent", since |-> disk,
     sends |-> IF kind = "tagged" THEN etag ELSE NoTag,
     tag |-> NoTag, body |-> {}, now |-> 0]

(* api() and apiConditional() start a fetch.  It takes a free slot.         *)
Send(fl, kinds) ==
    LET free == {s \in Slots : fl[s] = Idle} IN
    \E pick \in [kinds -> free] :
        /\ \A j, k \in kinds : j # k => pick[j] # pick[k]
        /\ flight' = [s \in Slots |-> IF \E k \in kinds : pick[k] = s
                                      THEN Request(CHOOSE k \in kinds : pick[k] = s)
                                      ELSE fl[s]]

(* liveRefresh(): nothing while a gesture is on, except a note to retry.    *)
LiveRefresh(fl, kinds, others) ==
    IF IsBusy
    THEN isPending' = TRUE /\ Send(fl, others)
    ELSE isPending' = FALSE /\ Send(fl, kinds \union others)

LiveInit ==
    \E b \in Budgets :
        /\ disk = Edits \ b.edits /\ isDue = FALSE /\ stream = "up" /\ wire = <<>>
        /\ flight = [s \in Slots |-> Idle]
        /\ shown = disk /\ etag \in {NoTag, {disk}} /\ isPending = FALSE /\ heard = disk
        /\ gesture = None /\ drags = b.drags /\ patches = {}
        /\ plays = b.plays /\ resolving = {} /\ announcing = {}
        /\ lastNow = 0 /\ framed = 0 /\ tabNow = 0
        /\ faults = b.faults /\ drops = b.drops /\ wakes = b.wakes

-----------------------------------------------------------------------------
(* The server.                                                             *)

(* Another tab, the prune after a scan, or a hand edit over SMB.            *)
EditLands(e) ==
    /\ e \in Edits \ disk
    /\ disk' = disk \union {e} /\ isDue' = TRUE
    /\ UNCHANGED <<stream, wire, tab, hand, playing, budget>>

(* UpOnly is wrong on purpose: the client joins once its replay is written. *)
UpOnly(st) == st = "up"

(* The registry holds a client while its replay is being written, so that a *)
(* change landing in the handshake is not missed.                           *)
IsRegistered(st) == st \in {"registered", "up"}

(* broadcast(): one frame to every registered client.                       *)
Broadcast(frame) ==
    wire' = IF IsRegistered(stream) THEN Append(wire, frame) ELSE wire

Data == [type |-> "data", now |-> 0]
Open == [type |-> "open", now |-> 0]
Now(v) == [type |-> "now", now |-> v]

(* The debounce timer of the directory watch.  Its 300 ms outlast the write *)
(* of `hello`: it is not due for an edit made during that write.            *)
DataBroadcast ==
    /\ isDue /\ stream # "hello"
    /\ isDue' = FALSE /\ Broadcast(Data)
    /\ UNCHANGED <<disk, stream, tab, hand, playing, budget>>

(* The handshake: `hello` (which is what opens the EventSource), then the   *)
(* registration and, to this client alone, the snapshot of that moment.     *)
StreamOpens ==
    /\ stream = "down"
    /\ stream' = "hello" /\ wire' = <<Open>>
    /\ UNCHANGED <<disk, isDue, tab, hand, playing, budget>>

StreamRegisters ==
    /\ stream = "hello"
    /\ stream' = "registered" /\ wire' = Append(wire, Now(lastNow)) /\ framed' = lastNow
    /\ UNCHANGED <<disk, isDue, tab, hand, budget,
                   plays, resolving, announcing, lastNow, tabNow>>

(* The replay is written, and the handler waits for the client to leave.    *)
StreamReplayed ==
    /\ stream = "registered"
    /\ stream' = "up"
    /\ UNCHANGED <<disk, isDue, wire, tab, hand, playing, budget>>

(* A socket dies: what was on it is lost, and the registry forgets it.      *)
StreamDrops ==
    /\ stream # "down" /\ drops > 0
    /\ stream' = "down" /\ wire' = <<>> /\ drops' = drops - 1
    /\ UNCHANGED <<disk, isDue, tab, hand, playing, faults, wakes>>

(* mqttc.onNowPlaying: the handler awaits Plex for what is on screen.       *)
NowArrives ==
    /\ plays > 0
    /\ plays' = plays - 1
    /\ resolving' = resolving \union {MaxPlays - plays + 1}
    /\ UNCHANGED <<feed, tab, hand, budget, announcing, lastNow, framed, tabNow>>

(* ... sets LAST_NOW whenever its own answer comes, and then awaits the     *)
(* cache (dropLeaves, bumpGeneration) ...                                   *)
NowResolved(p) ==
    /\ p \in resolving
    /\ resolving' = resolving \ {p} /\ announcing' = announcing \union {p}
    /\ lastNow' = p
    /\ UNCHANGED <<feed, tab, hand, budget, plays, framed, tabNow>>

(* ... and broadcasts LAST_NOW as it is by then.                            *)
NowBroadcast(p) ==
    /\ p \in announcing
    /\ announcing' = announcing \ {p}
    /\ Broadcast(Now(lastNow))
    /\ framed' = IF IsRegistered(stream) THEN lastNow ELSE framed
    /\ UNCHANGED <<disk, isDue, stream, tab, hand, budget,
                   plays, resolving, lastNow, tabNow>>

(* The handler of GET /api/queues stats the files for the tag first, and    *)
(* answers 304 on a match.                                                  *)
ServerTags(s) ==
    /\ flight[s].kind \in {"tagged", "forced", "load"} /\ flight[s].stage = "sent"
    /\ flight' = [flight EXCEPT ![s].tag = {disk},
                                ![s].stage = IF flight[s].sends = {disk}
                                             THEN "unmodified" ELSE "reading"]
    /\ UNCHANGED <<feed, shown, etag, isPending, heard, hand, playing, budget>>

(* ... and reads the files, resolving every entry, afterwards.              *)
ServerReads(s) ==
    /\ flight[s].kind # "idle" /\ flight[s].stage = "reading"
    /\ flight' = [flight EXCEPT ![s].body = disk, ![s].stage = "answered"]
    /\ UNCHANGED <<feed, shown, etag, isPending, heard, hand, playing, budget>>

(* GET /api/now.                                                            *)
ServerNow(s) ==
    /\ flight[s].kind = "now" /\ flight[s].stage = "sent"
    /\ flight' = [flight EXCEPT ![s].now = lastNow, ![s].stage = "answered"]
    /\ UNCHANGED <<feed, shown, etag, isPending, heard, hand, playing, budget>>

-----------------------------------------------------------------------------
(* The tab.                                                                *)

Landed(s) == [flight EXCEPT ![s] = Idle]
Heard(s) == heard \union flight[s].since \union flight[s].body

(* 304: refreshOne() commits nothing.                                       *)
TabUnmodified(s) ==
    /\ flight[s].kind # "idle" /\ flight[s].stage = "unmodified"
    /\ flight' = Landed(s) /\ heard' = Heard(s)
    /\ UNCHANGED <<feed, shown, etag, isPending, hand, playing, budget>>

(* CommitsAnyway is wrong on purpose: uiBusy() is asked before the fetch only. *)
CommitsAnyway(kind) == TRUE

(* refreshOne() asks uiBusy() again once the fetch is over.                 *)
MayCommit(kind) == kind = "load" \/ ~IsBusy

(* A 200: apiConditional records the tag at once; the body is committed     *)
(* unless a gesture began during the fetch, and then livePending is set for *)
(* the timer.  load() commits without asking.                               *)
TabReceives(s) ==
    LET r == flight[s]
        isQuiet == MayCommit(r.kind) IN
    /\ r.kind \in {"tagged", "forced", "load"} /\ r.stage = "answered"
    /\ flight' = Landed(s) /\ heard' = Heard(s)
    /\ etag' = IF r.kind = "tagged" THEN r.tag ELSE etag
    /\ shown' = IF isQuiet THEN r.body ELSE shown
    /\ isPending' = (isPending \/ ~isQuiet)
    /\ UNCHANGED <<feed, hand, playing, budget>>

(* NoRetry is wrong on purpose: a failed refresh is dropped.                *)
NoRetry(kind) == isPending

(* refreshOne()'s catch: a failed refresh is retried by the timer.          *)
PendingAfter(kind) == isPending \/ kind \in {"tagged", "forced"}

(* A request fails, on its way or on the server.  load() shows a message.   *)
TabFails(s) ==
    /\ flight[s].kind # "idle" /\ faults > 0
    /\ flight' = Landed(s) /\ faults' = faults - 1
    /\ isPending' = PendingAfter(flight[s].kind)
    /\ UNCHANGED <<feed, shown, etag, heard, hand, playing, drops, wakes>>

TabNow(s) ==
    /\ flight[s].kind = "now" /\ flight[s].stage = "answered"
    /\ flight' = Landed(s) /\ tabNow' = flight[s].now
    /\ UNCHANGED <<feed, shown, etag, isPending, heard, hand, budget,
                   plays, resolving, announcing, lastNow, framed>>

(* The EventSource listeners: `open` resyncs both halves without a tag,     *)
(* `data` refreshes conditionally, `now` is shown at once.                  *)
TabReads ==
    /\ wire # <<>>
    /\ wire' = Tail(wire)
    /\ LET frame == Head(wire) IN
       \/ /\ frame.type = "open"
          /\ LiveRefresh(flight, {"forced"}, {"now"})
          /\ UNCHANGED tabNow
       \/ /\ frame.type = "data"
          /\ LiveRefresh(flight, {"tagged"}, {})
          /\ UNCHANGED tabNow
       \/ /\ frame.type = "now"
          /\ tabNow' = frame.now
          /\ UNCHANGED <<flight, isPending>>
    /\ UNCHANGED <<disk, isDue, stream, shown, etag, heard, hand, budget,
                   plays, resolving, announcing, lastNow, framed>>

(* visibilitychange: the tab is looked at again.                            *)
TabWakes ==
    /\ wakes > 0
    /\ wakes' = wakes - 1
    /\ LiveRefresh(flight, {"forced"}, {"now"})
    /\ UNCHANGED <<feed, shown, etag, heard, hand, playing, faults, drops>>

(* The 2 s timer retries with the conditional read.                         *)
TabRetries ==
    /\ isPending /\ ~IsBusy
    /\ LiveRefresh(flight, {"tagged"}, {})
    /\ UNCHANGED <<feed, shown, etag, heard, hand, playing, budget>>

(* A press on a poster, a selection, a dialog: uiBusy() from here on.       *)
GestureBegins(d) ==
    /\ ~IsBusy /\ d \in drags
    /\ gesture' = d /\ drags' = drags \ {d}
    /\ UNCHANGED <<feed, tab, patches, playing, budget>>

(* It ends with nothing to save ...                                         *)
GestureCancelled ==
    /\ IsBusy
    /\ gesture' = None
    /\ UNCHANGED <<feed, tab, drags, patches, playing, budget>>

(* ... or with a drop: the new order is shown and a PATCH carries it.       *)
GestureDrops ==
    /\ IsBusy
    /\ gesture' = None /\ shown' = shown \union {gesture}
    /\ patches' = patches \union {gesture}
    /\ UNCHANGED <<feed, flight, etag, isPending, heard, drags, playing, budget>>

PatchLands(d) ==
    /\ d \in patches
    /\ patches' = patches \ {d}
    /\ disk' = disk \union {d} /\ isDue' = TRUE
    /\ UNCHANGED <<stream, wire, tab, gesture, drags, playing, budget>>

(* The failed save re-loads everything.                                     *)
PatchFails(d) ==
    /\ d \in patches /\ faults > 0
    /\ patches' = patches \ {d} /\ faults' = faults - 1
    /\ Send(flight, {"load"})
    /\ UNCHANGED <<feed, shown, etag, isPending, heard, gesture, drags, playing,
                   drops, wakes>>

-----------------------------------------------------------------------------
LiveNext ==
    \/ \E e \in Edits : EditLands(e)
    \/ DataBroadcast \/ StreamOpens \/ StreamRegisters \/ StreamReplayed \/ StreamDrops
    \/ NowArrives
    \/ \E p \in 1..MaxPlays : NowResolved(p) \/ NowBroadcast(p)
    \/ \E s \in Slots : \/ ServerTags(s) \/ ServerReads(s) \/ ServerNow(s)
                        \/ TabUnmodified(s) \/ TabReceives(s) \/ TabFails(s) \/ TabNow(s)
    \/ TabReads \/ TabWakes \/ TabRetries
    \/ \E d \in Drags : GestureBegins(d) \/ PatchLands(d) \/ PatchFails(d)
    \/ GestureCancelled \/ GestureDrops

LiveSpec == LiveInit /\ [][LiveNext]_liveVars

(* The watcher's timer fires, an EventSource reconnects, a server answers,  *)
(* a tab handles what it is sent and its interval keeps ticking, a person   *)
(* lets go of a poster.  Nobody has to edit, and nothing has to fail.       *)
LiveFairness ==
    /\ WF_liveVars(DataBroadcast)
    /\ WF_liveVars(StreamOpens) /\ WF_liveVars(StreamRegisters) /\ WF_liveVars(StreamReplayed)
    /\ WF_liveVars(\E p \in 1..MaxPlays : NowResolved(p) \/ NowBroadcast(p))
    /\ WF_liveVars(TabReads) /\ WF_liveVars(TabRetries)
    /\ WF_liveVars(GestureCancelled \/ GestureDrops)
    /\ WF_liveVars(\E d \in Drags : PatchLands(d))
    /\ \A s \in Slots : WF_liveVars(\/ ServerTags(s) \/ ServerReads(s) \/ ServerNow(s)
                                    \/ TabUnmodified(s) \/ TabReceives(s) \/ TabNow(s))

-----------------------------------------------------------------------------
(* Properties.                                                             *)

Frames == {Data, Open} \union {Now(v) : v \in 0..MaxPlays}

(* The types, and what the handshake promises: nothing is on the wire of a  *)
(* stream that is down, and a stream opens with `hello`.                    *)
LiveTypeOK ==
    /\ disk \subseteq Edits \union Drags /\ shown \subseteq Edits \union Drags
    /\ heard \subseteq disk /\ patches \subseteq Drags \ drags
    /\ stream \in {"down", "hello", "registered", "up"}
    /\ wire \in Seq(Frames) /\ (stream = "down" => wire = <<>>)
    /\ gesture \in Drags \union {None}
    /\ \A s \in Slots : flight[s] = Idle \/ flight[s].since \subseteq disk
    /\ {lastNow, framed, tabNow} \subseteq 0..MaxPlays

(* queuesRoutes.ts stats the files before it reads them: a tag may be older *)
(* than the body it goes with and never newer, or an edit between the two   *)
(* would be answered 304 for ever.                                          *)
TagsUnderstate ==
    \A s \in Slots :
        flight[s] # Idle /\ flight[s].stage = "answered" =>
            \A t \in flight[s].tag : t \subseteq flight[s].body

(* busy.ts: a live refresh never replaces what the tab shows under a        *)
(* gesture, however long its fetch took.  (load(), which a failed save      *)
(* calls, does not ask and is the exception.)                               *)
NoCommitMidGesture ==
    [][gesture # None /\ gesture' # None /\ shown' # shown =>
        \E s \in Slots : flight[s].kind = "load" /\ flight'[s] = Idle]_liveVars

(* live.ts: an edit to the files is read again by the tab, without anybody  *)
(* asking: some request is answered that was sent after it or brings it,    *)
(* whatever stream was down, request failed or gesture was on by then.      *)
EditsAreReread == []<>(heard = disk)

(* sse.ts: a client that is connected is always sent the present LAST_NOW   *)
(* in the end: a change that lands in its handshake is not missed.          *)
ClientsAreSentNow == []<>(stream # "up" \/ framed = lastNow)

(* live.ts ("the app re-fetches itself - there is no Refresh button"): the  *)
(* tab comes to show what is in the files.  It need not: see the README.    *)
TabCatchesUp == \A e \in Edits : (e \in disk) ~> (e \in shown)

(* A refresh is safe to apply (queuesRoutes.ts, live.ts): the tag an answer *)
(* carries never claims more than its body, and no refresh replaces what is *)
(* under a gesture.                                                         *)
RefreshesAreSafe == [][TagsUnderstate']_liveVars /\ NoCommitMidGesture
=============================================================================
