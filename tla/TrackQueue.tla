----------------------------- MODULE TrackQueue -----------------------------
(***************************************************************************)
(* The track queue of a renderer (queue.go).  Three goroutines share it:   *)
(*   - the loader, Queue.Run, keeps up to three tracks preloaded and       *)
(*     fetches their metadata and file URLs;                               *)
(*   - the consumer, the player's loop, takes tracks with ConsumeTrack;    *)
(*   - the message handler of stream.go applies what the server sends.     *)
(* One action is one critical section of mu, of preloadedMu, or of both;   *)
(* QueueLocks models the two mutexes themselves.                           *)
(* Code positions are 0-based (index, shuffledIndexes) as in the source.   *)
(***************************************************************************)
EXTENDS Integers, SequencesExt

CONSTANTS
    Items,       \* the queueItemIds the server hands out
    TrackOf,     \* [Items -> track]: the content behind a queue item
    Slots,       \* addresses of QueueTrack objects, 1 .. n
    Messages,    \* the kinds of messages this instance's server sends
    MaxMessages, \* bound: messages the server sends in one behaviour
    Batches,     \* bound: how many tracks one message carries
    Shuffles,    \* bound: the shuffles a snapshot may carry
    Failures     \* the ways a fetch may fail: "failed", "token"

Preload == 3     \* len(q.preloaded) < 3
None == 0        \* the nil pointer, and "no item"

\* A play order that names each of its positions once.
IsPermutation(sh) == IsInjective(sh) /\ ToSet(sh) = 0 .. (Len(sh) - 1)

ASSUME ConstantsOK ==
    /\ Items \in SUBSET Nat /\ None \notin Items /\ IsFiniteSet(Items)
    /\ Slots = 1 .. (2 * Preload + 2)
    /\ MaxMessages \in Nat /\ Batches \subseteq Nat
    /\ \A s \in Shuffles : s \in Seq(Nat) /\ IsPermutation(s)
    /\ Failures \subseteq {"failed", "token"}

VARIABLES
    refs,            \* q.refs: the queue items, in server order
    shuffledIndexes, \* q.shuffledIndexes: play position -> position in refs
    index,           \* q.index
    preloaded,       \* q.preloaded: addresses of QueueTracks
    tracks,          \* the QueueTrack behind each address
    hasContext,      \* len(q.expandedCache) > 0
    pendingStart,    \* q.pendingStartMs: the item it was meant for, or None
    fetchedAutoplay, \* q.fetchedAutoplay
    autoplayMode,    \* q.autoplayMode
    token,           \* notifyCh (capacity 1) holds a token
    loader,          \* where Queue.Run is, and its private copy of preloaded
    consumer,        \* where ConsumeTrack is, its prevTrack, track and result
    ws,              \* where the message handler is, and what it still adds
    asked,           \* an autoplay request is on its way to the server
    sent,            \* messages handled so far
    panicked         \* a goroutine indexed a slice out of range

queueVars == <<refs, shuffledIndexes, index>>
preVars == <<preloaded, hasContext, pendingStart, fetchedAutoplay>>
vars == <<refs, shuffledIndexes, index, preloaded, tracks, hasContext,
          pendingStart, fetchedAutoplay, autoplayMode, token, loader, consumer,
          ws, asked, sent, panicked>>

States == {"queued", "streamable", "ready", "failed"}
\* start is the item whose SetStartAt gave this track its StartMs.
Track == [item: Items, state: States, start: Items \cup {None}]
Free == [item |-> None, state |-> "free", start |-> None]

-----------------------------------------------------------------------------
(* Sequences *)

\* Where x first is in seq, and 0 if it is not there.
PositionOf(seq, x) == SelectInSeq(seq, LAMBDA y : y = x)

\* The first n elements of a set of numbers.
Ascending(S, n) ==
    {s \in [1 .. n -> S] :
        /\ \A i, j \in 1 .. n : i < j => s[i] < s[j]
        /\ \A x \in S, i \in 1 .. n : x < s[i] => x \in ToSet(s)}

-----------------------------------------------------------------------------
(* The play order *)

\* The position in refs of the play position i.
PlayPos(sh, i) == IF i < Len(sh) THEN sh[i + 1] ELSE i

InQueue(rf, sh, i) == PlayPos(sh, i) < Len(rf)
ItemAt(rf, sh, i) == rf[PlayPos(sh, i) + 1]

Identity(from, to) == [k \in 1 .. (to - from) |-> from + k - 1]

\* growShuffleIndexes
Grown(sh, rf) == sh \o Identity(Len(sh), Len(rf))

\* A bug, the one ConsumeQueueState's comment warns of: wipe the window.
ReorderedWipes(rf, sh, ix, pre, heap) == <<>>

\* reorderPreloaded: the preloaded tracks that match the play order from ix
\* on, up to the first queue position that none of them is for.
Reordered(rf, sh, ix, pre, heap) ==
    LET items == [k \in 1 .. Len(pre) |-> heap[pre[k]].item]
        Match(i) == PositionOf(items, ItemAt(rf, sh, ix + i))
        Kept(m) == \A i \in 0 .. (m - 1) :
                       InQueue(rf, sh, ix + i) /\ Match(i) # 0
        n == Max({m \in 0 .. (Len(pre) + 1) : Kept(m)})
    IN  [k \in 1 .. n |-> pre[Match(k - 1)]]

-----------------------------------------------------------------------------
(* QueueTrack objects: an address is live while something points to it *)

Live == ToSet(preloaded) \cup ToSet(loader.batch)
            \cup {consumer.prev, consumer.track}

\* The heap after a step: what nothing points to any more is collected.
Collect(heap) ==
    tracks' = [a \in Slots |-> IF a \in Live' THEN heap[a] ELSE Free]

\* The addresses the next n allocations return.
Fresh(n) == Ascending(Slots \ Live, n)

-----------------------------------------------------------------------------
Init ==
    /\ refs = <<>> /\ shuffledIndexes = <<>> /\ index = 0
    /\ preloaded = <<>> /\ tracks = [a \in Slots |-> Free]
    /\ hasContext = FALSE /\ pendingStart = None
    /\ fetchedAutoplay = FALSE /\ autoplayMode = FALSE
    /\ token = FALSE
    /\ loader = [pc |-> "top", batch |-> <<>>]
    /\ consumer = [pc |-> "stopped", prev |-> None, track |-> None, last |-> None]
    /\ ws = [pc |-> "idle", items |-> <<>>, after |-> None]
    /\ asked = FALSE /\ sent = 0 /\ panicked = FALSE

\* A slice indexed at -1 ends the process.
Panic ==
    /\ panicked' = TRUE
    /\ UNCHANGED <<refs, shuffledIndexes, index, preloaded, tracks, hasContext,
                   pendingStart, fetchedAutoplay, autoplayMode, token, loader,
                   consumer, ws, asked, sent>>

\* A bug: notifyCh without its buffer drops a wake-up nobody waits for.
NotifyUnbuffered == token' = (token \/ loader.pc = "wait")

\* notify: a send that never blocks.
Notify == token' = TRUE

-----------------------------------------------------------------------------
(* The loader: Queue.Run *)

LoaderAt(pc) == ~panicked /\ loader.pc = pc
LoaderGoes(pc) == loader' = [pc |-> pc, batch |-> <<>>]

\* Top of the loop: with no refs the loader goes to sleep.
LoaderTop ==
    /\ LoaderAt("top")
    /\ LoaderGoes(IF refs = <<>> THEN "wait" ELSE "fill")
    /\ UNCHANGED <<queueVars, preVars, autoplayMode, token, consumer, ws, asked,
                   sent, panicked>>
    /\ Collect(tracks)

\* The receive on notifyCh.
LoaderWake ==
    /\ LoaderAt("wait") /\ token
    /\ token' = FALSE
    /\ LoaderGoes("top")
    /\ UNCHANGED <<queueVars, preVars, tracks, autoplayMode, consumer, ws, asked,
                   sent, panicked>>

\* How many tracks the fill loop leaves preloaded.
Filled ==
    Max({n \in Len(preloaded) .. Max({Preload, Len(preloaded)}) :
            \A k \in Len(preloaded) .. (n - 1) :
                InQueue(refs, shuffledIndexes, index + k)})

\* The heap with the tracks that new addresses, start for the first of them.
Loaded(new, start) ==
    [a \in Slots |->
        IF a \notin ToSet(new) THEN tracks[a]
        ELSE LET k == PositionOf(new, a)
             IN  [item  |-> ItemAt(refs, shuffledIndexes,
                                   index + Len(preloaded) + k - 1),
                  state |-> "queued",
                  start |-> IF k = 1 THEN start ELSE None]]

\* Both mutexes held: top preloaded up to three, each new track queued, the
\* pending start position going to the front one; then decide whether to ask
\* for suggestions.  An index of -1 with nothing preloaded is out of range.
LoaderFill ==
    /\ LoaderAt("fill")
    /\ index + Len(preloaded) >= 0
    /\ UNCHANGED <<queueVars, hasContext, fetchedAutoplay, autoplayMode, token,
                   consumer, ws, asked, sent, panicked>>
    /\ LET have == Len(preloaded)
           first == have = 0 /\ Filled > 0
           needSuggestions == /\ ~fetchedAutoplay /\ Filled < 2
                              /\ hasContext /\ autoplayMode
       IN  /\ pendingStart' = IF first THEN None ELSE pendingStart
           /\ LoaderGoes(IF needSuggestions THEN "suggest" ELSE "copy")
           /\ \E new \in Fresh(Filled - have) :
                /\ preloaded' = preloaded \o new
                /\ Collect(Loaded(new, IF first THEN pendingStart ELSE None))

LoaderFillPanics ==
    /\ LoaderAt("fill") /\ index + Len(preloaded) < 0
    /\ Panic

\* getSuggestions succeeded: the request is sent; its flag is set only in a
\* critical section of its own, afterwards.
LoaderAsks ==
    /\ LoaderAt("suggest") /\ refs # <<>>
    /\ asked' = TRUE
    /\ LoaderGoes("asked")
    /\ UNCHANGED <<queueVars, preVars, tracks, autoplayMode, token, consumer, ws,
                   sent, panicked>>

\* getSuggestions returned false (no refs any more, an API error, or no
\* suggestion): Run returns.
LoaderGivesUp ==
    /\ LoaderAt("suggest")
    /\ refs = <<>> \/ Failures # {}
    /\ LoaderGoes("dead")
    /\ UNCHANGED <<queueVars, preVars, tracks, autoplayMode, token, consumer, ws,
                   asked, sent, panicked>>

LoaderMarksAsked ==
    /\ LoaderAt("asked")
    /\ fetchedAutoplay' = TRUE
    /\ LoaderGoes("top")
    /\ UNCHANGED <<queueVars, preloaded, hasContext, pendingStart, tracks,
                   autoplayMode, token, consumer, ws, asked, sent, panicked>>

LoaderCopies ==
    /\ LoaderAt("copy")
    /\ loader' = [pc |-> "work", batch |-> preloaded]
    /\ UNCHANGED <<queueVars, preVars, tracks, autoplayMode, token, consumer, ws,
                   asked, sent, panicked>>

\* The state a track is left in when its fetch fails: an unavailable token
\* puts it back where it was.
AfterFailure(state) ==
    {IF f = "token" THEN state ELSE "failed" : f \in Failures}

\* One track of the copy.  A metadata fetch that succeeds ends the pass.
LoaderFetchesMetadata ==
    /\ LoaderAt("work") /\ loader.batch # <<>>
    /\ UNCHANGED <<queueVars, preVars, autoplayMode, token, consumer, ws, asked,
                   sent, panicked>>
    /\ LET t == Head(loader.batch) IN
        /\ tracks[t].state = "queued"
        /\ \/ /\ LoaderGoes("top")
              /\ Collect([tracks EXCEPT ![t].state = "streamable"])
           \/ \E s \in AfterFailure("queued") :
                /\ loader' = [loader EXCEPT !.batch = Tail(@)]
                /\ Collect([tracks EXCEPT ![t].state = s])

\* A URL fetched makes the track ready and its context usable by autoplay.
LoaderFetchesFileURL ==
    /\ LoaderAt("work") /\ loader.batch # <<>>
    /\ loader' = [loader EXCEPT !.batch = Tail(@)]
    /\ UNCHANGED <<queueVars, preloaded, pendingStart, fetchedAutoplay,
                   autoplayMode, token, consumer, ws, asked, sent, panicked>>
    /\ LET t == Head(loader.batch) IN
        /\ tracks[t].state = "streamable"
        /\ \/ /\ Collect([tracks EXCEPT ![t].state = "ready"])
              /\ hasContext' = TRUE
           \/ \E s \in AfterFailure("streamable") :
                /\ Collect([tracks EXCEPT ![t].state = s])
                /\ UNCHANGED hasContext

LoaderSkips ==
    /\ LoaderAt("work") /\ loader.batch # <<>>
    /\ tracks[Head(loader.batch)].state \in {"ready", "failed"}
    /\ loader' = [loader EXCEPT !.batch = Tail(@)]
    /\ UNCHANGED <<queueVars, preVars, autoplayMode, token, consumer, ws, asked,
                   sent, panicked>>
    /\ Collect(tracks)

\* Nothing processed: wait for a notification.
LoaderRests ==
    /\ LoaderAt("work") /\ loader.batch = <<>>
    /\ LoaderGoes("wait")
    /\ UNCHANGED <<queueVars, preVars, tracks, autoplayMode, token, consumer, ws,
                   asked, sent, panicked>>

Loader ==
    \/ LoaderTop \/ LoaderWake \/ LoaderFill \/ LoaderFillPanics \/ LoaderAsks
    \/ LoaderGivesUp \/ LoaderMarksAsked \/ LoaderCopies
    \/ LoaderFetchesMetadata \/ LoaderFetchesFileURL \/ LoaderSkips
    \/ LoaderRests

-----------------------------------------------------------------------------
(* The consumer: the player's loop around ConsumeTrack *)

ConsumerAt(pc) == ~panicked /\ consumer.pc = pc

\* A playback session starts with no previous track (runLoop's prevQT).
SessionStarts ==
    /\ ConsumerAt("stopped")
    /\ consumer' = [pc |-> "calls", prev |-> None, track |-> None, last |-> None]
    /\ UNCHANGED <<queueVars, preVars, autoplayMode, token, loader, ws, asked,
                   sent, panicked>>
    /\ Collect(tracks)

\* nil: the queue ran out, or done was closed; the session's prevQT is lost.
SessionEnds ==
    consumer' = [pc |-> "stopped", prev |-> None, track |-> None, last |-> None]

\* Player.Stop unblocks ConsumeTrack; runLoop returns.
SessionIsStopped ==
    /\ "stop" \in Messages /\ ~panicked
    /\ consumer.pc \in {"calls", "loop"}
    /\ SessionEnds
    /\ UNCHANGED <<queueVars, preVars, autoplayMode, token, loader, ws, asked,
                   sent, panicked>>
    /\ Collect(tracks)

\* The call: an empty queue returns nil at once.
ConsumeBegins ==
    /\ ConsumerAt("calls")
    /\ IF refs = <<>> THEN SessionEnds
       ELSE consumer' = [consumer EXCEPT !.pc = "loop"]
    /\ UNCHANGED <<queueVars, preVars, autoplayMode, token, loader, ws, asked,
                   sent, panicked>>
    /\ Collect(tracks)

\* preloadedMu held (with mu for the increment): drop the previous track and
\* advance, then look at the front.
ConsumePops ==
    /\ ConsumerAt("loop") /\ ~fetchedAutoplay
    /\ LET i == PositionOf(preloaded, consumer.prev)
           rest == IF i = 0 THEN preloaded ELSE RemoveAt(preloaded, i)
       IN  /\ index' = IF i = 0 THEN index ELSE index + 1
           /\ preloaded' = rest
           /\ IF i = 0 THEN UNCHANGED token ELSE Notify
           /\ consumer' =
                [consumer EXCEPT !.prev = IF i = 0 THEN @ ELSE None,
                                 !.track = IF rest = <<>> THEN None ELSE rest[1],
                                 !.pc = IF rest = <<>> THEN "ends?" ELSE "ready?"]
    /\ UNCHANGED <<refs, shuffledIndexes, hasContext, pendingStart,
                   fetchedAutoplay, autoplayMode, loader, ws, asked, sent,
                   panicked>>
    /\ Collect(tracks)

\* Nothing preloaded: the end of the queue, or sleep and try again.
ConsumeEnds ==
    /\ ConsumerAt("ends?")
    /\ IF index >= Len(refs) THEN SessionEnds
       ELSE consumer' = [consumer EXCEPT !.pc = "loop"]
    /\ UNCHANGED <<queueVars, preVars, autoplayMode, token, loader, ws, asked,
                   sent, panicked>>
    /\ Collect(tracks)

\* The mutex released, the track's state is read: sleep, or hand it out.
ConsumeReturns ==
    /\ ConsumerAt("ready?")
    /\ tracks[consumer.track].state \in {"ready", "failed"}
    /\ consumer' = [pc |-> "calls", prev |-> consumer.track, track |-> None,
                    last |-> IF consumer.track \in ToSet(preloaded)
                             THEN tracks[consumer.track].item ELSE None]
    /\ UNCHANGED <<queueVars, preVars, autoplayMode, token, loader, ws, asked,
                   sent, panicked>>
    /\ Collect(tracks)

ConsumeSleeps ==
    /\ ConsumerAt("ready?")
    /\ tracks[consumer.track].state \notin {"ready", "failed"}
    /\ consumer' = [consumer EXCEPT !.pc = "loop", !.track = None]
    /\ UNCHANGED <<queueVars, preVars, autoplayMode, token, loader, ws, asked,
                   sent, panicked>>
    /\ Collect(tracks)

Consume == ConsumeBegins \/ ConsumePops \/ ConsumeEnds \/ ConsumeReturns
               \/ ConsumeSleeps
Consumer == SessionStarts \/ SessionIsStopped \/ Consume

-----------------------------------------------------------------------------
(* The message handler *)

Receives(kind) ==
    /\ ~panicked /\ ws.pc = "idle" /\ kind \in Messages /\ sent < MaxMessages
    /\ sent' = sent + 1

HandlerDone == ws' = [pc |-> "idle", items |-> <<>>, after |-> None]

\* What the server may add: the next items it does not have in the queue, as many
\* as a batch has or as there are.
FirstOf(S) ==
    UNION {Ascending(S, n) : n \in {Min({b, Cardinality(S)}) : b \in Batches} \ {0}}
NewItems == FirstOf(Items \ ToSet(refs))

\* Forget what was handed out: the next track is not its successor.
ForgetLast == consumer' = [consumer EXCEPT !.last = None]

\* DeleteAutoplayTracks: cut refs back to the regular tracks.
DropAutoplay ==
    /\ refs' = SubSeq(refs, 1, IF Len(refs) > Len(shuffledIndexes)
                               THEN Len(shuffledIndexes) ELSE Len(refs))
    /\ fetchedAutoplay' = FALSE

\* QueueTracksAdded, QueueTracksInserted: with autoplayReset the autoplay
\* tracks go first, under locks of their own.
TracksArrive(kind, after, reset) ==
    /\ Receives(kind)
    /\ \E s \in NewItems : ws' = [pc |-> "add", items |-> s, after |-> after]
    /\ IF reset THEN DropAutoplay ELSE UNCHANGED <<refs, fetchedAutoplay>>
    /\ UNCHANGED <<shuffledIndexes, index, preloaded, tracks, hasContext,
                   pendingStart, autoplayMode, token, loader, consumer, asked,
                   panicked>>

Resets == IF "autoplay" \in Messages THEN BOOLEAN ELSE {FALSE}

QueueTracksAdded == \E reset \in Resets : TracksArrive("append", None, reset)

QueueTracksInserted ==
    \E after \in ToSet(refs), reset \in Resets :
        TracksArrive("insert", after, reset)

\* The server's answer to an autoplay request.
AutoplayTracksLoaded ==
    /\ asked /\ asked' = FALSE
    /\ Receives("autoplay")
    /\ \E s \in NewItems : ws' = [pc |-> "add", items |-> s, after |-> None]
    /\ DropAutoplay
    /\ UNCHANGED <<shuffledIndexes, index, preloaded, tracks, hasContext,
                   pendingStart, autoplayMode, token, loader, consumer, panicked>>

\* Position: the play position of an item, and 0 for one that is gone.
Position(item) ==
    LET i == PositionOf(refs, item) - 1
        j == PositionOf(shuffledIndexes, i) - 1
    IN  IF i = -1 THEN 0 ELSE IF i < Len(shuffledIndexes) /\ j # -1 THEN j ELSE i

\* AddTracks, one inserted item.  A duplicate is searched by track from index
\* on, renumbered there, and in preloaded at the offset j - index.
Duplicate(rf, item) ==
    SelectInSubSeq(rf, index + 1, Len(rf), LAMBDA x : TrackOf[x] = TrackOf[item]) - 1

Renumber(acc, j, item) ==
    [refs |-> [acc.refs EXCEPT ![j + 1] = item],
     heap |-> IF j - index < Len(preloaded)
              THEN [acc.heap EXCEPT ![preloaded[j - index + 1]].item = item]
              ELSE acc.heap,
     at   |-> acc.at]

Put(acc, item) ==
    LET ins == IF acc.at > Len(acc.refs) THEN Len(acc.refs) ELSE acc.at
    IN  [refs |-> InsertAt(acc.refs, ins + 1, item), heap |-> acc.heap,
         at   |-> acc.at + 1]

\* A bug: a duplicate is renumbered and inserted all the same.
InsertAlways(acc, item) ==
    LET j == Duplicate(acc.refs, item)
    IN  Put(IF j # -1 THEN Renumber(acc, j, item) ELSE acc, item)

Insert(acc, item) ==
    LET j == Duplicate(acc.refs, item)
    IN  IF j # -1 THEN Renumber(acc, j, item) ELSE Put(acc, item)

\* What AddTracks has made of refs and preloaded after k of its items.
Inserted[k \in 0 .. Len(ws.items)] ==
    IF k = 0 THEN [refs |-> refs, heap |-> tracks,
                   at   |-> PlayPos(shuffledIndexes, Position(ws.after)) + 1]
    ELSE Insert(Inserted[k - 1], ws.items[k])

\* AddTracks (and GrowShuffleIndexes after QueueTracksLoaded): at the end of
\* the queue, or after an item of it.
Added(rf, heap) ==
    /\ refs' = rf /\ shuffledIndexes' = Grown(shuffledIndexes, rf)
    /\ Notify
    /\ HandlerDone
    /\ UNCHANGED <<index, preVars, autoplayMode, loader, consumer, asked, sent,
                   panicked>>
    /\ Collect(heap)

AppendTracks ==
    /\ ~panicked /\ ws.pc = "add" /\ ws.after = None
    /\ Added(refs \o ws.items, tracks)

InsertTracks ==
    /\ ~panicked /\ ws.pc = "add" /\ ws.after # None /\ index >= 0
    /\ LET acc == Inserted[Len(ws.items)] IN Added(acc.refs, acc.heap)

AddTracks == AppendTracks \/ InsertTracks

\* The duplicate search starts at refs[-1].
AddTracksPanics ==
    /\ ~panicked /\ ws.pc = "add" /\ ws.after # None /\ index < 0
    /\ Panic

\* DeleteAllTracks, the section under mu ...
ClearRefs(kind) ==
    /\ Receives(kind)
    /\ refs' = <<>> /\ shuffledIndexes' = <<>> /\ index' = 0
    /\ ForgetLast
    /\ UNCHANGED <<preVars, tracks, autoplayMode, token, loader, asked, panicked>>

QueueCleared ==
    /\ ClearRefs("clear")
    /\ ws' = [pc |-> "clear", items |-> <<>>, after |-> None]

QueueTracksLoaded ==
    /\ ClearRefs("load")
    /\ \E s \in FirstOf(Items) :
           ws' = [pc |-> "clear", items |-> s, after |-> None]

\* ... and the section under preloadedMu.
ClearPreloaded ==
    /\ ~panicked /\ ws.pc = "clear"
    /\ preloaded' = <<>> /\ pendingStart' = None
    /\ hasContext' = FALSE /\ fetchedAutoplay' = FALSE
    /\ IF ws.items = <<>> THEN HandlerDone ELSE ws' = [ws EXCEPT !.pc = "add"]
    /\ ForgetLast
    /\ UNCHANGED <<queueVars, autoplayMode, token, loader, asked, sent, panicked>>
    /\ Collect(tracks)

\* A bug: positions above the removed one are not moved down.
CutKeepsPositions(sh, f, i) == RemoveAt(sh, f)

\* The shuffle without its entry f, which named position i.
Cut(sh, f, i) ==
    [k \in 1 .. (Len(sh) - 1) |->
        LET v == RemoveAt(sh, f)[k] IN IF v > i THEN v - 1 ELSE v]

\* DeleteTracksByQueueItemID for one id.
Delete(acc, item) ==
    LET i == PositionOf(acc.refs, item) - 1
        p == PositionOf([k \in DOMAIN acc.pre |-> tracks[acc.pre[k]].item], item)
        f == PositionOf(acc.sh, i)
    IN  IF i = -1 THEN acc
        ELSE [refs |-> RemoveAt(acc.refs, i + 1),
              pre  |-> IF p = 0 THEN acc.pre ELSE RemoveAt(acc.pre, p),
              sh   |-> IF f = 0 THEN acc.sh ELSE Cut(acc.sh, f, i),
              ix   |-> IF f # 0 /\ acc.ix >= i THEN acc.ix - 1 ELSE acc.ix]

\* What is left of the queue when n of the ids have been removed.
Deleted(ids, n) ==
    LET left[k \in 0 .. n] ==
            IF k = 0 THEN [refs |-> refs, pre |-> preloaded, sh |-> shuffledIndexes,
                           ix   |-> index]
            ELSE Delete(left[k - 1], ids[k])
    IN  left[n]

QueueTracksRemoved ==
    /\ Receives("remove")
    /\ \E n \in 1 .. Len(refs) : \E ids \in [1 .. n -> ToSet(refs)] :
        LET acc == Deleted(ids, n)
        IN  /\ IsInjective(ids)
            /\ refs' = acc.refs /\ preloaded' = acc.pre
            /\ shuffledIndexes' = acc.sh /\ index' = acc.ix
    /\ ForgetLast
    /\ UNCHANGED <<hasContext, pendingStart, fetchedAutoplay, autoplayMode, token,
                   loader, ws, asked, panicked>>
    /\ Collect(tracks)

\* A bug: the cursor moves, the window stays.
SetIndexOnly(item) ==
    LET i == PositionOf(refs, item) - 1
        ix == IF i = -1 THEN index ELSE i
    IN  ix >= 0 /\ index' = ix /\ UNCHANGED preloaded

\* SetIndex: an item that is gone leaves index alone; either way preloaded is
\* re-aligned.
SetIndex(item) ==
    LET i == PositionOf(refs, item) - 1
        ix == IF i = -1 THEN index ELSE i
    IN  /\ ix >= 0
        /\ index' = ix
        /\ preloaded' = Reordered(refs, shuffledIndexes, ix, preloaded, tracks)

\* SetState and RendererStateUpdated move the cursor, and in some of their
\* branches go on to SetStartAt.
SetState(item, then) ==
    /\ Receives(IF then = "start" THEN "start" ELSE "seek")
    /\ SetIndex(item)
    /\ Notify
    /\ ws' = [ws EXCEPT !.pc = then]
    /\ ForgetLast
    /\ UNCHANGED <<refs, shuffledIndexes, hasContext, pendingStart,
                   fetchedAutoplay, autoplayMode, loader, asked, panicked>>
    /\ Collect(tracks)

SetStartAt ==
    /\ ~panicked /\ ws.pc = "start"
    /\ UNCHANGED <<queueVars, preloaded, hasContext, fetchedAutoplay,
                   autoplayMode, token, loader, consumer, asked, sent, panicked>>
    /\ LET item == IF InQueue(refs, shuffledIndexes, index)
                   THEN ItemAt(refs, shuffledIndexes, index) ELSE None
       IN  /\ pendingStart' = item
           /\ Collect(IF preloaded = <<>> THEN tracks
                      ELSE [tracks EXCEPT ![preloaded[1]].start = item])
    /\ HandlerDone

\* ConsumeQueueState: adopt the shuffle order and the autoplay mode; a queue
\* with no refs takes the snapshot's tracks, any other is only re-aligned.
ConsumeQueueState(items, regular, order) ==
    /\ shuffledIndexes' = order \o Identity(Len(order), regular)
    /\ IF refs = <<>>
       THEN refs' = items /\ preloaded' = <<>>
       ELSE /\ index >= 0
            /\ refs' = refs
            /\ preloaded' = Reordered(refs, shuffledIndexes', index, preloaded,
                                      tracks)

\* The orders a snapshot of n regular tracks may carry: none, or a shuffle.
Orders(n) ==
    {<<>>} \cup IF "shuffle" \in Messages THEN {s \in Shuffles : Len(s) = n}
                ELSE {}

\* The snapshot may know of one track more than refs does: a stale queue.
QueueState ==
    /\ Receives("state")
    /\ \E items \in IF refs = <<>> THEN NewItems ELSE {refs} :
       \E regular \in 0 .. (Len(items) + IF refs = <<>> THEN 0 ELSE 1) :
       \E order \in Orders(regular) :
           /\ ConsumeQueueState(items, regular, order)
           /\ IF order = <<>> /\ Identity(0, Len(shuffledIndexes)) = shuffledIndexes
              THEN UNCHANGED consumer ELSE ForgetLast
    /\ autoplayMode' \in (IF "autoplay" \in Messages THEN BOOLEAN
                          ELSE {autoplayMode})
    /\ Notify
    /\ UNCHANGED <<index, hasContext, pendingStart, fetchedAutoplay, loader, ws,
                   asked, panicked>>
    /\ Collect(tracks)

\* ConsumeQueueState, and SetIndex on an item that is gone, re-align from -1.
ReorderPanics ==
    /\ index < 0
    /\ \E kind \in {"seek", "start"} \cup {k \in {"state"} : refs # <<>>} : Receives(kind)
    /\ panicked' = TRUE
    /\ UNCHANGED <<refs, shuffledIndexes, index, preloaded, tracks, hasContext,
                   pendingStart, fetchedAutoplay, autoplayMode, token, loader,
                   consumer, ws, asked>>

Handler ==
    \/ QueueTracksAdded \/ QueueTracksInserted \/ AutoplayTracksLoaded
    \/ AddTracks \/ AddTracksPanics \/ QueueCleared \/ QueueTracksLoaded
    \/ ClearPreloaded \/ QueueTracksRemoved
    \/ \E item \in Items, then \in {"idle", "start"} : SetState(item, then)
    \/ SetStartAt \/ QueueState \/ ReorderPanics

-----------------------------------------------------------------------------
Next == Loader \/ Consumer \/ Handler

\* The goroutines are scheduled; the handler finishes a message it began, the
\* server need not send one.  A step of the loader that fetches is one that
\* returns: api.go uses http.DefaultClient, which has no timeout, so this is an
\* assumption about the server, not something the code sees to.
Fairness == /\ WF_vars(Loader)
            /\ WF_vars(SessionStarts) /\ WF_vars(Consume)
            /\ WF_vars(AddTracks \/ ClearPreloaded \/ SetStartAt)

Spec == Init /\ [][Next]_vars /\ Fairness

-----------------------------------------------------------------------------
(* Properties *)

\* Every variable has its type; what something points to has not been collected,
\* and what nothing points to has.
TypeOK ==
    /\ refs \in Seq(Items) /\ shuffledIndexes \in Seq(Nat) /\ index \in Int
    /\ preloaded \in Seq(Slots)
    /\ tracks \in [Slots -> Track \cup {Free}]
    /\ \A a \in Slots : (tracks[a] = Free) = (a \notin Live)
    /\ {hasContext, fetchedAutoplay, autoplayMode, token, asked, panicked}
            \subseteq BOOLEAN
    /\ pendingStart \in Items \cup {None}
    /\ loader.pc \in {"top", "wait", "fill", "suggest", "asked", "copy", "work",
                       "dead"}
    /\ loader.batch \in Seq(Slots)
    /\ consumer.pc \in {"stopped", "calls", "loop", "ends?", "ready?"}
    /\ {consumer.prev, consumer.track} \subseteq Slots \cup {None}
    /\ consumer.last \in Items \cup {None}
    /\ ws.pc \in {"idle", "add", "clear", "start"}
    /\ ws.items \in Seq(Items) /\ ws.after \in Items \cup {None}
    /\ sent \in 0 .. MaxMessages

\* The preloaded tracks are the ones at index, index + 1, ... of the play
\* order, whatever the loader, the consumer and the handler interleave: what
\* reorderPreloaded restores, and what AddTracks assumes when it finds the
\* preloaded track of refs[j] at offset j - index.
WindowAligned ==
    ws.pc # "clear" =>
        \A k \in 1 .. Len(preloaded) :
            /\ InQueue(refs, shuffledIndexes, index + k - 1)
            /\ tracks[preloaded[k]].item =
                   ItemAt(refs, shuffledIndexes, index + k - 1)

\* What the window stands for: the play order, a cursor in it, and whether the
\* track at the cursor is the one handed out, or to be handed out.
PlayOrder ==
    LET n == Cardinality({i \in 0 .. (Len(refs) - 1) :
                              InQueue(refs, shuffledIndexes, i)})
    IN  [i \in 1 .. n |-> ItemAt(refs, shuffledIndexes, i - 1)]
AtCursor ==
    IF ws.pc = "clear" THEN "nothing"
    ELSE IF consumer.track \in ToSet(preloaded) THEN "chosen"
    ELSE IF consumer.prev \in ToSet(preloaded) THEN "held"
    ELSE "nothing"
Chosen == IF consumer.track = None THEN None ELSE tracks[consumer.track].item
LastGiven == IF ws.pc = "clear" THEN None ELSE consumer.last

PC == INSTANCE PlayCursor WITH
          order <- PlayOrder, cursor <- index, at <- AtCursor, chosen <- Chosen,
          last <- LastGiven, clearing <- ws.pc = "clear"

\* The queue with its window is a play order read from a cursor: ConsumeTrack
\* hands out the item at the cursor and moves by one, although the loader fills
\* the window, snapshots rebuild it and messages move the cursor meanwhile.
ImplementsPlayCursor == PC!Spec

\* No wake-up is lost: a loader asleep with no token on notifyCh has filled the
\* window and settled every track in it.
RestingLoaderIsDone ==
    (/\ loader.pc = "wait" /\ ~token
     /\ ws.pc = "idle" /\ refs # <<>> /\ index + Len(preloaded) >= 0)
    => /\ Filled = Len(preloaded)
       /\ \A t \in ToSet(preloaded) : tracks[t].state \in {"ready", "failed"}

\* The shuffle names each of its positions once.
ShuffleIsPermutation == IsPermutation(shuffledIndexes)

\* A queue item is in the queue once.
ItemsUnique == IsInjective(refs)

\* Through appends, insertions that renumber a duplicate, removals, cut-backs
\* and shuffled snapshots, the play order comes to each item of the queue, and
\* comes to it once: no track is left out or played twice.
PlaysEachOnce ==
    LET Plays(i, item) == /\ InQueue(refs, shuffledIndexes, i)
                          /\ ItemAt(refs, shuffledIndexes, i) = item
        Positions == 0 .. (Len(refs) + Len(shuffledIndexes))
    IN  \A item \in ToSet(refs) : \E i \in Positions :
            Plays(i, item) /\ \A j \in Positions : Plays(j, item) => j = i

\* "Keep the preloaded track's Index in sync": the number a preloaded track
\* gets from an insertion is that of a queue item with the same track.
RelabelsSameTrack ==
    [][\A t \in (Live \cap Live') \ {None} :
           TrackOf[tracks'[t].item] = TrackOf[tracks[t].item]]_vars

\* No goroutine indexes a slice out of range: the cursor is a position.
NoPanic == ~panicked

\* ConsumeTrack returns: it does not wait for ever while the loader runs.
ConsumeTerminates ==
    (consumer.pc = "loop") ~> (consumer.pc \in {"calls", "stopped"} \/ panicked)
=============================================================================
