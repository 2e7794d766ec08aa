------------------------------ MODULE Renderer ------------------------------
(***************************************************************************)
(* The message handler of stream.go as the renderer it makes of the player *)
(* and the queue: which messages load a queue, place its cursor, start and *)
(* stop the player.  The handler works through one message at a time, and  *)
(* beside it run the session (Run) and the goroutines of `go Run()` and of *)
(* Restart, which come to it late.  Stop is one step here (two in          *)
(* PlayerLifecycle), the queue its cursor and its start position           *)
(* (TrackQueue has the window).  The calls of Pause are those of           *)
(* AlsaSpeaker, the calls of OnPlayback and OnVolume those of CecManager.  *)
(* The server is external: it says what it likes, except that a position   *)
(* in a queue now gone is said of this renderer, and no later than the     *)
(* first SetState after the load (the comments at stream.go:925 and :1148).*)
(***************************************************************************)
EXTENDS Integers

CONSTANTS
    Runners,     \* goroutines of `go Run()` and of Restart
    Last,        \* the last item: a queue has the items 0 .. Last
    MaxLoads,    \* bound: queues that are loaded
    MaxMessages  \* bound: messages

None == -1

ASSUME ConstantsOK == Last \in Nat /\ MaxLoads \in Nat /\ MaxMessages \in Nat

Items == 0 .. Last
States == {"stopped", "playing", "paused"}

VARIABLES
    isActive, awaiting, pending, \* s.isActive, s.awaitingRendererState,
                                 \* s.pendingQueueLoad
    load,       \* which load the queue is of
    empty,      \* the queue has no tracks
    index,      \* its cursor
    held,       \* the track handed out last is the one at index: the next one
                \* is taken past it
    startAt,    \* the load whose position the first track is to start at, or 0
    current,    \* p.currentTrack: its load and item
    taken,      \* the track that the session took last
    session,    \* where Run is
    stop,       \* a Stop was made
    exhausted,  \* p.queueExhausted
    runner,     \* where each goroutine is
    handler,    \* the SetState whose second part is to come
    sent,       \* messages handled
    echoing,    \* the server may still say positions in the queue before
    ranOut,     \* history: the last session came to the end of the queue
    begun,      \* history: where the last first track was started
    due         \* history: the new queue is to be played

queue == <<load, empty, index, held, startAt>>
flags == <<isActive, awaiting, pending>>
player == <<current, taken, session, stop, exhausted>>
vars == <<flags, queue, player, runner, handler, sent, echoing, ranOut, begun, due>>

NoTrack == [load |-> 0, item |-> None]
Idle == [pc |-> "idle", state |-> "stopped", item |-> None, pos |-> 0, was |-> FALSE]

running == session # "off"

Init ==
    /\ isActive \in BOOLEAN /\ awaiting = FALSE /\ pending = FALSE
    /\ load = 0 /\ empty = TRUE /\ index = 0 /\ held = FALSE /\ startAt = 0
    /\ current = NoTrack /\ taken = NoTrack /\ session = "off" /\ stop = FALSE /\ exhausted = FALSE
    /\ runner = [r \in Runners |-> "free"]
    /\ handler = Idle /\ sent = 0
    /\ echoing = FALSE /\ ranOut = FALSE /\ due = FALSE
    /\ begun = [load |-> 0, pos |-> 0]

-----------------------------------------------------------------------------
(* What the messages do to queue and player *)

Handles == handler.pc = "idle" /\ sent < MaxMessages /\ sent' = sent + 1

Spawns(how) ==
    \E r \in Runners : runner[r] = "free" /\ runner' = [runner EXCEPT ![r] = how]

\* if s.player.IsRunning() { s.player.Stop() }
StopsIfRunning ==
    /\ stop' = (stop \/ running)
    /\ ranOut' = (ranOut /\ ~running)

\* The window is aligned anew: the track handed out stays in it if the cursor does.
SetIndex(item) ==
    /\ index' = IF empty \/ item = None THEN index ELSE item
    /\ held' = (held /\ index' = index)

\* Where the server may say that the player is: at the beginning, in the queue
\* that is loaded or, for a while, in the one before.
Positions == {0, load} \cup (IF echoing THEN {load - 1} ELSE {})

DeleteAllTracks == empty' = TRUE /\ index' = 0 /\ held' = FALSE /\ startAt' = 0

-----------------------------------------------------------------------------
(* The handlers of wsHandleMessage *)

\* SrvrRndrSetActive, SrvrCtrlActiveRendererChanged, SrvrCtrlRemoveRenderer.
SetActive ==
    /\ Handles /\ isActive' = TRUE
    /\ UNCHANGED <<awaiting, pending, queue, player, runner, handler, echoing,
                   ranOut, begun, due>>
SetInactive ==
    /\ Handles /\ isActive' = FALSE
    /\ StopsIfRunning /\ due' = FALSE
    /\ UNCHANGED <<awaiting, pending, queue, current, taken, session, exhausted, runner,
                   handler, echoing, begun>>

\* SrvrCtrlQueueState whose tracks are not as many as ours.
QueueStateIsStale ==
    /\ Handles /\ pending' = TRUE /\ awaiting' = TRUE
    /\ StopsIfRunning /\ due' = FALSE
    /\ UNCHANGED <<isActive, queue, current, taken, session, exhausted, runner, handler,
                   echoing, begun>>

QueueCleared ==
    /\ Handles /\ DeleteAllTracks
    /\ StopsIfRunning /\ due' = FALSE
    /\ UNCHANGED <<flags, load, current, taken, session, exhausted, runner, handler,
                   echoing, begun>>

\* SrvrCtrlQueueTracksLoaded: the old tracks go, the new ones come, and then the
\* flag is set and the player stopped.
QueueTracksLoaded ==
    /\ Handles /\ load < MaxLoads
    /\ handler' = [Idle EXCEPT !.pc = "add"]
    /\ pending' = FALSE /\ DeleteAllTracks /\ due' = FALSE
    /\ UNCHANGED <<isActive, awaiting, load, player, runner, echoing, ranOut, begun>>
AddsTracks ==
    /\ handler.pc = "add" /\ handler' = [Idle EXCEPT !.pc = "await"]
    /\ load' = load + 1 /\ empty' = FALSE /\ echoing' = TRUE
    /\ UNCHANGED <<flags, index, held, startAt, player, runner, sent, ranOut, begun, due>>
Awaits ==
    /\ handler.pc = "await" /\ handler' = Idle
    /\ awaiting' = TRUE /\ StopsIfRunning
    /\ UNCHANGED <<isActive, pending, queue, current, taken, session, exhausted, runner,
                   sent, echoing, begun, due>>

\* A bug: the player's stop for a new queue does not keep echoes off.
RendererStateUpdatedAtOnce(item, pos) ==
    /\ Handles
    /\ IF running \/ exhausted
       THEN UNCHANGED <<index, held, startAt, runner>>
       ELSE /\ SetIndex(item) /\ startAt' \in {startAt, pos}
            /\ IF isActive THEN Spawns("cas") ELSE UNCHANGED runner
    /\ UNCHANGED <<flags, load, empty, player, handler, echoing, ranOut, begun, due>>

\* SrvrCtrlRendererStateUpdated for this renderer.
RendererStateUpdated(item, pos) ==
    /\ Handles
    /\ IF running \/ awaiting \/ exhausted
       THEN UNCHANGED <<index, held, startAt, runner>>
       ELSE /\ SetIndex(item) /\ startAt' \in {startAt, pos}
            /\ IF isActive THEN Spawns("cas") ELSE UNCHANGED runner
    /\ UNCHANGED <<flags, load, empty, player, handler, echoing, ranOut, begun, due>>

\* ... and for another one, which shares the queue: nothing keeps it off.
OtherRendererUpdated(item, pos) ==
    /\ Handles /\ pos \in {0, load}
    /\ SetIndex(item) /\ startAt' \in {startAt, pos}
    /\ UNCHANGED <<flags, load, empty, player, runner, handler, echoing, ranOut,
                   begun, due>>

-----------------------------------------------------------------------------
(* SrvrRndrSetState *)

SetStateDropped ==
    /\ Handles /\ pending
    /\ UNCHANGED <<flags, queue, player, runner, handler, echoing, ranOut, begun, due>>

\* The same track from its beginning, or "previous" later than three seconds
\* into it (next is the track that plays): seeks, whatever has been loaded.
Seeks(item, pos, next) ==
    current # NoTrack /\ \/ current.item = item /\ pos = 0
                         \/ current.item = next

\* Another track, or the first one of a new queue.
Switches(item) ==
    /\ current # NoTrack
    /\ current.item # item \/ awaiting
    /\ ~exhausted \/ awaiting

\* The upper block, with the flag swapped; it restarts the player itself ...
SetStateRestarts(state, item, pos, next) ==
    /\ Handles /\ ~pending /\ awaiting' = FALSE /\ echoing' = FALSE
    /\ item # None /\ (running \/ isActive)
    /\ ~Seeks(item, pos, next) /\ Switches(item)
    /\ SetIndex(item)
    /\ IF isActive
       THEN current' = NoTrack /\ Spawns("restart") /\ UNCHANGED <<stop, ranOut>>
            /\ due' = (due \/ (awaiting /\ ~empty /\ state # "paused"))
       ELSE stop' = TRUE /\ ranOut' = FALSE /\ UNCHANGED <<current, runner, due>>
    /\ UNCHANGED <<isActive, pending, load, empty, startAt, taken, session,
                   exhausted, handler, begun>>

\* ... or at the most moves the cursor of a session that has no track yet.
SetStateUpper(state, item, pos, next) ==
    /\ Handles /\ ~pending /\ awaiting' = FALSE /\ echoing' = FALSE
    /\ LET upper == item # None /\ (running \/ isActive)
                    /\ ~Seeks(item, pos, next)
       IN /\ ~(upper /\ Switches(item))
          /\ IF upper /\ current = NoTrack /\ running THEN SetIndex(item)
                                                      ELSE UNCHANGED <<index, held>>
    /\ handler' = [pc |-> "bottom", state |-> state, item |-> item, pos |-> pos,
                   was |-> awaiting]
    /\ UNCHANGED <<isActive, pending, load, empty, startAt, player, runner,
                   ranOut, begun, due>>

\* The position said first after a load is one in the queue before.
StartPos == IF handler.was THEN 0 ELSE handler.pos

\* The block at the bottom: IsRunning and queueExhausted are read again.
SetStateBottom ==
    LET wantStart == handler.state # "stopped" \/ handler.was
        explicit == handler.state = "playing" /\ handler.item # None
    IN /\ handler.pc = "bottom" /\ handler' = Idle
       /\ IF isActive /\ ~running /\ wantStart
             /\ (~exhausted \/ handler.was \/ explicit)
          THEN /\ SetIndex(handler.item) /\ startAt' = StartPos
               /\ Spawns("cas")
               /\ due' = (due \/ (handler.was /\ handler.item # None /\ ~empty
                                  /\ handler.state # "paused"))
          ELSE UNCHANGED <<index, held, startAt, runner, due>>
       /\ UNCHANGED <<flags, load, empty, player, sent, echoing, ranOut, begun>>

\* handleAppConnect, in a goroutine of the pairing server.
AppConnects ==
    /\ ~isActive /\ isActive' = TRUE
    /\ UNCHANGED <<awaiting, pending, queue, player, runner, handler, sent,
                   echoing, ranOut, begun, due>>

-----------------------------------------------------------------------------
(* Restart and Run *)

Goes(r, from, to) == runner[r] = from /\ runner' = [runner EXCEPT ![r] = to]

RestartStops(r) ==
    /\ running /\ Goes(r, "restart", "wait")
    /\ stop' = TRUE /\ ranOut' = FALSE
    /\ UNCHANGED <<flags, queue, current, taken, session, exhausted, handler, sent,
                   echoing, begun, due>>

\* A bug: Restart does not wait for the session to end.
RestartGoesOnAtOnce(r) ==
    /\ \E from \in {"restart", "wait"} : Goes(r, from, "cas")
    /\ UNCHANGED <<flags, queue, player, handler, sent, echoing, ranOut, begun, due>>

RestartGoesOn(r) ==
    /\ ~running
    /\ \E from \in {"restart", "wait"} : Goes(r, from, "cas")
    /\ UNCHANGED <<flags, queue, player, handler, sent, echoing, ranOut, begun, due>>

RunWins(r) ==
    /\ ~running /\ Goes(r, "cas", "free")
    /\ session' = "begin"
    /\ UNCHANGED <<flags, queue, current, taken, stop, exhausted, handler, sent, echoing,
                   ranOut, begun, due>>
RunLoses(r) ==
    /\ running /\ Goes(r, "cas", "free")
    /\ UNCHANGED <<flags, queue, player, handler, sent, echoing, ranOut, begun, due>>

\* A session begins with no track before (prevQT).
RunClears ==
    /\ session = "begin" /\ session' = "first" /\ held' = FALSE
    /\ stop' = FALSE /\ exhausted' = FALSE /\ ranOut' = FALSE
    /\ UNCHANGED <<flags, load, empty, index, startAt, current, taken, runner,
                   handler, sent, echoing, begun, due>>

\* ConsumeTrack moves past the track handed out before and takes the next.
TakenAt == index + (IF held THEN 1 ELSE 0)
HasTrack == ~empty /\ TakenAt \in Items

TakesFirst ==
    /\ session = "first" /\ ~stop /\ HasTrack
    /\ session' = "play" /\ held' = TRUE
    /\ current' = [load |-> load, item |-> index] /\ taken' = current'
    /\ begun' = [load |-> load, pos |-> startAt] /\ startAt' = 0
    /\ due' = FALSE
    /\ UNCHANGED <<flags, load, empty, index, stop, exhausted, runner, handler,
                   sent, echoing, ranOut>>
TakesNext ==
    /\ session = "play" /\ ~stop /\ HasTrack
    /\ index' = TakenAt /\ held' = TRUE
    /\ taken' = [load |-> load, item |-> index'] /\ due' = FALSE
    /\ UNCHANGED <<flags, load, empty, startAt, current, session, stop, exhausted,
                   runner, handler, sent, echoing, ranOut, begun>>

\* handleTrackAdvance, in a goroutine of its own: it may come late and out of
\* order.
Advances ==
    /\ taken # NoTrack
    /\ \E item \in 0 .. taken.item : current' = [taken EXCEPT !.item = item]
    /\ UNCHANGED <<flags, queue, taken, session, stop, exhausted, runner, handler,
                   sent, echoing, ranOut, begun, due>>

RunsOut ==
    /\ ~stop /\ ~HasTrack
    /\ session' = "tail" /\ ranOut' = TRUE
    /\ index' = IF empty THEN index ELSE TakenAt
    /\ held' = FALSE
    /\ UNCHANGED <<flags, load, empty, startAt, current, taken, stop, exhausted,
                   runner, handler, sent, echoing, begun>>
NothingToPlay == session = "first" /\ RunsOut /\ UNCHANGED due
QueueEnds == session = "play" /\ RunsOut /\ due' = FALSE

StopIsSeen ==
    /\ session \in {"first", "play"} /\ stop /\ session' = "tail"
    /\ UNCHANGED <<flags, queue, current, taken, stop, exhausted, runner, handler, sent,
                   echoing, ranOut, begun, due>>

\* A bug: the session ends without the mark.
TailUnmarked ==
    /\ session = "tail" /\ session' = "end"
    /\ UNCHANGED <<flags, queue, current, taken, stop, exhausted, runner, handler, sent,
                   echoing, ranOut, begun, due>>

Tail ==
    /\ session = "tail" /\ session' = "end"
    /\ exhausted' = (exhausted \/ ~stop)
    /\ UNCHANGED <<flags, queue, current, taken, stop, runner, handler, sent, echoing,
                   ranOut, begun, due>>
Returns ==
    /\ session = "end" /\ session' = "off"
    /\ UNCHANGED <<flags, queue, current, taken, stop, exhausted, runner, handler, sent,
                   echoing, ranOut, begun, due>>

-----------------------------------------------------------------------------
Message ==
    \/ SetActive \/ SetInactive \/ QueueStateIsStale \/ QueueCleared
    \/ QueueTracksLoaded \/ SetStateDropped
    \/ \E item \in Items, pos \in Positions :
            RendererStateUpdated(item, pos) \/ OtherRendererUpdated(item, pos)
    \/ \E state \in States, item \in Items \cup {None}, pos \in Positions,
          next \in Items \cup {None} :
            \/ SetStateRestarts(state, item, pos, next)
            \/ SetStateUpper(state, item, pos, next)
HandlerGoesOn == AddsTracks \/ Awaits \/ SetStateBottom
Runner(r) == RestartStops(r) \/ RestartGoesOn(r) \/ RunWins(r) \/ RunLoses(r)
Session == RunClears \/ TakesFirst \/ NothingToPlay \/ StopIsSeen \/ Tail \/ Returns

Next ==
    \/ Message \/ HandlerGoesOn \/ AppConnects
    \/ \E r \in Runners : Runner(r)
    \/ Session \/ TakesNext \/ Advances \/ QueueEnds

\* The handler and the goroutines run on; a track need not come to its end.
Fairness ==
    /\ WF_vars(HandlerGoesOn) /\ WF_vars(Session)
    /\ \A r \in Runners : WF_vars(Runner(r))

Spec == Init /\ [][Next]_vars /\ Fairness

-----------------------------------------------------------------------------
(* Properties *)

\* The first track of a queue is never started at a position in the queue before
\* it, however the echoes of that position come in between the load, the stop of
\* the player and the first SetState.
NoOldPosition == begun.pos \in {0, begun.load}

\* A player that came to the end of the queue is not revived by a
\* RendererStateUpdated, however soon after (or within) the end it comes.
EchoRevivesNothing ==
    [][\A item \in Items, pos \in Positions :
        RendererStateUpdated(item, pos) /\ runner' # runner => ~ranOut]_vars

\* A new queue that the handler has set out to play is played, whoever runs or
\* restarts the player at that time; unless it is stopped, cleared or replaced,
\* or a session still on its way to the Stop takes a track of it.
NewQueueStarts == due ~> ~due
=============================================================================
