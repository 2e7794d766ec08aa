--------------------------- MODULE Renderer_proofs ---------------------------
(***************************************************************************)
(* Proofs about Renderer, for queues of any length and any number of loads,*)
(* messages and goroutines: no queue starts at a position in the one       *)
(* before, and the end of a queue is not undone by an echo.                *)
(***************************************************************************)
EXTENDS Renderer, TLAPS

\* The positions that are kept are ones in the queue that is loaded.
PositionsAreNew ==
    /\ startAt \in {0, load} /\ (handler.pc = "add" => startAt = 0)
    /\ handler.pc = "bottom" /\ ~handler.was => handler.pos \in {0, load}

\* While the server may echo positions in the queue before, the flag is up or
\* the handler is about to raise it.
EchoesAreAwaited == echoing => awaiting \/ handler.pc = "await"

PInv == load \in Nat /\ PositionsAreNew /\ EchoesAreAwaited /\ NoOldPosition

\* The session that came to the end of the queue has said so, or runs and will.
EndIsMarked == ranOut => exhausted \/ (session = "tail" /\ ~stop)

positionVars == <<load, startAt, handler, begun, echoing, awaiting>>
endVars == <<ranOut, exhausted, session, stop>>

-----------------------------------------------------------------------------
(* Positions *)

LEMMA InitPInv == Init => PInv
  BY SMT DEF Init, Idle, States, PInv, PositionsAreNew,
             EchoesAreAwaited, NoOldPosition

\* What the server says when the handler is idle and the flag is down.
LEMMA SaidIsNew ==
  ASSUME PInv, handler.pc = "idle", ~awaiting, NEW pos \in Positions
  PROVE  pos \in {0, load}
  BY DEF PInv, EchoesAreAwaited, Positions

LEMMA PositionsAlone ==
  ASSUME PInv, UNCHANGED positionVars
  PROVE  PInv'
  BY DEF positionVars, PInv, PositionsAreNew, EchoesAreAwaited,
         NoOldPosition

\* Messages that place no position.
LEMMA PlainMessages ==
  ASSUME PInv, SetActive \/ SetInactive \/ QueueStateIsStale \/ QueueCleared
                   \/ SetStateDropped \/ AppConnects
  PROVE  PInv'
<1>1. load' = load /\ handler' = handler /\ begun' = begun /\ echoing' = echoing
  BY DEF SetActive, SetInactive, QueueStateIsStale, QueueCleared, SetStateDropped,
         AppConnects, queue, flags
<1>2. startAt' = startAt \/ startAt' = 0
  BY DEF SetActive, SetInactive, QueueStateIsStale, QueueCleared, DeleteAllTracks,
         SetStateDropped, AppConnects, queue
<1>3. awaiting => awaiting'
  BY DEF SetActive, SetInactive, QueueStateIsStale, QueueCleared, SetStateDropped,
         AppConnects, flags
<1>4. QED
  BY <1>1, <1>2, <1>3 DEF PInv, PositionsAreNew, EchoesAreAwaited,
                          NoOldPosition

LEMMA LoadKeeps ==
  ASSUME PInv, QueueTracksLoaded \/ AddsTracks \/ Awaits
  PROVE  PInv'
<1>1. CASE QueueTracksLoaded
  <2>1. /\ handler.pc = "idle" /\ handler' = [Idle EXCEPT !.pc = "add"]
        /\ load' = load /\ startAt' = 0 /\ begun' = begun
        /\ echoing' = echoing /\ awaiting' = awaiting
    BY <1>1 DEF QueueTracksLoaded, Handles, DeleteAllTracks
  <2>2. QED
    BY <2>1, SMT DEF PInv, PositionsAreNew, EchoesAreAwaited,
                     NoOldPosition, Idle, States
<1>2. CASE AddsTracks
  <2>1. /\ handler.pc = "add" /\ handler' = [Idle EXCEPT !.pc = "await"]
        /\ load' = load + 1 /\ startAt' = startAt /\ begun' = begun
    BY <1>2 DEF AddsTracks
  <2>2. QED
    BY <2>1, SMT DEF PInv, PositionsAreNew, EchoesAreAwaited,
                     NoOldPosition, Idle, States
<1>3. CASE Awaits
  <2>1. /\ handler' = Idle /\ awaiting' = TRUE
        /\ load' = load /\ startAt' = startAt /\ begun' = begun
    BY <1>3 DEF Awaits, queue
  <2>2. QED
    BY <2>1, SMT DEF PInv, PositionsAreNew, EchoesAreAwaited,
                     NoOldPosition, Idle, States
<1>4. QED
  BY <1>1, <1>2, <1>3

LEMMA UpdatesKeep ==
  ASSUME PInv, NEW item \in Items, NEW pos \in Positions,
         RendererStateUpdated(item, pos) \/ OtherRendererUpdated(item, pos)
  PROVE  PInv'
<1>1. /\ load' = load /\ handler' = handler /\ begun' = begun
      /\ echoing' = echoing /\ awaiting' = awaiting /\ handler.pc = "idle"
  BY DEF RendererStateUpdated, OtherRendererUpdated, flags, Handles
<1>2. startAt' = startAt \/ (startAt' = pos /\ pos \in {0, load})
  BY SaidIsNew DEF RendererStateUpdated, OtherRendererUpdated, Handles
<1>3. QED
  BY <1>1, <1>2 DEF PInv, PositionsAreNew, EchoesAreAwaited,
                    NoOldPosition

LEMMA SetStateKeeps ==
  ASSUME PInv, NEW state \in States, NEW item \in Items \cup {None},
         NEW pos \in Positions, NEW next \in Items \cup {None},
         SetStateRestarts(state, item, pos, next)
             \/ SetStateUpper(state, item, pos, next)
  PROVE  PInv'
<1>1. /\ load' = load /\ startAt' = startAt /\ begun' = begun /\ echoing' = FALSE
      /\ handler.pc = "idle"
  BY DEF SetStateRestarts, SetStateUpper, Handles
<1>2. \/ handler' = handler
      \/ handler' = [pc |-> "bottom", state |-> state, item |-> item, pos |-> pos,
                     was |-> awaiting]
  BY DEF SetStateRestarts, SetStateUpper
<1>3. awaiting \/ pos \in {0, load}
  BY <1>1, SaidIsNew
<1>4. CASE handler' = handler
  BY <1>1, <1>4 DEF PInv, PositionsAreNew, EchoesAreAwaited,
                    NoOldPosition
<1>5. CASE handler' = [pc |-> "bottom", state |-> state, item |-> item, pos |-> pos,
                       was |-> awaiting]
  <2>1. handler'.pc = "bottom" /\ handler'.was = awaiting /\ handler'.pos = pos
    BY <1>5
  <2>2. PositionsAreNew'
    BY <1>1, <1>3, <2>1 DEF PInv, PositionsAreNew
  <2>3. QED
    BY <1>1, <2>2 DEF PInv, EchoesAreAwaited, NoOldPosition
<1>6. QED
  BY <1>2, <1>4, <1>5

LEMMA BottomKeeps ==
  ASSUME PInv, SetStateBottom
  PROVE  PInv'
<1>1. /\ handler.pc = "bottom" /\ handler' = Idle
      /\ load' = load /\ begun' = begun /\ echoing' = echoing /\ awaiting' = awaiting
      /\ startAt' = startAt \/ startAt' = StartPos
  BY DEF SetStateBottom, flags
<1>2. StartPos \in {0, load}
  BY <1>1 DEF PInv, PositionsAreNew, StartPos
<1>3. handler'.pc = "idle"
  BY <1>1 DEF Idle
<1>4. QED
  BY <1>1, <1>2, <1>3, Zenon DEF PInv, PositionsAreNew, EchoesAreAwaited,
                                 NoOldPosition

LEMMA SessionKeepsPositions ==
  ASSUME PInv, Session \/ TakesNext \/ Advances \/ QueueEnds
  PROVE  PInv'
<1>1. CASE TakesFirst
  <2>1. /\ begun' = [load |-> load, pos |-> startAt] /\ startAt' = 0
        /\ load' = load /\ handler' = handler /\ echoing' = echoing
        /\ awaiting' = awaiting
    BY <1>1 DEF TakesFirst, flags
  <2>2. begun'.pos = startAt /\ begun'.load = load
    BY <2>1
  <2>3. QED
    BY <2>1, <2>2 DEF PInv, PositionsAreNew, EchoesAreAwaited, NoOldPosition
<1>2. CASE ~TakesFirst
  <2>1. UNCHANGED positionVars
    BY <1>2 DEF Session, RunClears, NothingToPlay, RunsOut, StopIsSeen, Tail, Returns,
                TakesNext, Advances, QueueEnds, flags, queue, positionVars
  <2>2. QED
    BY <2>1, PositionsAlone
<1>3. QED
  BY <1>1, <1>2

LEMMA RunnersLeavePositions ==
  ASSUME NEW r \in Runners, Runner(r)
  PROVE  UNCHANGED positionVars
  BY DEF Runner, RestartStops, RestartGoesOn, RunWins, RunLoses, flags, queue,
         positionVars

LEMMA StepKeepsPInv == PInv /\ [Next]_vars => PInv'
<1> SUFFICES ASSUME PInv, [Next]_vars
             PROVE  PInv'
  OBVIOUS
<1>1. CASE Message
  BY <1>1, PlainMessages, LoadKeeps, UpdatesKeep, SetStateKeeps DEF Message
<1>2. CASE HandlerGoesOn
  BY <1>2, LoadKeeps, BottomKeeps DEF HandlerGoesOn
<1>3. CASE AppConnects
  BY <1>3, PlainMessages
<1>4. ASSUME NEW r \in Runners, Runner(r)
      PROVE  PInv'
  BY <1>4, RunnersLeavePositions, PositionsAlone
<1>5. CASE Session \/ TakesNext \/ Advances \/ QueueEnds
  BY <1>5, SessionKeepsPositions
<1>6. CASE UNCHANGED vars
  BY <1>6, PositionsAlone DEF vars, flags, queue, positionVars
<1>7. QED
  BY <1>1, <1>2, <1>3, <1>4, <1>5, <1>6 DEF Next

\* The first track of a queue is never started at a position in the queue before
\* it, whatever the server echoes (stream.go:920-928, 1140-1152).
THEOREM QueuesStartFresh == Spec => []NoOldPosition
<1>1. PInv => NoOldPosition
  BY DEF PInv
<1>2. QED
  BY InitPInv, StepKeepsPInv, <1>1, PTL DEF Spec

-----------------------------------------------------------------------------
(* The end of the queue *)

LEMMA EndAlone ==
  ASSUME EndIsMarked, UNCHANGED endVars
  PROVE  EndIsMarked'
  BY DEF endVars, EndIsMarked

\* A message may stop the session: then it has not come to the end.
LEMMA MessagesKeepMark ==
  ASSUME EndIsMarked, Message \/ HandlerGoesOn \/ AppConnects
  PROVE  EndIsMarked'
<1>1. exhausted' = exhausted /\ session' = session
  BY DEF Message, HandlerGoesOn, AppConnects, SetActive, SetInactive,
         QueueStateIsStale, QueueCleared, QueueTracksLoaded, SetStateDropped,
         RendererStateUpdated, OtherRendererUpdated, SetStateRestarts,
         SetStateUpper, AddsTracks, Awaits, SetStateBottom, player
<1>2. ~ranOut' \/ ((stop' => stop) /\ (ranOut' => ranOut))
  <2>1. CASE SetInactive \/ QueueStateIsStale \/ QueueCleared \/ Awaits
    <3>1. StopsIfRunning
      BY <2>1 DEF SetInactive, QueueStateIsStale, QueueCleared, Awaits
    <3>2. QED
      BY <3>1 DEF StopsIfRunning
  <2>2. ASSUME NEW state \in States, NEW item \in Items \cup {None},
               NEW pos \in Positions, NEW next \in Items \cup {None},
               SetStateRestarts(state, item, pos, next)
        PROVE  ~ranOut' \/ (stop' = stop /\ ranOut' = ranOut)
    BY <2>2 DEF SetStateRestarts
  <2>3. ASSUME NEW state \in States, NEW item \in Items \cup {None},
               NEW pos \in Positions, NEW next \in Items \cup {None},
               SetStateUpper(state, item, pos, next)
        PROVE  stop' = stop /\ ranOut' = ranOut
    BY <2>3 DEF SetStateUpper, player
  <2>4. ASSUME NEW item \in Items, NEW pos \in Positions,
               RendererStateUpdated(item, pos) \/ OtherRendererUpdated(item, pos)
        PROVE  stop' = stop /\ ranOut' = ranOut
    BY <2>4 DEF RendererStateUpdated, OtherRendererUpdated, player
  <2>5. CASE SetActive \/ QueueTracksLoaded \/ SetStateDropped \/ AddsTracks
                 \/ SetStateBottom \/ AppConnects
    <3>1. stop' = stop /\ ranOut' = ranOut
      BY <2>5 DEF SetActive, QueueTracksLoaded, SetStateDropped, AddsTracks,
                  SetStateBottom, AppConnects, player
    <3>2. QED
      BY <3>1
  <2>6. QED
    BY <2>1, <2>2, <2>3, <2>4, <2>5 DEF Message, HandlerGoesOn
<1>3. QED
  BY <1>1, <1>2 DEF EndIsMarked

LEMMA SessionKeepsMark ==
  ASSUME EndIsMarked, Session \/ TakesNext \/ Advances \/ QueueEnds
  PROVE  EndIsMarked'
<1>1. CASE RunClears
  BY <1>1 DEF RunClears, EndIsMarked
<1>2. CASE TakesFirst \/ TakesNext
  BY <1>2 DEF TakesFirst, TakesNext, EndIsMarked
<1>3. CASE NothingToPlay \/ QueueEnds
  BY <1>3 DEF NothingToPlay, QueueEnds, RunsOut, EndIsMarked
<1>4. CASE StopIsSeen
  BY <1>4 DEF StopIsSeen, EndIsMarked
<1>5. CASE Tail
  BY <1>5 DEF Tail, EndIsMarked
<1>6. CASE Returns
  BY <1>6 DEF Returns, EndIsMarked
<1>7. CASE Advances
  BY <1>7 DEF Advances, EndIsMarked
<1>8. QED
  BY <1>1, <1>2, <1>3, <1>4, <1>5, <1>6, <1>7 DEF Session

LEMMA RunnersKeepMark ==
  ASSUME EndIsMarked, NEW r \in Runners, Runner(r)
  PROVE  EndIsMarked'
<1>1. CASE RestartStops(r)
  BY <1>1 DEF RestartStops, EndIsMarked
<1>2. CASE RunWins(r)
  BY <1>2 DEF RunWins, running, EndIsMarked
<1>3. CASE RestartGoesOn(r) \/ RunLoses(r)
  BY <1>3 DEF RestartGoesOn, RunLoses, player, EndIsMarked
<1>4. QED
  BY <1>1, <1>2, <1>3 DEF Runner

LEMMA StepKeepsMark == EndIsMarked /\ [Next]_vars => EndIsMarked'
<1> SUFFICES ASSUME EndIsMarked, [Next]_vars
             PROVE  EndIsMarked'
  OBVIOUS
<1>1. CASE UNCHANGED vars
  BY <1>1, EndAlone DEF vars, player, endVars
<1>2. CASE Next
  BY <1>2, MessagesKeepMark, SessionKeepsMark, RunnersKeepMark DEF Next
<1>3. QED
  BY <1>1, <1>2

\* A player that came to the end of the queue is not revived by the echo of its
\* last state: IsRunning is false only once the mark is set (player.go:618-630,
\* stream.go:936-942).
THEOREM EndIsFinal == Spec => EchoRevivesNothing
<1>1. Init => EndIsMarked
  BY DEF Init, EndIsMarked
<1>2. ASSUME EndIsMarked, NEW item \in Items, NEW pos \in Positions,
             RendererStateUpdated(item, pos), runner' # runner
      PROVE  ~ranOut
  BY <1>2 DEF RendererStateUpdated, running, EndIsMarked
<1>3. EndIsMarked /\ [Next]_vars =>
        [\A item \in Items, pos \in Positions :
            RendererStateUpdated(item, pos) /\ runner' # runner => ~ranOut]_vars
  BY <1>2
<1>4. QED
  BY <1>1, StepKeepsMark, <1>3, PTL DEF Spec, EchoRevivesNothing
=============================================================================
