------------------------------- MODULE Gapless -------------------------------
(***************************************************************************)
(* One playback session of player.go: runLoop takes tracks from the queue, *)
(* loads them and hands them to the two-slot gapless queue; the speaker's  *)
(* callback plays slot 0, pops it when it is exhausted and starts a        *)
(* goroutine that reports the advance; the seek poller and the message     *)
(* handler read currentTrack.  The slots are guarded by the speaker lock,  *)
(* currentTrack by currentMu: one action is one such critical section.     *)
(* Tracks are numbered in the order ConsumeTrack returns them; which of    *)
(* them fail, and which differ in sample rate from the one before, is left *)
(* open.                                                                   *)
(***************************************************************************)
EXTENDS Integers, SequencesExt, StopSignals

CONSTANTS
    N,    \* bound: tracks in the queue
    Seeks \* bound: seeks the server requests

ASSUME ConstantsOK == N \in Nat \ {0} /\ Seeks \in Nat

Tracks == 1 .. N
None == 0

VARIABLES
    loop,         \* where runLoop is, and its qt
    next,         \* the next track ConsumeTrack returns
    slots,        \* gq.tracks
    streamer,     \* the streamer of each track: none, open, closed
    advances,     \* goroutines started by the callback: onAdvance(prev, curr)
    advanceCh,    \* tokens in advanceCh (capacity 2)
    currentTrack, \* p.currentTrack
    reported,     \* playerState.CurrentQueueItemID
    stopping,     \* the caller of Stop is between its two steps
    paused,       \* ctrl.Paused
    wantSkip,     \* tracks with WantSkip set
    poll,         \* the seek poller's qt, once it has cleared WantSkip
    seeks,        \* seeks requested so far
    heard         \* history: tracks the callback played to their end

stopVars == <<stopWanted, stopCh, stopping>>
seekVars == <<wantSkip, poll, seeks>>
shown == <<currentTrack, reported>>
audio == <<slots, streamer, advances, heard>>
vars == <<loop, next, slots, streamer, advances, advanceCh, currentTrack,
          reported, stopWanted, stopCh, stopping, paused, wantSkip, poll, seeks,
          heard>>

Init ==
    /\ loop = [pc |-> "top", qt |-> None]
    /\ next = 1 /\ slots = <<>> /\ streamer = [t \in Tracks |-> "none"]
    /\ advances = {} /\ advanceCh = 0
    /\ currentTrack = None /\ reported = None
    /\ stopWanted = FALSE /\ stopCh = FALSE /\ stopping = FALSE
    /\ paused = FALSE
    /\ wantSkip = {} /\ poll = None /\ seeks = 0
    /\ heard = <<>>

-----------------------------------------------------------------------------
(* runLoop *)

Goes(from, to) == loop.pc = from /\ loop' = [loop EXCEPT !.pc = to]

\* The non-blocking receives on stopCh at the top of the loop and after
\* ConsumeTrack or a nil result: a token ends the session.
PollsStop(from, to) ==
    /\ Goes(from, IF stopCh THEN "exit" ELSE to)
    /\ stopCh' = FALSE
    /\ UNCHANGED <<next, audio, advanceCh, shown, stopWanted, stopping, paused,
                   seekVars>>

TopPolls == PollsStop("top", "consume")

\* ConsumeTrack returns nil because it took the token, or at the end of the queue.
ConsumesNothing ==
    /\ stopCh \/ next > N
    /\ Goes("consume", "nil")
    /\ \E b \in (IF next > N THEN {stopCh, FALSE} ELSE {FALSE}) : stopCh' = b
    /\ UNCHANGED <<next, audio, advanceCh, shown, stopWanted, stopping, paused,
                   seekVars>>

Consumes ==
    /\ loop.pc = "consume" /\ next <= N
    /\ loop' = [pc |-> "got", qt |-> next]
    /\ next' = next + 1
    /\ UNCHANGED <<audio, advanceCh, shown, stopVars, paused, seekVars>>

\* stopWanted, checked after ConsumeTrack and at each turn of the drain.
ChecksStopWanted(from, to) ==
    /\ Goes(from, IF stopWanted THEN "exit" ELSE to)
    /\ UNCHANGED <<next, audio, advanceCh, shown, stopVars, paused, seekVars>>

NilChecks == ChecksStopWanted("nil", "nilPoll")
NilPolls == PollsStop("nilPoll", "drain")
DrainChecks == ChecksStopWanted("drain", "drainWait")
GotChecks == ChecksStopWanted("got", "gotPoll")
GotPolls == PollsStop("gotPoll", "first?")

\* A bug: the wait does not listen to stopCh.
WaitsDeaf(pc) ==
    /\ Goes(pc, IF pc = "drainWait" THEN "drain" ELSE pc)
    /\ advanceCh' = IF advanceCh > 0 THEN advanceCh - 1 ELSE advanceCh
    /\ UNCHANGED <<next, audio, shown, stopVars, paused, seekVars>>

\* A wait for the callback to make room: advanceCh, stopCh, or a timeout.
Waits(pc) ==
    /\ loop.pc = pc
    /\ \/ stopCh /\ stopCh' = FALSE /\ Goes(pc, "exit") /\ UNCHANGED advanceCh
       \/ /\ advanceCh > 0 /\ advanceCh' = advanceCh - 1
          /\ Goes(pc, IF pc = "drainWait" THEN "drain" ELSE pc)
          /\ UNCHANGED stopCh
       \/ Goes(pc, IF pc = "drainWait" THEN "drain" ELSE pc)
          /\ UNCHANGED <<stopCh, advanceCh>>
    /\ UNCHANGED <<next, audio, shown, stopWanted, stopping, paused, seekVars>>

\* A bug: the drain is left on a signal only.
DrainsOnSignal ==
    /\ slots = <<>> /\ advanceCh > 0 /\ Goes("drainWait", "exit")
    /\ advanceCh' = advanceCh - 1
    /\ UNCHANGED <<next, audio, shown, stopVars, paused, seekVars>>

\* The queue ran out: leave once everything buffered is played.
Drains ==
    /\ slots = <<>> /\ Goes("drainWait", "exit")
    /\ UNCHANGED <<next, audio, advanceCh, shown, stopVars, paused, seekVars>>
DrainWaits == slots # <<>> /\ Waits("drainWait")

\* A failed track is skipped; the others find out whether they are the first,
\* and at a sample-rate boundary (any track may be one) wait until they are.
SkipsFailed ==
    /\ Goes("first?", "top")
    /\ UNCHANGED <<next, audio, advanceCh, shown, stopVars, paused, seekVars>>

ChecksFirst ==
    /\ \E to \in IF slots = <<>> THEN {"buffering"} ELSE {"boundary", "load"} :
           Goes("first?", to)
    /\ UNCHANGED <<next, audio, advanceCh, shown, stopVars, paused, seekVars>>

BoundaryReached ==
    /\ slots = <<>> /\ Goes("boundary", "buffering")
    /\ UNCHANGED <<next, audio, advanceCh, shown, stopVars, paused, seekVars>>
BoundaryWaits == slots # <<>> /\ Waits("boundary")

\* currentTrack = qt, then sendBufferingState.
SetsCurrent(from, to) ==
    /\ Goes(from, to)
    /\ currentTrack' = loop.qt
    /\ UNCHANGED <<next, audio, advanceCh, reported, stopVars, paused, seekVars>>
Reports(from, to) ==
    /\ Goes(from, to)
    /\ reported' = loop.qt
    /\ UNCHANGED <<next, audio, advanceCh, currentTrack, stopVars, paused,
                   seekVars>>

BuffersCurrent == SetsCurrent("buffering", "buffering2")
BuffersReport == Reports("buffering2", "adapt")

\* The first track brings the speaker to its sample rate, or finds no device
\* left to play on and ends the session.
AdaptsSpeaker ==
    /\ Goes("adapt", "load") \/ Goes("adapt", "exit")
    /\ UNCHANGED <<next, audio, advanceCh, shown, stopVars, paused, seekVars>>

\* loadGaplessTrack, its MP3 retry included: the streamer is open, or the loop
\* goes on with the next track.
Loads ==
    /\ Goes("load", "count")
    /\ streamer' = [streamer EXCEPT ![loop.qt] = "open"]
    /\ UNCHANGED <<next, slots, advances, heard, advanceCh, shown, stopVars,
                   paused, seekVars>>
LoadFails ==
    /\ Goes("load", "top")
    /\ UNCHANGED <<next, audio, advanceCh, shown, stopVars, paused, seekVars>>

\* A bug: a full queue is played over as if it were empty.
CountsFullAsEmpty ==
    /\ Goes("count", IF Len(slots) = 1 THEN "slot" ELSE "play")
    /\ UNCHANGED <<next, audio, advanceCh, shown, stopVars, paused, seekVars>>

\* n := len(gq.tracks); what follows acts on n after the lock is released.
Counts ==
    /\ Goes("count", IF slots = <<>> THEN "play" ELSE "slot")
    /\ UNCHANGED <<next, audio, advanceCh, shown, stopVars, paused, seekVars>>

PlaySetsCurrent == SetsCurrent("play", "play2")
PlayReports == Reports("play2", "play3")

\* gaplessQueue.play: slot 0 is set, or replaced and its streamer closed.
Play ==
    /\ Goes("play3", "top")
    /\ IF slots = <<>>
       THEN slots' = <<loop.qt>> /\ UNCHANGED streamer
       ELSE /\ slots' = [slots EXCEPT ![1] = loop.qt]
            /\ streamer' = [streamer EXCEPT ![slots[1]] = "closed"]
    /\ UNCHANGED <<next, advances, heard, advanceCh, shown, stopVars, paused,
                   seekVars>>

\* A bug: the wait for a free slot ends one track early.
SlotFreeEarly ==
    /\ Goes("slot", "enqueue")
    /\ UNCHANGED <<next, audio, advanceCh, shown, stopVars, paused, seekVars>>

SlotFree ==
    /\ Len(slots) < 2 /\ Goes("slot", "enqueue")
    /\ UNCHANGED <<next, audio, advanceCh, shown, stopVars, paused, seekVars>>
SlotWaits == Len(slots) >= 2 /\ Waits("slot")

\* gaplessQueue.enqueue: appended, or put in the place of slot 1.
Enqueue ==
    /\ Goes("enqueue", "top")
    /\ IF Len(slots) < 2
       THEN slots' = Append(slots, loop.qt) /\ UNCHANGED streamer
       ELSE /\ slots' = [slots EXCEPT ![2] = loop.qt]
            /\ streamer' = [streamer EXCEPT ![slots[2]] = "closed"]
    /\ UNCHANGED <<next, advances, heard, advanceCh, shown, stopVars, paused,
                   seekVars>>

\* The tail of Run: speakerClear, then closeAll.
CloseAll ==
    /\ Goes("exit", "done")
    /\ streamer' = [t \in Tracks |->
                        IF t \in ToSet(slots) THEN "closed" ELSE streamer[t]]
    /\ slots' = <<>>
    /\ UNCHANGED <<next, advances, heard, advanceCh, shown, stopVars, paused,
                   seekVars>>

RunLoop ==
    \/ TopPolls \/ ConsumesNothing \/ Consumes \/ NilChecks \/ NilPolls
    \/ DrainChecks \/ Drains \/ DrainWaits \/ GotChecks \/ GotPolls
    \/ SkipsFailed \/ ChecksFirst \/ BoundaryReached \/ BoundaryWaits
    \/ BuffersCurrent \/ BuffersReport \/ AdaptsSpeaker \/ Loads \/ LoadFails \/ Counts
    \/ PlaySetsCurrent \/ PlayReports \/ Play \/ SlotFree \/ SlotWaits
    \/ Enqueue \/ CloseAll

-----------------------------------------------------------------------------
(* The speaker's callback and the goroutines it starts *)

\* A bug: slot 0 is popped first, and then the streamer in slot 0 closed.
StreamClosesNext ==
    /\ slots # <<>> /\ ~paused
    /\ slots' = Tail(slots)
    /\ streamer' = [t \in Tracks |-> IF slots' # <<>> /\ t = slots'[1]
                                     THEN "closed" ELSE streamer[t]]
    /\ heard' = Append(heard, slots[1])
    /\ UNCHANGED <<loop, next, advances, advanceCh, shown, stopVars, paused,
                   seekVars>>

\* Stream finds slot 0 exhausted (or broken): pop it, close it, and tell.
Stream ==
    /\ slots # <<>> /\ ~paused
    /\ slots' = Tail(slots)
    /\ streamer' = [streamer EXCEPT ![slots[1]] = "closed"]
    /\ heard' = Append(heard, slots[1])
    /\ advances' = advances \cup
         {[prev |-> slots[1], step |-> "begun",
           curr |-> IF Len(slots) > 1 THEN slots[2] ELSE None]}
    /\ UNCHANGED <<loop, next, advanceCh, shown, stopVars, paused, seekVars>>

\* handleTrackAdvance: currentTrack first ...
AdvanceSetsCurrent(a) ==
    /\ a.step = "begun" /\ a.curr # None
    /\ currentTrack' = a.curr
    /\ advances' = (advances \ {a}) \cup {[a EXCEPT !.step = "set"]}
    /\ UNCHANGED <<loop, next, slots, streamer, heard, advanceCh, reported,
                   stopVars, paused, seekVars>>

\* ... then setPlayerState, and the signal to runLoop.
AdvanceEnds(a) ==
    /\ a.step = "set" \/ a.curr = None
    /\ reported' = IF a.curr = None THEN reported ELSE a.curr
    /\ advanceCh' = IF advanceCh < 2 THEN advanceCh + 1 ELSE advanceCh
    /\ advances' = advances \ {a}
    /\ UNCHANGED <<loop, next, slots, streamer, heard, currentTrack, stopVars,
                   paused, seekVars>>

Advance == \E a \in advances : AdvanceSetsCurrent(a) \/ AdvanceEnds(a)

-----------------------------------------------------------------------------
(* The message handler and the seek poller *)

\* Stop, in its two steps.
StopFlags ==
    /\ ~stopWanted /\ stopWanted' = TRUE /\ stopping' = TRUE
    /\ UNCHANGED <<loop, next, audio, advanceCh, shown, stopCh, paused, seekVars>>
StopSends ==
    /\ stopping /\ stopping' = FALSE /\ stopCh' = TRUE
    /\ UNCHANGED <<loop, next, audio, advanceCh, shown, stopWanted, paused,
                   seekVars>>

Pause ==
    /\ paused' = ~paused
    /\ UNCHANGED <<loop, next, audio, advanceCh, shown, stopVars, seekVars>>

RequestSkipTo ==
    /\ seeks < Seeks /\ currentTrack # None
    /\ seeks' = seeks + 1
    /\ wantSkip' = wantSkip \cup {currentTrack}
    /\ UNCHANGED <<loop, next, audio, advanceCh, shown, stopVars, paused, poll>>

\* handleSeekPoll reads currentTrack and clears WantSkip ...
PollFinds ==
    /\ loop.pc # "done" /\ poll = None /\ currentTrack \in wantSkip
    /\ poll' = currentTrack
    /\ wantSkip' = wantSkip \ {currentTrack}
    /\ UNCHANGED <<loop, next, audio, advanceCh, shown, stopVars, paused, seeks>>

\* ... and seeks whatever is in slot 0 by then.
PollSeeks ==
    /\ poll # None /\ poll' = None
    /\ UNCHANGED <<loop, next, audio, advanceCh, shown, stopVars, paused,
                   wantSkip, seeks>>

-----------------------------------------------------------------------------
Next == \/ RunLoop \/ Stream \/ Advance \/ StopFlags \/ StopSends
        \/ Pause \/ RequestSkipTo \/ PollFinds \/ PollSeeks

\* Every goroutine runs on; a track that is not paused for ever ends.
Fairness ==
    /\ WF_vars(RunLoop) /\ WF_vars(Advance) /\ WF_vars(StopSends)
    /\ SF_vars(Stream)
    \* a wait that can end does, the timeout is not always the first
    /\ SF_vars(Waits("slot") /\ loop'.pc = "exit")
    /\ SF_vars(Waits("boundary") /\ loop'.pc = "exit")
    /\ SF_vars(Waits("drainWait") /\ loop'.pc = "exit")

Spec == Init /\ [][Next]_vars /\ Fairness

-----------------------------------------------------------------------------
(* Properties *)

Pcs == {"top", "consume", "nil", "nilPoll", "drain", "drainWait", "got", "gotPoll",
        "first?", "boundary", "buffering", "buffering2", "adapt", "load", "count", "play",
        "play2", "play3", "slot", "enqueue", "exit", "done"}

\* Types; the gapless queue has two slots and advanceCh room for two signals.
TypeOK ==
    /\ loop \in [pc : Pcs, qt : Tracks \cup {None}]
    /\ next \in 1 .. N + 1
    /\ slots \in Seq(Tracks) /\ Len(slots) <= 2
    /\ streamer \in [Tracks -> {"none", "open", "closed"}]
    /\ advances \subseteq [prev : Tracks, curr : Tracks \cup {None},
                           step : {"begun", "set"}]
    /\ advanceCh \in 0 .. 2
    /\ {currentTrack, reported, poll} \subseteq Tracks \cup {None}
    /\ {stopWanted, stopCh, stopping, paused} \subseteq BOOLEAN
    /\ wantSkip \subseteq Tracks /\ seeks \in 0 .. Seeks
    /\ heard \in Seq(Tracks)

\* What is in the slots can be played: no streamer there has been closed by
\* a replacement, and no track is in both slots.
SlotsPlayable ==
    /\ \A t \in ToSet(slots) : streamer[t] = "open"
    /\ IsInjective(slots)

\* The session plays gaplessly and in order: what was heard, then what is in
\* the slots, is increasing in queue order.
HeardInOrder ==
    LET line == heard \o slots
    IN  \A i, j \in 1 .. Len(line) : i < j => line[i] < line[j]

\* A session nobody stopped plays every track it loaded to its end: neither
\* closeAll nor a replaced slot cuts one off.
NothingCutOff ==
    loop.pc = "done" /\ ~stopWanted =>
        \A t \in Tracks : streamer[t] # "none" => t \in ToSet(heard)

\* A stop ends the session, wherever runLoop is and even while paused.
StopEndsSession == stopWanted ~> loop.pc = "done"

\* An unpaused session ends once the queue has run out.
SessionEnds == <>(loop.pc = "done") \/ <>[]paused
=============================================================================
