--------------------------- MODULE StreamingReader ---------------------------
(***************************************************************************)
(* Playing a track while it is still being downloaded (cache.go, and the   *)
(* calls of player.go).  A download goroutine appends to the file and      *)
(* moves the frontier, activeDownload.written; readers of the file sleep   *)
(* on its condition variable when they have caught up.  The readers are    *)
(* used by runLoop while it decodes the head of a track, then, under the   *)
(* speaker lock (mixMu), by the speaker's callback and the seek poller;    *)
(* closeAll closes those in the slots under the same lock.  A track that   *)
(* comes twice has two readers of one download.                            *)
(* One action is one section of activeDownload.mu, or one call on the      *)
(* file; positions are counted in blocks.                                  *)
(***************************************************************************)
EXTENDS Integers, Sequences

CONSTANTS
    Readers, \* readers attached to the download, 1 .. n in the order of Open
    Size,    \* bound: blocks in the file
    Seeks    \* bound: calls of Seek

ASSUME ConstantsOK ==
    Readers \subseteq Nat \ {0} /\ Size \in Nat \ {0} /\ Seeks \in Nat

Users == {"loop", "callback", "poller"}
Nobody == "nobody"
None == 0

VARIABLES
    disk,     \* blocks written to the file
    written,  \* dl.written
    done,     \* dl.done
    failed,   \* dl.err # nil
    download, \* where the download goroutine is
    pos,      \* r.pos
    closed,   \* r.closed
    opened,   \* readers opened so far
    loop,     \* where runLoop is, and the reader it decodes
    slots,    \* gq.tracks, by reader
    mixMu,    \* who holds the speaker lock
    call,     \* what each goroutine does inside Read or Seek
    seeks,    \* calls of Seek so far
    stopped   \* Player.Stop has been called

dlVars == <<disk, written, done, failed, download>>
vars == <<disk, written, done, failed, download, pos, closed, opened, loop,
          slots, mixMu, call, seeks, stopped>>

NoCall == [at |-> "none", reader |-> None, avail |-> 0]
Idle(g) == call[g].at = "none"
Returned == {"data", "eof", "error"}

Init ==
    /\ disk = 0 /\ written = 0 /\ done = FALSE /\ failed = FALSE
    /\ download = "receive"
    /\ pos = [r \in Readers |-> 0] /\ closed = [r \in Readers |-> FALSE]
    /\ opened = 0 /\ loop = [pc |-> "top", reader |-> None]
    /\ slots = <<>> /\ mixMu = Nobody
    /\ call = [g \in Users |-> NoCall]
    /\ seeks = 0 /\ stopped = FALSE

-----------------------------------------------------------------------------
(* The download goroutine: downloadInto, then finish *)

Asleep(g) == call[g].at \in {"asleep", "end asleep"}
Roused(g) == [call[g] EXCEPT !.at = IF @ = "asleep" THEN "test"
                                    ELSE IF @ = "end asleep" THEN "end test" ELSE @]

\* A bug: Signal instead of Broadcast.
WokenOne ==
    IF \E g \in Users : Asleep(g)
    THEN {[call EXCEPT ![g] = Roused(g)] : g \in {g \in Users : Asleep(g)}}
    ELSE {call}

\* A bug: an if instead of the for around cond.Wait in Read.
WokenUntested ==
    {[g \in Users |->
        LET avail == written - pos[call[g].reader]
        IN  IF call[g].at # "asleep" THEN Roused(g)
            ELSE IF avail > 0 THEN [call[g] EXCEPT !.at = "read", !.avail = avail]
            ELSE [call[g] EXCEPT !.at = IF failed THEN "error" ELSE "eof"]]}

\* cond.Broadcast: everyone asleep tests again, with dl.mu.
Woken == {[g \in Users |-> Roused(g)]}

\* A bug: the frontier is moved before the file is written.
ReceivesUnwritten ==
    /\ download = "receive" /\ disk < Size
    /\ written' = written + 1 /\ download' = "add"
    /\ UNCHANGED <<disk, done, failed, pos, closed, opened, loop, slots, mixMu,
                   call, seeks, stopped>>

\* A block arrives and is written to the file ...
Receives ==
    /\ download = "receive" /\ disk < Size
    /\ disk' = disk + 1 /\ download' = "add"
    /\ UNCHANGED <<written, done, failed, pos, closed, opened, loop, slots, mixMu,
                   call, seeks, stopped>>

\* ... addWritten, the section under dl.mu, and the broadcast after it.
AddWritten ==
    /\ download = "add"
    /\ written' = disk /\ download' = "tell"
    /\ UNCHANGED <<disk, done, failed, pos, closed, opened, loop, slots, mixMu,
                   call, seeks, stopped>>

Tells ==
    /\ download \in {"tell", "tell end"}
    /\ download' = IF download = "tell" THEN "receive" ELSE "over"
    /\ call' \in Woken
    /\ UNCHANGED <<disk, written, done, failed, pos, closed, opened, loop, slots,
                   mixMu, seeks, stopped>>

\* A bug: finish does not broadcast.
FinishSilent ==
    /\ download = "receive"
    /\ done' = TRUE /\ failed' = (disk # Size) /\ download' = "over"
    /\ UNCHANGED <<disk, written, pos, closed, opened, loop, slots, mixMu, call,
                   seeks, stopped>>

\* finish: at the end of the body, or with an error before it.
Finish ==
    /\ download = "receive"
    /\ done' = TRUE /\ download' = "tell end"
    /\ failed' \in (IF disk = Size THEN BOOLEAN ELSE {TRUE})
    /\ UNCHANGED <<disk, written, pos, closed, opened, loop, slots, mixMu, call,
                   seeks, stopped>>

Download == Receives \/ AddWritten \/ Tells \/ Finish

-----------------------------------------------------------------------------
(* downloadingReader: Read, Seek and Close *)

Calls(g, r, kind) == call' = [call EXCEPT ![g] = [at |-> kind, reader |-> r, avail |-> 0]]

CaughtUp(r) == pos[r] >= written /\ ~done /\ ~closed[r]

\* Read, under dl.mu: sleep while caught up, then find out how much there is.
ReadTests(g) ==
    LET r == call[g].reader
        avail == written - pos[r]
    IN  /\ call[g].at = "test"
        /\ call' = IF CaughtUp(r) THEN [call EXCEPT ![g].at = "asleep"]
                   ELSE IF closed[r] THEN [call EXCEPT ![g].at = "error"]
                   ELSE IF avail > 0
                        THEN [call EXCEPT ![g].at = "read", ![g].avail = avail]
                   ELSE [call EXCEPT ![g].at = IF failed THEN "error" ELSE "eof"]

ReadTest(g) ==
    /\ ReadTests(g)
    /\ UNCHANGED <<dlVars, pos, closed, opened, loop, slots, mixMu, seeks, stopped>>

\* ReadAt, with dl.mu released.
ReadsAt(g) ==
    /\ call[g].at = "read"
    /\ \E n \in 1 .. call[g].avail :
           pos' = [pos EXCEPT ![call[g].reader] = @ + n]
    /\ call' = [call EXCEPT ![g].at = "data"]
    /\ UNCHANGED <<dlVars, closed, opened, loop, slots, mixMu, seeks, stopped>>

\* Seek from the start or from the current position does not wait: it may leave
\* the reader ahead of the frontier.
SeeksTo(r) ==
    /\ seeks < Seeks /\ seeks' = seeks + 1
    /\ \E p \in 0 .. Size : pos' = [pos EXCEPT ![r] = p]

\* Seek from the end waits for the download, whether or not the reader is
\* closed meanwhile.
SeekEndTest(g) ==
    /\ call[g].at = "end test"
    /\ IF done /\ ~failed THEN pos' = [pos EXCEPT ![call[g].reader] = written]
       ELSE UNCHANGED pos
    /\ call' = [call EXCEPT ![g].at = IF ~done THEN "end asleep"
                                      ELSE IF failed THEN "error" ELSE "data"]
    /\ UNCHANGED <<dlVars, closed, opened, loop, slots, mixMu, seeks, stopped>>

Reading(g) == ReadTest(g) \/ ReadsAt(g) \/ SeekEndTest(g)

-----------------------------------------------------------------------------
(* runLoop: Open, Decode, into a slot, and at the end closeAll *)

LoopOpens ==
    /\ loop.pc = "top" /\ ~stopped /\ opened + 1 \in Readers
    /\ opened' = opened + 1
    /\ loop' = [pc |-> "decode", reader |-> opened + 1]
    /\ UNCHANGED <<dlVars, pos, closed, slots, mixMu, call, seeks, stopped>>

\* Decode reads and seeks as it likes, without the speaker lock.
LoopReads ==
    /\ loop.pc = "decode" /\ Idle("loop")
    /\ Calls("loop", loop.reader, "test")
    /\ UNCHANGED <<dlVars, pos, closed, opened, loop, slots, mixMu, seeks, stopped>>
LoopSeeks ==
    /\ loop.pc = "decode" /\ Idle("loop")
    /\ SeeksTo(loop.reader)
    /\ UNCHANGED <<dlVars, closed, opened, loop, slots, mixMu, call, stopped>>
LoopSeeksEnd ==
    /\ loop.pc = "decode" /\ Idle("loop") /\ seeks < Seeks
    /\ seeks' = seeks + 1
    /\ Calls("loop", loop.reader, "end test")
    /\ UNCHANGED <<dlVars, pos, closed, opened, loop, slots, mixMu, stopped>>

\* A call returned: Decode goes on, has all it wants, or gives up; then the
\* reader is closed and the track skipped.
LoopContinues ==
    /\ call["loop"].at = "data"
    /\ call' = [call EXCEPT !["loop"] = NoCall]
    /\ UNCHANGED <<dlVars, pos, closed, opened, loop, slots, mixMu, seeks, stopped>>
LoopDecoded ==
    /\ call["loop"].at = "data"
    /\ call' = [call EXCEPT !["loop"] = NoCall]
    /\ loop' = [loop EXCEPT !.pc = "place"]
    /\ UNCHANGED <<dlVars, pos, closed, opened, slots, mixMu, seeks, stopped>>
LoopGivesUp ==
    /\ call["loop"].at \in Returned
    /\ closed' = [closed EXCEPT ![loop.reader] = TRUE]
    /\ \E woken \in Woken : call' = [woken EXCEPT !["loop"] = NoCall]
    /\ loop' = [pc |-> "top", reader |-> None]
    /\ UNCHANGED <<dlVars, pos, opened, slots, mixMu, seeks, stopped>>

\* play or enqueue.
LoopPlaces ==
    /\ loop.pc = "place" /\ mixMu = Nobody /\ Len(slots) < 2
    /\ slots' = Append(slots, loop.reader)
    /\ loop' = [pc |-> "top", reader |-> None]
    /\ UNCHANGED <<dlVars, pos, closed, opened, mixMu, call, seeks, stopped>>

\* The stop checks; a track that has no slot yet stays open.
LoopStops ==
    /\ loop.pc \in {"top", "place"} /\ stopped
    /\ loop' = [pc |-> "close", reader |-> None]
    /\ UNCHANGED <<dlVars, pos, closed, opened, slots, mixMu, call, seeks, stopped>>

Slotted(r) == \E i \in 1 .. Len(slots) : slots[i] = r

\* A bug: closeAll without the speaker lock.
LoopClosesUnlocked ==
    /\ loop.pc = "close"
    /\ closed' = [r \in Readers |-> closed[r] \/ Slotted(r)]
    /\ slots' = <<>>
    /\ loop' = [loop EXCEPT !.pc = "done"]
    /\ call' \in Woken
    /\ UNCHANGED <<dlVars, pos, opened, mixMu, seeks, stopped>>

\* speakerClear and closeAll: every Close sets closed, and broadcasts.
LoopCloses ==
    /\ loop.pc = "close" /\ mixMu = Nobody
    /\ closed' = [r \in Readers |-> closed[r] \/ Slotted(r)]
    /\ slots' = <<>>
    /\ loop' = [loop EXCEPT !.pc = "done"]
    /\ call' \in Woken
    /\ UNCHANGED <<dlVars, pos, opened, mixMu, seeks, stopped>>

LoopEnds == LoopDecoded \/ LoopGivesUp
Loop == LoopOpens \/ LoopReads \/ LoopSeeks \/ LoopSeeksEnd \/ LoopContinues
        \/ LoopEnds \/ LoopPlaces \/ LoopStops \/ LoopCloses

-----------------------------------------------------------------------------
(* Under the speaker lock: the callback and the seek poller *)

\* g locks the speaker, whose slots are not empty.
Takes(g) == mixMu = Nobody /\ slots # <<>> /\ mixMu' = g

CallbackReads ==
    /\ Takes("callback") /\ Calls("callback", slots[1], "test")
    /\ UNCHANGED <<dlVars, pos, closed, opened, loop, slots, seeks, stopped>>

\* Samples are delivered: Stream reads on, or returns.
CallbackReadsOn ==
    /\ call["callback"].at = "data" /\ Calls("callback", slots[1], "test")
    /\ UNCHANGED <<dlVars, pos, closed, opened, loop, slots, mixMu, seeks, stopped>>

\* Nothing more to play: the track is popped and closed.
CallbackPops ==
    /\ call["callback"].at \in {"eof", "error"}
    /\ slots' = Tail(slots)
    /\ closed' = [closed EXCEPT ![slots[1]] = TRUE]
    /\ \E woken \in Woken : call' = [woken EXCEPT !["callback"] = NoCall]
    /\ mixMu' = Nobody
    /\ UNCHANGED <<dlVars, pos, opened, loop, seeks, stopped>>

\* The decoder seeks, and may look for the frame it is in.
PollerSeeks ==
    /\ Takes("poller") /\ SeeksTo(slots[1])
    /\ Calls("poller", slots[1], "data") \/ Calls("poller", slots[1], "test")
    /\ UNCHANGED <<dlVars, closed, opened, loop, slots, stopped>>

Unlocks(g) ==
    /\ call[g].at = "data" \/ (g = "poller" /\ call[g].at \in Returned)
    /\ call' = [call EXCEPT ![g] = NoCall] /\ mixMu' = Nobody
    /\ UNCHANGED <<dlVars, pos, closed, opened, loop, slots, seeks, stopped>>

UnlocksSpeaker == Unlocks("callback") \/ Unlocks("poller") \/ CallbackPops
Speaker == CallbackReads \/ CallbackReadsOn \/ PollerSeeks \/ UnlocksSpeaker

Stop ==
    /\ ~stopped /\ stopped' = TRUE
    /\ UNCHANGED <<dlVars, pos, closed, opened, loop, slots, mixMu, call, seeks>>

-----------------------------------------------------------------------------
Next == \/ Download \/ Loop \/ Speaker \/ Stop
        \/ \E g \in Users : Reading(g)

\* Goroutines run on; Decode and Stream want a bounded part of the file; a
\* mutex is not withheld for ever from one that asks for it (SF).
Fairness ==
    /\ WF_vars(AddWritten \/ Tells)
    /\ \A g \in Users : WF_vars(Reading(g))
    /\ WF_vars(LoopReads \/ LoopStops) /\ SF_vars(LoopEnds)
    /\ SF_vars(LoopPlaces) /\ SF_vars(LoopCloses)
    /\ SF_vars(UnlocksSpeaker)

\* The network delivers the file, or an error.
NetworkDelivers == WF_vars(Receives \/ Finish)

Spec == Init /\ [][Next]_vars /\ Fairness /\ NetworkDelivers

-----------------------------------------------------------------------------
(* Properties *)

\* Types; no more is announced or handed out than the file holds.
TypeOK ==
    /\ disk \in 0 .. Size /\ written \in 0 .. Size
    /\ {done, failed, stopped} \subseteq BOOLEAN
    /\ download \in {"receive", "add", "tell", "tell end", "over"}
    /\ pos \in [Readers -> Nat] /\ closed \in [Readers -> BOOLEAN]
    /\ opened \in Readers \cup {None}
    /\ loop.pc \in {"top", "decode", "place", "close", "done"}
    /\ loop.reader \in Readers \cup {None}
    /\ slots \in Seq(Readers)
    /\ mixMu \in {Nobody, "callback", "poller"}
    /\ call \in [Users -> [at : {"none", "test", "asleep", "end test",
                                   "end asleep", "read"} \cup Returned,
                           reader : Readers \cup {None}, avail : 0 .. Size]]
    /\ seeks \in 0 .. Seeks

\* No wake-up is lost: who sleeps at the frontier has caught up with it, who
\* sleeps in Seek is not at the end of the download, or else the broadcast that
\* tells of the change is still to come.
NoLostWakeup ==
    \A g \in Users :
        /\ call[g].at = "asleep" =>
               CaughtUp(call[g].reader) \/ download \in {"tell", "tell end"}
        /\ call[g].at = "end asleep" => ~done \/ download = "tell end"

\* What Read found available is in the file by the time ReadAt asks for it,
\* and no one moved the reader or closed its file in between: each reader is
\* used by one goroutine at a time.
ReadsWhatIsThere ==
    \A g \in Users :
        call[g].at = "read" =>
            /\ pos[call[g].reader] + call[g].avail <= disk
            /\ ~closed[call[g].reader]

\* The decoder is told of the end of the file only when the download has
\* succeeded and every block of it is behind the reader: a slow or a failed
\* download never looks like the end of the track.
EndIsTheEnd ==
    \A g \in Users :
        call[g].at = "eof" => done /\ ~failed /\ pos[call[g].reader] >= Size

\* Stop ends the session, also one that waits for bytes (as long as the network
\* delivers them, or an error).
StopEndsReading == stopped ~> loop.pc = "done"
=============================================================================
