--------------------------- MODULE PlayerLifecycle ---------------------------
(***************************************************************************)
(* The life of playback sessions in player.go: goroutines that enter       *)
(* Player.Run (directly, or through Restart), the flags and the one-slot   *)
(* channel by which Stop reaches them, and the message handler of          *)
(* stream.go that calls Run, Restart and Stop.  Each atomic flag and the   *)
(* channel is accessed in a step of its own.  What runLoop does between    *)
(* its stop checks is the subject of Gapless; here it ends when it is      *)
(* stopped, when the queue runs out or when the device is lost.            *)
(***************************************************************************)
EXTENDS Integers, StopSignals

CONSTANTS
    Runs,        \* goroutines that Run and Restart may use
    MaxMessages  \* bound: messages the handler acts on

ASSUME LifeConstantsOK == MaxMessages \in Nat

VARIABLES
    running,           \* p.running
    queueExhausted,    \* p.queueExhausted
    deviceUnavailable, \* p.deviceUnavailable
    cooldown,          \* deviceUnavailableUntil is in the future
    pc,                \* where each goroutine is
    handler,           \* where the message handler is
    sent,              \* messages handled
    ranOut,            \* history: this session saw the end of the queue
    issued,            \* history: a step of Stop was taken in this session
    unheard            \* history: a Stop made in this session is not done

flags == <<stopWanted, stopCh, queueExhausted, deviceUnavailable, cooldown>>
history == <<ranOut, issued, unheard>>
lifeVars == <<running, flags, pc, handler, sent, history>>

InRun == {"cool", "clearStop", "clearFlags", "drain", "init", "loop", "last",
          "tail", "teardown"}
Outside == {"free", "restart", "flag", "send", "await", "cas"}

LifeInit ==
    /\ running = FALSE /\ stopWanted = FALSE /\ stopCh = FALSE
    /\ queueExhausted = FALSE /\ deviceUnavailable = FALSE /\ cooldown = FALSE
    /\ pc = [r \in Runs |-> "free"]
    /\ handler = "idle" /\ sent = 0
    /\ ranOut = FALSE /\ issued = FALSE /\ unheard = FALSE

Moves(r, from, to) == pc[r] = from /\ pc' = [pc EXCEPT ![r] = to]

-----------------------------------------------------------------------------
(* Stop, by the handler or by Restart: first the flag, then the token *)

Flags ==
    /\ stopWanted' = TRUE /\ issued' = TRUE
    /\ UNCHANGED <<running, stopCh, queueExhausted, deviceUnavailable, cooldown,
                   sent, ranOut, unheard>>

Sends ==
    /\ stopCh' = TRUE /\ issued' = TRUE
    /\ unheard' = running
    /\ UNCHANGED <<running, stopWanted, queueExhausted, deviceUnavailable,
                   cooldown, sent, ranOut>>

-----------------------------------------------------------------------------
(* Restart *)

RestartBegins(r) ==
    /\ Moves(r, "restart", IF running THEN "flag" ELSE "cas")
    /\ UNCHANGED <<running, flags, handler, sent, history>>
RestartFlags(r) == Moves(r, "flag", "send") /\ Flags /\ UNCHANGED handler
RestartSends(r) == Moves(r, "send", "await") /\ Sends /\ UNCHANGED handler
RestartAwaits(r) ==
    /\ ~running /\ Moves(r, "await", "cas")
    /\ UNCHANGED <<running, flags, handler, sent, history>>

-----------------------------------------------------------------------------
(* Run *)

\* A bug: a plain store instead of the CompareAndSwap.
RunWinsAlways(r) ==
    /\ Moves(r, "cas", "cool")
    /\ running' = TRUE
    /\ ranOut' = FALSE /\ issued' = FALSE /\ unheard' = FALSE
    /\ UNCHANGED <<flags, handler, sent>>

\* The CompareAndSwap: one goroutine wins, the others return.
RunWins(r) ==
    /\ ~running /\ Moves(r, "cas", "cool")
    /\ running' = TRUE
    /\ ranOut' = FALSE /\ issued' = FALSE /\ unheard' = FALSE
    /\ UNCHANGED <<flags, handler, sent>>
RunLoses(r) ==
    /\ running /\ Moves(r, "cas", "free")
    /\ UNCHANGED <<running, flags, handler, sent, history>>

\* The deferred running.Store(false).
Returns(r, from) ==
    /\ Moves(r, from, "free")
    /\ running' = FALSE /\ unheard' = FALSE
    /\ UNCHANGED <<handler, sent, ranOut, issued>>

RunCoolsDown(r) == cooldown /\ Returns(r, "cool") /\ UNCHANGED flags
RunContinues(r) ==
    /\ ~cooldown /\ Moves(r, "cool", "clearStop")
    /\ UNCHANGED <<running, flags, handler, sent, history>>

\* What an earlier session left behind is cleared, piece by piece.
ClearStopWanted(r) ==
    /\ Moves(r, "clearStop", "clearFlags")
    /\ stopWanted' = FALSE
    /\ UNCHANGED <<running, stopCh, queueExhausted, deviceUnavailable, cooldown,
                   handler, sent, history>>

ClearFlags(r) ==
    /\ Moves(r, "clearFlags", "drain")
    /\ queueExhausted' = FALSE /\ deviceUnavailable' = FALSE
    /\ UNCHANGED <<running, stopWanted, stopCh, cooldown, handler, sent, history>>

\* A bug: the stale token stays in the channel.
DrainNothing(r) ==
    /\ Moves(r, "drain", "init")
    /\ UNCHANGED <<running, flags, handler, sent, history>>

DrainStopCh(r) ==
    /\ Moves(r, "drain", "init")
    /\ stopCh' = FALSE
    /\ UNCHANGED <<running, stopWanted, queueExhausted, deviceUnavailable,
                   cooldown, handler, sent, history>>

SpeakerReady(r) ==
    /\ Moves(r, "init", "loop")
    /\ UNCHANGED <<running, flags, handler, sent, history>>

\* reportDeviceUnavailable, at the speaker's initialisation (Run returns) or in
\* runLoop (which returns to Run's tail).
DeviceLost(r) ==
    /\ \/ Moves(r, "init", "teardown")
       \/ Moves(r, "loop", "tail")
    /\ deviceUnavailable' = TRUE /\ cooldown' = TRUE
    /\ UNCHANGED <<running, stopWanted, stopCh, queueExhausted, handler, sent,
                   history>>

\* runLoop, at one of its checks while it has tracks to load.
LoopSeesFlag(r) ==
    /\ stopWanted
    /\ \E from \in {"loop", "last"} : Moves(r, from, "tail")
    /\ UNCHANGED <<running, flags, handler, sent, history>>

\* A receive from stopCh in runLoop ends it ...
LoopTakesToken(r) ==
    /\ stopCh /\ stopCh' = FALSE
    /\ \E from \in {"loop", "last"} : Moves(r, from, "tail")
    /\ UNCHANGED <<running, stopWanted, queueExhausted, deviceUnavailable,
                   cooldown, handler, sent, history>>

\* ... one inside ConsumeTrack only looks like the end of the queue.
ConsumeTakesToken(r) ==
    /\ stopCh /\ stopCh' = FALSE
    /\ Moves(r, "loop", "last")
    /\ UNCHANGED <<running, stopWanted, queueExhausted, deviceUnavailable,
                   cooldown, handler, sent, history>>

QueueEnds(r) ==
    /\ Moves(r, "loop", "last")
    /\ ranOut' = TRUE
    /\ UNCHANGED <<running, flags, handler, sent, issued, unheard>>

\* The buffered tracks are played out.
PlayedOut(r) ==
    /\ Moves(r, "last", "tail")
    /\ UNCHANGED <<running, flags, handler, sent, history>>

\* A bug: a session that lost its device is taken for one that ran out.
TailForgetsDevice(r) ==
    /\ Moves(r, "tail", "teardown")
    /\ queueExhausted' = (queueExhausted \/ ~stopWanted)
    /\ UNCHANGED <<running, stopWanted, stopCh, deviceUnavailable, cooldown,
                   handler, sent, history>>

\* Run's tail: not stopped and not without a device means exhausted.
RunTail(r) ==
    /\ Moves(r, "tail", "teardown")
    /\ queueExhausted' = (queueExhausted \/ ~(stopWanted \/ deviceUnavailable))
    /\ UNCHANGED <<running, stopWanted, stopCh, deviceUnavailable, cooldown,
                   handler, sent, history>>

\* speakerClear, closeAll, ctrl = nil, and the return.
TearDown(r) == Returns(r, "teardown") /\ UNCHANGED flags

CoolsOff ==
    /\ cooldown /\ cooldown' = FALSE
    /\ UNCHANGED <<running, stopWanted, stopCh, queueExhausted,
                   deviceUnavailable, pc, handler, sent, history>>

-----------------------------------------------------------------------------
(* The message handler *)

Handles == handler = "idle" /\ sent < MaxMessages /\ sent' = sent + 1

Spawns(from, r) == Moves(r, "free", from)

\* Inactive, removed, cleared, new queue: if IsRunning, Stop.
HandlerStops ==
    /\ Handles
    /\ handler' = IF running THEN "flag" ELSE "idle"
    /\ UNCHANGED <<running, flags, pc, history>>
HandlerFlags ==
    /\ handler = "flag" /\ handler' = "send" /\ Flags /\ UNCHANGED pc
HandlerSends ==
    /\ handler = "send" /\ handler' = "idle" /\ Sends /\ UNCHANGED pc

\* SetState's last block: `go Run()` unless a session is running; an exhausted
\* queue needs an explicit play.
HandlerPlays(explicit) ==
    /\ Handles
    /\ IF ~running /\ (~queueExhausted \/ explicit)
       THEN \E r \in Runs : Spawns("cas", r)
       ELSE UNCHANGED pc
    /\ UNCHANGED <<running, flags, handler, history>>

\* SetState on another track: Restart.
HandlerRestarts ==
    /\ Handles
    /\ \E r \in Runs : Spawns("restart", r)
    /\ UNCHANGED <<running, flags, handler, history>>

-----------------------------------------------------------------------------
Enters(r) ==
    \/ RestartBegins(r) \/ RestartFlags(r) \/ RestartSends(r) \/ RestartAwaits(r)
    \/ RunWins(r) \/ RunLoses(r)
Begins(r) ==
    \/ RunCoolsDown(r) \/ RunContinues(r) \/ ClearStopWanted(r) \/ ClearFlags(r)
    \/ DrainStopCh(r) \/ SpeakerReady(r)
Stops(r) == LoopSeesFlag(r) \/ LoopTakesToken(r) \/ ConsumeTakesToken(r)
Ends(r) == PlayedOut(r) \/ RunTail(r) \/ TearDown(r)

Handler == \/ HandlerStops \/ HandlerFlags \/ HandlerSends \/ HandlerRestarts
           \/ \E explicit \in BOOLEAN : HandlerPlays(explicit)

LifeNext ==
    \/ \E r \in Runs : \/ Enters(r) \/ Begins(r) \/ Stops(r) \/ Ends(r)
                       \/ QueueEnds(r) \/ DeviceLost(r)
    \/ CoolsOff \/ Handler

\* Goroutines run on.  Buffered tracks need not be played out (playback may be
\* paused), nor need the queue end.
LifeFairness ==
    /\ \A r \in Runs :
        /\ WF_lifeVars(Enters(r)) /\ WF_lifeVars(Begins(r)) /\ WF_lifeVars(Stops(r))
        /\ WF_lifeVars(RunTail(r)) /\ WF_lifeVars(TearDown(r))
    /\ WF_lifeVars(HandlerFlags) /\ WF_lifeVars(HandlerSends)

LifeSpec == LifeInit /\ [][LifeNext]_lifeVars /\ LifeFairness

-----------------------------------------------------------------------------
(* Properties *)

\* Types; and running says whether a goroutine is inside Run.
LifeTypeOK ==
    /\ {running, stopWanted, stopCh, queueExhausted, deviceUnavailable, cooldown,
        ranOut, issued, unheard} \subseteq BOOLEAN
    /\ pc \in [Runs -> InRun \cup Outside]
    /\ handler \in {"idle", "flag", "send"}
    /\ sent \in 0 .. MaxMessages
    /\ running = (\E r \in Runs : pc[r] \in InRun)

\* Whoever calls Run and Restart, and however they meet a session that is just
\* ending: one goroutine at most drives the speaker.
OneSession ==
    \A r, s \in Runs : pc[r] \in InRun /\ pc[s] \in InRun => r = s

\* A session is ended by the Stops made during it: neither the flag nor the
\* token an earlier session left behind reaches its loop.
NoStaleStop ==
    \A r \in Runs :
        pc[r] \in {"loop", "last"} /\ (stopWanted \/ stopCh) => issued

\* A session that plays is not marked exhausted, whatever the one before it
\* wrote on its way out.
PlayingIsNotExhausted ==
    \A r \in Runs : pc[r] \in {"loop", "last"} => ~queueExhausted

\* Stop makes a running player stop.  Not one that is just starting: its
\* preamble erases the flag and the token (README, section 5).
StopIsHeard == unheard ~> ~unheard

\* A session marked as exhausted saw the end of the queue.  The one exception
\* is a Stop made during the session, whose flag the starting Run cleared and
\* whose token it did not: never a device loss, never an earlier Stop.
ExhaustedHasCause ==
    [][queueExhausted' /\ ~queueExhausted => ranOut \/ issued]_lifeVars
=============================================================================
