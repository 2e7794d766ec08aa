----------------------------- MODULE AlsaSpeaker -----------------------------
(***************************************************************************)
(* The audio device under the player, on Linux (speaker_linux.go and the   *)
(* parts of player.go that use it).  Three goroutines share it: Run, which *)
(* opens the device, reopens it at the sample rate of a track and suspends *)
(* or resumes it at the start of a session; Pause, called by the message   *)
(* handler; and writeLoop, which carries samples to the PCM.  The flags    *)
(* they share are atomics, ctrl.Paused is under the mixer's lock, and      *)
(* _lspk.pcm is under none.  An action is one critical section, one call   *)
(* of ALSA or a run of stores that only Run makes.  ALSA is external: an   *)
(* open may fail, or find the device busy, and gives the nearest rate that *)
(* the hardware has; a pause may be refused.                               *)
(***************************************************************************)
EXTENDS Integers, FiniteSets

CONSTANTS
    Rates,       \* sample rates of the tracks
    DeviceRates, \* sample rates determineSpeakerSR may find
    HwRates,     \* sample rates the hardware has
    Handles,     \* PCM handles
    MaxSessions, \* bound: sessions (calls of Run)
    MaxFiles,    \* bound: files of first tracks
    MaxPauses,   \* bound: calls of Pause
    MaxReinits   \* bound: calls of ScheduleAudioReinit

None == 0
Unknown == 0 \* the sample rate of a track the API told none for
MaxFails == 3 \* failures that count: more make no difference

ASSUME ConstantsOK ==
    /\ Rates \subseteq Nat \ {Unknown} /\ DeviceRates \subseteq Rates
    /\ HwRates \subseteq Nat \ {Unknown}
    /\ Handles \subseteq Nat \ {None} /\ Cardinality(Handles) >= 2
    /\ {MaxSessions, MaxFiles, MaxPauses, MaxReinits} \subseteq Nat

VARIABLES
    adaptive,      \* p.adaptiveSampleRate
    \* _lspk
    pcm, sr,       \* the current handle, the rate asked for when it was opened
    opened,        \* handles that are open
    at,            \* the rate ALSA opened each of them at
    hw,            \* handles whose hardware is paused
    writer,        \* writeLoop: where it is
    stopping,      \* stopCh is closed, doneCh awaited
    \* the flags
    speakerInitDone, speakerInitialized, speakerReinitPending,
    speakerSuspended, speakerSuspendDisabled, speakerSuspendFails,
    speakerInitSR, speakerSR, speakerAdaptFailed,
    \* the mixer
    ctrl,          \* p.ctrl: the session it belongs to
    paused,        \* its Paused
    played,        \* ctrl is in the mixer
    \* the goroutines
    run,           \* Run: where it is, and its locals
    pausedWant,
    handler,       \* Pause: where it is, and its locals
    \* counters for the bounds, and history
    sessions, files, pauses, reinits,
    overlap,       \* a Pause ran beside a start of a session or a reopening
    refused        \* the last resume was refused

lspk == <<pcm, sr, opened, at, hw, writer, stopping>>
flags == <<speakerInitialized, speakerSuspended, speakerSuspendDisabled,
           speakerSuspendFails>>
rates == <<speakerInitDone, speakerInitSR, speakerSR, speakerAdaptFailed>>
mixer == <<ctrl, paused, played>>
pause == <<handler, pausedWant>>
bounds == <<sessions, files, pauses, reinits>>
vars == <<adaptive, lspk, flags, rates, mixer, pause, run, bounds, overlap, refused,
          speakerReinitPending>>

Nowhere == [pc |-> "idle", wasInit |-> FALSE, defer |-> FALSE, caller |-> "none",
            want |-> Unknown, oldSR |-> Unknown, new |-> None, dev |-> None,
            loopSR |-> Unknown, mp3 |-> FALSE]
Silent == [pc |-> "idle", paused |-> FALSE, ctrl |-> None, ready |-> FALSE,
           dev |-> None]

Init ==
    /\ adaptive \in BOOLEAN
    /\ pcm = None /\ sr = Unknown /\ opened = {} /\ hw = {}
    /\ at = [h \in Handles |-> Unknown]
    /\ writer = "none" /\ stopping = FALSE
    /\ speakerInitDone = FALSE /\ speakerInitialized = FALSE
    /\ speakerReinitPending = FALSE /\ speakerSuspended = FALSE
    /\ speakerSuspendDisabled = FALSE /\ speakerSuspendFails = 0
    /\ speakerInitSR = Unknown /\ speakerSR = Unknown
    /\ speakerAdaptFailed = FALSE
    /\ ctrl = None /\ paused = FALSE /\ played = FALSE
    /\ run = Nowhere /\ handler = Silent /\ pausedWant = TRUE
    /\ sessions = 0 /\ files = 0 /\ pauses = 0 /\ reinits = 0
    /\ overlap = FALSE /\ refused = FALSE

Goes(pc) == run' = [run EXCEPT !.pc = pc]

-----------------------------------------------------------------------------
(* linuxSpeaker.open, called by Run for run.caller at the rate run.want *)

Opens(caller, rate) ==
    run' = [run EXCEPT !.pc = "open", !.caller = caller, !.want = rate]

\* snd_pcm_hw_params_set_rate_near: a rate of the hardware nearest to the given one.
Distance(a, b) == IF a < b THEN b - a ELSE a - b
Nearest(rate) ==
    {r \in HwRates : \A q \in HwRates : Distance(r, rate) <= Distance(q, rate)}

\* alsa_open gives a handle that is not open yet, one that was closed if any.  It is
\* told the rate by value, so that its caller does not learn what ALSA made of it.
AlsaOpens(h, rate) ==
    /\ h \in Handles \ opened /\ \A k \in Handles \ opened : h <= k
    /\ opened' = opened \cup {h} /\ hw' = hw \ {h}
    /\ \E r \in Nearest(rate) : at' = [at EXCEPT ![h] = r]

StartsWriting == stopping' = FALSE /\ writer' = "check"

NotFlags == <<adaptive, flags, rates, mixer, pause, bounds, refused,
              speakerReinitPending>>

OpenFirst ==
    /\ run.pc = "open"
    /\ \/ \E h \in Handles :
            /\ AlsaOpens(h, run.want)
            /\ run' = [run EXCEPT !.pc = "stop", !.new = h]
       \/ \* EBUSY, for hardware with one handle only: the old one has to go first
            /\ pcm # None /\ UNCHANGED <<opened, at, hw>>
            /\ run' = [run EXCEPT !.pc = "stop", !.oldSR = sr]
       \/ Goes("failed") /\ UNCHANGED <<opened, at, hw>>
    /\ UNCHANGED <<pcm, sr, writer, stopping, NotFlags>>

\* closeCurrent: close(stopCh) and <-doneCh, then the handle is closed.
CloseStops ==
    /\ run.pc = "stop" /\ Goes("close")
    /\ stopping' = (writer # "none")
    /\ UNCHANGED <<pcm, sr, opened, at, hw, writer, NotFlags>>

\* A bug: the new device takes over with the old one still open.
CloseCurrentForgets ==
    /\ run.pc = "close"
    /\ stopping => writer = "exited"
    /\ stopping' = FALSE /\ writer' = "none"
    /\ pcm' = None
    /\ Goes(IF run.new = None THEN "retry" ELSE "install")
    /\ UNCHANGED <<sr, opened, at, hw, NotFlags>>

CloseCurrent ==
    /\ run.pc = "close"
    /\ stopping => writer = "exited"
    /\ stopping' = FALSE /\ writer' = "none"
    /\ pcm' = None /\ opened' = opened \ {pcm} /\ hw' = hw \ {pcm}
    /\ Goes(IF run.new = None THEN "retry" ELSE "install")
    /\ UNCHANGED <<sr, at, NotFlags>>

OpenRetries ==
    /\ run.pc = "retry"
    /\ \/ \E h \in Handles :
            /\ AlsaOpens(h, run.want)
            /\ run' = [run EXCEPT !.pc = "install", !.new = h]
       \/ Goes("restore") /\ UNCHANGED <<opened, at, hw>>
    /\ UNCHANGED <<pcm, sr, writer, stopping, NotFlags>>

\* The old device is opened again, or there is none any more.
OpenRestores ==
    /\ run.pc = "restore" /\ Goes("failed")
    /\ \/ \E h \in Handles :
            AlsaOpens(h, run.oldSR) /\ pcm' = h /\ sr' = run.oldSR /\ StartsWriting
       \/ UNCHANGED lspk
    /\ UNCHANGED NotFlags

OpenInstalls ==
    /\ run.pc = "install" /\ Goes("opened")
    /\ pcm' = run.new /\ sr' = run.want /\ StartsWriting
    /\ UNCHANGED <<opened, at, hw, NotFlags>>

Open ==
    \/ OpenFirst \/ CloseStops \/ CloseCurrent \/ OpenRetries \/ OpenRestores
    \/ OpenInstalls

-----------------------------------------------------------------------------
(* Run, up to its loop *)

Returns == run' = Nowhere

RunBegins ==
    /\ run.pc = "idle" /\ sessions < MaxSessions /\ sessions' = sessions + 1
    /\ speakerAdaptFailed' = FALSE
    /\ speakerSuspendFails' = 0
    /\ Goes("reinit")
    /\ UNCHANGED <<adaptive, lspk, speakerInitialized, speakerSuspended,
                   speakerSuspendDisabled, speakerInitDone, speakerInitSR,
                   speakerSR, mixer, pause, files, pauses, reinits, refused,
                   speakerReinitPending>>

\* The section under speakerMu, up to the call of speakerInit it may make.
RunReinits ==
    /\ run.pc = "reinit"
    /\ speakerReinitPending' = FALSE
    /\ speakerInitDone' = (speakerInitDone /\ ~speakerReinitPending)
    /\ speakerInitialized' = (speakerInitialized /\ ~speakerReinitPending)
    /\ speakerSuspended' = (speakerSuspended /\ ~speakerReinitPending)
    /\ speakerSuspendDisabled' = (speakerSuspendDisabled /\ ~speakerReinitPending)
    /\ LET next == [run EXCEPT !.wasInit = speakerInitDone',
                               !.defer = adaptive /\ ~speakerInitDone']
       IN IF speakerInitDone' \/ adaptive
          THEN /\ run' = [next EXCEPT !.pc = "ready"]
               /\ UNCHANGED speakerInitSR
          ELSE \E rate \in DeviceRates :
               /\ run' = [next EXCEPT !.pc = "open", !.caller = "init",
                                      !.want = rate]
               /\ speakerInitSR' = rate
    /\ UNCHANGED <<adaptive, lspk, speakerSuspendFails, speakerSR,
                   speakerAdaptFailed, mixer, pause, bounds, refused>>

RunInitFails ==
    /\ run.pc = "failed" /\ run.caller = "init"
    /\ Returns
    /\ UNCHANGED <<adaptive, lspk, flags, rates, mixer, pause, bounds, refused,
                   speakerReinitPending>>

RunInitialized ==
    /\ run.pc = "opened" /\ run.caller = "init"
    /\ speakerInitDone' = TRUE
    /\ run' = [run EXCEPT !.pc = "ready", !.new = None]
    /\ UNCHANGED <<adaptive, lspk, flags, speakerInitSR, speakerSR,
                   speakerAdaptFailed, mixer, pause, bounds, refused,
                   speakerReinitPending>>

RunReady ==
    /\ run.pc = "ready"
    /\ IF run.defer
       THEN UNCHANGED <<speakerSR, speakerInitialized>>
       ELSE speakerSR' = speakerInitSR /\ speakerInitialized' = TRUE
    /\ run' = [run EXCEPT !.pc = "ctrl", !.loopSR = speakerSR']
    /\ UNCHANGED <<adaptive, lspk, speakerSuspended, speakerSuspendDisabled,
                   speakerSuspendFails, speakerInitDone, speakerInitSR,
                   speakerAdaptFailed, mixer, pause, bounds, refused,
                   speakerReinitPending>>

RunSetsCtrl ==
    /\ run.pc = "ctrl" /\ Goes(IF run.defer THEN "loop" ELSE "play")
    /\ ctrl' = sessions /\ paused' = FALSE /\ played' = FALSE
    /\ UNCHANGED <<adaptive, lspk, flags, rates, pause, bounds, refused,
                   speakerReinitPending>>

\* ctrl.Paused = pausedWant.Load() under the mixer's lock, and speakerPlay.
PlaysCtrl ==
    /\ paused' = pausedWant /\ played' = TRUE
    /\ UNCHANGED <<ctrl>>

RunPlays ==
    /\ run.pc = "play" /\ run' = [run EXCEPT !.pc = IF run.wasInit THEN "look" ELSE "loop",
                          !.wasInit = FALSE]
    /\ PlaysCtrl
    /\ UNCHANGED <<adaptive, lspk, flags, rates, pause, bounds, refused,
                   speakerReinitPending>>

-----------------------------------------------------------------------------
(* speakerSuspend and speakerResume on the handle that was current *)

\* What is done with a handle that has been closed meanwhile is up to ALSA:
\* here, it is an error or has no effect.  Without a handle nothing is done.
Suspends(dev) ==
    \/ dev = None /\ UNCHANGED hw
    \/ dev \in opened /\ dev \notin hw /\ hw' = hw \cup {dev}
    \/ dev # None /\ dev \notin opened /\ UNCHANGED hw
SuspendFails(dev) == dev # None
Resumes(dev) ==
    \/ dev = None /\ UNCHANGED hw
    \/ dev \in hw /\ hw' = hw \ {dev}
    \/ dev # None /\ dev \notin opened /\ UNCHANGED hw
ResumeFails(dev) == dev # None

Suspended == speakerSuspended' = TRUE /\ speakerSuspendFails' = 0
             /\ UNCHANGED speakerSuspendDisabled

\* recordSuspendFailure
RecordsFailure ==
    /\ speakerSuspendFails' =
        IF speakerSuspendFails < MaxFails THEN speakerSuspendFails + 1 ELSE MaxFails
    /\ speakerSuspendDisabled' =
        (speakerSuspendDisabled \/ speakerSuspendFails' = MaxFails)
    /\ UNCHANGED speakerSuspended

NotSuspend == <<adaptive, pcm, sr, opened, at, writer, stopping, rates, ctrl, played,
                bounds, speakerInitialized, speakerReinitPending>>

\* A bug: a session that is to play does not resume the device.
RunLooksToSuspend ==
    /\ run.pc = "look"
    /\ run' = [run EXCEPT
        !.dev = pcm,
        !.pc = IF paused /\ ~speakerSuspended /\ ~speakerSuspendDisabled
               THEN "suspend" ELSE "loop"]
    /\ UNCHANGED <<NotSuspend, flags, hw, paused, pause, refused>>

\* The start of a session on a device that is there: ctrl.Paused is read
\* without the lock, and acted upon later.
RunLooks ==
    /\ run.pc = "look"
    /\ run' = [run EXCEPT
        !.dev = pcm,
        !.pc = IF paused /\ ~speakerSuspended /\ ~speakerSuspendDisabled
               THEN "suspend"
               ELSE IF ~paused /\ speakerSuspended THEN "resume" ELSE "loop"]
    /\ UNCHANGED <<NotSuspend, flags, hw, paused, pause, refused>>

RunSuspends ==
    /\ run.pc = "suspend" /\ Goes("suspended") /\ Suspends(run.dev)
    /\ UNCHANGED <<NotSuspend, flags, paused, pause, refused>>
RunRecordsSuspended ==
    /\ run.pc = "suspended" /\ Goes("loop") /\ Suspended
    /\ UNCHANGED <<NotSuspend, hw, paused, pause, refused>>
RunSuspendFails ==
    /\ run.pc = "suspend" /\ Goes("loop")
    /\ SuspendFails(run.dev) /\ RecordsFailure
    /\ UNCHANGED <<NotSuspend, hw, paused, pause, refused>>
RunResumes ==
    /\ run.pc = "resume" /\ Goes("resumed") /\ Resumes(run.dev)
    /\ refused' = FALSE
    /\ UNCHANGED <<NotSuspend, flags, paused, pause>>
RunRecordsResumed ==
    /\ run.pc = "resumed" /\ Goes("loop") /\ speakerSuspended' = FALSE
    /\ UNCHANGED <<NotSuspend, speakerSuspendDisabled, speakerSuspendFails, hw,
                   paused, pause, refused>>
RunResumeFails ==
    /\ run.pc = "resume" /\ Goes("loop")
    /\ ResumeFails(run.dev) /\ refused' = TRUE
    /\ UNCHANGED <<NotSuspend, flags, hw, paused, pause>>

RunStarts ==
    \/ RunBegins \/ RunReinits \/ RunInitFails \/ RunInitialized \/ RunReady
    \/ RunSetsCtrl \/ RunPlays \/ RunLooks \/ RunSuspends
    \/ RunRecordsSuspended \/ RunSuspendFails \/ RunResumes
    \/ RunRecordsResumed \/ RunResumeFails

-----------------------------------------------------------------------------
(* runLoop: the first track of a session, or one that the boundary of two   *)
(* rates has made a first one; a track behind one of its own rate does not   *)
(* touch the device.  The rates are capped by configSpeakerSR already.       *)

NotRun == <<adaptive, pause, refused, sessions, pauses, reinits, speakerReinitPending>>

RunTakes(rate) ==
    /\ run.pc = "loop" /\ files < MaxFiles /\ files' = files + 1
    /\ run' = [run EXCEPT
        !.want = rate, !.mp3 = FALSE,
        !.caller = IF run.defer THEN "defer" ELSE "adapt",
        !.pc = IF ~adaptive \/ rate = Unknown THEN "load"
               ELSE IF run.defer THEN "open"
               ELSE IF speakerAdaptFailed THEN "load" ELSE "adapt"]
    /\ UNCHANGED <<NotRun, lspk, flags, rates, mixer>>

\* adaptSpeakerForTrack: nothing to do, or the mixer is cleared first.
Adapts ==
    /\ run.pc = "adapt"
    /\ IF run.want = speakerSR
       THEN /\ run' = [run EXCEPT !.pc = "check", !.loopSR = run.want]
            /\ UNCHANGED played
       ELSE Goes("open") /\ played' = FALSE
    /\ UNCHANGED <<NotRun, files, lspk, flags, rates, ctrl, paused>>

\* A bug: the rate asked for is used although the device has kept its own.
AdaptFailsAtWant ==
    /\ run.pc = "failed" /\ run.caller = "adapt"
    /\ speakerAdaptFailed' = TRUE /\ played' = TRUE
    /\ run' = [run EXCEPT !.pc = "check", !.loopSR = run.want]
    /\ UNCHANGED <<NotRun, files, lspk, flags, speakerInitDone, speakerInitSR,
                   speakerSR, ctrl, paused>>

AdaptFails ==
    /\ run.pc = "failed" /\ run.caller = "adapt"
    /\ speakerAdaptFailed' = TRUE /\ played' = TRUE
    /\ run' = [run EXCEPT !.pc = "check", !.loopSR = speakerSR]
    /\ UNCHANGED <<NotRun, files, lspk, flags, speakerInitDone, speakerInitSR,
                   speakerSR, ctrl, paused>>

DeferFails ==
    /\ run.pc = "failed" /\ run.caller = "defer" /\ Goes("ends")
    /\ UNCHANGED <<NotRun, files, lspk, flags, rates, mixer>>

\* Only the deferred speakerInit is one that says the speaker is initialized.
LoopOpened ==
    /\ run.pc = "opened" /\ run.caller \in {"adapt", "defer"}
    /\ run' = [run EXCEPT !.pc = "unsuspend", !.new = None]
    /\ speakerInitSR' = run.want
    /\ speakerInitDone' = (speakerInitDone \/ run.caller = "defer")
    /\ speakerInitialized' = (speakerInitialized \/ run.caller = "defer")
    /\ UNCHANGED <<NotRun, files, lspk, mixer, speakerSR, speakerAdaptFailed,
                   speakerSuspended, speakerSuspendDisabled, speakerSuspendFails>>

LoopUnsuspends ==
    /\ run.pc = "unsuspend" /\ Goes("replay")
    /\ speakerSuspended' = FALSE /\ speakerSR' = run.want
    /\ UNCHANGED <<NotRun, files, lspk, mixer, speakerInitDone, speakerInitSR,
                   speakerAdaptFailed, speakerInitialized,
                   speakerSuspendDisabled, speakerSuspendFails>>

LoopPlays ==
    /\ run.pc = "replay" /\ PlaysCtrl
    /\ run' = [run EXCEPT !.pc = IF run.caller = "defer" THEN "load" ELSE "check",
                          !.defer = run.defer /\ run.caller # "defer",
                          !.loopSR = run.want]
    /\ UNCHANGED <<NotRun, files, lspk, flags, rates>>

\* A bug: whether there still is a device is not looked at.
LoopChecksNot ==
    /\ run.pc = "check" /\ Goes("load")
    /\ UNCHANGED <<NotRun, files, lspk, flags, rates, mixer>>

\* speakerDeviceAvailable; without one, reportDeviceUnavailable ends the session.
LoopChecks ==
    /\ run.pc = "check"
    /\ Goes(IF pcm = None THEN "ends" ELSE "load")
    /\ UNCHANGED <<NotRun, files, lspk, flags, rates, mixer>>

\* The file does not load, and as an MP3 it has another rate.
LoadsMP3(rate) ==
    /\ run.pc = "load" /\ ~run.mp3 /\ files < MaxFiles /\ files' = files + 1
    /\ adaptive /\ ~speakerAdaptFailed /\ rate # Unknown /\ rate # run.loopSR
    /\ run' = [run EXCEPT !.pc = "adapt", !.caller = "adapt", !.want = rate,
                          !.mp3 = TRUE]
    /\ UNCHANGED <<NotRun, lspk, flags, rates, mixer>>

\* The track is loaded, resampled to loopSR, or given up.
Loads ==
    /\ run.pc = "load"
    /\ run' = [Nowhere EXCEPT !.pc = "loop", !.defer = run.defer,
                              !.loopSR = run.loopSR]
    /\ UNCHANGED <<NotRun, files, lspk, flags, rates, mixer>>

\* A stop or the end of the queue; then speakerClear.
RunClears ==
    /\ run.pc \in {"loop", "load"} /\ Goes("ends")
    /\ UNCHANGED <<NotRun, files, lspk, flags, rates, mixer>>
RunEnds ==
    /\ run.pc = "ends" /\ Returns
    /\ ctrl' = None /\ paused' = FALSE /\ played' = FALSE
    /\ UNCHANGED <<NotRun, files, lspk, flags, rates>>

RunLoop ==
    \/ \E rate \in Rates \cup {Unknown} : RunTakes(rate) \/ LoadsMP3(rate)
    \/ Adapts \/ AdaptFails \/ DeferFails \/ LoopOpened \/ LoopUnsuspends
    \/ LoopPlays \/ LoopChecks \/ Loads \/ RunClears \/ RunEnds

\* An HDMI hotplug; the session that Restart begins is one of those of Run.
ScheduleAudioReinit ==
    /\ reinits < MaxReinits /\ reinits' = reinits + 1
    /\ speakerReinitPending' = TRUE
    /\ UNCHANGED <<adaptive, lspk, flags, rates, mixer, pause, run, sessions, files,
                   pauses, refused>>

-----------------------------------------------------------------------------
(* Pause *)

NotPause == <<adaptive, pcm, sr, opened, at, writer, stopping, rates, ctrl, played,
              run, sessions, files, reinits, speakerInitialized,
              speakerReinitPending>>
PauseGoes(from, to) ==
    /\ handler.pc = from
    /\ handler' = IF to = "idle" THEN Silent ELSE [handler EXCEPT !.pc = to]

\* A bug: the ctrl that plays is paused, and the one to come is not.
PauseCtrlOnly(b) ==
    /\ handler.pc = "idle" /\ pauses < MaxPauses /\ pauses' = pauses + 1
    /\ handler' = [Silent EXCEPT !.pc = "ctrl", !.paused = b]
    /\ pausedWant' = IF ctrl = None THEN pausedWant ELSE b
    /\ UNCHANGED <<NotPause, flags, hw, paused, refused>>

Pause(b) ==
    /\ handler.pc = "idle" /\ pauses < MaxPauses /\ pauses' = pauses + 1
    /\ pausedWant' = b
    /\ handler' = [Silent EXCEPT !.pc = "ctrl", !.paused = b]
    /\ UNCHANGED <<NotPause, flags, hw, paused, refused>>

PauseReadsCtrl ==
    /\ handler.pc = "ctrl"
    /\ handler' = IF ctrl = None THEN Silent
                  ELSE [handler EXCEPT !.pc = "ready", !.ctrl = ctrl]
    /\ UNCHANGED <<NotPause, flags, hw, paused, pausedWant, pauses, refused>>

PauseReadsReady ==
    /\ handler.pc = "ready"
    /\ handler' = [handler EXCEPT !.pc = IF handler.paused THEN "set" ELSE "look",
                                  !.ready = speakerInitialized]
    /\ UNCHANGED <<NotPause, flags, hw, paused, pausedWant, pauses, refused>>

PauseLooks ==
    /\ handler.pc = "look"
    /\ handler' = [handler EXCEPT
            !.dev = pcm,
            !.pc = IF speakerSuspended /\ handler.ready THEN "resume" ELSE "set"]
    /\ UNCHANGED <<NotPause, flags, hw, paused, pausedWant, pauses, refused>>

PauseResumes ==
    /\ PauseGoes("resume", "resumed") /\ Resumes(handler.dev)
    /\ refused' = FALSE
    /\ UNCHANGED <<NotPause, flags, paused, pausedWant, pauses>>
PauseRecordsResumed ==
    /\ PauseGoes("resumed", "set") /\ speakerSuspended' = FALSE
    /\ UNCHANGED <<NotPause, speakerSuspendDisabled, speakerSuspendFails, hw,
                   paused, pausedWant, pauses, refused>>
PauseResumeFails ==
    /\ PauseGoes("resume", "set") /\ ResumeFails(handler.dev)
    /\ refused' = TRUE
    /\ UNCHANGED <<NotPause, flags, hw, paused, pausedWant, pauses>>
\* The ctrl of a session that is over is changed in vain.
PauseSets ==
    /\ PauseGoes("set", IF handler.paused THEN "test" ELSE "idle")
    /\ speakerSuspendFails' = IF handler.paused THEN speakerSuspendFails ELSE 0
    /\ paused' = IF handler.ctrl = ctrl THEN handler.paused ELSE paused
    /\ UNCHANGED <<NotPause, speakerSuspended, speakerSuspendDisabled, hw,
                   pausedWant, pauses, refused>>

PauseTests ==
    /\ handler.pc = "test"
    /\ handler' = IF /\ handler.ready /\ ~speakerSuspended
                      /\ ~speakerSuspendDisabled
                   THEN [handler EXCEPT !.dev = pcm, !.pc = "suspend"]
                   ELSE Silent
    /\ UNCHANGED <<NotPause, flags, hw, paused, pausedWant, pauses, refused>>

PauseSuspends ==
    /\ PauseGoes("suspend", "suspended") /\ Suspends(handler.dev)
    /\ UNCHANGED <<NotPause, flags, paused, pausedWant, pauses, refused>>
PauseRecordsSuspended ==
    /\ PauseGoes("suspended", "idle") /\ Suspended
    /\ UNCHANGED <<NotPause, hw, paused, pausedWant, pauses, refused>>
PauseSuspendFails ==
    /\ PauseGoes("suspend", "idle")
    /\ SuspendFails(handler.dev) /\ RecordsFailure
    /\ UNCHANGED <<NotPause, hw, paused, pausedWant, pauses, refused>>

Pausing ==
    \/ \E b \in BOOLEAN : Pause(b)
    \/ PauseReadsCtrl \/ PauseReadsReady \/ PauseLooks \/ PauseResumes
    \/ PauseRecordsResumed \/ PauseResumeFails  \/ PauseSets
    \/ PauseTests \/ PauseSuspends \/ PauseRecordsSuspended \/ PauseSuspendFails

-----------------------------------------------------------------------------
(* writeLoop *)

NotWriter == <<adaptive, pcm, sr, opened, at, hw, stopping, flags, rates, mixer, pause,
               run, bounds, refused, speakerReinitPending>>

\* stopCh is looked at before each period, and again before each attempt to write it.
\* A bug: writeLoop returns without closing doneCh.
WriterChecksUnsaid ==
    /\ writer = "check" /\ writer' = IF stopping THEN "none" ELSE "write"
    /\ UNCHANGED NotWriter
WriterChecks ==
    /\ writer = "check" /\ writer' = IF stopping THEN "exited" ELSE "write"
    /\ UNCHANGED NotWriter

\* A bug: the write blocks, until the device takes what it is given.
WriterWritesBlocking ==
    /\ writer = "write" /\ pcm \notin hw /\ writer' = "check"
    /\ UNCHANGED NotWriter

\* The samples are taken, given up after maxWriteStall, or there is no room for them
\* for 5 ms, as long as the hardware is paused or does not drain.  The write does not
\* block; nor does the mixer, which Run has cleared before it opens a device.
WriterWrites ==
    /\ writer = "write" /\ writer' = "check"
    /\ UNCHANGED NotWriter

Writer == WriterChecks \/ WriterWrites

-----------------------------------------------------------------------------
\* Where Run starts a session, or opens a device.
Opening == run.pc \in {"open", "stop", "close", "retry", "restore", "install",
                       "opened", "failed"}
Starting == Opening \/ run.pc \notin {"idle", "loop", "load", "adapt", "check", "ends"}

Next ==
    /\ Open \/ RunStarts \/ RunLoop \/ ScheduleAudioReinit \/ Pausing \/ Writer
    /\ overlap' = (overlap \/ (Starting /\ handler.pc # "idle")
                           \/ (Starting /\ handler.pc # "idle")')

\* The goroutines run on; what the device answers is up to it.
Fairness ==
    /\ WF_vars(Writer /\ UNCHANGED overlap)
    /\ WF_vars(Open /\ Next)

Spec == Init /\ [][Next]_vars /\ Fairness

-----------------------------------------------------------------------------
(* Properties *)

\* Whatever of the opens and reopenings fails, outside of open there is either
\* no device, or the one handle that is open, and a goroutine that writes to it.
DeviceAccounted ==
    ~Opening => /\ opened = {pcm} \ {None}
                /\ (pcm = None <=> writer = "none")
                /\ ~stopping

\* However Pause meets the start of a session or the change of a device, when it
\* has returned the ctrl in the mixer is paused as the last Pause wanted; unless
\* speakerInit is still deferred (for a track whose rate is unknown).
PauseApplied ==
    played /\ ~run.defer /\ handler.pc = "idle" => paused = pausedWant

\* Whoever wants music and has a device does not have a suspended one, unless the
\* device refused to resume or Pause ran beside the start of a session.
PlayIsHeard ==
    run.pc \in {"loop", "load"} /\ ~run.defer /\ handler.pc = "idle"
        /\ ~pausedWant /\ ~overlap /\ ~refused => hw = {}

\* Tracks are resampled to the rate that the device was asked for, so that it runs at
\* the rate of the hardware nearest to theirs: whichever device a failed change of the
\* rate has left.
RateTold ==
    played /\ run.pc = "load" /\ pcm # None => at[pcm] \in Nearest(run.loopSR)

\* alsa_open configures the PCM at the requested rate, its comment says, and tracks are
\* resampled to that.  Not so: hardware without this rate runs at another one.
RateIsExact ==
    played /\ run.pc = "load" /\ pcm # None => at[pcm] = run.loopSR

\* A first track whose rate is known is not played to no device.
PlaysOnDevice ==
    run.pc = "load" /\ adaptive /\ run.want # Unknown => pcm # None

\* Changing the device ends, also if the writer is at an old one that takes no more
\* samples, because it is paused or does not drain.
OpenEnds == Opening ~> run.pc \in {"opened", "failed"}
=============================================================================
