----------------------------- MODULE CecManager -----------------------------
(***************************************************************************)
(* The amplifier behind HDMI-CEC (cec.go).  The message handler reports    *)
(* playback and volume; each start of playback spawns a wakeAmp goroutine, *)
(* each stop arms a standby timer whose function runs in a goroutine of    *)
(* its own, and each volume message spawns an applyVolume.  They share the *)
(* fields under mu and lastQobuzVol under volMu.  One action is one        *)
(* critical section or one call on the bus.  The bus, the amplifier and    *)
(* the people around it are external: a call may fail, the amplifier may   *)
(* not answer, another source may take over.                               *)
(***************************************************************************)
EXTENDS Integers

CONSTANTS
    Timers,     \* standby timers
    Wakes,      \* goroutines in wakeAmp
    Appliers,   \* goroutines in applyVolume
    Volumes,    \* Qobuz volumes
    AmpVolumes, \* volumes the amplifier may tell
    MaxCalls,   \* bound: calls of OnPlayback that change something
    MaxVolumes, \* bound: calls of OnVolume
    MaxEvents   \* bound: times another device becomes the active source

NoTimer == -1

ASSUME CecConstantsOK ==
    /\ Volumes \subseteq Nat /\ AmpVolumes \subseteq Nat
    /\ MaxCalls \in Nat /\ MaxVolumes \in Nat /\ MaxEvents \in Nat
    /\ NoTimer \notin Timers

VARIABLES
    playing,      \* m.playing
    setAsSource,  \* m.setAsSource
    standbyTimer, \* m.standbyTimer
    volReset,     \* m.volReset
    known,        \* m.ourLogAddr >= 0
    lastQobuzVol, \* m.lastQobuzVol
    timer,        \* each timer, or the triggerStandby it started
    outlasts,     \* the wakeAmps each timer was armed during
    wake,         \* each wakeAmp, and the volume the amplifier told it
    applier,      \* each applyVolume, and its locals
    amp,          \* the amplifier is "on" or in "standby"
    elsewhere,    \* another device is the active source
    calls, volumes, events, \* counters for the bounds
    raced,        \* history: playback began while a triggerStandby ran
    owed          \* history: the reference volume and the key presses since

mu == <<playing, setAsSource, standbyTimer, volReset, known>>
bus == <<amp, elsewhere>>
standby == <<timer, outlasts, raced>>
volume == <<lastQobuzVol, applier, owed>>
cecBounds == <<calls, volumes, events>>
cecVars == <<playing, setAsSource, standbyTimer, volReset, known, lastQobuzVol,
          timer, outlasts, wake, applier, amp, elsewhere, calls, volumes,
          events, raced, owed>>

Idle == [pc |-> "free", new |-> 0, reset |-> FALSE, from |-> 0, steps |-> 0]

CecInit ==
    /\ playing = FALSE /\ setAsSource = FALSE /\ standbyTimer = NoTimer
    /\ volReset = FALSE /\ known = FALSE /\ lastQobuzVol = -1
    /\ timer = [t \in Timers |-> "free"] /\ outlasts = [t \in Timers |-> {}]
    /\ wake = [w \in Wakes |-> [pc |-> "free", vol |-> 0]]
    /\ applier = [a \in Appliers |-> Idle]
    /\ amp \in {"on", "standby"} /\ elsewhere \in BOOLEAN
    /\ calls = 0 /\ volumes = 0 /\ events = 0
    /\ raced = FALSE /\ owed = -1

-----------------------------------------------------------------------------
(* OnPlayback; the calls that change nothing return at once *)

Running(t) == timer[t] \in {"fired", "listing", "sending"}

\* A bug: the timer is forgotten, and goes on running.
StopsTimerForgets == UNCHANGED timer

\* standbyTimer.Stop(): a timer that has fired is not stopped by it.
StopsTimer ==
    timer' = [t \in Timers |-> IF t = standbyTimer /\ timer[t] = "armed"
                               THEN "free" ELSE timer[t]]

OnPlaybackStarts ==
    /\ calls < MaxCalls /\ calls' = calls + 1
    /\ ~playing /\ playing' = TRUE
    /\ StopsTimer /\ standbyTimer' = NoTimer
    /\ volReset' = TRUE
    /\ \E w \in Wakes : wake[w].pc = "free"
                        /\ wake' = [wake EXCEPT ![w].pc = "query"]
    /\ raced' = (raced \/ \E t \in Timers : Running(t))
    /\ UNCHANGED <<setAsSource, known, outlasts, volume, bus, volumes, events>>

OnPlaybackStops ==
    /\ calls < MaxCalls /\ calls' = calls + 1
    /\ playing /\ playing' = FALSE
    /\ \E t \in Timers :
        /\ timer[t] = "free" /\ timer' = [timer EXCEPT ![t] = "armed"]
        /\ outlasts' = [outlasts EXCEPT ![t] =
                        {w \in Wakes : wake[w].pc # "free"}]
        /\ standbyTimer' = t
    /\ UNCHANGED <<setAsSource, volReset, known, wake, volume, bus, volumes,
                   events, raced>>

-----------------------------------------------------------------------------
(* triggerStandby, in the goroutine of a timer *)

\* The delay is minutes and the sleeps of wakeAmp add up to half a minute: a
\* timer outlasts the wakeAmps that were under way when it was armed.
TimerFires(t) ==
    /\ timer[t] = "armed" /\ outlasts[t] = {}
    /\ timer' = [timer EXCEPT ![t] = "fired"]
    /\ UNCHANGED <<mu, outlasts, raced, wake, volume, bus, cecBounds>>

\* The section under mu: it clears standbyTimer, whichever timer that is.
Triggers(t) ==
    /\ timer[t] = "fired"
    /\ timer' = [timer EXCEPT ![t] = IF setAsSource THEN "listing" ELSE "free"]
    /\ setAsSource' = FALSE /\ standbyTimer' = NoTimer
    /\ UNCHANGED <<playing, volReset, known, outlasts, raced, wake, volume, bus,
                   cecBounds>>

Lists(t) ==
    /\ timer[t] = "listing"
    /\ timer' = [timer EXCEPT ![t] = IF elsewhere THEN "free" ELSE "sending"]
    /\ UNCHANGED <<mu, outlasts, raced, wake, volume, bus, cecBounds>>

\* An error of Standby is a warning only: the amplifier goes to standby.
SendsStandby(t) ==
    /\ timer[t] = "sending"
    /\ timer' = [timer EXCEPT ![t] = "free"]
    /\ amp' = "standby"
    /\ UNCHANGED <<mu, outlasts, raced, wake, volume, elsewhere, cecBounds>>

-----------------------------------------------------------------------------
(* wakeAmp *)

WakeGoes(w, from, to) ==
    wake[w].pc = from /\ wake' = [wake EXCEPT ![w].pc = to]

WakeEnds(w, from) ==
    /\ wake[w].pc = from
    /\ wake' = [wake EXCEPT ![w] = [pc |-> "free", vol |-> 0]]
    /\ outlasts' = [t \in Timers |-> outlasts[t] \ {w}]

\* The power status: some adapters answer nothing for one that is on, too.
WakeQueries(w) ==
    /\ \/ amp = "on" /\ WakeGoes(w, "query", "find")
       \/ WakeGoes(w, "query", "press")
    /\ UNCHANGED <<mu, standby, volume, bus, cecBounds>>

\* The power-on key, from our address if it is found by then.  The amplifier
\* wakes up within the polls or does not; the player is told in either case.
WakePresses(w) ==
    /\ WakeGoes(w, "press", "find")
    /\ known' \in {known, TRUE}
    /\ amp' \in {amp, "on"}
    /\ UNCHANGED <<playing, setAsSource, standbyTimer, volReset, standby, volume,
                   elsewhere, cecBounds>>

\* findOurDevice, again and again, then the broadcasts: we are the source.
WakeFinds(w) ==
    /\ known' \in {known, TRUE}
    /\ WakeGoes(w, "find", IF known' THEN "announced" ELSE "own")
    /\ elsewhere' = (elsewhere /\ ~known')
    /\ UNCHANGED <<playing, setAsSource, standbyTimer, volReset, standby, volume,
                   amp, cecBounds>>

WakeAnnounced(w) ==
    /\ WakeGoes(w, "announced", "own")
    /\ setAsSource' = TRUE
    /\ UNCHANGED <<playing, standbyTimer, volReset, known, standby, volume, bus,
                   cecBounds>>

\* A bug: the session is ours only if we could announce it.
WakeOwnsAnnounced(w) ==
    /\ WakeGoes(w, "own", "ask")
    /\ UNCHANGED <<mu, standby, volume, bus, cecBounds>>

\* The session is ours even if nothing could be announced.
WakeOwns(w) ==
    /\ WakeGoes(w, "own", "ask")
    /\ setAsSource' = TRUE
    /\ UNCHANGED <<playing, standbyTimer, volReset, known, standby, volume, bus,
                   cecBounds>>

\* The amplifier tells its volume; or we have no address, or it keeps silent.
WakeAsks(w) ==
    /\ known /\ amp = "on" /\ wake[w].pc = "ask"
    /\ \E v \in AmpVolumes : wake' = [wake EXCEPT ![w] = [pc |-> "seed", vol |-> v]]
    /\ UNCHANGED <<mu, standby, volume, bus, cecBounds>>
WakeHearsNothing(w) ==
    /\ WakeEnds(w, "ask")
    /\ UNCHANGED <<mu, timer, raced, volume, bus, cecBounds>>

volMuFree == \A a \in Appliers : applier[a].pc # "press"

\* A bug: the seed is written without volMu.
WakeSeedsUnlocked(w) ==
    /\ lastQobuzVol' = wake[w].vol /\ owed' = wake[w].vol
    /\ WakeEnds(w, "seed")
    /\ UNCHANGED <<mu, timer, raced, applier, bus, cecBounds>>

WakeSeeds(w) ==
    /\ volMuFree
    /\ lastQobuzVol' = wake[w].vol /\ owed' = wake[w].vol
    /\ WakeEnds(w, "seed")
    /\ UNCHANGED <<mu, timer, raced, applier, bus, cecBounds>>

Wake(w) ==
    \/ WakeQueries(w) \/ WakePresses(w) \/ WakeFinds(w) \/ WakeAnnounced(w)
    \/ WakeOwns(w) \/ WakeAsks(w) \/ WakeHearsNothing(w) \/ WakeSeeds(w)

-----------------------------------------------------------------------------
(* OnVolume and applyVolume *)

OnVolume(v) ==
    /\ volumes < MaxVolumes /\ volumes' = volumes + 1
    /\ \E a \in Appliers :
        /\ applier[a].pc = "free"
        /\ applier' = [applier EXCEPT ![a] = [Idle EXCEPT !.pc = "begin", !.new = v]]
    /\ UNCHANGED <<mu, lastQobuzVol, owed, standby, wake, bus, calls, events>>

ApplyBegins(a) ==
    /\ applier[a].pc = "begin"
    /\ applier' = [applier EXCEPT ![a].pc = "lock", ![a].reset = volReset]
    /\ volReset' = FALSE
    /\ UNCHANGED <<playing, setAsSource, standbyTimer, known, lastQobuzVol, owed,
                   standby, wake, bus, cecBounds>>

\* volMu is taken: a first volume is the reference, an equal one needs nothing.
ApplyRefers(a) ==
    /\ applier[a].pc = "lock" /\ volMuFree
    /\ applier[a].reset \/ lastQobuzVol < 0 \/ applier[a].new = lastQobuzVol
    /\ lastQobuzVol' = applier[a].new /\ owed' = applier[a].new
    /\ applier' = [applier EXCEPT ![a] = Idle]
    /\ UNCHANGED <<mu, standby, wake, bus, cecBounds>>

ApplyTakes(a) ==
    /\ applier[a].pc = "lock" /\ volMuFree
    /\ ~applier[a].reset /\ lastQobuzVol >= 0 /\ applier[a].new # lastQobuzVol
    /\ applier' = [applier EXCEPT ![a].pc = "press", ![a].from = lastQobuzVol]
    /\ lastQobuzVol' = applier[a].new
    /\ UNCHANGED <<mu, owed, standby, wake, bus, cecBounds>>

\* Up or down, and how many presses the difference asks for.
Direction(a) == IF applier[a].new > applier[a].from THEN 1 ELSE -1
Steps(a) == Direction(a) * (applier[a].new - applier[a].from)

ApplyPresses(a) ==
    /\ applier[a].pc = "press" /\ applier[a].steps < Steps(a)
    /\ applier' = [applier EXCEPT ![a].steps = @ + 1]
    /\ owed' = owed + Direction(a)
    /\ UNCHANGED <<mu, lastQobuzVol, standby, wake, bus, cecBounds>>

\* A bug: the presses that were not made are counted as made.
ApplyFailsUncorrected(a) ==
    /\ applier[a].pc = "press" /\ applier[a].steps < Steps(a)
    /\ applier' = [applier EXCEPT ![a] = Idle]
    /\ UNCHANGED <<mu, lastQobuzVol, owed, standby, wake, bus, cecBounds>>

\* A key press fails: the volume is corrected to what the amplifier received.
ApplyFails(a) ==
    /\ applier[a].pc = "press" /\ applier[a].steps < Steps(a)
    /\ lastQobuzVol' = applier[a].from + Direction(a) * applier[a].steps
    /\ applier' = [applier EXCEPT ![a] = Idle]
    /\ UNCHANGED <<mu, owed, standby, wake, bus, cecBounds>>

ApplyEnds(a) ==
    /\ applier[a].pc = "press" /\ applier[a].steps = Steps(a)
    /\ applier' = [applier EXCEPT ![a] = Idle]
    /\ UNCHANGED <<mu, lastQobuzVol, owed, standby, wake, bus, cecBounds>>

Apply(a) ==
    \/ ApplyBegins(a) \/ ApplyRefers(a) \/ ApplyTakes(a) \/ ApplyPresses(a)
    \/ ApplyFails(a) \/ ApplyEnds(a)

-----------------------------------------------------------------------------
(* Other devices *)

OtherTakesOver ==
    /\ events < MaxEvents /\ events' = events + 1
    /\ ~elsewhere /\ elsewhere' = TRUE
    /\ UNCHANGED <<mu, standby, wake, volume, amp, calls, volumes>>

-----------------------------------------------------------------------------
Standby(t) == TimerFires(t) \/ Triggers(t) \/ Lists(t) \/ SendsStandby(t)

CecNext ==
    \/ OnPlaybackStarts \/ OnPlaybackStops
    \/ \E v \in Volumes : OnVolume(v)
    \/ \E t \in Timers : Standby(t)
    \/ \E w \in Wakes : Wake(w)
    \/ \E a \in Appliers : Apply(a)
    \/ OtherTakesOver

\* Timers fire and goroutines run on.
CecFairness ==
    /\ \A t \in Timers : WF_cecVars(Standby(t))
    /\ \A w \in Wakes : WF_cecVars(Wake(w))
    /\ \A a \in Appliers : WF_cecVars(Apply(a))

CecSpec == CecInit /\ [][CecNext]_cecVars /\ CecFairness

-----------------------------------------------------------------------------
(* Properties *)

\* Of all the timers that stops have armed, the one that can still fire is the
\* one the next play cancels, and none can while music plays; a triggerStandby
\* that a play came too late for is the one thing that takes a timer away.
TimerIsHeld ==
    \A t \in Timers :
        timer[t] = "armed" => raced \/ (~playing /\ standbyTimer = t)

\* The amplifier is sent to standby under the music only by a timer that had
\* fired before playback began, or by one such a timer made be forgotten.
StandbyHasReason ==
    [][\A t \in Timers : SendsStandby(t) /\ playing => raced]_cecVars

\* After a stop the amplifier goes to standby, unless playback goes on or
\* another source takes over; whatever wakeAmp was doing when the stop came.
StopEndsInStandby ==
    ~playing /\ calls > 0 ~> amp = "standby" \/ playing \/ elsewhere \/ raced

\* lastQobuzVol is the reference it was last given plus the key presses the
\* amplifier received since, whichever of them failed and whoever set it last.
VolumeInStep == volMuFree => lastQobuzVol = owed
=============================================================================
