--------------------------- MODULE Devices_proofs ---------------------------
(***************************************************************************)
(* Proofs about the two devices behind the player.                         *)
(*                                                                         *)
(* AlsaSpeaker, for any rates, handles and numbers of sessions, files,     *)
(* pauses and hotplugs: no handle is lost and no writer left without one,  *)
(* Pause is applied, whoever wants music has a device that is resumed, and *)
(* tracks are resampled to the rate the device has.  The invariant says    *)
(* what each pc of Run and Pause knows of handles, rates and flags; what   *)
(* it says of the hardware (Sound) holds while no Pause has run beside the *)
(* start of a session or the change of a device.                           *)
(*                                                                         *)
(* CecManager, for any number of timers, wakeAmps and volume changes: no   *)
(* standby timer escapes the next play, no standby comes under the music   *)
(* without a play that raced with a triggerStandby, and lastQobuzVol keeps *)
(* in step with the key presses the amplifier got.                         *)
(***************************************************************************)
EXTENDS AlsaSpeaker, CecManager, TLAPS

-----------------------------------------------------------------------------
(* The speaker: the invariant *)

\* The steps of Run: at the start of a session, before there is a ctrl; with the
\* ctrl of a session that plays on the device of the one before; inside open; and
\* from open to the loop.
RunPcs == {"idle", "reinit", "open", "stop", "close", "retry", "restore", "install",
           "opened", "failed", "ready", "ctrl", "play", "look", "suspend",
           "suspended", "resume", "resumed", "loop", "load", "adapt", "check",
           "unsuspend", "replay", "ends"}
Looking == {"play", "look", "suspend", "suspended", "resume", "resumed"}
Initializing == Opening /\ run.caller = "init"
BeforeCtrl == run.pc \in {"idle", "reinit", "ready", "ctrl"} \/ Initializing

RunRecords == [pc : RunPcs, wasInit : BOOLEAN, defer : BOOLEAN,
               caller : {"none", "init", "adapt", "defer"}, want : Nat, oldSR : Nat,
               new : Nat, dev : Nat, loopSR : Nat, mp3 : BOOLEAN]

HandlerPcs == {"idle", "ctrl", "ready", "look", "resume", "resumed", "set", "test",
               "suspend", "suspended"}
HandlerRecords == [pc : HandlerPcs, paused : BOOLEAN, ctrl : Nat, ready : BOOLEAN,
                   dev : Nat]

Typed ==
    /\ run \in RunRecords /\ handler \in HandlerRecords
    /\ pcm \in Nat /\ sr \in Nat /\ speakerInitSR \in Nat /\ speakerSR \in Nat
    /\ ctrl \in Nat /\ sessions \in Nat
    /\ adaptive \in BOOLEAN /\ stopping \in BOOLEAN /\ speakerInitDone \in BOOLEAN
    /\ speakerInitialized \in BOOLEAN /\ speakerSuspended \in BOOLEAN
    /\ speakerAdaptFailed \in BOOLEAN /\ paused \in BOOLEAN /\ played \in BOOLEAN
    /\ pausedWant \in BOOLEAN

\* What open owns at each of its steps: the current handle and the new one, and
\* a writer for the current one.
Devices ==
    /\ opened = {pcm, run.new} \ {None} /\ hw \subseteq opened
    /\ pcm = None <=> writer = "none"
    /\ stopping <=> run.pc = "close" /\ writer # "none"
    /\ run.new # None => run.pc \in {"stop", "close", "install", "opened"}
    /\ run.pc \in {"stop", "close"} => run.new # pcm
    /\ run.pc \in {"retry", "restore", "install"} => pcm = None
    /\ run.pc = "install" => run.new # None
    /\ run.pc = "opened" => run.new = pcm
    /\ run.pc \in {"opened", "unsuspend", "replay"} => pcm # None

\* The rate of the device is in speakerSR, and speakerInitSR, except while it
\* changes; and the rate to restore in oldSR.
RatesKept ==
    /\ pcm # None /\ run.pc \notin {"opened", "unsuspend"}
           /\ ~(run.pc = "ready" /\ ~run.defer) => sr = speakerSR
    /\ pcm # None /\ run.pc # "opened" /\ speakerInitDone => sr = speakerInitSR
    /\ run.pc \in {"stop", "close"} /\ run.new = None => run.oldSR = sr
    /\ run.pc \in {"retry", "restore"} =>
           run.oldSR = speakerSR /\ (speakerInitDone => run.oldSR = speakerInitSR)
    /\ run.pc \in {"opened", "unsuspend", "replay"} => sr = run.want
    /\ run.pc = "replay" => speakerSR = run.want
    /\ Initializing => run.want = speakerInitSR
    /\ run.pc \in Looking \cup {"ctrl", "loop", "check", "load"} => run.loopSR = speakerSR

\* What is done for a track whose rate could not be set: it is played at the
\* old rate, if there still is a device.
FallsBack ==
    /\ speakerAdaptFailed => run.pc \notin {"reinit", "ready", "ctrl"} \cup Looking
                             /\ ~Initializing
    /\ speakerAdaptFailed /\ run.pc \in {"loop", "load"} => pcm # None
    /\ run.pc = "load" /\ adaptive /\ run.want # Unknown => pcm # None

\* Whether the speaker is ready, in a session that has not deferred speakerInit.
ReadyKnown ==
    /\ speakerInitialized => speakerInitDone
    /\ run.pc = "ready" /\ ~run.defer => speakerInitDone
    /\ ~BeforeCtrl \/ run.pc = "ctrl" =>
           (run.defer \/ speakerInitialized)
    /\ run.pc \in {"unsuspend", "replay"} /\ run.caller = "defer" => speakerInitialized
    /\ Initializing => ~run.defer
    /\ run.pc \in Looking => ~run.defer

CtrlOfSession ==
    /\ ctrl = None <=> BeforeCtrl
    /\ played => ctrl # None /\ run.pc # "play"
    /\ run.pc # "idle" => sessions # 0
    /\ run.pc = "adapt" => run.caller = "adapt"

\* The ctrl that plays is paused as it is wanted, or the Pause that wants it has
\* still to get there.
OnItsWay ==
    /\ handler.pc \in {"ctrl", "ready", "look", "resume", "resumed", "set"}
    /\ handler.pc = "ctrl" \/ handler.ctrl = ctrl
PauseArrives ==
    /\ handler.pc # "idle" => handler.paused = pausedWant
    /\ handler.pc \in {"test", "suspend", "suspended"} => handler.paused
    /\ ctrl # None /\ ~run.defer /\ run.pc # "play" => paused = pausedWant \/ OnItsWay

\* Where Pause has not run beside the start of a session or the change of a
\* device.  What the hardware is in is what the flags say, but for the step
\* between the two; and it is not paused where music is wanted.
InLoop == ~BeforeCtrl /\ run.pc \notin Looking /\ ~run.defer
SuspensionTold ==
    speakerInitDone /\ run.pc # "suspended" /\ handler.pc # "suspended" /\ hw # {}
        => speakerSuspended
Fresh ==
    /\ run.new # None => run.new \notin hw
    /\ run.pc \in {"opened", "unsuspend", "replay", "resumed"} => hw = {}
    /\ run.pc \in {"ready", "ctrl", "play"} /\ ~run.defer /\ ~run.wasInit => hw = {}
    /\ handler.pc = "resumed" => hw = {}
ActsOnCurrent ==
    /\ run.pc \in {"suspend", "resume"} => run.dev = pcm
    /\ run.pc \in {"suspend", "suspended"} => pausedWant
    /\ handler.pc \in {"suspend", "resume"} => handler.dev = pcm
    /\ handler.pc \notin {"idle", "ctrl", "ready"} /\ InLoop => handler.ready
Resumed ==
    /\ InLoop /\ ~refused /\ ~pausedWant /\ handler.pc \in {"idle", "set"} => hw = {}
    /\ Starting => handler.pc = "idle"
Sound == SuspensionTold /\ Fresh /\ ActsOnCurrent /\ Resumed
Heard == ~overlap => Sound

Base == /\ Typed /\ Devices /\ RatesKept /\ FallsBack /\ ReadyKnown /\ CtrlOfSession
        /\ PauseArrives
IInv == Base /\ Heard

\* What a step has to keep, and when no Pause runs beside what Run does in it.
Apart == /\ ~overlap /\ (Starting => handler.pc = "idle")
         /\ (Starting => handler.pc = "idle")'
Keeps == Base' /\ (Apart => Sound')

\* What a step of Run leaves alone of its locals.
SameCall == /\ run'.caller = run.caller /\ run'.want = run.want
            /\ run'.oldSR = run.oldSR /\ run'.new = run.new
SameSession == /\ run'.wasInit = run.wasInit /\ run'.defer = run.defer
               /\ run'.dev = run.dev /\ run'.loopSR = run.loopSR

-----------------------------------------------------------------------------
(* What the steps do to the records of Run and Pause *)

\* The records Run and Pause return to.
LEMMA NowhereTyped ==
  /\ Nowhere \in RunRecords /\ Nowhere.pc = "idle" /\ ~Nowhere.defer
  /\ Nowhere.new = None /\ Nowhere.dev = None /\ Nowhere.caller = "none"
  /\ Nowhere.want = Unknown
  BY DEF Nowhere, RunRecords, RunPcs, Unknown, None

LEMMA SilentTyped == Silent \in HandlerRecords /\ Silent.pc = "idle"
  BY DEF Silent, HandlerRecords, HandlerPcs, None

LEMMA RunGoes ==
  ASSUME run \in RunRecords, NEW to \in RunPcs, Goes(to)
  PROVE  run' \in RunRecords /\ run'.pc = to /\ SameCall /\ SameSession
  BY DEF Goes, RunRecords, SameCall, SameSession

\* All that most steps need of the types.
LEMMA RunTyped == IInv => run \in RunRecords /\ handler \in HandlerRecords
  BY DEF IInv, Base, Typed

LEMMA HandlesTyped ==
  ASSUME NEW h \in Handles
  PROVE  h \in Nat /\ h # None
  BY ConstantsOK DEF ConstantsOK

-----------------------------------------------------------------------------
(* open.  One lemma for each action: what the step does first, then what is said *)
(* of the handles, of the rates, of the flags and the ctrl, and of the hardware.  *)

LEMMA OpenFirstKeeps ==
  ASSUME IInv, OpenFirst
  PROVE  Keeps
<1>1. /\ run.pc = "open" /\ run \in RunRecords /\ run.new = None
      /\ UNCHANGED <<pcm, sr, writer, stopping, adaptive, flags, rates, mixer, pause,
                     sessions, refused>>
  BY RunTyped DEF OpenFirst, NotFlags, bounds, IInv, Base, Devices
<1>2. ASSUME NEW h \in Handles, AlsaOpens(h, run.want),
             run' = [run EXCEPT !.pc = "stop", !.new = h]
      PROVE  Keeps
  <2>1. /\ run' \in RunRecords /\ run'.pc = "stop" /\ run'.new = h
        /\ run'.caller = run.caller /\ run'.want = run.want
        /\ run'.oldSR = run.oldSR /\ SameSession /\ h # None
        /\ h \notin opened /\ opened' = opened \cup {h} /\ hw' = hw \ {h}
    BY <1>1, <1>2, HandlesTyped DEF AlsaOpens, RunRecords, RunPcs, SameCall,
       SameSession
  <2>2. Typed' /\ Devices'
    BY <1>1, <1>2, <2>1 DEF IInv, Base, Typed, Devices, flags, rates, mixer, pause,
       SameCall, SameSession
  <2>3. RatesKept' /\ FallsBack'
    BY <1>1, <1>2, <2>1 DEF IInv, Base, RatesKept, FallsBack, Opening, Initializing,
       Looking, flags, rates, mixer, pause, SameCall, SameSession
  <2>4. ReadyKnown' /\ CtrlOfSession' /\ PauseArrives'
    BY <1>1, <1>2, <2>1 DEF IInv, Base, ReadyKnown, CtrlOfSession, PauseArrives,
       OnItsWay, Opening, Initializing, BeforeCtrl, Looking, flags, rates, mixer,
       pause, SameCall, SameSession
  <2>5. Apart => Sound'
    BY <1>1, <1>2, <2>1 DEF IInv, Base, Apart, Heard, Sound, SuspensionTold, Fresh,
       ActsOnCurrent, Resumed, InLoop, Starting, Opening, Initializing, BeforeCtrl,
       Looking, Devices, ReadyKnown, flags, rates, mixer, pause, SameCall, SameSession
  <2>6. QED
    BY <2>2, <2>3, <2>4, <2>5 DEF Base, Keeps
<1>3. CASE /\ pcm # None /\ UNCHANGED <<opened, hw>>
           /\ run' = [run EXCEPT !.pc = "stop", !.oldSR = sr]
  <2>0. sr \in Nat
    BY DEF IInv, Base, Typed
  <2>1. /\ run' \in RunRecords /\ run'.pc = "stop" /\ run'.oldSR = sr
        /\ run'.caller = run.caller /\ run'.want = run.want /\ run'.new = run.new
        /\ SameSession
    BY <1>1, <1>3, <2>0 DEF RunRecords, RunPcs, SameCall, SameSession
  <2>2. Typed' /\ Devices'
    BY <1>1, <1>3, <2>1 DEF IInv, Base, Typed, Devices, flags, rates, mixer, pause,
       SameCall, SameSession
  <2>3. RatesKept' /\ FallsBack'
    BY <1>1, <1>3, <2>1 DEF IInv, Base, RatesKept, FallsBack, Opening, Initializing,
       Looking, flags, rates, mixer, pause, SameCall, SameSession
  <2>4. ReadyKnown' /\ CtrlOfSession' /\ PauseArrives'
    BY <1>1, <1>3, <2>1 DEF IInv, Base, ReadyKnown, CtrlOfSession, PauseArrives,
       OnItsWay, Opening, Initializing, BeforeCtrl, Looking, flags, rates, mixer,
       pause, SameCall, SameSession
  <2>5. Apart => Sound'
    BY <1>1, <1>3, <2>1 DEF IInv, Base, Apart, Heard, Sound, SuspensionTold, Fresh,
       ActsOnCurrent, Resumed, InLoop, Starting, Opening, Initializing, BeforeCtrl,
       Looking, Devices, ReadyKnown, flags, rates, mixer, pause, SameCall, SameSession
  <2>6. QED
    BY <2>2, <2>3, <2>4, <2>5 DEF Base, Keeps
<1>4. CASE Goes("failed") /\ UNCHANGED <<opened, hw>>
  <2>1. /\ run' \in RunRecords /\ run'.pc = "failed" /\ SameCall /\ SameSession
    BY <1>1, <1>4, RunGoes DEF RunPcs
  <2>2. Typed' /\ Devices'
    BY <1>1, <1>4, <2>1 DEF IInv, Base, Typed, Devices, flags, rates, mixer, pause,
       SameCall, SameSession
  <2>3. RatesKept' /\ FallsBack'
    BY <1>1, <1>4, <2>1 DEF IInv, Base, RatesKept, FallsBack, Opening, Initializing,
       Looking, flags, rates, mixer, pause, SameCall, SameSession
  <2>4. ReadyKnown' /\ CtrlOfSession' /\ PauseArrives'
    BY <1>1, <1>4, <2>1 DEF IInv, Base, ReadyKnown, CtrlOfSession, PauseArrives,
       OnItsWay, Opening, Initializing, BeforeCtrl, Looking, flags, rates, mixer,
       pause, SameCall, SameSession
  <2>5. Apart => Sound'
    BY <1>1, <1>4, <2>1 DEF IInv, Base, Apart, Heard, Sound, SuspensionTold, Fresh,
       ActsOnCurrent, Resumed, InLoop, Starting, Opening, Initializing, BeforeCtrl,
       Looking, Devices, ReadyKnown, flags, rates, mixer, pause, SameCall, SameSession
  <2>6. QED
    BY <2>2, <2>3, <2>4, <2>5 DEF Base, Keeps
<1>5. QED
  BY <1>2, <1>3, <1>4 DEF OpenFirst

LEMMA CloseStopsKeeps ==
  ASSUME IInv, CloseStops
  PROVE  Keeps
<1>1. /\ run.pc = "stop" /\ run' \in RunRecords /\ run'.pc = "close" /\ SameCall
      /\ SameSession
      /\ stopping' = (writer # "none")
      /\ UNCHANGED <<pcm, sr, opened, hw, writer, adaptive, flags, rates, mixer,
                     pause, sessions, refused>>
  BY RunGoes, RunTyped DEF CloseStops, NotFlags, RunPcs, bounds
<1>2. Typed' /\ Devices'
  BY <1>1 DEF IInv, Base, Typed, Devices, flags, rates, mixer, pause, SameCall,
     SameSession
<1>3. RatesKept' /\ FallsBack'
  BY <1>1 DEF IInv, Base, RatesKept, FallsBack, Opening, Initializing, Looking, flags,
     rates, mixer, pause, SameCall, SameSession
<1>4. ReadyKnown' /\ CtrlOfSession' /\ PauseArrives'
  BY <1>1 DEF IInv, Base, ReadyKnown, CtrlOfSession, PauseArrives, OnItsWay, Opening,
     Initializing, BeforeCtrl, Looking, flags, rates, mixer, pause, SameCall,
     SameSession
<1>5. Apart => Sound'
  BY <1>1 DEF IInv, Base, Apart, Heard, Sound, SuspensionTold, Fresh, ActsOnCurrent,
     Resumed, InLoop, Starting, Opening, Initializing, BeforeCtrl, Looking, Devices,
     ReadyKnown, flags, rates, mixer, pause, SameCall, SameSession
<1>6. QED
  BY <1>2, <1>3, <1>4, <1>5 DEF Base, Keeps

LEMMA CloseCurrentKeeps ==
  ASSUME IInv, CloseCurrent
  PROVE  Keeps
<1>1. /\ run.pc = "close" /\ run' \in RunRecords
      /\ run'.pc = (IF run.new = None THEN "retry" ELSE "install") /\ SameCall
      /\ SameSession
      /\ stopping' = FALSE /\ writer' = "none" /\ pcm' = None
      /\ opened' = opened \ {pcm} /\ hw' = hw \ {pcm}
      /\ UNCHANGED <<sr, adaptive, flags, rates, mixer, pause, sessions, refused>>
  BY RunGoes, RunTyped DEF CloseCurrent, NotFlags, RunPcs, bounds
<1>2. Typed' /\ Devices'
  BY <1>1 DEF IInv, Base, Typed, Devices, None, flags, rates, mixer, pause, SameCall,
     SameSession
<1>3. RatesKept' /\ FallsBack'
  BY <1>1 DEF IInv, Base, RatesKept, FallsBack, Opening, Initializing, Looking,
     Devices, None, flags, rates, mixer, pause, SameCall, SameSession
<1>4. ReadyKnown' /\ CtrlOfSession' /\ PauseArrives'
  BY <1>1 DEF IInv, Base, ReadyKnown, CtrlOfSession, PauseArrives, OnItsWay, Opening,
     Initializing, BeforeCtrl, Looking, flags, rates, mixer, pause, SameCall,
     SameSession
<1>5. Apart => Sound'
  BY <1>1 DEF IInv, Base, Apart, Heard, Sound, SuspensionTold, Fresh, ActsOnCurrent,
     Resumed, InLoop, Starting, Opening, Initializing, BeforeCtrl, Looking, Devices,
     ReadyKnown, flags, rates, mixer, pause, SameCall, SameSession
<1>6. QED
  BY <1>2, <1>3, <1>4, <1>5 DEF Base, Keeps

LEMMA OpenRetriesKeeps ==
  ASSUME IInv, OpenRetries
  PROVE  Keeps
<1>1. /\ run.pc = "retry" /\ run \in RunRecords /\ run.new = None /\ pcm = None
      /\ UNCHANGED <<pcm, sr, writer, stopping, adaptive, flags, rates, mixer, pause,
                     sessions, refused>>
  BY RunTyped DEF OpenRetries, NotFlags, bounds, IInv, Base, Devices
<1>2. ASSUME NEW h \in Handles, AlsaOpens(h, run.want),
             run' = [run EXCEPT !.pc = "install", !.new = h]
      PROVE  Keeps
  <2>1. /\ run' \in RunRecords /\ run'.pc = "install" /\ run'.new = h
        /\ run'.caller = run.caller /\ run'.want = run.want
        /\ run'.oldSR = run.oldSR /\ SameSession /\ h # None
        /\ opened' = opened \cup {h} /\ hw' = hw \ {h}
    BY <1>1, <1>2, HandlesTyped DEF AlsaOpens, RunRecords, RunPcs, SameCall,
       SameSession
  <2>2. Typed' /\ Devices'
    BY <1>1, <1>2, <2>1 DEF IInv, Base, Typed, Devices, flags, rates, mixer, pause,
       SameCall, SameSession
  <2>3. RatesKept' /\ FallsBack'
    BY <1>1, <1>2, <2>1 DEF IInv, Base, RatesKept, FallsBack, Opening, Initializing,
       Looking, flags, rates, mixer, pause, SameCall, SameSession
  <2>4. ReadyKnown' /\ CtrlOfSession' /\ PauseArrives'
    BY <1>1, <1>2, <2>1 DEF IInv, Base, ReadyKnown, CtrlOfSession, PauseArrives,
       OnItsWay, Opening, Initializing, BeforeCtrl, Looking, flags, rates, mixer,
       pause, SameCall, SameSession
  <2>5. Apart => Sound'
    BY <1>1, <1>2, <2>1 DEF IInv, Base, Apart, Heard, Sound, SuspensionTold, Fresh,
       ActsOnCurrent, Resumed, InLoop, Starting, Opening, Initializing, BeforeCtrl,
       Looking, Devices, ReadyKnown, flags, rates, mixer, pause, SameCall, SameSession
  <2>6. QED
    BY <2>2, <2>3, <2>4, <2>5 DEF Base, Keeps
<1>3. CASE Goes("restore") /\ UNCHANGED <<opened, hw>>
  <2>1. /\ run' \in RunRecords /\ run'.pc = "restore" /\ SameCall /\ SameSession
    BY <1>1, <1>3, RunGoes DEF RunPcs
  <2>2. Typed' /\ Devices'
    BY <1>1, <1>3, <2>1 DEF IInv, Base, Typed, Devices, flags, rates, mixer, pause,
       SameCall, SameSession
  <2>3. RatesKept' /\ FallsBack'
    BY <1>1, <1>3, <2>1 DEF IInv, Base, RatesKept, FallsBack, Opening, Initializing,
       Looking, flags, rates, mixer, pause, SameCall, SameSession
  <2>4. ReadyKnown' /\ CtrlOfSession' /\ PauseArrives'
    BY <1>1, <1>3, <2>1 DEF IInv, Base, ReadyKnown, CtrlOfSession, PauseArrives,
       OnItsWay, Opening, Initializing, BeforeCtrl, Looking, flags, rates, mixer,
       pause, SameCall, SameSession
  <2>5. Apart => Sound'
    BY <1>1, <1>3, <2>1 DEF IInv, Base, Apart, Heard, Sound, SuspensionTold, Fresh,
       ActsOnCurrent, Resumed, InLoop, Starting, Opening, Initializing, BeforeCtrl,
       Looking, Devices, ReadyKnown, flags, rates, mixer, pause, SameCall, SameSession
  <2>6. QED
    BY <2>2, <2>3, <2>4, <2>5 DEF Base, Keeps
<1>4. QED
  BY <1>2, <1>3 DEF OpenRetries

LEMMA OpenRestoresKeeps ==
  ASSUME IInv, OpenRestores
  PROVE  Keeps
<1>1. /\ run.pc = "restore" /\ run' \in RunRecords /\ run'.pc = "failed" /\ SameCall
      /\ SameSession
      /\ run.new = None /\ pcm = None
      /\ UNCHANGED <<adaptive, flags, rates, mixer, pause, sessions, refused>>
  BY RunGoes, RunTyped DEF OpenRestores, NotFlags, RunPcs, bounds, IInv, Base, Devices
<1>2. ASSUME NEW h \in Handles, AlsaOpens(h, run.oldSR), pcm' = h,
             sr' = run.oldSR, StartsWriting
      PROVE  Keeps
  <2>1. /\ h \in Nat /\ h # None /\ opened' = opened \cup {h} /\ hw' = hw \ {h}
        /\ run.oldSR \in Nat /\ stopping' = FALSE /\ writer' = "check"
    BY <1>1, <1>2, HandlesTyped, RunTyped DEF AlsaOpens, StartsWriting, RunRecords
  <2>2. Typed' /\ Devices'
    BY <1>1, <1>2, <2>1 DEF IInv, Base, Typed, Devices, flags, rates, mixer, pause,
       SameCall, SameSession
  <2>3. RatesKept' /\ FallsBack'
    BY <1>1, <1>2, <2>1 DEF IInv, Base, RatesKept, FallsBack, Opening, Initializing,
       Looking, flags, rates, mixer, pause, SameCall, SameSession
  <2>4. ReadyKnown' /\ CtrlOfSession' /\ PauseArrives'
    BY <1>1, <1>2, <2>1 DEF IInv, Base, ReadyKnown, CtrlOfSession, PauseArrives,
       OnItsWay, Opening, Initializing, BeforeCtrl, Looking, flags, rates, mixer,
       pause, SameCall, SameSession
  <2>5. Apart => Sound'
    BY <1>1, <1>2, <2>1 DEF IInv, Base, Apart, Heard, Sound, SuspensionTold, Fresh,
       ActsOnCurrent, Resumed, InLoop, Starting, Opening, Initializing, BeforeCtrl,
       Looking, Devices, ReadyKnown, flags, rates, mixer, pause, SameCall, SameSession
  <2>6. QED
    BY <2>2, <2>3, <2>4, <2>5 DEF Base, Keeps
<1>3. CASE UNCHANGED <<pcm, sr, opened, hw, writer, stopping>>
  <2>1. Typed' /\ Devices'
    BY <1>1, <1>3 DEF IInv, Base, Typed, Devices, flags, rates, mixer, pause,
       SameCall, SameSession
  <2>2. RatesKept' /\ FallsBack'
    BY <1>1, <1>3 DEF IInv, Base, RatesKept, FallsBack, Opening, Initializing,
       Looking, flags, rates, mixer, pause, SameCall, SameSession
  <2>3. ReadyKnown' /\ CtrlOfSession' /\ PauseArrives'
    BY <1>1, <1>3 DEF IInv, Base, ReadyKnown, CtrlOfSession, PauseArrives, OnItsWay,
       Opening, Initializing, BeforeCtrl, Looking, flags, rates, mixer, pause,
       SameCall, SameSession
  <2>4. Apart => Sound'
    BY <1>1, <1>3 DEF IInv, Base, Apart, Heard, Sound, SuspensionTold, Fresh,
       ActsOnCurrent, Resumed, InLoop, Starting, Opening, Initializing, BeforeCtrl,
       Looking, Devices, ReadyKnown, flags, rates, mixer, pause, SameCall, SameSession
  <2>5. QED
    BY <2>1, <2>2, <2>3, <2>4 DEF Base, Keeps
<1>4. QED
  BY <1>2, <1>3 DEF OpenRestores, lspk

LEMMA OpenInstallsKeeps ==
  ASSUME IInv, OpenInstalls
  PROVE  Keeps
<1>1. /\ run.pc = "install" /\ run' \in RunRecords /\ run'.pc = "opened" /\ SameCall
      /\ SameSession
      /\ run.new \in Nat /\ run.want \in Nat /\ pcm' = run.new /\ sr' = run.want
      /\ stopping' = FALSE /\ writer' = "check"
      /\ UNCHANGED <<opened, hw, adaptive, flags, rates, mixer, pause, sessions,
                     refused>>
  BY RunGoes, RunTyped DEF OpenInstalls, StartsWriting, NotFlags, RunPcs, RunRecords,
     bounds
<1>2. Typed' /\ Devices'
  BY <1>1 DEF IInv, Base, Typed, Devices, flags, rates, mixer, pause, SameCall,
     SameSession
<1>3. RatesKept' /\ FallsBack'
  BY <1>1 DEF IInv, Base, RatesKept, FallsBack, Opening, Initializing, Looking, flags,
     rates, mixer, pause, SameCall, SameSession
<1>4. ReadyKnown' /\ CtrlOfSession' /\ PauseArrives'
  BY <1>1 DEF IInv, Base, ReadyKnown, CtrlOfSession, PauseArrives, OnItsWay, Opening,
     Initializing, BeforeCtrl, Looking, flags, rates, mixer, pause, SameCall,
     SameSession
<1>5. Apart => Sound'
  BY <1>1 DEF IInv, Base, Apart, Heard, Sound, SuspensionTold, Fresh, ActsOnCurrent,
     Resumed, InLoop, Starting, Opening, Initializing, BeforeCtrl, Looking, Devices,
     ReadyKnown, flags, rates, mixer, pause, SameCall, SameSession
<1>6. QED
  BY <1>2, <1>3, <1>4, <1>5 DEF Base, Keeps

-----------------------------------------------------------------------------
(* Run, up to its loop *)

LEMMA RunBeginsKeeps ==
  ASSUME IInv, RunBegins
  PROVE  Keeps
<1>1. /\ run.pc = "idle" /\ run' \in RunRecords /\ run'.pc = "reinit" /\ SameCall
      /\ SameSession
      /\ speakerAdaptFailed' = FALSE /\ sessions' \in Nat \ {0}
      /\ UNCHANGED <<adaptive, lspk, speakerInitialized, speakerSuspended, mixer, pause,
                     speakerInitDone, speakerInitSR, speakerSR>>
  BY RunGoes, RunTyped DEF RunBegins, RunPcs, IInv, Base, Typed
<1>2. Typed' /\ Devices'
  BY <1>1 DEF IInv, Base, Typed, Devices, lspk, mixer, pause, SameCall, SameSession
<1>3. RatesKept' /\ FallsBack'
  BY <1>1 DEF IInv, Base, RatesKept, FallsBack, Opening, Initializing, Looking, lspk,
     mixer, pause, SameCall, SameSession
<1>4. ReadyKnown' /\ CtrlOfSession' /\ PauseArrives'
  BY <1>1 DEF IInv, Base, ReadyKnown, CtrlOfSession, PauseArrives, OnItsWay, Opening,
     Initializing, BeforeCtrl, Looking, lspk, mixer, pause, SameCall, SameSession
<1>5. Apart => Sound'
  BY <1>1 DEF IInv, Base, Apart, Heard, Sound, SuspensionTold, Fresh, ActsOnCurrent,
     Resumed, InLoop, Starting, Opening, Initializing, BeforeCtrl, Looking, Devices,
     ReadyKnown, lspk, mixer, pause, SameCall, SameSession
<1>6. QED
  BY <1>2, <1>3, <1>4, <1>5 DEF Base, Keeps

LEMMA RunReinitsKeeps ==
  ASSUME IInv, RunReinits
  PROVE  Keeps
<1> DEFINE next == [run EXCEPT !.wasInit = speakerInitDone',
                               !.defer = adaptive /\ ~speakerInitDone']
<1>1. /\ run.pc = "reinit" /\ run \in RunRecords
      /\ speakerInitDone' = (speakerInitDone /\ ~speakerReinitPending)
      /\ speakerInitialized' = (speakerInitialized /\ ~speakerReinitPending)
      /\ speakerSuspended' = (speakerSuspended /\ ~speakerReinitPending)
      /\ UNCHANGED <<adaptive, lspk, speakerSR, speakerAdaptFailed, mixer, pause,
                     sessions, refused>>
  BY RunTyped DEF RunReinits, bounds
<1>2. /\ next \in RunRecords /\ next.wasInit = speakerInitDone'
      /\ next.defer = (adaptive /\ ~speakerInitDone') /\ next.caller = run.caller
      /\ next.want = run.want /\ next.oldSR = run.oldSR /\ next.new = run.new
      /\ next.dev = run.dev /\ next.loopSR = run.loopSR
  BY <1>1 DEF RunRecords
<1> HIDE DEF next
<1>3. CASE /\ speakerInitDone' \/ adaptive
           /\ run' = [next EXCEPT !.pc = "ready"] /\ UNCHANGED speakerInitSR
  <2>1. /\ run' \in RunRecords /\ run'.pc = "ready"
        /\ run'.wasInit = speakerInitDone' /\ run'.defer = (adaptive /\ ~speakerInitDone')
        /\ run'.new = run.new
    BY <1>2, <1>3 DEF RunRecords, RunPcs
  <2>2. Typed' /\ Devices'
    BY <1>1, <1>3, <2>1 DEF IInv, Base, Typed, Devices, lspk, mixer, pause
  <2>3. RatesKept' /\ FallsBack'
    BY <1>1, <1>3, <2>1 DEF IInv, Base, RatesKept, FallsBack, Opening, Initializing,
       Looking, lspk, mixer, pause
  <2>4. ReadyKnown' /\ CtrlOfSession' /\ PauseArrives'
    BY <1>1, <1>3, <2>1 DEF IInv, Base, ReadyKnown, CtrlOfSession, PauseArrives,
       OnItsWay, Opening, Initializing, BeforeCtrl, Looking, lspk, mixer, pause
  <2>5. Apart => Sound'
    BY <1>1, <1>3, <2>1 DEF IInv, Base, Apart, Heard, Sound, SuspensionTold, Fresh,
       ActsOnCurrent, Resumed, InLoop, Starting, Opening, Initializing, BeforeCtrl,
       Looking, Devices, ReadyKnown, lspk, mixer, pause
  <2>6. QED
    BY <2>2, <2>3, <2>4, <2>5 DEF Base, Keeps
<1>4. ASSUME NEW rate \in DeviceRates, speakerInitSR' = rate,
             ~speakerInitDone', ~adaptive,
             run' = [next EXCEPT !.pc = "open", !.caller = "init", !.want = rate]
      PROVE  Keeps
  <2>1. /\ run' \in RunRecords /\ run'.pc = "open" /\ run'.caller = "init"
        /\ run'.want = rate /\ run'.defer = FALSE /\ run'.new = run.new /\ rate \in Nat
    <3>1. rate \in Nat
      BY ConstantsOK DEF ConstantsOK
    <3>2. QED
      BY <1>2, <1>4, <3>1 DEF RunRecords, RunPcs
  <2>2. Typed' /\ Devices'
    BY <1>1, <1>4, <2>1 DEF IInv, Base, Typed, Devices, lspk, mixer, pause
  <2>3. RatesKept' /\ FallsBack'
    BY <1>1, <1>4, <2>1 DEF IInv, Base, RatesKept, FallsBack, Opening, Initializing,
       Looking, lspk, mixer, pause
  <2>4. ReadyKnown' /\ CtrlOfSession' /\ PauseArrives'
    BY <1>1, <1>4, <2>1 DEF IInv, Base, ReadyKnown, CtrlOfSession, PauseArrives,
       OnItsWay, Opening, Initializing, BeforeCtrl, Looking, lspk, mixer, pause
  <2>5. Apart => Sound'
    BY <1>1, <1>4, <2>1 DEF IInv, Base, Apart, Heard, Sound, SuspensionTold, Fresh,
       ActsOnCurrent, Resumed, InLoop, Starting, Opening, Initializing, BeforeCtrl,
       Looking, Devices, ReadyKnown, lspk, mixer, pause
  <2>6. QED
    BY <2>2, <2>3, <2>4, <2>5 DEF Base, Keeps
<1>5. QED
  BY <1>3, <1>4 DEF RunReinits, next

LEMMA RunInitFailsKeeps ==
  ASSUME IInv, RunInitFails
  PROVE  Keeps
<1>1. /\ run.pc = "failed" /\ run.caller = "init" /\ run' \in RunRecords
      /\ run'.pc = "idle" /\ run'.new = None /\ run'.defer = FALSE
      /\ UNCHANGED <<adaptive, lspk, flags, rates, mixer, pause, sessions, refused>>
  BY NowhereTyped DEF RunInitFails, Returns, bounds
<1>2. Typed' /\ Devices'
  BY <1>1 DEF IInv, Base, Typed, Devices, lspk, flags, rates, mixer, pause
<1>3. RatesKept' /\ FallsBack'
  BY <1>1 DEF IInv, Base, RatesKept, FallsBack, Opening, Initializing, Looking, lspk,
     flags, rates, mixer, pause
<1>4. ReadyKnown' /\ CtrlOfSession' /\ PauseArrives'
  BY <1>1 DEF IInv, Base, ReadyKnown, CtrlOfSession, PauseArrives, OnItsWay, Opening,
     Initializing, BeforeCtrl, Looking, lspk, flags, rates, mixer, pause
<1>5. Apart => Sound'
  BY <1>1 DEF IInv, Base, Apart, Heard, Sound, SuspensionTold, Fresh, ActsOnCurrent,
     Resumed, InLoop, Starting, Opening, Initializing, BeforeCtrl, Looking, Devices,
     ReadyKnown, lspk, flags, rates, mixer, pause
<1>6. QED
  BY <1>2, <1>3, <1>4, <1>5 DEF Base, Keeps

LEMMA RunInitializedKeeps ==
  ASSUME IInv, RunInitialized
  PROVE  Keeps
<1>1. /\ run.pc = "opened" /\ run' \in RunRecords /\ run'.pc = "ready"
      /\ run'.new = None /\ run'.caller = run.caller /\ run'.want = run.want
      /\ run'.oldSR = run.oldSR /\ SameSession
      /\ run.caller = "init" /\ speakerInitDone' = TRUE
      /\ UNCHANGED <<adaptive, lspk, flags, speakerInitSR, speakerSR,
                     speakerAdaptFailed, mixer, pause, sessions, refused>>
  BY RunTyped DEF RunInitialized, RunRecords, RunPcs, None, bounds, SameCall,
     SameSession
<1>2. Typed' /\ Devices'
  BY <1>1 DEF IInv, Base, Typed, Devices, lspk, flags, mixer, pause, SameSession
<1>3. RatesKept' /\ FallsBack'
  BY <1>1 DEF IInv, Base, RatesKept, FallsBack, Opening, Initializing, Looking,
     ReadyKnown, BeforeCtrl, Devices, lspk, flags, mixer, pause, SameSession
<1>4. ReadyKnown' /\ CtrlOfSession' /\ PauseArrives'
  BY <1>1 DEF IInv, Base, ReadyKnown, CtrlOfSession, PauseArrives, OnItsWay, Opening,
     Initializing, BeforeCtrl, Looking, lspk, flags, mixer, pause, SameSession
<1>5. Apart => Sound'
  BY <1>1 DEF IInv, Base, Apart, Heard, Sound, SuspensionTold, Fresh, ActsOnCurrent,
     Resumed, InLoop, Starting, Opening, Initializing, BeforeCtrl, Looking, Devices,
     ReadyKnown, lspk, flags, mixer, pause, SameSession
<1>6. QED
  BY <1>2, <1>3, <1>4, <1>5 DEF Base, Keeps

LEMMA RunReadyKeeps ==
  ASSUME IInv, RunReady
  PROVE  Keeps
<1>1. /\ run.pc = "ready" /\ run' \in RunRecords /\ run'.pc = "ctrl"
      /\ run'.loopSR = speakerSR' /\ SameCall /\ run'.wasInit = run.wasInit
      /\ run'.defer = run.defer /\ run'.dev = run.dev
      /\ IF run.defer THEN UNCHANGED <<speakerSR, speakerInitialized>>
              ELSE speakerSR' = speakerInitSR /\ speakerInitialized' = TRUE
      /\ UNCHANGED <<adaptive, lspk, speakerSuspended, speakerInitDone, speakerInitSR,
                     speakerAdaptFailed, mixer, pause, sessions, refused>>
  BY RunTyped DEF RunReady, RunRecords, RunPcs, bounds, IInv, Base, Typed, SameCall,
     SameSession
<1>2. Typed' /\ Devices'
  BY <1>1 DEF IInv, Base, Typed, Devices, lspk, mixer, pause, SameCall
<1>3. RatesKept' /\ FallsBack'
  BY <1>1 DEF IInv, Base, RatesKept, FallsBack, Opening, Initializing, Looking,
     ReadyKnown, BeforeCtrl, lspk, mixer, pause, SameCall
<1>4. ReadyKnown' /\ CtrlOfSession' /\ PauseArrives'
  BY <1>1 DEF IInv, Base, ReadyKnown, CtrlOfSession, PauseArrives, OnItsWay, Opening,
     Initializing, BeforeCtrl, Looking, lspk, mixer, pause, SameCall
<1>5. Apart => Sound'
  BY <1>1 DEF IInv, Base, Apart, Heard, Sound, SuspensionTold, Fresh, ActsOnCurrent,
     Resumed, InLoop, Starting, Opening, Initializing, BeforeCtrl, Looking, Devices,
     ReadyKnown, lspk, mixer, pause, SameCall
<1>6. QED
  BY <1>2, <1>3, <1>4, <1>5 DEF Base, Keeps

LEMMA RunSetsCtrlKeeps ==
  ASSUME IInv, RunSetsCtrl
  PROVE  Keeps
<1>1. /\ run.pc = "ctrl" /\ run' \in RunRecords
      /\ run'.pc = (IF run.defer THEN "loop" ELSE "play") /\ SameCall /\ SameSession
      /\ ctrl' = sessions /\ paused' = FALSE /\ played' = FALSE
      /\ UNCHANGED <<adaptive, lspk, flags, rates, pause, sessions, refused>>
  BY RunGoes, RunTyped DEF RunSetsCtrl, RunPcs, bounds
<1>2. Typed' /\ Devices'
  BY <1>1 DEF IInv, Base, Typed, Devices, lspk, flags, rates, pause, SameCall,
     SameSession
<1>3. RatesKept' /\ FallsBack'
  BY <1>1 DEF IInv, Base, RatesKept, FallsBack, Opening, Initializing, Looking, lspk,
     flags, rates, pause, SameCall, SameSession
<1>4. ReadyKnown' /\ CtrlOfSession' /\ PauseArrives'
  BY <1>1 DEF IInv, Base, ReadyKnown, CtrlOfSession, PauseArrives, OnItsWay, Opening,
     Initializing, BeforeCtrl, Looking, Typed, None, lspk, flags, rates, pause,
     SameCall, SameSession
<1>5. Apart => Sound'
  BY <1>1 DEF IInv, Base, Apart, Heard, Sound, SuspensionTold, Fresh, ActsOnCurrent,
     Resumed, InLoop, Starting, Opening, Initializing, BeforeCtrl, Looking, Devices,
     ReadyKnown, lspk, flags, rates, pause, SameCall, SameSession
<1>6. QED
  BY <1>2, <1>3, <1>4, <1>5 DEF Base, Keeps

LEMMA RunPlaysKeeps ==
  ASSUME IInv, RunPlays
  PROVE  Keeps
<1>1. /\ run.pc = "play" /\ run' \in RunRecords
      /\ run'.pc = (IF run.wasInit THEN "look" ELSE "loop") /\ run'.wasInit = FALSE
      /\ SameCall /\ run'.defer = run.defer /\ run'.dev = run.dev
      /\ run'.loopSR = run.loopSR
      /\ paused' = pausedWant /\ played' = TRUE
      /\ UNCHANGED <<ctrl, adaptive, lspk, flags, rates, pause, sessions, refused>>
  BY RunTyped DEF RunPlays, PlaysCtrl, RunRecords, RunPcs, bounds, SameCall,
     SameSession
<1>2. Typed' /\ Devices'
  BY <1>1 DEF IInv, Base, Typed, Devices, lspk, flags, rates, pause, SameCall
<1>3. RatesKept' /\ FallsBack'
  BY <1>1 DEF IInv, Base, RatesKept, FallsBack, Opening, Initializing, Looking, lspk,
     flags, rates, pause, SameCall
<1>4. ReadyKnown' /\ CtrlOfSession' /\ PauseArrives'
  BY <1>1 DEF IInv, Base, ReadyKnown, CtrlOfSession, PauseArrives, OnItsWay, Opening,
     Initializing, BeforeCtrl, Looking, lspk, flags, rates, pause, SameCall
<1>5. Apart => Sound'
  BY <1>1 DEF IInv, Base, Apart, Heard, Sound, SuspensionTold, Fresh, ActsOnCurrent,
     Resumed, InLoop, Starting, Opening, Initializing, BeforeCtrl, Looking, Devices,
     ReadyKnown, lspk, flags, rates, pause, SameCall
<1>6. QED
  BY <1>2, <1>3, <1>4, <1>5 DEF Base, Keeps

LEMMA RunLooksKeeps ==
  ASSUME IInv, RunLooks
  PROVE  Keeps
<1>1. /\ run.pc = "look" /\ run' \in RunRecords
      /\ run'.pc \in {"suspend", "resume", "loop"}
      /\ run'.pc = "suspend" => paused
      /\ run'.pc = "loop" => paused \/ ~speakerSuspended
      /\ run'.dev = pcm /\ SameCall
      /\ run'.wasInit = run.wasInit /\ run'.defer = run.defer
      /\ run'.loopSR = run.loopSR
      /\ UNCHANGED <<adaptive, lspk, flags, rates, mixer, pause, sessions, refused>>
  BY RunTyped DEF RunLooks, NotSuspend, RunRecords, RunPcs, lspk, mixer, bounds, IInv,
     Base, Typed, SameCall, SameSession
<1>2. Typed' /\ Devices'
  BY <1>1 DEF IInv, Base, Typed, Devices, lspk, flags, rates, mixer, pause, SameCall
<1>3. RatesKept' /\ FallsBack'
  BY <1>1 DEF IInv, Base, RatesKept, FallsBack, Opening, Initializing, Looking, lspk,
     flags, rates, mixer, pause, SameCall
<1>4. ReadyKnown' /\ CtrlOfSession' /\ PauseArrives'
  BY <1>1 DEF IInv, Base, ReadyKnown, CtrlOfSession, PauseArrives, OnItsWay, Opening,
     Initializing, BeforeCtrl, Looking, lspk, flags, rates, mixer, pause, SameCall
<1>5. Apart => Sound'
  BY <1>1 DEF IInv, Base, Apart, Heard, Sound, SuspensionTold, Fresh, ActsOnCurrent,
     Resumed, InLoop, Starting, Opening, Initializing, BeforeCtrl, Looking, Devices,
     ReadyKnown, PauseArrives, OnItsWay, CtrlOfSession, lspk, flags, rates, mixer,
     pause, SameCall
<1>6. QED
  BY <1>2, <1>3, <1>4, <1>5 DEF Base, Keeps

LEMMA RunSuspendsKeeps ==
  ASSUME IInv, RunSuspends
  PROVE  Keeps
<1>1. /\ run.pc = "suspend" /\ run' \in RunRecords /\ run'.pc = "suspended"
      /\ SameCall /\ SameSession
      /\ hw' \subseteq opened
      /\ UNCHANGED <<adaptive, pcm, sr, opened, writer, stopping, rates, ctrl, played,
                     sessions, speakerInitialized, paused,
                     pause, speakerSuspended, refused>>
  BY RunGoes, RunTyped DEF RunSuspends, NotSuspend, RunPcs, bounds, flags, Suspends,
     IInv, Base, Devices
<1>2. Typed' /\ Devices'
  BY <1>1 DEF IInv, Base, Typed, Devices, rates, pause, SameCall, SameSession
<1>3. RatesKept' /\ FallsBack'
  BY <1>1 DEF IInv, Base, RatesKept, FallsBack, Opening, Initializing, Looking, rates,
     pause, SameCall, SameSession
<1>4. ReadyKnown' /\ CtrlOfSession' /\ PauseArrives'
  BY <1>1 DEF IInv, Base, ReadyKnown, CtrlOfSession, PauseArrives, OnItsWay, Opening,
     Initializing, BeforeCtrl, Looking, rates, pause, SameCall, SameSession
<1>5. Apart => Sound'
  BY <1>1 DEF IInv, Base, Apart, Heard, Sound, SuspensionTold, Fresh, ActsOnCurrent,
     Resumed, InLoop, Starting, Opening, Initializing, BeforeCtrl, Looking, Devices,
     ReadyKnown, rates, pause, SameCall, SameSession
<1>6. QED
  BY <1>2, <1>3, <1>4, <1>5 DEF Base, Keeps

LEMMA RunRecordsSuspendedKeeps ==
  ASSUME IInv, RunRecordsSuspended
  PROVE  Keeps
<1>1. /\ run.pc = "suspended" /\ run' \in RunRecords /\ run'.pc = "loop" /\ SameCall
      /\ SameSession
      /\ speakerSuspended' = TRUE
      /\ UNCHANGED <<adaptive, pcm, sr, opened, writer, stopping, rates, ctrl, played,
                     sessions, speakerInitialized, paused,
                     pause, hw, refused>>
  BY RunGoes, RunTyped DEF RunRecordsSuspended, NotSuspend, RunPcs, bounds, flags,
     Suspended
<1>2. Typed' /\ Devices'
  BY <1>1 DEF IInv, Base, Typed, Devices, rates, pause, SameCall, SameSession
<1>3. RatesKept' /\ FallsBack'
  BY <1>1 DEF IInv, Base, RatesKept, FallsBack, Opening, Initializing, Looking, rates,
     pause, SameCall, SameSession
<1>4. ReadyKnown' /\ CtrlOfSession' /\ PauseArrives'
  BY <1>1 DEF IInv, Base, ReadyKnown, CtrlOfSession, PauseArrives, OnItsWay, Opening,
     Initializing, BeforeCtrl, Looking, rates, pause, SameCall, SameSession
<1>5. Apart => Sound'
  BY <1>1 DEF IInv, Base, Apart, Heard, Sound, SuspensionTold, Fresh, ActsOnCurrent,
     Resumed, InLoop, Starting, Opening, Initializing, BeforeCtrl, Looking, Devices,
     ReadyKnown, rates, pause, SameCall, SameSession
<1>6. QED
  BY <1>2, <1>3, <1>4, <1>5 DEF Base, Keeps

LEMMA RunSuspendFailsKeeps ==
  ASSUME IInv, RunSuspendFails
  PROVE  Keeps
<1>1. /\ run.pc = "suspend" /\ run' \in RunRecords /\ run'.pc = "loop" /\ SameCall
      /\ SameSession
      /\ UNCHANGED <<adaptive, pcm, sr, opened, writer, stopping, rates, ctrl, played,
                     sessions, speakerInitialized, paused,
                     pause, hw, speakerSuspended, refused>>
  BY RunGoes, RunTyped DEF RunSuspendFails, NotSuspend, RunPcs, bounds, flags,
     SuspendFails, RecordsFailure
<1>2. Typed' /\ Devices'
  BY <1>1 DEF IInv, Base, Typed, Devices, rates, pause, SameCall, SameSession
<1>3. RatesKept' /\ FallsBack'
  BY <1>1 DEF IInv, Base, RatesKept, FallsBack, Opening, Initializing, Looking, rates,
     pause, SameCall, SameSession
<1>4. ReadyKnown' /\ CtrlOfSession' /\ PauseArrives'
  BY <1>1 DEF IInv, Base, ReadyKnown, CtrlOfSession, PauseArrives, OnItsWay, Opening,
     Initializing, BeforeCtrl, Looking, rates, pause, SameCall, SameSession
<1>5. Apart => Sound'
  BY <1>1 DEF IInv, Base, Apart, Heard, Sound, SuspensionTold, Fresh, ActsOnCurrent,
     Resumed, InLoop, Starting, Opening, Initializing, BeforeCtrl, Looking, Devices,
     ReadyKnown, rates, pause, SameCall, SameSession
<1>6. QED
  BY <1>2, <1>3, <1>4, <1>5 DEF Base, Keeps

LEMMA RunResumesKeeps ==
  ASSUME IInv, RunResumes
  PROVE  Keeps
<1>1. /\ run.pc = "resume" /\ run' \in RunRecords /\ run'.pc = "resumed" /\ SameCall
      /\ SameSession
      /\ hw' \subseteq opened /\ refused' = FALSE /\ Resumes(run.dev)
      /\ UNCHANGED <<adaptive, pcm, sr, opened, writer, stopping, rates, ctrl, played,
                     sessions, speakerInitialized, paused,
                     pause, speakerSuspended>>
  BY RunGoes, RunTyped DEF RunResumes, NotSuspend, RunPcs, bounds, flags, Resumes,
     IInv, Base, Devices
<1>2. Typed' /\ Devices'
  BY <1>1 DEF IInv, Base, Typed, Devices, rates, pause, SameCall, SameSession
<1>3. RatesKept' /\ FallsBack'
  BY <1>1 DEF IInv, Base, RatesKept, FallsBack, Opening, Initializing, Looking, rates,
     pause, SameCall, SameSession
<1>4. ReadyKnown' /\ CtrlOfSession' /\ PauseArrives'
  BY <1>1 DEF IInv, Base, ReadyKnown, CtrlOfSession, PauseArrives, OnItsWay, Opening,
     Initializing, BeforeCtrl, Looking, rates, pause, SameCall, SameSession
<1>5. Apart => Sound'
  BY <1>1 DEF IInv, Base, Apart, Heard, Sound, SuspensionTold, Fresh, ActsOnCurrent,
     Resumed, InLoop, Starting, Opening, Initializing, BeforeCtrl, Looking, Devices,
     ReadyKnown, Resumes, rates, pause, SameCall, SameSession
<1>6. QED
  BY <1>2, <1>3, <1>4, <1>5 DEF Base, Keeps

LEMMA RunRecordsResumedKeeps ==
  ASSUME IInv, RunRecordsResumed
  PROVE  Keeps
<1>1. /\ run.pc = "resumed" /\ run' \in RunRecords /\ run'.pc = "loop" /\ SameCall
      /\ SameSession
      /\ speakerSuspended' = FALSE
      /\ UNCHANGED <<adaptive, pcm, sr, opened, writer, stopping, rates, ctrl, played,
                     sessions, speakerInitialized, paused,
                     pause, hw, refused>>
  BY RunGoes, RunTyped DEF RunRecordsResumed, NotSuspend, RunPcs, bounds, flags
<1>2. Typed' /\ Devices'
  BY <1>1 DEF IInv, Base, Typed, Devices, rates, pause, SameCall, SameSession
<1>3. RatesKept' /\ FallsBack'
  BY <1>1 DEF IInv, Base, RatesKept, FallsBack, Opening, Initializing, Looking, rates,
     pause, SameCall, SameSession
<1>4. ReadyKnown' /\ CtrlOfSession' /\ PauseArrives'
  BY <1>1 DEF IInv, Base, ReadyKnown, CtrlOfSession, PauseArrives, OnItsWay, Opening,
     Initializing, BeforeCtrl, Looking, rates, pause, SameCall, SameSession
<1>5. Apart => Sound'
  BY <1>1 DEF IInv, Base, Apart, Heard, Sound, SuspensionTold, Fresh, ActsOnCurrent,
     Resumed, InLoop, Starting, Opening, Initializing, BeforeCtrl, Looking, Devices,
     ReadyKnown, rates, pause, SameCall, SameSession
<1>6. QED
  BY <1>2, <1>3, <1>4, <1>5 DEF Base, Keeps

LEMMA RunResumeFailsKeeps ==
  ASSUME IInv, RunResumeFails
  PROVE  Keeps
<1>1. /\ run.pc = "resume" /\ run' \in RunRecords /\ run'.pc = "loop" /\ SameCall
      /\ SameSession
      /\ refused' = TRUE
      /\ UNCHANGED <<adaptive, pcm, sr, opened, writer, stopping, rates, ctrl, played,
                     sessions, speakerInitialized, paused,
                     pause, hw, speakerSuspended>>
  BY RunGoes, RunTyped DEF RunResumeFails, NotSuspend, RunPcs, bounds, flags,
     ResumeFails
<1>2. Typed' /\ Devices'
  BY <1>1 DEF IInv, Base, Typed, Devices, rates, pause, SameCall, SameSession
<1>3. RatesKept' /\ FallsBack'
  BY <1>1 DEF IInv, Base, RatesKept, FallsBack, Opening, Initializing, Looking, rates,
     pause, SameCall, SameSession
<1>4. ReadyKnown' /\ CtrlOfSession' /\ PauseArrives'
  BY <1>1 DEF IInv, Base, ReadyKnown, CtrlOfSession, PauseArrives, OnItsWay, Opening,
     Initializing, BeforeCtrl, Looking, rates, pause, SameCall, SameSession
<1>5. Apart => Sound'
  BY <1>1 DEF IInv, Base, Apart, Heard, Sound, SuspensionTold, Fresh, ActsOnCurrent,
     Resumed, InLoop, Starting, Opening, Initializing, BeforeCtrl, Looking, Devices,
     ReadyKnown, rates, pause, SameCall, SameSession
<1>6. QED
  BY <1>2, <1>3, <1>4, <1>5 DEF Base, Keeps

-----------------------------------------------------------------------------
(* runLoop *)

LEMMA RatesAreNat ==
  ASSUME NEW rate \in Rates \cup {Unknown}
  PROVE  rate \in Nat
  BY ConstantsOK DEF ConstantsOK, Unknown

LEMMA RunTakesKeeps ==
  ASSUME IInv, NEW rate \in Rates \cup {Unknown}, RunTakes(rate)
  PROVE  Keeps
<1>1. /\ run.pc = "loop" /\ run' \in RunRecords /\ run'.want = rate
      /\ run'.caller = (IF run.defer THEN "defer" ELSE "adapt")
      /\ run'.pc = (IF ~adaptive \/ rate = Unknown THEN "load"
                    ELSE IF run.defer THEN "open"
                    ELSE IF speakerAdaptFailed THEN "load" ELSE "adapt")
      /\ run'.oldSR = run.oldSR /\ run'.new = run.new /\ SameSession
      /\ UNCHANGED <<adaptive, lspk, flags, rates, pause, sessions, mixer, refused>>
  BY RunTyped, RatesAreNat DEF RunTakes, NotRun, RunRecords, RunPcs, SameSession
<1>2. Typed' /\ Devices'
  BY <1>1 DEF IInv, Base, Typed, Devices, lspk, flags, rates, mixer, pause,
     SameSession
<1>3. RatesKept' /\ FallsBack'
  BY <1>1 DEF IInv, Base, RatesKept, FallsBack, Opening, Initializing, Looking, lspk,
     flags, rates, mixer, pause, SameSession
<1>4. ReadyKnown' /\ CtrlOfSession' /\ PauseArrives'
  BY <1>1 DEF IInv, Base, ReadyKnown, CtrlOfSession, PauseArrives, OnItsWay, Opening,
     Initializing, BeforeCtrl, Looking, lspk, flags, rates, mixer, pause, SameSession
<1>5. Apart => Sound'
  BY <1>1 DEF IInv, Base, Apart, Heard, Sound, SuspensionTold, Fresh, ActsOnCurrent,
     Resumed, InLoop, Starting, Opening, Initializing, BeforeCtrl, Looking, Devices,
     ReadyKnown, lspk, flags, rates, mixer, pause, SameSession
<1>6. QED
  BY <1>2, <1>3, <1>4, <1>5 DEF Base, Keeps

LEMMA LoadsMP3Keeps ==
  ASSUME IInv, NEW rate \in Rates \cup {Unknown}, LoadsMP3(rate)
  PROVE  Keeps
<1>1. /\ run.pc = "load" /\ run' \in RunRecords /\ run'.want = rate
      /\ run'.pc = "adapt" /\ run'.caller = "adapt" /\ run'.oldSR = run.oldSR
      /\ run'.new = run.new /\ SameSession
      /\ UNCHANGED <<adaptive, lspk, flags, rates, pause, sessions, mixer, refused>>
  BY RunTyped, RatesAreNat DEF LoadsMP3, NotRun, RunRecords, RunPcs, SameSession
<1>2. Typed' /\ Devices'
  BY <1>1 DEF IInv, Base, Typed, Devices, lspk, flags, rates, mixer, pause,
     SameSession
<1>3. RatesKept' /\ FallsBack'
  BY <1>1 DEF IInv, Base, RatesKept, FallsBack, Opening, Initializing, Looking, lspk,
     flags, rates, mixer, pause, SameSession
<1>4. ReadyKnown' /\ CtrlOfSession' /\ PauseArrives'
  BY <1>1 DEF IInv, Base, ReadyKnown, CtrlOfSession, PauseArrives, OnItsWay, Opening,
     Initializing, BeforeCtrl, Looking, lspk, flags, rates, mixer, pause, SameSession
<1>5. Apart => Sound'
  BY <1>1 DEF IInv, Base, Apart, Heard, Sound, SuspensionTold, Fresh, ActsOnCurrent,
     Resumed, InLoop, Starting, Opening, Initializing, BeforeCtrl, Looking, Devices,
     ReadyKnown, lspk, flags, rates, mixer, pause, SameSession
<1>6. QED
  BY <1>2, <1>3, <1>4, <1>5 DEF Base, Keeps

LEMMA AdaptsKeeps ==
  ASSUME IInv, Adapts
  PROVE  Keeps
<1>1. /\ run.pc = "adapt" /\ UNCHANGED <<adaptive, lspk, flags, rates, pause,
                                         sessions, ctrl, paused, refused>>
  BY DEF Adapts, NotRun
<1>2. CASE /\ run.want = speakerSR /\ UNCHANGED played
           /\ run' = [run EXCEPT !.pc = "check", !.loopSR = run.want]
  <2>1. /\ run' \in RunRecords /\ run'.pc = "check" /\ run'.loopSR = speakerSR
        /\ SameCall /\ run'.defer = run.defer /\ played' = played
    BY <1>2, RunTyped DEF RunRecords, RunPcs, SameCall
  <2>2. Typed' /\ Devices'
    BY <1>1, <2>1 DEF IInv, Base, Typed, Devices, lspk, flags, rates, pause, SameCall,
       SameSession
  <2>3. RatesKept' /\ FallsBack'
    BY <1>1, <2>1 DEF IInv, Base, RatesKept, FallsBack, Opening, Initializing,
       Looking, lspk, flags, rates, pause, SameCall, SameSession
  <2>4. ReadyKnown' /\ CtrlOfSession' /\ PauseArrives'
    BY <1>1, <2>1 DEF IInv, Base, ReadyKnown, CtrlOfSession, PauseArrives, OnItsWay,
       Opening, Initializing, BeforeCtrl, Looking, lspk, flags, rates, pause,
       SameCall, SameSession
  <2>5. Apart => Sound'
    BY <1>1, <2>1 DEF IInv, Base, Apart, Heard, Sound, SuspensionTold, Fresh,
       ActsOnCurrent, Resumed, InLoop, Starting, Opening, Initializing, BeforeCtrl,
       Looking, Devices, ReadyKnown, lspk, flags, rates, pause, SameCall, SameSession
  <2>6. QED
    BY <2>2, <2>3, <2>4, <2>5 DEF Base, Keeps
<1>3. CASE Goes("open") /\ played' = FALSE
  <2>1. run' \in RunRecords /\ run'.pc = "open" /\ SameCall /\ SameSession
    BY <1>3, RunGoes, RunTyped DEF RunPcs
  <2>2. Typed' /\ Devices'
    BY <1>1, <1>3, <2>1 DEF IInv, Base, Typed, Devices, lspk, flags, rates, pause,
       SameCall, SameSession
  <2>3. RatesKept' /\ FallsBack'
    BY <1>1, <1>3, <2>1 DEF IInv, Base, RatesKept, FallsBack, Opening, Initializing,
       Looking, CtrlOfSession, lspk, flags, rates, pause, SameCall, SameSession
  <2>4. ReadyKnown' /\ CtrlOfSession' /\ PauseArrives'
    BY <1>1, <1>3, <2>1 DEF IInv, Base, ReadyKnown, CtrlOfSession, PauseArrives,
       OnItsWay, Opening, Initializing, BeforeCtrl, Looking, lspk, flags, rates,
       pause, SameCall, SameSession
  <2>5. Apart => Sound'
    BY <1>1, <1>3, <2>1 DEF IInv, Base, Apart, Heard, Sound, SuspensionTold, Fresh,
       ActsOnCurrent, Resumed, InLoop, Starting, Opening, Initializing, BeforeCtrl,
       Looking, Devices, ReadyKnown, lspk, flags, rates, pause, SameCall, SameSession
  <2>6. QED
    BY <2>2, <2>3, <2>4, <2>5 DEF Base, Keeps
<1>4. QED
  BY <1>2, <1>3 DEF Adapts

LEMMA AdaptFailsKeeps ==
  ASSUME IInv, AdaptFails
  PROVE  Keeps
<1>1. /\ run.pc = "failed" /\ run' \in RunRecords /\ run'.pc = "check"
      /\ run'.loopSR = speakerSR /\ SameCall /\ run'.wasInit = run.wasInit
      /\ run'.defer = run.defer /\ run'.dev = run.dev
      /\ run.caller = "adapt" /\ speakerAdaptFailed' = TRUE /\ played' = TRUE
      /\ UNCHANGED <<adaptive, lspk, flags, pause, sessions, ctrl, paused,
                     speakerInitDone, speakerInitSR, speakerSR, refused>>
  BY RunTyped DEF AdaptFails, NotRun, RunRecords, RunPcs, IInv, Base, Typed, SameCall,
     SameSession
<1>2. Typed' /\ Devices'
  BY <1>1 DEF IInv, Base, Typed, Devices, lspk, flags, pause, SameCall
<1>3. RatesKept' /\ FallsBack'
  BY <1>1 DEF IInv, Base, RatesKept, FallsBack, Opening, Initializing, Looking, lspk,
     flags, pause, SameCall
<1>4. ReadyKnown' /\ CtrlOfSession' /\ PauseArrives'
  BY <1>1 DEF IInv, Base, ReadyKnown, CtrlOfSession, PauseArrives, OnItsWay, Opening,
     Initializing, BeforeCtrl, Looking, lspk, flags, pause, SameCall
<1>5. Apart => Sound'
  BY <1>1 DEF IInv, Base, Apart, Heard, Sound, SuspensionTold, Fresh, ActsOnCurrent,
     Resumed, InLoop, Starting, Opening, Initializing, BeforeCtrl, Looking, Devices,
     ReadyKnown, lspk, flags, pause, SameCall
<1>6. QED
  BY <1>2, <1>3, <1>4, <1>5 DEF Base, Keeps

LEMMA LoopOpenedKeeps ==
  ASSUME IInv, LoopOpened
  PROVE  Keeps
<1>1. /\ run.pc = "opened" /\ run' \in RunRecords /\ run'.pc = "unsuspend"
      /\ run'.new = None /\ run'.caller = run.caller /\ run'.want = run.want
      /\ run'.oldSR = run.oldSR /\ SameSession
      /\ run.caller \in {"adapt", "defer"} /\ speakerInitSR' = run.want
      /\ run.want \in Nat
      /\ speakerInitDone' = (speakerInitDone \/ run.caller = "defer")
      /\ speakerInitialized' = (speakerInitialized \/ run.caller = "defer")
      /\ UNCHANGED <<adaptive, lspk, pause, sessions, mixer, speakerSR,
                     speakerAdaptFailed, speakerSuspended, refused>>
  BY RunTyped DEF LoopOpened, NotRun, RunRecords, RunPcs, None, SameCall, SameSession
<1>2. Typed' /\ Devices'
  BY <1>1 DEF IInv, Base, Typed, Devices, lspk, mixer, pause, SameSession
<1>3. RatesKept' /\ FallsBack'
  BY <1>1 DEF IInv, Base, RatesKept, FallsBack, Opening, Initializing, Looking, lspk,
     mixer, pause, SameSession
<1>4. ReadyKnown' /\ CtrlOfSession' /\ PauseArrives'
  BY <1>1 DEF IInv, Base, ReadyKnown, CtrlOfSession, PauseArrives, OnItsWay, Opening,
     Initializing, BeforeCtrl, Looking, lspk, mixer, pause, SameSession
<1>5. Apart => Sound'
  BY <1>1 DEF IInv, Base, Apart, Heard, Sound, SuspensionTold, Fresh, ActsOnCurrent,
     Resumed, InLoop, Starting, Opening, Initializing, BeforeCtrl, Looking, Devices,
     ReadyKnown, lspk, mixer, pause, SameSession
<1>6. QED
  BY <1>2, <1>3, <1>4, <1>5 DEF Base, Keeps

LEMMA LoopUnsuspendsKeeps ==
  ASSUME IInv, LoopUnsuspends
  PROVE  Keeps
<1>1. /\ run.pc = "unsuspend" /\ run' \in RunRecords /\ run'.pc = "replay"
      /\ SameCall /\ SameSession
      /\ speakerSuspended' = FALSE /\ speakerSR' = run.want /\ run.want \in Nat
      /\ UNCHANGED <<adaptive, lspk, pause, sessions, mixer, speakerInitDone,
                     speakerInitSR, speakerAdaptFailed, speakerInitialized, refused>>
  BY RunGoes, RunTyped DEF LoopUnsuspends, NotRun, RunRecords, RunPcs
<1>2. Typed' /\ Devices'
  BY <1>1 DEF IInv, Base, Typed, Devices, lspk, mixer, pause, SameCall, SameSession
<1>3. RatesKept' /\ FallsBack'
  BY <1>1 DEF IInv, Base, RatesKept, FallsBack, Opening, Initializing, Looking, lspk,
     mixer, pause, SameCall, SameSession
<1>4. ReadyKnown' /\ CtrlOfSession' /\ PauseArrives'
  BY <1>1 DEF IInv, Base, ReadyKnown, CtrlOfSession, PauseArrives, OnItsWay, Opening,
     Initializing, BeforeCtrl, Looking, lspk, mixer, pause, SameCall, SameSession
<1>5. Apart => Sound'
  BY <1>1 DEF IInv, Base, Apart, Heard, Sound, SuspensionTold, Fresh, ActsOnCurrent,
     Resumed, InLoop, Starting, Opening, Initializing, BeforeCtrl, Looking, Devices,
     ReadyKnown, lspk, mixer, pause, SameCall, SameSession
<1>6. QED
  BY <1>2, <1>3, <1>4, <1>5 DEF Base, Keeps

LEMMA LoopPlaysKeeps ==
  ASSUME IInv, LoopPlays
  PROVE  Keeps
<1>1. /\ run.pc = "replay" /\ run' \in RunRecords
      /\ run'.pc = (IF run.caller = "defer" THEN "load" ELSE "check")
      /\ run'.defer = (run.defer /\ run.caller # "defer") /\ run'.loopSR = run.want
      /\ SameCall /\ run'.wasInit = run.wasInit /\ run'.dev = run.dev
      /\ paused' = pausedWant /\ played' = TRUE
      /\ UNCHANGED <<ctrl, adaptive, lspk, flags, rates, pause, sessions, refused>>
  BY RunTyped DEF LoopPlays, PlaysCtrl, NotRun, RunRecords, RunPcs, SameCall,
     SameSession
<1>2. Typed' /\ Devices'
  BY <1>1 DEF IInv, Base, Typed, Devices, lspk, flags, rates, pause, SameCall
<1>3. RatesKept' /\ FallsBack'
  BY <1>1 DEF IInv, Base, RatesKept, FallsBack, Opening, Initializing, Looking,
     Devices, lspk, flags, rates, pause, SameCall
<1>4. ReadyKnown' /\ CtrlOfSession' /\ PauseArrives'
  BY <1>1 DEF IInv, Base, ReadyKnown, CtrlOfSession, PauseArrives, OnItsWay, Opening,
     Initializing, BeforeCtrl, Looking, lspk, flags, rates, pause, SameCall
<1>5. Apart => Sound'
  BY <1>1 DEF IInv, Base, Apart, Heard, Sound, SuspensionTold, Fresh, ActsOnCurrent,
     Resumed, InLoop, Starting, Opening, Initializing, BeforeCtrl, Looking, Devices,
     ReadyKnown, lspk, flags, rates, pause, SameCall
<1>6. QED
  BY <1>2, <1>3, <1>4, <1>5 DEF Base, Keeps

\* The steps of the loop that only go on: a track without a device, the look for a
\* device, and the end of the loop.
LEMMA LoopGoesKeeps ==
  ASSUME IInv, DeferFails \/ LoopChecks \/ RunClears
  PROVE  Keeps
<1>1. /\ \/ run.pc = "failed" /\ run.caller = "defer" /\ Goes("ends")
         \/ run.pc = "check" /\ pcm = None /\ Goes("ends")
         \/ run.pc = "check" /\ pcm # None /\ Goes("load")
         \/ run.pc \in {"loop", "load"} /\ Goes("ends")
      /\ UNCHANGED <<adaptive, lspk, flags, rates, mixer, pause, sessions, refused>>
  BY DEF DeferFails, LoopChecks, RunClears, NotRun
<1>2. /\ run' \in RunRecords /\ SameCall /\ SameSession
      /\ \/ run.pc = "failed" /\ run.caller = "defer" /\ run'.pc = "ends"
         \/ run.pc = "check" /\ run'.pc = "ends"
         \/ run.pc = "check" /\ pcm # None /\ run'.pc = "load"
         \/ run.pc \in {"loop", "load"} /\ run'.pc = "ends"
  BY <1>1, RunGoes, RunTyped DEF RunPcs
<1>3. Typed' /\ Devices'
  BY <1>1, <1>2 DEF IInv, Base, Typed, Devices, lspk, flags, rates, mixer, pause,
     SameCall, SameSession
<1>4. RatesKept' /\ FallsBack'
  BY <1>1, <1>2 DEF IInv, Base, RatesKept, FallsBack, Opening, Initializing, Looking,
     lspk, flags, rates, mixer, pause, SameCall, SameSession
<1>5. ReadyKnown' /\ CtrlOfSession' /\ PauseArrives'
  BY <1>1, <1>2 DEF IInv, Base, ReadyKnown, CtrlOfSession, PauseArrives, OnItsWay,
     Opening, Initializing, BeforeCtrl, Looking, lspk, flags, rates, mixer, pause,
     SameCall, SameSession
<1>6. Apart => Sound'
  BY <1>1, <1>2 DEF IInv, Base, Apart, Heard, Sound, SuspensionTold, Fresh,
     ActsOnCurrent, Resumed, InLoop, Starting, Opening, Initializing, BeforeCtrl,
     Looking, Devices, ReadyKnown, lspk, flags, rates, mixer, pause, SameCall,
     SameSession
<1>7. QED
  BY <1>3, <1>4, <1>5, <1>6 DEF Base, Keeps

LEMMA LoadsKeeps ==
  ASSUME IInv, Loads
  PROVE  Keeps
<1>1. /\ run.pc = "load" /\ run' \in RunRecords /\ run'.pc = "loop"
      /\ run'.new = None
      /\ run'.defer = run.defer /\ run'.loopSR = run.loopSR
      /\ UNCHANGED <<adaptive, lspk, flags, rates, pause, sessions, mixer, refused>>
  BY RunTyped, NowhereTyped DEF Loads, NotRun, RunRecords, RunPcs
<1>2. Typed' /\ Devices'
  BY <1>1 DEF IInv, Base, Typed, Devices, lspk, flags, rates, mixer, pause
<1>3. RatesKept' /\ FallsBack'
  BY <1>1 DEF IInv, Base, RatesKept, FallsBack, Opening, Initializing, Looking, lspk,
     flags, rates, mixer, pause
<1>4. ReadyKnown' /\ CtrlOfSession' /\ PauseArrives'
  BY <1>1 DEF IInv, Base, ReadyKnown, CtrlOfSession, PauseArrives, OnItsWay, Opening,
     Initializing, BeforeCtrl, Looking, lspk, flags, rates, mixer, pause
<1>5. Apart => Sound'
  BY <1>1 DEF IInv, Base, Apart, Heard, Sound, SuspensionTold, Fresh, ActsOnCurrent,
     Resumed, InLoop, Starting, Opening, Initializing, BeforeCtrl, Looking, Devices,
     ReadyKnown, lspk, flags, rates, mixer, pause
<1>6. QED
  BY <1>2, <1>3, <1>4, <1>5 DEF Base, Keeps

LEMMA RunEndsKeeps ==
  ASSUME IInv, RunEnds
  PROVE  Keeps
<1>1. /\ run.pc = "ends" /\ run' \in RunRecords /\ run'.pc = "idle"
      /\ run'.new = None
      /\ run'.defer = FALSE /\ ctrl' = None /\ paused' = FALSE /\ played' = FALSE
      /\ UNCHANGED <<adaptive, lspk, flags, rates, pause, sessions, refused>>
  BY NowhereTyped DEF RunEnds, Returns, NotRun
<1>2. Typed' /\ Devices'
  BY <1>1 DEF IInv, Base, Typed, Devices, None, lspk, flags, rates, pause
<1>3. RatesKept' /\ FallsBack'
  BY <1>1 DEF IInv, Base, RatesKept, FallsBack, Opening, Initializing, Looking, lspk,
     flags, rates, pause
<1>4. ReadyKnown' /\ CtrlOfSession' /\ PauseArrives'
  BY <1>1 DEF IInv, Base, ReadyKnown, CtrlOfSession, PauseArrives, OnItsWay, Opening,
     Initializing, BeforeCtrl, Looking, None, lspk, flags, rates, pause
<1>5. Apart => Sound'
  BY <1>1 DEF IInv, Base, Apart, Heard, Sound, SuspensionTold, Fresh, ActsOnCurrent,
     Resumed, InLoop, Starting, Opening, Initializing, BeforeCtrl, Looking, Devices,
     ReadyKnown, lspk, flags, rates, pause
<1>6. QED
  BY <1>2, <1>3, <1>4, <1>5 DEF Base, Keeps

\* A hotplug and writeLoop: Run does not look at the one, and waits for the other.
LEMMA BesideRunKeeps ==
  ASSUME IInv, ScheduleAudioReinit \/ Writer
  PROVE  Keeps
<1>1. /\ UNCHANGED <<run, adaptive, pcm, sr, opened, hw, stopping, flags, rates, mixer,
                     pause, sessions, refused>>
      /\ writer' # writer => writer # "none" /\ writer' # "none"
  BY DEF ScheduleAudioReinit, Writer, WriterChecks, WriterWrites, NotWriter, lspk, bounds
<1>2. Typed' /\ Devices'
  BY <1>1 DEF IInv, Base, Typed, Devices, flags, rates, mixer, pause
<1>3. RatesKept' /\ FallsBack'
  BY <1>1 DEF IInv, Base, RatesKept, FallsBack, Opening, Initializing, Looking, flags,
     rates, mixer, pause
<1>4. ReadyKnown' /\ CtrlOfSession' /\ PauseArrives'
  BY <1>1 DEF IInv, Base, ReadyKnown, CtrlOfSession, PauseArrives, OnItsWay, Opening,
     Initializing, BeforeCtrl, Looking, flags, rates, mixer, pause
<1>5. Apart => Sound'
  BY <1>1 DEF IInv, Base, Apart, Heard, Sound, SuspensionTold, Fresh, ActsOnCurrent,
     Resumed, InLoop, Starting, Opening, Initializing, BeforeCtrl, Looking, Devices,
     ReadyKnown, flags, rates, mixer, pause
<1>6. QED
  BY <1>2, <1>3, <1>4, <1>5 DEF Base, Keeps

-----------------------------------------------------------------------------
(* Pause *)

\* It changes the handler, the ctrl's Paused, and whether the device is suspended.
Beside == <<run, adaptive, pcm, sr, opened, writer, stopping, rates, ctrl, played,
            sessions, speakerInitialized>>

\* What no step of Pause changes.
LEMMA PausingLeaves ==
  ASSUME IInv, Pausing
  PROVE  UNCHANGED Beside /\ hw' \subseteq opened /\ speakerSuspended' \in BOOLEAN
<1>1. UNCHANGED Beside
  BY DEF Pausing, Pause, PauseReadsCtrl, PauseReadsReady, PauseLooks, PauseResumes,
     PauseRecordsResumed, PauseResumeFails, PauseSets, PauseTests, PauseSuspends,
     PauseRecordsSuspended, PauseSuspendFails, NotPause, Beside
<1>2. hw' \subseteq opened /\ speakerSuspended' \in BOOLEAN
  BY DEF Pausing, Pause, PauseReadsCtrl, PauseReadsReady, PauseLooks, PauseResumes,
     PauseRecordsResumed, PauseResumeFails, PauseSets, PauseTests, PauseSuspends,
     PauseRecordsSuspended, PauseSuspendFails, Suspends, Resumes, Suspended,
     RecordsFailure, flags, IInv, Base, Devices, Typed
<1>3. QED
  BY <1>1, <1>2

\* A step of Pause that runs apart is one while Run is idle or in its loop.
LEMMA PausingApart ==
  ASSUME IInv, Pausing, Apart, handler.pc # "idle" \/ handler'.pc # "idle"
  PROVE  /\ ~Starting /\ ~Starting' /\ run.new = None /\ InLoop' = InLoop
         /\ run.pc \in {"idle", "loop", "load", "adapt", "check", "ends"}
         /\ opened = {pcm} \ {None} /\ hw \subseteq opened
         /\ InLoop => speakerInitDone /\ speakerInitialized
<1>1. UNCHANGED Beside
  BY PausingLeaves
<1>2. ~Starting /\ ~Starting'
  BY <1>1 DEF Apart, Starting, Opening, Beside
<1>3. QED
  BY <1>1, <1>2 DEF IInv, Base, Typed, RunRecords, RunPcs, Devices, ReadyKnown,
     InLoop, BeforeCtrl, Initializing, Looking, Starting, Opening, Beside, rates

\* PauseGoes changes where Pause is and nothing else of its locals.
LEMMA HandlerGoes ==
  ASSUME handler \in HandlerRecords, NEW to \in HandlerPcs,
         handler' = [handler EXCEPT !.pc = to]
  PROVE  /\ handler' \in HandlerRecords /\ handler'.pc = to
         /\ handler'.paused = handler.paused /\ handler'.ctrl = handler.ctrl
         /\ handler'.ready = handler.ready /\ handler'.dev = handler.dev
  BY DEF HandlerRecords

\* What is left to show of a step of Pause.
LEMMA PausingKeeps ==
  ASSUME IInv, Pausing, handler' \in HandlerRecords, paused' \in BOOLEAN,
         pausedWant' \in BOOLEAN, PauseArrives', Apart => Sound'
  PROVE  Keeps
<1>1. UNCHANGED Beside /\ hw' \subseteq opened /\ speakerSuspended' \in BOOLEAN
  BY PausingLeaves
<1>2. Typed' /\ Devices'
  BY <1>1 DEF IInv, Base, Typed, Devices, Beside, rates
<1>3. RatesKept' /\ FallsBack'
  BY <1>1 DEF IInv, Base, RatesKept, FallsBack, Opening, Initializing, Looking,
     Beside, rates
<1>4. ReadyKnown' /\ CtrlOfSession'
  BY <1>1 DEF IInv, Base, ReadyKnown, CtrlOfSession, Opening, Initializing,
     BeforeCtrl, Looking, Beside, rates
<1>5. QED
  BY <1>2, <1>3, <1>4 DEF Base, Keeps

LEMMA PauseKeeps ==
  ASSUME IInv, NEW b \in BOOLEAN, Pause(b)
  PROVE  Keeps
<1>1. UNCHANGED Beside
  BY PausingLeaves DEF Pausing
<1>2. /\ handler' \in HandlerRecords /\ handler.pc = "idle" /\ paused' \in BOOLEAN
      /\ pausedWant' \in BOOLEAN
      /\ handler'.pc = "ctrl" /\ handler'.paused = b /\ pausedWant' = b
      /\ UNCHANGED <<paused, hw, speakerSuspended, refused>>
  BY RunTyped, HandlerGoes, SilentTyped DEF Pause, HandlerRecords, HandlerPcs, flags,
     IInv, Base, Typed
<1>3. PauseArrives'
  BY <1>1, <1>2 DEF IInv, Base, PauseArrives, OnItsWay, Beside
<1>4. ASSUME Apart
      PROVE  Sound'
  <2>1. /\ ~Starting' /\ run.new = None /\ InLoop' = InLoop
        /\ run.pc \in {"idle", "loop", "load", "adapt", "check", "ends"}
        /\ opened = {pcm} \ {None} /\ hw \subseteq opened
        /\ InLoop => speakerInitDone /\ speakerInitialized
    BY <1>2, <1>4, PausingApart DEF Pausing
  <2>2. Sound /\ PauseArrives
    BY <1>4 DEF IInv, Base, Heard, Apart
  <2>3. QED
    BY <1>1, <1>2, <2>1, <2>2 DEF Sound, SuspensionTold, Fresh, ActsOnCurrent,
       Resumed, PauseArrives, Resumes, Beside, rates
<1>5. QED
  BY <1>2, <1>3, <1>4, PausingKeeps DEF Pausing

LEMMA PauseReadsCtrlKeeps ==
  ASSUME IInv, PauseReadsCtrl
  PROVE  Keeps
<1>1. UNCHANGED Beside
  BY PausingLeaves DEF Pausing
<1>2. /\ handler' \in HandlerRecords /\ handler.pc = "ctrl" /\ paused' \in BOOLEAN
      /\ pausedWant' \in BOOLEAN
      /\ \/ ctrl = None /\ handler'.pc = "idle"
         \/ /\ handler'.pc = "ready" /\ handler'.ctrl = ctrl
            /\ handler'.paused = handler.paused
      /\ UNCHANGED <<paused, pausedWant, hw, speakerSuspended, refused>>
  BY RunTyped, HandlerGoes, SilentTyped DEF PauseReadsCtrl, HandlerRecords,
     HandlerPcs, flags, IInv, Base, Typed
<1>3. PauseArrives'
  BY <1>1, <1>2 DEF IInv, Base, PauseArrives, OnItsWay, Beside
<1>4. ASSUME Apart
      PROVE  Sound'
  <2>1. /\ ~Starting' /\ run.new = None /\ InLoop' = InLoop
        /\ run.pc \in {"idle", "loop", "load", "adapt", "check", "ends"}
        /\ opened = {pcm} \ {None} /\ hw \subseteq opened
        /\ InLoop => speakerInitDone /\ speakerInitialized
    BY <1>2, <1>4, PausingApart DEF Pausing
  <2>2. Sound /\ PauseArrives
    BY <1>4 DEF IInv, Base, Heard, Apart
  <2>3. ctrl = None => ~InLoop
    BY DEF IInv, Base, CtrlOfSession, InLoop
  <2>4. QED
    BY <1>1, <1>2, <2>1, <2>2, <2>3 DEF Sound, SuspensionTold, Fresh, ActsOnCurrent,
       Resumed, PauseArrives, Resumes, Beside, rates
<1>5. QED
  BY <1>2, <1>3, <1>4, PausingKeeps DEF Pausing

LEMMA PauseReadsReadyKeeps ==
  ASSUME IInv, PauseReadsReady
  PROVE  Keeps
<1>1. UNCHANGED Beside
  BY PausingLeaves DEF Pausing
<1>2. /\ handler' \in HandlerRecords /\ handler.pc = "ready" /\ paused' \in BOOLEAN
      /\ pausedWant' \in BOOLEAN
      /\ handler'.pc = (IF handler.paused THEN "set" ELSE "look")
      /\ handler'.ready = speakerInitialized /\ handler'.paused = handler.paused
      /\ handler'.ctrl = handler.ctrl
      /\ UNCHANGED <<paused, pausedWant, hw, speakerSuspended, refused>>
  BY RunTyped, HandlerGoes, SilentTyped DEF PauseReadsReady, HandlerRecords,
     HandlerPcs, flags, IInv, Base, Typed
<1>3. PauseArrives'
  BY <1>1, <1>2 DEF IInv, Base, PauseArrives, OnItsWay, Beside
<1>4. ASSUME Apart
      PROVE  Sound'
  <2>1. /\ ~Starting' /\ run.new = None /\ InLoop' = InLoop
        /\ run.pc \in {"idle", "loop", "load", "adapt", "check", "ends"}
        /\ opened = {pcm} \ {None} /\ hw \subseteq opened
        /\ InLoop => speakerInitDone /\ speakerInitialized
    BY <1>2, <1>4, PausingApart DEF Pausing
  <2>2. Sound /\ PauseArrives
    BY <1>4 DEF IInv, Base, Heard, Apart
  <2>3. QED
    BY <1>1, <1>2, <2>1, <2>2 DEF Sound, SuspensionTold, Fresh, ActsOnCurrent,
       Resumed, PauseArrives, Resumes, Beside, rates
<1>5. QED
  BY <1>2, <1>3, <1>4, PausingKeeps DEF Pausing

LEMMA PauseLooksKeeps ==
  ASSUME IInv, PauseLooks
  PROVE  Keeps
<1>1. UNCHANGED Beside
  BY PausingLeaves DEF Pausing
<1>2. /\ handler' \in HandlerRecords /\ handler.pc = "look" /\ paused' \in BOOLEAN
      /\ pausedWant' \in BOOLEAN
      /\ handler'.pc = (IF speakerSuspended /\ handler.ready THEN "resume" ELSE "set")
      /\ handler'.ready = handler.ready /\ handler'.dev = pcm
      /\ handler'.paused = handler.paused /\ handler'.ctrl = handler.ctrl
      /\ UNCHANGED <<paused, pausedWant, hw, speakerSuspended, refused>>
  BY RunTyped, HandlerGoes, SilentTyped DEF PauseLooks, HandlerRecords, HandlerPcs,
     flags, IInv, Base, Typed
<1>3. PauseArrives'
  BY <1>1, <1>2 DEF IInv, Base, PauseArrives, OnItsWay, Beside
<1>4. ASSUME Apart
      PROVE  Sound'
  <2>1. /\ ~Starting' /\ run.new = None /\ InLoop' = InLoop
        /\ run.pc \in {"idle", "loop", "load", "adapt", "check", "ends"}
        /\ opened = {pcm} \ {None} /\ hw \subseteq opened
        /\ InLoop => speakerInitDone /\ speakerInitialized
    BY <1>2, <1>4, PausingApart DEF Pausing
  <2>2. Sound /\ PauseArrives
    BY <1>4 DEF IInv, Base, Heard, Apart
  <2>3. QED
    BY <1>1, <1>2, <2>1, <2>2 DEF Sound, SuspensionTold, Fresh, ActsOnCurrent,
       Resumed, PauseArrives, Resumes, Beside, rates
<1>5. QED
  BY <1>2, <1>3, <1>4, PausingKeeps DEF Pausing

LEMMA PauseResumesKeeps ==
  ASSUME IInv, PauseResumes
  PROVE  Keeps
<1>1. UNCHANGED Beside
  BY PausingLeaves DEF Pausing
<1>2. /\ handler' \in HandlerRecords /\ handler.pc = "resume" /\ paused' \in BOOLEAN
      /\ pausedWant' \in BOOLEAN
      /\ handler'.pc = "resumed" /\ handler'.ready = handler.ready
      /\ handler'.paused = handler.paused /\ handler'.ctrl = handler.ctrl
      /\ Resumes(handler.dev) /\ UNCHANGED <<paused, pausedWant, speakerSuspended>>
  BY RunTyped, HandlerGoes, SilentTyped DEF PauseResumes, PauseGoes, HandlerRecords,
     HandlerPcs, flags, IInv, Base, Typed
<1>3. PauseArrives'
  BY <1>1, <1>2 DEF IInv, Base, PauseArrives, OnItsWay, Beside
<1>4. ASSUME Apart
      PROVE  Sound'
  <2>1. /\ ~Starting' /\ run.new = None /\ InLoop' = InLoop
        /\ run.pc \in {"idle", "loop", "load", "adapt", "check", "ends"}
        /\ opened = {pcm} \ {None} /\ hw \subseteq opened
        /\ InLoop => speakerInitDone /\ speakerInitialized
    BY <1>2, <1>4, PausingApart DEF Pausing
  <2>2. Sound /\ PauseArrives
    BY <1>4 DEF IInv, Base, Heard, Apart
  <2>3. QED
    BY <1>1, <1>2, <2>1, <2>2 DEF Sound, SuspensionTold, Fresh, ActsOnCurrent,
       Resumed, PauseArrives, Resumes, Beside, rates
<1>5. QED
  BY <1>2, <1>3, <1>4, PausingKeeps DEF Pausing

LEMMA PauseRecordsResumedKeeps ==
  ASSUME IInv, PauseRecordsResumed
  PROVE  Keeps
<1>1. UNCHANGED Beside
  BY PausingLeaves DEF Pausing
<1>2. /\ handler' \in HandlerRecords /\ handler.pc = "resumed"
      /\ paused' \in BOOLEAN /\ pausedWant' \in BOOLEAN
      /\ handler'.pc = "set" /\ handler'.ready = handler.ready
      /\ handler'.paused = handler.paused /\ handler'.ctrl = handler.ctrl
      /\ speakerSuspended' = FALSE /\ UNCHANGED <<paused, pausedWant, hw, refused>>
  BY RunTyped, HandlerGoes, SilentTyped DEF PauseRecordsResumed, PauseGoes,
     HandlerRecords, HandlerPcs, flags, IInv, Base, Typed
<1>3. PauseArrives'
  BY <1>1, <1>2 DEF IInv, Base, PauseArrives, OnItsWay, Beside
<1>4. ASSUME Apart
      PROVE  Sound'
  <2>1. /\ ~Starting' /\ run.new = None /\ InLoop' = InLoop
        /\ run.pc \in {"idle", "loop", "load", "adapt", "check", "ends"}
        /\ opened = {pcm} \ {None} /\ hw \subseteq opened
        /\ InLoop => speakerInitDone /\ speakerInitialized
    BY <1>2, <1>4, PausingApart DEF Pausing
  <2>2. Sound /\ PauseArrives
    BY <1>4 DEF IInv, Base, Heard, Apart
  <2>3. QED
    BY <1>1, <1>2, <2>1, <2>2 DEF Sound, SuspensionTold, Fresh, ActsOnCurrent,
       Resumed, PauseArrives, Resumes, Beside, rates
<1>5. QED
  BY <1>2, <1>3, <1>4, PausingKeeps DEF Pausing

LEMMA PauseResumeFailsKeeps ==
  ASSUME IInv, PauseResumeFails
  PROVE  Keeps
<1>1. UNCHANGED Beside
  BY PausingLeaves DEF Pausing
<1>2. /\ handler' \in HandlerRecords /\ handler.pc = "resume" /\ paused' \in BOOLEAN
      /\ pausedWant' \in BOOLEAN
      /\ handler'.pc = "set" /\ handler'.ready = handler.ready
      /\ handler'.paused = handler.paused /\ handler'.ctrl = handler.ctrl
      /\ refused' = TRUE /\ UNCHANGED <<paused, pausedWant, hw, speakerSuspended>>
  BY RunTyped, HandlerGoes, SilentTyped DEF PauseResumeFails, PauseGoes,
     HandlerRecords, HandlerPcs, flags, IInv, Base, Typed
<1>3. PauseArrives'
  BY <1>1, <1>2 DEF IInv, Base, PauseArrives, OnItsWay, Beside
<1>4. ASSUME Apart
      PROVE  Sound'
  <2>1. /\ ~Starting' /\ run.new = None /\ InLoop' = InLoop
        /\ run.pc \in {"idle", "loop", "load", "adapt", "check", "ends"}
        /\ opened = {pcm} \ {None} /\ hw \subseteq opened
        /\ InLoop => speakerInitDone /\ speakerInitialized
    BY <1>2, <1>4, PausingApart DEF Pausing
  <2>2. Sound /\ PauseArrives
    BY <1>4 DEF IInv, Base, Heard, Apart
  <2>3. QED
    BY <1>1, <1>2, <2>1, <2>2 DEF Sound, SuspensionTold, Fresh, ActsOnCurrent,
       Resumed, PauseArrives, Resumes, Beside, rates
<1>5. QED
  BY <1>2, <1>3, <1>4, PausingKeeps DEF Pausing

LEMMA PauseSetsKeeps ==
  ASSUME IInv, PauseSets
  PROVE  Keeps
<1>1. UNCHANGED Beside
  BY PausingLeaves DEF Pausing
<1>2. /\ handler' \in HandlerRecords /\ handler.pc = "set" /\ paused' \in BOOLEAN
      /\ pausedWant' \in BOOLEAN
      /\ IF handler.paused
         THEN /\ handler'.pc = "test" /\ handler'.paused = handler.paused
              /\ handler'.ready = handler.ready
         ELSE handler'.pc = "idle"
      /\ paused' = (IF handler.ctrl = ctrl THEN handler.paused ELSE paused)
      /\ UNCHANGED <<pausedWant, hw, speakerSuspended, refused>>
  BY RunTyped, HandlerGoes, SilentTyped DEF PauseSets, PauseGoes, HandlerRecords,
     HandlerPcs, flags, IInv, Base, Typed
<1>3. PauseArrives'
  BY <1>1, <1>2 DEF IInv, Base, PauseArrives, OnItsWay, Beside
<1>4. ASSUME Apart
      PROVE  Sound'
  <2>1. /\ ~Starting' /\ run.new = None /\ InLoop' = InLoop
        /\ run.pc \in {"idle", "loop", "load", "adapt", "check", "ends"}
        /\ opened = {pcm} \ {None} /\ hw \subseteq opened
        /\ InLoop => speakerInitDone /\ speakerInitialized
    BY <1>2, <1>4, PausingApart DEF Pausing
  <2>2. Sound /\ PauseArrives
    BY <1>4 DEF IInv, Base, Heard, Apart
  <2>3. QED
    BY <1>1, <1>2, <2>1, <2>2 DEF Sound, SuspensionTold, Fresh, ActsOnCurrent,
       Resumed, PauseArrives, Resumes, Beside, rates
<1>5. QED
  BY <1>2, <1>3, <1>4, PausingKeeps DEF Pausing

LEMMA PauseTestsKeeps ==
  ASSUME IInv, PauseTests
  PROVE  Keeps
<1>1. UNCHANGED Beside
  BY PausingLeaves DEF Pausing
<1>2. /\ handler' \in HandlerRecords /\ handler.pc = "test" /\ paused' \in BOOLEAN
      /\ pausedWant' \in BOOLEAN
      /\ \/ /\ handler'.pc = "suspend" /\ handler'.paused = handler.paused
            /\ handler'.ready = handler.ready /\ handler'.dev = pcm
         \/ handler'.pc = "idle"
      /\ UNCHANGED <<paused, pausedWant, hw, speakerSuspended, refused>>
  BY RunTyped, HandlerGoes, SilentTyped DEF PauseTests, HandlerRecords, HandlerPcs,
     flags, IInv, Base, Typed
<1>3. PauseArrives'
  BY <1>1, <1>2 DEF IInv, Base, PauseArrives, OnItsWay, Beside
<1>4. ASSUME Apart
      PROVE  Sound'
  <2>1. /\ ~Starting' /\ run.new = None /\ InLoop' = InLoop
        /\ run.pc \in {"idle", "loop", "load", "adapt", "check", "ends"}
        /\ opened = {pcm} \ {None} /\ hw \subseteq opened
        /\ InLoop => speakerInitDone /\ speakerInitialized
    BY <1>2, <1>4, PausingApart DEF Pausing
  <2>2. Sound /\ PauseArrives
    BY <1>4 DEF IInv, Base, Heard, Apart
  <2>3. QED
    BY <1>1, <1>2, <2>1, <2>2 DEF Sound, SuspensionTold, Fresh, ActsOnCurrent,
       Resumed, PauseArrives, Resumes, Beside, rates
<1>5. QED
  BY <1>2, <1>3, <1>4, PausingKeeps DEF Pausing

LEMMA PauseSuspendsKeeps ==
  ASSUME IInv, PauseSuspends
  PROVE  Keeps
<1>1. UNCHANGED Beside
  BY PausingLeaves DEF Pausing
<1>2. /\ handler' \in HandlerRecords /\ handler.pc = "suspend"
      /\ paused' \in BOOLEAN /\ pausedWant' \in BOOLEAN
      /\ handler'.pc = "suspended" /\ handler'.ready = handler.ready
      /\ handler'.paused = handler.paused /\ handler'.ctrl = handler.ctrl
      /\ UNCHANGED <<paused, pausedWant, speakerSuspended, refused>>
  BY RunTyped, HandlerGoes, SilentTyped DEF PauseSuspends, PauseGoes, HandlerRecords,
     HandlerPcs, flags, IInv, Base, Typed
<1>3. PauseArrives'
  BY <1>1, <1>2 DEF IInv, Base, PauseArrives, OnItsWay, Beside
<1>4. ASSUME Apart
      PROVE  Sound'
  <2>1. /\ ~Starting' /\ run.new = None /\ InLoop' = InLoop
        /\ run.pc \in {"idle", "loop", "load", "adapt", "check", "ends"}
        /\ opened = {pcm} \ {None} /\ hw \subseteq opened
        /\ InLoop => speakerInitDone /\ speakerInitialized
    BY <1>2, <1>4, PausingApart DEF Pausing
  <2>2. Sound /\ PauseArrives
    BY <1>4 DEF IInv, Base, Heard, Apart
  <2>3. QED
    BY <1>1, <1>2, <2>1, <2>2 DEF Sound, SuspensionTold, Fresh, ActsOnCurrent,
       Resumed, PauseArrives, Resumes, Beside, rates
<1>5. QED
  BY <1>2, <1>3, <1>4, PausingKeeps DEF Pausing

LEMMA PauseRecordsSuspendedKeeps ==
  ASSUME IInv, PauseRecordsSuspended
  PROVE  Keeps
<1>1. UNCHANGED Beside
  BY PausingLeaves DEF Pausing
<1>2. /\ handler' \in HandlerRecords /\ handler.pc = "suspended"
      /\ paused' \in BOOLEAN /\ pausedWant' \in BOOLEAN
      /\ handler'.pc = "idle" /\ speakerSuspended' = TRUE
      /\ UNCHANGED <<paused, pausedWant, hw, refused>>
  BY RunTyped, HandlerGoes, SilentTyped DEF PauseRecordsSuspended, PauseGoes,
     Suspended, HandlerRecords, HandlerPcs, flags, IInv, Base, Typed
<1>3. PauseArrives'
  BY <1>1, <1>2 DEF IInv, Base, PauseArrives, OnItsWay, Beside
<1>4. ASSUME Apart
      PROVE  Sound'
  <2>1. /\ ~Starting' /\ run.new = None /\ InLoop' = InLoop
        /\ run.pc \in {"idle", "loop", "load", "adapt", "check", "ends"}
        /\ opened = {pcm} \ {None} /\ hw \subseteq opened
        /\ InLoop => speakerInitDone /\ speakerInitialized
    BY <1>2, <1>4, PausingApart DEF Pausing
  <2>2. Sound /\ PauseArrives
    BY <1>4 DEF IInv, Base, Heard, Apart
  <2>3. QED
    BY <1>1, <1>2, <2>1, <2>2 DEF Sound, SuspensionTold, Fresh, ActsOnCurrent,
       Resumed, PauseArrives, Resumes, Beside, rates
<1>5. QED
  BY <1>2, <1>3, <1>4, PausingKeeps DEF Pausing

LEMMA PauseSuspendFailsKeeps ==
  ASSUME IInv, PauseSuspendFails
  PROVE  Keeps
<1>1. UNCHANGED Beside
  BY PausingLeaves DEF Pausing
<1>2. /\ handler' \in HandlerRecords /\ handler.pc = "suspend"
      /\ paused' \in BOOLEAN /\ pausedWant' \in BOOLEAN
      /\ handler'.pc = "idle"
      /\ UNCHANGED <<paused, pausedWant, hw, speakerSuspended, refused>>
  BY RunTyped, HandlerGoes, SilentTyped DEF PauseSuspendFails, PauseGoes,
     RecordsFailure, HandlerRecords, HandlerPcs, flags, IInv, Base, Typed
<1>3. PauseArrives'
  BY <1>1, <1>2 DEF IInv, Base, PauseArrives, OnItsWay, Beside
<1>4. ASSUME Apart
      PROVE  Sound'
  <2>1. /\ ~Starting' /\ run.new = None /\ InLoop' = InLoop
        /\ run.pc \in {"idle", "loop", "load", "adapt", "check", "ends"}
        /\ opened = {pcm} \ {None} /\ hw \subseteq opened
        /\ InLoop => speakerInitDone /\ speakerInitialized
    BY <1>2, <1>4, PausingApart DEF Pausing
  <2>2. Sound /\ PauseArrives
    BY <1>4 DEF IInv, Base, Heard, Apart
  <2>3. QED
    BY <1>1, <1>2, <2>1, <2>2 DEF Sound, SuspensionTold, Fresh, ActsOnCurrent,
       Resumed, PauseArrives, Resumes, Beside, rates
<1>5. QED
  BY <1>2, <1>3, <1>4, PausingKeeps DEF Pausing

-----------------------------------------------------------------------------
(* The theorems *)

LEMMA InitIInv ==
  ASSUME Init
  PROVE  IInv
<1>1. Typed
  BY NowhereTyped, SilentTyped DEF Init, Typed, None, Unknown
<1>2. Devices /\ RatesKept /\ FallsBack
  BY NowhereTyped DEF Init, Devices, RatesKept, FallsBack, Opening, Initializing,
     Looking, None
<1>3. ReadyKnown /\ CtrlOfSession /\ PauseArrives
  BY NowhereTyped, SilentTyped DEF Init, ReadyKnown, CtrlOfSession, PauseArrives,
     Opening, Initializing, BeforeCtrl, Looking, None
<1>4. Sound
  BY NowhereTyped, SilentTyped DEF Init, Sound, SuspensionTold, Fresh, ActsOnCurrent,
     Resumed, InLoop, BeforeCtrl, Starting, Opening
<1>5. QED
  BY <1>1, <1>2, <1>3, <1>4 DEF IInv, Base, Heard

\* All actions but for the history variable overlap.
LEMMA StepKeeps ==
  ASSUME IInv, Open \/ RunStarts \/ RunLoop \/ ScheduleAudioReinit \/ Pausing
               \/ Writer
  PROVE  Keeps
<1>1. CASE Open
  BY <1>1, OpenFirstKeeps, CloseStopsKeeps, CloseCurrentKeeps, OpenRetriesKeeps,
     OpenRestoresKeeps, OpenInstallsKeeps DEF Open
<1>2. CASE RunStarts
  BY <1>2, RunBeginsKeeps, RunReinitsKeeps, RunInitFailsKeeps, RunInitializedKeeps,
     RunReadyKeeps, RunSetsCtrlKeeps, RunPlaysKeeps, RunLooksKeeps, RunSuspendsKeeps,
     RunRecordsSuspendedKeeps, RunSuspendFailsKeeps, RunResumesKeeps,
     RunRecordsResumedKeeps, RunResumeFailsKeeps DEF RunStarts
<1>3. CASE RunLoop
  BY <1>3, RunTakesKeeps, LoadsMP3Keeps, AdaptsKeeps, AdaptFailsKeeps,
     LoopOpenedKeeps, LoopUnsuspendsKeeps, LoopPlaysKeeps, LoopGoesKeeps, LoadsKeeps,
     RunEndsKeeps DEF RunLoop
<1>4. CASE ScheduleAudioReinit \/ Writer
  BY <1>4, BesideRunKeeps
<1>5. CASE Pausing
  BY <1>5, PauseKeeps, PauseReadsCtrlKeeps, PauseReadsReadyKeeps, PauseLooksKeeps,
     PauseResumesKeeps, PauseRecordsResumedKeeps, PauseResumeFailsKeeps,
     PauseSetsKeeps, PauseTestsKeeps, PauseSuspendsKeeps, PauseRecordsSuspendedKeeps,
     PauseSuspendFailsKeeps DEF Pausing
<1>6. QED
  BY <1>1, <1>2, <1>3, <1>4, <1>5

\* What has been said while no Pause ran beside a start is said on: the history of
\* the step is that of its two states.
LEMMA NextKeeps ==
  ASSUME IInv, [Next]_vars
  PROVE  IInv'
<1>1. CASE Next
  <2>1. Keeps
    BY <1>1, StepKeeps DEF Next
  <2>2. ~overlap' => Apart
    BY <1>1 DEF Next, Apart
  <2>3. QED
    BY <2>1, <2>2 DEF Keeps, IInv, Heard
<1>2. CASE UNCHANGED vars
  <2>1. Typed' /\ Devices' /\ RatesKept' /\ FallsBack'
    BY <1>2 DEF IInv, Base, Typed, Devices, RatesKept, FallsBack, Opening,
       Initializing, Looking, vars, lspk, flags, rates, mixer, pause, bounds
  <2>2. ReadyKnown' /\ CtrlOfSession' /\ PauseArrives'
    BY <1>2 DEF IInv, Base, ReadyKnown, CtrlOfSession, PauseArrives, OnItsWay,
       Opening, Initializing, BeforeCtrl, Looking, vars, lspk, flags, rates, mixer,
       pause, bounds
  <2>3. Heard'
    BY <1>2 DEF IInv, Heard, Sound, SuspensionTold, Fresh, ActsOnCurrent, Resumed,
       InLoop, Starting, Opening, Initializing, BeforeCtrl, Looking, vars, lspk,
       flags, rates, mixer, pause, bounds
  <2>4. QED
    BY <2>1, <2>2, <2>3 DEF IInv, Base
<1>3. QED
  BY <1>1, <1>2

LEMMA AlwaysIInv == Spec => []IInv
  BY InitIInv, NextKeeps, PTL DEF Spec

\* Whatever linuxSpeaker.open did, whichever of its two or three opens and the
\* restoring of the old device failed (speaker_linux.go:194-271), Run goes on with no
\* device and no writer, or with one open handle and a writer for it.
THEOREM EveryDeviceIsAccounted == Spec => []DeviceAccounted
<1>1. IInv => DeviceAccounted
  BY DEF IInv, Base, Typed, Devices, DeviceAccounted, Opening
<1>2. QED
  BY <1>1, AlwaysIInv, PTL

\* However Pause (player.go) interleaves with the ctrl that a session makes, plays,
\* clears for another sample rate and plays again, the ctrl in the mixer is paused
\* as the last Pause wanted once that has returned.
THEOREM EveryPauseIsApplied == Spec => []PauseApplied
<1>1. IInv => PauseApplied
  BY DEF IInv, Base, CtrlOfSession, PauseArrives, OnItsWay, PauseApplied
<1>2. QED
  BY <1>1, AlwaysIInv, PTL

\* A device that has been suspended is resumed for whoever plays on it: the flag
\* speakerSuspended tells it, through every failure to suspend or resume and every
\* change of the device, if Pause did not run beside a start.
THEOREM EveryPlayIsHeard == Spec => []PlayIsHeard
<1>1. IInv => PlayIsHeard
  <2>1. run.pc \in {"loop", "load"} /\ ~run.defer => InLoop
    BY DEF InLoop, BeforeCtrl, Initializing, Opening, Looking
  <2>2. QED
    BY <2>1 DEF IInv, Heard, Sound, Resumed, PlayIsHeard
<1>2. QED
  BY <1>1, AlwaysIInv, PTL

\* The handle that is current was opened at a rate of the hardware nearest to the one
\* asked for, and so was the one that open is about to install.
Chosen ==
    /\ at \in [Handles -> Nat]
    /\ pcm # None => pcm \in Handles /\ at[pcm] \in Nearest(sr)
    /\ run.new # None => run.new \in Handles /\ at[run.new] \in Nearest(run.want)

LEMMA OpensNearest ==
  ASSUME Chosen, NEW h \in Handles, NEW rate, AlsaOpens(h, rate)
  PROVE  /\ at' \in [Handles -> Nat] /\ at'[h] \in Nearest(rate)
         /\ \A k \in Handles \ {h} : at'[k] = at[k]
<1>1. PICK r \in Nearest(rate) : at' = [at EXCEPT ![h] = r]
  BY DEF AlsaOpens
<1>2. r \in Nat
  BY ConstantsOK DEF ConstantsOK, Nearest
<1>3. QED
  BY <1>1, <1>2 DEF Chosen

\* Only open opens a handle, and while it has one no track asks for another rate.
LEMMA RestLeavesOpens ==
  ASSUME IInv, RunStarts \/ RunLoop \/ ScheduleAudioReinit \/ Pausing \/ Writer
  PROVE  /\ UNCHANGED <<pcm, sr, at>>
         /\ run'.new # None => run'.new = run.new /\ run'.want = run.want
<1>0. run \in RunRecords /\ (run.new # None => run.pc = "opened" \/ Opening)
  BY RunTyped DEF IInv, Base, Devices, Opening
<1>1. CASE RunStarts
  BY <1>0, <1>1, NowhereTyped DEF RunStarts, RunBegins, RunReinits, RunInitFails,
     RunInitialized, RunReady, RunSetsCtrl, RunPlays, RunLooks, RunSuspends,
     RunRecordsSuspended, RunSuspendFails, RunResumes, RunRecordsResumed,
     RunResumeFails, NotSuspend, Goes, Returns, lspk, RunRecords, Opening
<1>2. CASE RunLoop
  BY <1>0, <1>2, NowhereTyped DEF RunLoop, RunTakes, LoadsMP3, Adapts, AdaptFails,
     DeferFails, LoopOpened, LoopUnsuspends, LoopPlays, LoopChecks, Loads, RunClears,
     RunEnds, Goes, Returns, Nowhere, lspk, RunRecords, Opening
<1>3. CASE ScheduleAudioReinit \/ Writer
  BY <1>3 DEF ScheduleAudioReinit, Writer, WriterChecks, WriterWrites, NotWriter, lspk
<1>4. CASE Pausing
  BY <1>4 DEF Pausing, Pause, PauseReadsCtrl, PauseReadsReady, PauseLooks,
     PauseResumes, PauseRecordsResumed, PauseResumeFails, PauseSets, PauseTests,
     PauseSuspends, PauseRecordsSuspended, PauseSuspendFails, NotPause
<1>5. QED
  BY <1>1, <1>2, <1>3, <1>4

LEMMA OpenKeepsChosen ==
  ASSUME IInv, Chosen, Open
  PROVE  Chosen'
<1>0. /\ run \in RunRecords /\ opened = {pcm, run.new} \ {None}
      /\ (run.pc \in {"open", "retry", "restore"} => run.new = None)
      /\ (run.pc = "retry" \/ run.pc = "restore" => pcm = None)
      /\ (run.pc = "install" => run.new # None)
  BY RunTyped DEF IInv, Base, Devices
<1>1. ASSUME NEW h \in Handles, AlsaOpens(h, run.want), UNCHANGED <<pcm, sr>>,
             run'.new = h, run'.want = run.want
      PROVE  Chosen'
  <2>1. h # pcm
    BY <1>0, <1>1, HandlesTyped DEF AlsaOpens
  <2>2. QED
    BY <1>1, <2>1, OpensNearest DEF Chosen
<1>2. CASE OpenFirst
  <2>1. ASSUME NEW h \in Handles, AlsaOpens(h, run.want),
               run' = [run EXCEPT !.pc = "stop", !.new = h]
        PROVE  Chosen'
    <3>1. run'.new = h /\ run'.want = run.want /\ UNCHANGED <<pcm, sr>>
      BY <1>0, <1>2, <2>1 DEF RunRecords, OpenFirst
    <3>2. QED
      BY <1>1, <2>1, <3>1
  <2>2. CASE UNCHANGED at /\ run'.new = run.new /\ run'.want = run.want
    BY <1>2, <2>2 DEF OpenFirst, Chosen
  <2>3. QED
    BY <1>0, <1>2, <2>1, <2>2 DEF OpenFirst, Goes, RunRecords
<1>3. CASE CloseStops \/ CloseCurrent
  BY <1>0, <1>3 DEF CloseStops, CloseCurrent, Goes, RunRecords, Chosen
<1>4. CASE OpenRetries
  <2>1. ASSUME NEW h \in Handles, AlsaOpens(h, run.want),
               run' = [run EXCEPT !.pc = "install", !.new = h]
        PROVE  Chosen'
    <3>1. run'.new = h /\ run'.want = run.want /\ UNCHANGED <<pcm, sr>>
      BY <1>0, <1>4, <2>1 DEF RunRecords, OpenRetries
    <3>2. QED
      BY <1>1, <2>1, <3>1
  <2>2. CASE UNCHANGED at /\ run'.new = run.new /\ run'.want = run.want
    BY <1>4, <2>2 DEF OpenRetries, Chosen
  <2>3. QED
    BY <1>0, <1>4, <2>1, <2>2 DEF OpenRetries, Goes, RunRecords
<1>5. CASE OpenRestores
  <2>1. run'.new = None
    BY <1>0, <1>5 DEF OpenRestores, Goes, RunRecords
  <2>2. ASSUME NEW h \in Handles, AlsaOpens(h, run.oldSR), pcm' = h, sr' = run.oldSR
        PROVE  Chosen'
    BY <2>1, <2>2, OpensNearest DEF Chosen
  <2>3. CASE UNCHANGED lspk
    BY <2>1, <2>3 DEF Chosen, lspk
  <2>4. QED
    BY <1>5, <2>2, <2>3 DEF OpenRestores
<1>6. CASE OpenInstalls
  BY <1>0, <1>6 DEF OpenInstalls, Goes, RunRecords, Chosen
<1>7. QED
  BY <1>2, <1>3, <1>4, <1>5, <1>6 DEF Open

\* runLoop resamples a track to the rate that the device it plays on was asked for, and
\* the device is at the hardware's rate nearest to that one: also if the change of the
\* rate failed and the old device was restored (adaptSpeakerForTrack, linuxSpeaker.open).
THEOREM EveryRateIsTold == Spec => []RateTold
<1>1. Init => Chosen
  BY NowhereTyped DEF Init, Chosen, Unknown, None
<1>2. IInv /\ Chosen /\ [Next]_vars => Chosen'
  <2> SUFFICES ASSUME IInv, Chosen, [Next]_vars PROVE Chosen'
    OBVIOUS
  <2>1. CASE Open
    BY <2>1, OpenKeepsChosen
  <2>2. CASE RunStarts \/ RunLoop \/ ScheduleAudioReinit \/ Pausing \/ Writer
    BY <2>2, RestLeavesOpens DEF Chosen
  <2>3. CASE UNCHANGED vars
    BY <2>3 DEF Chosen, vars, lspk
  <2>4. QED
    BY <2>1, <2>2, <2>3 DEF Next
<1>3. IInv /\ Chosen => RateTold
  BY DEF IInv, Base, RatesKept, ReadyKnown, Chosen, RateTold
<1>4. QED
  BY <1>1, <1>2, <1>3, AlwaysIInv, PTL DEF Spec

\* With the adaptive sample rate a track of known rate is loaded only after
\* runLoop has seen that there is a device (speakerDeviceAvailable).
THEOREM TracksPlayOnDevices == Spec => []PlaysOnDevice
<1>1. IInv => PlaysOnDevice
  BY DEF IInv, Base, FallsBack, PlaysOnDevice
<1>2. QED
  BY <1>1, AlwaysIInv, PTL

-----------------------------------------------------------------------------
(* The amplifier: the standby timer *)

\* A triggerStandby that no play has raced with runs in silence, and no other
\* timer has been armed since its own fired: clearing standbyTimer, it clears
\* its own.
TriggersOwn ==
    \A t \in Timers :
        Running(t) => raced \/ (~playing /\ \A u \in Timers : timer[u] # "armed")

TimerTyped == timer \in [Timers -> {"free", "armed", "fired", "listing", "sending"}]

CecInv == TimerTyped /\ TimerIsHeld /\ TriggersOwn

\* What the proofs need to know of the steps that leave the timers alone.
timing == <<playing, standbyTimer, timer, raced>>

-----------------------------------------------------------------------------
LEMMA CecInitInv == CecInit => CecInv
  BY DEF CecInit, CecInv, TimerTyped, TimerIsHeld, TriggersOwn, Running

LEMMA TimersAlone ==
  ASSUME CecInv, UNCHANGED timing
  PROVE  CecInv'
  BY DEF timing, CecInv, TimerTyped, TimerIsHeld, TriggersOwn, Running

LEMMA StartsKeeps ==
  ASSUME CecInv, OnPlaybackStarts
  PROVE  CecInv'
<1>1. timer' = [t \in Timers |-> IF t = standbyTimer /\ timer[t] = "armed"
                                 THEN "free" ELSE timer[t]]
  BY DEF OnPlaybackStarts, StopsTimer
<1>2. /\ raced => raced'
      /\ (\E t \in Timers : Running(t)) => raced'
  BY DEF OnPlaybackStarts
<1>3. TimerTyped'
  BY <1>1 DEF CecInv, TimerTyped
<1>4. TimerIsHeld'
  BY <1>1, <1>2 DEF CecInv, TimerTyped, TimerIsHeld
<1>5. TriggersOwn'
  BY <1>1, <1>2 DEF CecInv, TimerTyped, TriggersOwn, Running
<1>6. QED
  BY <1>3, <1>4, <1>5 DEF CecInv

LEMMA StopsKeeps ==
  ASSUME CecInv, OnPlaybackStops
  PROVE  CecInv'
<1>1. PICK t \in Timers : timer[t] = "free" /\ timer' = [timer EXCEPT ![t] = "armed"]
                          /\ standbyTimer' = t
  BY DEF OnPlaybackStops
<1>2. playing /\ ~playing' /\ raced' = raced
  BY DEF OnPlaybackStops
<1>3. TimerTyped'
  BY <1>1 DEF CecInv, TimerTyped
<1>4. TimerIsHeld'
  BY <1>1, <1>2 DEF CecInv, TimerTyped, TimerIsHeld
<1>5. TriggersOwn'
  BY <1>1, <1>2 DEF CecInv, TimerTyped, TriggersOwn, Running
<1>6. QED
  BY <1>3, <1>4, <1>5 DEF CecInv

LEMMA FiresKeeps ==
  ASSUME CecInv, NEW t \in Timers, TimerFires(t)
  PROVE  CecInv'
<1>1. timer[t] = "armed" /\ timer' = [timer EXCEPT ![t] = "fired"]
  BY DEF TimerFires
<1>2. playing' = playing /\ standbyTimer' = standbyTimer /\ raced' = raced
  BY DEF TimerFires, mu
<1>3. TimerTyped'
  BY <1>1 DEF CecInv, TimerTyped
<1>4. TimerIsHeld'
  BY <1>1, <1>2 DEF CecInv, TimerTyped, TimerIsHeld
<1>5. raced \/ (~playing /\ standbyTimer = t)
  BY <1>1 DEF CecInv, TimerIsHeld
<1>6. raced \/ \A u \in Timers : timer'[u] # "armed"
  BY <1>1, <1>5 DEF CecInv, TimerTyped, TimerIsHeld
<1>7. TriggersOwn'
  BY <1>2, <1>5, <1>6, <1>1 DEF CecInv, TimerTyped, TriggersOwn, Running
<1>8. QED
  BY <1>3, <1>4, <1>7 DEF CecInv

LEMMA TriggersKeeps ==
  ASSUME CecInv, NEW t \in Timers, Triggers(t)
  PROVE  CecInv'
<1>1. /\ timer[t] = "fired"
      /\ \E pc \in {"listing", "free"} : timer' = [timer EXCEPT ![t] = pc]
  BY DEF Triggers
<1>2. playing' = playing /\ raced' = raced
  BY DEF Triggers
<1>3. raced \/ (~playing /\ \A u \in Timers : timer[u] # "armed")
  BY <1>1 DEF CecInv, TriggersOwn, Running
<1>4. TimerTyped'
  BY <1>1 DEF CecInv, TimerTyped
<1>5. TimerIsHeld'
  BY <1>1, <1>2, <1>3 DEF CecInv, TimerTyped, TimerIsHeld
<1>6. TriggersOwn'
  BY <1>1, <1>2, <1>3 DEF CecInv, TimerTyped, TriggersOwn, Running
<1>7. QED
  BY <1>4, <1>5, <1>6 DEF CecInv

\* The rest of triggerStandby only goes on or returns.
LEMMA StandbyGoesOn ==
  ASSUME CecInv, NEW t \in Timers, Lists(t) \/ SendsStandby(t)
  PROVE  CecInv'
<1>1. /\ timer[t] \in {"listing", "sending"}
      /\ \E pc \in {"sending", "free"} : timer' = [timer EXCEPT ![t] = pc]
      /\ playing' = playing /\ standbyTimer' = standbyTimer /\ raced' = raced
  BY DEF Lists, SendsStandby, mu
<1>2. TimerTyped'
  BY <1>1 DEF CecInv, TimerTyped
<1>3. TimerIsHeld'
  BY <1>1 DEF CecInv, TimerTyped, TimerIsHeld
<1>4. TriggersOwn'
  BY <1>1 DEF CecInv, TimerTyped, TriggersOwn, Running
<1>5. QED
  BY <1>2, <1>3, <1>4 DEF CecInv

LEMMA WakeLeavesTimers ==
  ASSUME NEW w \in Wakes, Wake(w)
  PROVE  UNCHANGED timing
  BY DEF Wake, WakeQueries, WakePresses, WakeFinds, WakeAnnounced, WakeOwns,
         WakeAsks, WakeHearsNothing, WakeSeeds, mu, standby, timing

LEMMA ApplyLeavesTimers ==
  ASSUME NEW a \in Appliers, Apply(a)
  PROVE  UNCHANGED timing
  BY DEF Apply, ApplyBegins, ApplyRefers, ApplyTakes, ApplyPresses, ApplyFails,
         ApplyEnds, mu, standby, timing

LEMMA CecStepKeeps == CecInv /\ [CecNext]_cecVars => CecInv'
<1> SUFFICES ASSUME CecInv, [CecNext]_cecVars
             PROVE  CecInv'
  OBVIOUS
<1>1. CASE OnPlaybackStarts
  BY <1>1, StartsKeeps
<1>2. CASE OnPlaybackStops
  BY <1>2, StopsKeeps
<1>3. ASSUME NEW t \in Timers, Standby(t)
      PROVE  CecInv'
  BY <1>3, FiresKeeps, TriggersKeeps, StandbyGoesOn DEF Standby
<1>4. ASSUME NEW w \in Wakes, Wake(w)
      PROVE  CecInv'
  BY <1>4, WakeLeavesTimers, TimersAlone
<1>5. ASSUME NEW a \in Appliers, Apply(a)
      PROVE  CecInv'
  BY <1>5, ApplyLeavesTimers, TimersAlone
<1>6. ASSUME NEW v \in Volumes, OnVolume(v)
      PROVE  CecInv'
  <2>1. UNCHANGED timing
    BY <1>6 DEF OnVolume, mu, standby, timing
  <2>2. QED
    BY <2>1, TimersAlone
<1>7. CASE OtherTakesOver \/ UNCHANGED cecVars
  <2>1. UNCHANGED timing
    BY <1>7 DEF OtherTakesOver, mu, standby, timing, cecVars
  <2>2. QED
    BY <2>1, TimersAlone
<1>8. QED
  BY <1>1, <1>2, <1>3, <1>4, <1>5, <1>6, <1>7 DEF CecNext

\* However many stops and plays there have been, the one timer that can still
\* fire is the one that the next play will cancel (cec.go:93-117).
THEOREM NoTimerEscapes == CecSpec => []TimerIsHeld
<1>1. CecInv => TimerIsHeld
  BY DEF CecInv
<1>2. QED
  BY CecInitInv, CecStepKeeps, <1>1, PTL DEF CecSpec

\* The amplifier goes to standby under the music only if playback began while
\* a triggerStandby was running (cec.go:473-513).
THEOREM NoStandbyUnderMusic == CecSpec => StandbyHasReason
<1>1. CecInv /\ [CecNext]_cecVars =>
          [\A t \in Timers : SendsStandby(t) /\ playing => raced]_cecVars
  BY DEF CecInv, TriggersOwn, Running, SendsStandby
<1>2. QED
  BY CecInitInv, CecStepKeeps, <1>1, PTL DEF CecSpec, StandbyHasReason

-----------------------------------------------------------------------------
(* The volume: who holds volMu, and what it still owes the amplifier *)

Applying == [pc : {"free", "begin", "lock", "press"}, new : Int, reset : BOOLEAN,
             from : Int, steps : Nat]

Waking == [pc : {"free", "query", "press", "find", "announced", "own", "ask", "seed"},
           vol : Int]

VolumeTyped ==
    /\ applier \in [Appliers -> Applying]
    /\ wake \in [Wakes -> Waking]
    /\ lastQobuzVol \in Int /\ volReset \in BOOLEAN

\* volMu has one holder.
OneApplier ==
    \A a, b \in Appliers :
        applier[a].pc = "press" /\ applier[b].pc = "press" => a = b

\* While keys are pressed lastQobuzVol is what all of them will make; the
\* amplifier is as many steps away from where it was as there were presses.
PressesCounted ==
    \A a \in Appliers :
        /\ applier[a].pc \in {"begin", "lock"} => applier[a].steps = 0
        /\ applier[a].pc = "press" =>
            /\ lastQobuzVol = applier[a].new
            /\ owed = applier[a].from + Direction(a) * applier[a].steps
            /\ applier[a].steps <= Steps(a)

VInv == VolumeTyped /\ OneApplier /\ PressesCounted /\ VolumeInStep

\* Direction is a sign, and Steps a distance.
LEMMA PressesReach ==
  ASSUME VolumeTyped, NEW a \in Appliers
  PROVE  /\ Direction(a) \in {1, -1} /\ Steps(a) \in Nat
         /\ applier[a].from + Direction(a) * Steps(a) = applier[a].new
<1>1. applier[a].new \in Int /\ applier[a].from \in Int
  BY DEF VolumeTyped, Applying
<1>2. CASE applier[a].new > applier[a].from
  <2>1. Direction(a) = 1
    BY <1>2 DEF Direction
  <2>2. Steps(a) = applier[a].new - applier[a].from
    BY <1>1, <2>1 DEF Steps
  <2>3. QED
    BY <1>1, <1>2, <2>1, <2>2
<1>3. CASE ~(applier[a].new > applier[a].from)
  <2>1. Direction(a) = -1
    BY <1>3 DEF Direction
  <2>2. Steps(a) = applier[a].from - applier[a].new
    BY <1>1, <2>1 DEF Steps
  <2>3. QED
    BY <1>1, <1>3, <2>1, <2>2
<1>4. QED
  BY <1>2, <1>3

LEMMA IdleTyped ==
  /\ Idle \in Applying /\ Idle.pc = "free" /\ Idle.steps = 0
  /\ [pc |-> "free", vol |-> 0] \in Waking
  BY DEF Idle, Applying, Waking

LEMMA InitVInv == CecInit => VInv
<1> SUFFICES ASSUME CecInit PROVE VInv
  OBVIOUS
<1>1. VolumeTyped
  <2>1. applier \in [Appliers -> Applying]
    BY IdleTyped DEF CecInit
  <2>2. wake \in [Wakes -> Waking]
    BY IdleTyped DEF CecInit
  <2>3. lastQobuzVol = -1 /\ volReset \in BOOLEAN
    BY DEF CecInit
  <2>4. QED
    BY <2>1, <2>2, <2>3 DEF VolumeTyped
<1>2. QED
  BY <1>1, IdleTyped DEF CecInit, VInv, OneApplier, PressesCounted, VolumeInStep

LEMMA VolumeAlone ==
  ASSUME VInv, UNCHANGED volume, volReset' \in BOOLEAN,
         wake' \in [Wakes -> Waking]
  PROVE  VInv'
<1>1. \A a \in Appliers : Direction(a)' = Direction(a) /\ Steps(a)' = Steps(a)
  BY DEF volume, Direction, Steps
<1>2. PressesCounted'
  BY <1>1 DEF VInv, PressesCounted, volume
<1>3. QED
  BY <1>2 DEF VInv, VolumeTyped, OneApplier, VolumeInStep, volMuFree, volume

\* An applier that is not pressing does anything but take volMu.
LEMMA ApplierAlone ==
  ASSUME VInv, NEW a \in Appliers, NEW r \in Applying,
         applier[a].pc # "press", r.pc # "press", r.steps = 0 \/ r.pc = "free",
         applier' = [applier EXCEPT ![a] = r],
         volReset' \in BOOLEAN, UNCHANGED <<lastQobuzVol, owed, wake>>
  PROVE  VInv'
<1>1. VolumeTyped'
  BY DEF VInv, VolumeTyped
<1>2. \A b \in Appliers : \/ b = a /\ applier'[b] = r
                          \/ b # a /\ applier'[b] = applier[b]
  <2>1. applier \in [Appliers -> Applying]
    BY DEF VInv, VolumeTyped
  <2>2. QED
    BY <2>1
<1>3. OneApplier'
  <2>1. \A b \in Appliers : applier'[b].pc = "press" => applier[b].pc = "press"
    BY <1>2
  <2>2. QED
    BY <2>1 DEF VInv, OneApplier
<1>4. \A b \in Appliers : applier'[b] = applier[b] =>
          Direction(b)' = Direction(b) /\ Steps(b)' = Steps(b)
  BY DEF Direction, Steps
<1>5. PressesCounted'
  BY <1>2, <1>4 DEF VInv, PressesCounted
<1>6. volMuFree' => volMuFree
  <2>1. \A b \in Appliers : applier[b].pc = "press" => applier'[b] = applier[b]
    BY DEF VInv, VolumeTyped
  <2>2. QED
    BY <2>1 DEF volMuFree
<1>7. QED
  BY <1>1, <1>3, <1>5, <1>6 DEF VInv, VolumeInStep

LEMMA BeginsKeeps ==
  ASSUME VInv, NEW a \in Appliers, ApplyBegins(a)
  PROVE  VInv'
<1> DEFINE r == [applier[a] EXCEPT !.pc = "lock", !.reset = volReset]
<1>1. r \in Applying /\ r.pc # "press" /\ applier[a].pc # "press" /\ r.steps = 0
  BY DEF ApplyBegins, VInv, VolumeTyped, Applying, PressesCounted
<1>2. /\ applier' = [applier EXCEPT ![a] = r]
      /\ volReset' \in BOOLEAN /\ UNCHANGED <<lastQobuzVol, owed, wake>>
  BY DEF ApplyBegins, VInv, VolumeTyped
<1> HIDE DEF r
<1>3. QED
  BY <1>1, <1>2, ApplierAlone

\* A goroutine of OnVolume begins.
LEMMA OnVolumeKeeps ==
  ASSUME VInv, NEW v \in Volumes, OnVolume(v)
  PROVE  VInv'
<1> DEFINE s == [Idle EXCEPT !.pc = "begin"]
           r == [s EXCEPT !.new = v]
<1>1. PICK a \in Appliers : /\ applier[a].pc = "free"
                            /\ applier' = [applier EXCEPT ![a] = r]
  BY DEF OnVolume
<1>2. r \in Applying /\ r.pc # "press" /\ r.steps = 0
  <2>1. s \in Applying /\ s.pc = "begin" /\ s.steps = 0 /\ v \in Int
    BY IdleTyped, CecConstantsOK DEF Applying, CecConstantsOK
  <2> HIDE DEF s
  <2>2. QED
    BY <2>1 DEF Applying
<1>3. volReset' \in BOOLEAN /\ UNCHANGED <<lastQobuzVol, owed, wake>>
  BY DEF OnVolume, mu, VInv, VolumeTyped
<1> HIDE DEF r
<1>4. QED
  BY <1>1, <1>2, <1>3, ApplierAlone

\* No applier holds volMu: any of them may set the reference.
LEMMA ReferenceKeeps ==
  ASSUME VInv, volMuFree, NEW v \in Int, lastQobuzVol' = v, owed' = v,
         \A a \in Appliers : applier'[a] \in {Idle, applier[a]},
         applier' \in [Appliers -> Applying], volReset' \in BOOLEAN,
         wake' \in [Wakes -> Waking]
  PROVE  VInv'
<1>1. \A a \in Appliers : applier'[a].pc # "press"
  BY IdleTyped DEF volMuFree
<1>2. PressesCounted'
  BY <1>1, IdleTyped DEF VInv, PressesCounted
<1>3. QED
  BY <1>1, <1>2 DEF VInv, VolumeTyped, OneApplier, VolumeInStep

LEMMA RefersKeeps ==
  ASSUME VInv, NEW a \in Appliers, ApplyRefers(a)
  PROVE  VInv'
<1>2. /\ applier' \in [Appliers -> Applying]
      /\ \A b \in Appliers : applier'[b] \in {Idle, applier[b]}
  BY IdleTyped DEF ApplyRefers, VInv, VolumeTyped
<1>3. applier[a].new \in Int
  BY DEF VInv, VolumeTyped, Applying
<1>4. /\ volMuFree /\ volReset' \in BOOLEAN
      /\ lastQobuzVol' = applier[a].new /\ owed' = applier[a].new
      /\ wake' \in [Wakes -> Waking]
  BY DEF ApplyRefers, VInv, VolumeTyped, mu
<1>5. QED
  BY <1>2, <1>3, <1>4, ReferenceKeeps

LEMMA SeedsKeeps ==
  ASSUME VInv, NEW w \in Wakes, WakeSeeds(w)
  PROVE  VInv'
<1>1. /\ volMuFree /\ wake[w].vol \in Int
      /\ lastQobuzVol' = wake[w].vol /\ owed' = wake[w].vol
      /\ applier' = applier /\ volReset' = volReset
  BY DEF WakeSeeds, VInv, VolumeTyped, mu, Waking
<1>2. wake' \in [Wakes -> Waking]
  BY IdleTyped DEF WakeSeeds, WakeEnds, VInv, VolumeTyped
<1>3. QED
  BY <1>1, <1>2, ReferenceKeeps DEF VInv, VolumeTyped, volMuFree

LEMMA TakesKeeps ==
  ASSUME VInv, NEW a \in Appliers, ApplyTakes(a)
  PROVE  VInv'
<1> DEFINE r == [applier[a] EXCEPT !.pc = "press", !.from = lastQobuzVol]
<1>1. /\ applier' = [applier EXCEPT ![a] = r] /\ lastQobuzVol' = applier[a].new
      /\ volMuFree /\ applier[a].pc = "lock" /\ UNCHANGED <<volReset, wake, owed>>
  BY DEF ApplyTakes, mu
<1>2. /\ r \in Applying /\ r.pc = "press" /\ r.steps = 0 /\ r.new = applier[a].new
      /\ r.from = lastQobuzVol /\ r.new \in Int /\ lastQobuzVol = owed
  BY <1>1 DEF VInv, VolumeTyped, VolumeInStep, PressesCounted, Applying
<1> HIDE DEF r
<1>3. VolumeTyped'
  BY <1>1, <1>2 DEF VInv, VolumeTyped
<1>4. \A b \in Appliers : \/ b = a /\ applier'[b] = r
                          \/ b # a /\ applier'[b] = applier[b] /\ applier[b].pc # "press"
  BY <1>1 DEF VInv, VolumeTyped, volMuFree
<1>5. OneApplier' /\ ~volMuFree'
  BY <1>2, <1>4 DEF OneApplier, volMuFree
<1>6. Direction(a)' \in {1, -1} /\ Steps(a)' \in Nat
  <2>1. applier'[a].new \in Int /\ applier'[a].from \in Int
    BY <1>3 DEF VolumeTyped, Applying
  <2>2. CASE applier'[a].new > applier'[a].from
    BY <2>1, <2>2 DEF Direction, Steps
  <2>3. CASE ~(applier'[a].new > applier'[a].from)
    BY <2>1, <2>3 DEF Direction, Steps
  <2>4. QED
    BY <2>2, <2>3
<1>7. PressesCounted'
  <2>1. owed' = applier'[a].from + Direction(a)' * applier'[a].steps
    BY <1>1, <1>2, <1>4, <1>6 DEF VInv, VolumeTyped
  <2>2. applier'[a].steps <= Steps(a)'
    BY <1>2, <1>4, <1>6
  <2>3. QED
    BY <1>1, <1>2, <1>4, <2>1, <2>2 DEF VInv, PressesCounted
<1>8. QED
  BY <1>3, <1>5, <1>7 DEF VInv, VolumeInStep

LEMMA PressesKeeps ==
  ASSUME VInv, NEW a \in Appliers, ApplyPresses(a)
  PROVE  VInv'
<1> DEFINE r == [applier[a] EXCEPT !.steps = @ + 1]
<1>1. /\ applier' = [applier EXCEPT ![a] = r] /\ owed' = owed + Direction(a)
      /\ applier[a].pc = "press" /\ applier[a].steps < Steps(a)
      /\ UNCHANGED <<volReset, wake, lastQobuzVol>>
  BY DEF ApplyPresses, mu, VInv, VolumeTyped
<1>2. /\ r \in Applying /\ r.pc = "press" /\ r.steps = applier[a].steps + 1
      /\ r.new = applier[a].new /\ r.from = applier[a].from
  BY <1>1 DEF VInv, VolumeTyped, Applying
<1> HIDE DEF r
<1>3. VolumeTyped'
  BY <1>1, <1>2 DEF VInv, VolumeTyped
<1>4. \A b \in Appliers : \/ b = a /\ applier'[b] = r
                          \/ b # a /\ applier'[b] = applier[b] /\ applier[b].pc # "press"
  BY <1>1 DEF VInv, VolumeTyped, OneApplier
<1>5. OneApplier' /\ ~volMuFree'
  BY <1>2, <1>4 DEF OneApplier, volMuFree
<1>6. Direction(a)' = Direction(a) /\ Steps(a)' = Steps(a)
  BY <1>2, <1>4 DEF Direction, Steps
<1>7. PressesCounted'
  <2>1. /\ Direction(a) \in {1, -1} /\ Steps(a) \in Nat
        /\ applier[a].steps \in Nat /\ applier[a].from \in Int
    BY PressesReach DEF VInv, VolumeTyped, Applying
  <2>2. /\ owed = applier[a].from + Direction(a) * applier[a].steps
        /\ lastQobuzVol = applier[a].new
    BY <1>1 DEF VInv, PressesCounted
  <2>3. owed' = applier[a].from + Direction(a) * (applier[a].steps + 1)
    BY <1>1, <2>1, <2>2
  <2>4. applier[a].steps + 1 <= Steps(a)
    BY <1>1, <2>1
  <2>5. QED
    BY <1>1, <1>2, <1>4, <1>6, <2>2, <2>3, <2>4 DEF VInv, PressesCounted
<1>8. QED
  BY <1>3, <1>5, <1>7 DEF VInv, VolumeInStep

\* The holder of volMu gives it back, the volume being what it has made of it.
LEMMA ApplyReturnsKeeps ==
  ASSUME VInv, NEW a \in Appliers, ApplyFails(a) \/ ApplyEnds(a)
  PROVE  VInv'
<1>1. /\ applier' = [applier EXCEPT ![a] = Idle] /\ applier[a].pc = "press"
      /\ UNCHANGED <<volReset, wake, owed>>
  BY DEF ApplyFails, ApplyEnds, mu
<1>2. lastQobuzVol' = owed /\ owed \in Int
  <2>1. /\ Direction(a) \in {1, -1} /\ Steps(a) \in Nat
        /\ applier[a].from + Direction(a) * Steps(a) = applier[a].new
        /\ applier[a].steps \in Nat /\ applier[a].from \in Int
    BY PressesReach DEF VInv, VolumeTyped, Applying
  <2>2. /\ owed = applier[a].from + Direction(a) * applier[a].steps
        /\ lastQobuzVol = applier[a].new
    BY <1>1 DEF VInv, PressesCounted
  <2>3. owed \in Int
    BY <2>1, <2>2
  <2>4. CASE ApplyFails(a)
    BY <2>2, <2>3, <2>4 DEF ApplyFails
  <2>5. CASE ApplyEnds(a)
    BY <2>1, <2>2, <2>3, <2>5 DEF ApplyEnds
  <2>6. QED
    BY <2>4, <2>5
<1>3. \A b \in Appliers : \/ b = a /\ applier'[b] = Idle
                          \/ b # a /\ applier'[b] = applier[b] /\ applier[b].pc # "press"
  BY <1>1 DEF VInv, VolumeTyped, OneApplier
<1>4. VolumeTyped'
  BY <1>1, <1>2, IdleTyped DEF VInv, VolumeTyped
<1>5. OneApplier' /\ PressesCounted'
  BY <1>3, IdleTyped DEF VInv, OneApplier, PressesCounted
<1>6. QED
  BY <1>1, <1>2, <1>4, <1>5 DEF VInv, VolumeInStep

\* The rest leaves the volume alone.
LEMMA WakeKeepsVolume ==
  ASSUME VInv, NEW w \in Wakes, Wake(w), ~WakeSeeds(w)
  PROVE  VInv'
<1>1. UNCHANGED volume /\ volReset' = volReset
  BY DEF Wake, WakeQueries, WakePresses, WakeFinds, WakeAnnounced, WakeOwns,
         WakeAsks, WakeHearsNothing, mu
<1>2. wake' \in [Wakes -> Waking]
  <2>1. CASE WakeAsks(w)
    <3>1. PICK v \in AmpVolumes : wake' = [wake EXCEPT ![w] = [pc |-> "seed", vol |-> v]]
      BY <2>1 DEF WakeAsks
    <3>2. [pc |-> "seed", vol |-> v] \in Waking
      BY CecConstantsOK DEF CecConstantsOK, Waking
    <3>3. QED
      BY <3>1, <3>2 DEF VInv, VolumeTyped
  <2>2. CASE WakeHearsNothing(w)
    BY <2>2, IdleTyped DEF WakeHearsNothing, WakeEnds, VInv, VolumeTyped
  <2>3. CASE ~WakeAsks(w) /\ ~WakeHearsNothing(w)
    <3>1. PICK to \in {"press", "find", "announced", "own", "ask"} :
              wake' = [wake EXCEPT ![w].pc = to]
      BY <2>3 DEF Wake, WakeQueries, WakePresses, WakeFinds, WakeAnnounced, WakeOwns,
                  WakeGoes
    <3>2. QED
      BY <3>1 DEF VInv, VolumeTyped, Waking
  <2>4. QED
    BY <2>1, <2>2, <2>3
<1>3. QED
  BY <1>1, <1>2, VolumeAlone DEF VInv, VolumeTyped

LEMMA OthersKeepVolume ==
  ASSUME VInv, \/ OnPlaybackStarts \/ OnPlaybackStops \/ OtherTakesOver
               \/ UNCHANGED cecVars \/ \E t \in Timers : Standby(t)
  PROVE  VInv'
<1>1. UNCHANGED volume /\ volReset' \in BOOLEAN
  BY DEF OnPlaybackStarts, OnPlaybackStops, OtherTakesOver, Standby, TimerFires,
         Triggers, Lists, SendsStandby, mu, volume, cecVars, VInv, VolumeTyped
<1>2. wake' \in [Wakes -> Waking]
  <2>1. CASE OnPlaybackStarts
    BY <2>1 DEF OnPlaybackStarts, VInv, VolumeTyped, Waking
  <2>2. CASE ~OnPlaybackStarts
    BY <2>2 DEF OnPlaybackStops, OtherTakesOver, Standby, TimerFires, Triggers,
                Lists, SendsStandby, cecVars, VInv, VolumeTyped
  <2>3. QED
    BY <2>1, <2>2
<1>3. QED
  BY <1>1, <1>2, VolumeAlone

LEMMA VolumeStepKeeps == VInv /\ [CecNext]_cecVars => VInv'
<1> SUFFICES ASSUME VInv, [CecNext]_cecVars
             PROVE  VInv'
  OBVIOUS
<1>1. ASSUME NEW a \in Appliers, Apply(a)
      PROVE  VInv'
  BY <1>1, BeginsKeeps, RefersKeeps, TakesKeeps, PressesKeeps, ApplyReturnsKeeps
     DEF Apply
<1>2. ASSUME NEW w \in Wakes, Wake(w)
      PROVE  VInv'
  BY <1>2, SeedsKeeps, WakeKeepsVolume
<1>3. QED
  BY <1>1, <1>2, OnVolumeKeeps, OthersKeepVolume DEF CecNext

\* However many applyVolumes and wakeAmps there are, lastQobuzVol is the last
\* reference and the key presses the amplifier got since (applyVolume, cec.go:564-605).
THEOREM VolumeIsInStep == CecSpec => []VolumeInStep
<1>1. VInv => VolumeInStep
  BY DEF VInv
<1>2. QED
  BY InitVInv, VolumeStepKeeps, <1>1, PTL DEF CecSpec
=============================================================================
