# Verification of gobz-connect

TLA+ models of the concurrent core of gobz-connect, a Qobuz Connect renderer
in Go, with the TLC runs that check them on small instances and TLAPS proofs of
the facts that hold for every size. Paths below are relative to
`src/cmd/gobz-connect/`.

- [1. The system](#1-the-system): components, state, interactions, what is hard
- [2. The modules](#2-the-modules): what each one models, and how
- [3. The runs](#3-the-runs): questions, bounds, fairness
- [4. The proofs](#4-the-proofs)
- [5. Disagreements](#5-disagreements) between code and what it says of itself
- [6. Not modelled](#6-not-modelled)
- [7. Plan](#7-plan)

How to run: `tlc -config <run>.cfg <module>` and `tlapm <module>.tla` in this
directory. `PROJECT.json` lists runs, the source lines behind each definition,
the hazards, and for each property a plausible bug that breaks it. The
definitions whose comment begins with "A bug:" are those bugs; no specification
uses them.

## 1. The system

An app on the local network finds the renderer by mDNS and hands it credentials
over HTTP. The renderer then opens a WebSocket to the Qobuz server, which sends
it the play queue and the state to be in; it fetches metadata and file URLs over
the web API, downloads tracks to a disk cache, decodes them while they are still
arriving, and plays them without gaps.

    mdns.go ──handleAppConnect──> token gate ──closes/waits──> API callers
                                     │ Reconnect                  ▲
                                     v                            │
    server <──WebSocket──> WsManager ──messages──> message handler (stream.go)
                                                     │ AddTracks…   │ Run/Stop/Restart
                                                     v              v
              loader (Queue.Run) ──preloads──> Queue ──ConsumeTrack──> Player.runLoop
                     │ EnsureDownload                         │ Open      │ slots
                     v                                        v           v
                 TrackCache <─────────── download goroutines    speaker callback

| Component | State | Operations | Talks to |
|---|---|---|---|
| Track queue (queue.go) | `refs`, `shuffledIndexes`, `index`, `preloaded`, `pendingStartMs`, `fetchedAutoplay`, `expandedCache`; `mu`, `preloadedMu`, `notifyCh` | loader `Run`; `ConsumeTrack`; `AddTracks`, `DeleteAllTracks`, `DeleteTracksByQueueItemID`, `DeleteAutoplayTracks`, `SetIndex`, `SetStartAt`, `ConsumeQueueState` | called by player and handler; calls cache and API |
| Player session (player.go) | `running`, `stopWanted`, `stopCh`, `queueExhausted`, `deviceUnavailable`, `currentTrack`, the two slots of `gaplessQueue`, `advanceCh` | `Run`, `Restart`, `Stop`, `Pause`, `runLoop`, `Stream` (callback), `handleTrackAdvance`, `handleSeekPoll`, `sendState` | queue, cache, speaker, server |
| Message handler (stream.go) | `isActive`, `awaitingRendererState`, `pendingQueueLoad`, queue version | one case per server message | queue, player |
| Track cache (cache.go) | `active`, `pending`, `concCount`, files; per download `written`, `done`, `err`; per reader `pos`, `closed` | `EnsureDownload`, `Open`, download goroutines, `evict`; `Read`, `Seek`, `Close` | disk, network |
| WebSocket manager (ws.go) | `conn`, `isConnected`, `reconnectNow`, `coldReconnectUntil` | `Run`, `Reconnect`, `ColdReconnect`, `Stop`, `SendBatch` | server, token function |
| Token gate (stream.go, api.go) | `jwt_api` and expiry, `tokenExpiredCh`, `coldReconnectDone`, `wsReadyCh` | `waitForValidToken`, `giveUpOnExpiredToken`, `handleAppConnect`, the token function | every API call |
| ALSA speaker (speaker_linux.go) | PCM handle and rate; `stopCh`, `doneCh`; the mixer | `open`, `closeCurrent`, `writeLoop`, suspend, resume | called by Run and Pause; pulls from the callback |
| HDMI-CEC (cec.go) | `playing`, `setAsSource`, standby timer, volume reference | `OnPlayback`, `wakeAmp`, `triggerStandby`, `OnVolume` | called by the handler; asks the player to reinitialise |
| The rest | none, or a configuration | HTTP server, API client, protobuf encoding, device selection, secrets | |

What makes it hard. There are no tests in the repository, and most of the code
is goroutines that meet through flags, channels of capacity one or two, and two
mutexes per component:

- *Atomicity.* Stop sets a flag and then sends a token; Run clears both in
  other steps. DeleteAllTracks clears refs and preloaded under two locks, one
  after the other. evict looks at a file and removes it much later.
- *Stale state.* ConsumeTrack finds its previous track by address in a window
  that a snapshot may just have rebuilt. runLoop acts on a slot count read
  under a lock that it has released. Open opens what it found before it let go
  of `tc.mu`.
- *Lost wake-ups.* The loader looks at the queue only when notified; readers
  sleep on a condition variable that is broadcast after its mutex is released;
  API callers sleep on a channel that is replaced at each expiry.
- *Crashes.* The cache directory is the only thing that survives a restart.
- *Late echoes.* The server repeats what the renderer last reported, also after
  a new queue has been loaded or the old one has ended; the handler has three
  flags to tell an echo from an order.
- *Partial failure.* A device must be closed to be reopened at another rate, and
  neither the open nor the way back need succeed; a volume change is as many key
  presses, of which any may fail.
- *Retries and timeouts.* An app that may never come back, a cold reconnect
  that must not happen twice, a reconnect signal that meets no delay.

What correctness means, per component: the queue plays in order and its loader
never rests over work; a session is unique, heard in order, ended by its own
Stops only and by every one of them; a download has one writer, its slot is given
back, and an incomplete file is not taken for a whole one; a reader sees no byte
that is not there and no end that is not the end; nobody sleeps over fresh
credentials, and the connection is made again; a new queue is played, from its
own positions, and an ended one is left alone; who wants music and has a device
hears it, resampled to the rate that device was asked for; the amplifier sleeps
after a stop and not under music.

## 2. The modules

| Module | Models | Source |
|---|---|---|
| PlayCursor | what the queue promises the player | abstract; queue.go's ConsumeTrack |
| TrackQueue | the queue and its three users; implements PlayCursor | queue.go 98–262, 395–865, stream.go's queue messages |
| QueueLocks | the two mutexes of the queue | queue.go, every critical section |
| Gapless | one session of runLoop | player.go 20–115, 655–935, 1069–1096 |
| PlayerLifecycle | sessions: Run, Restart, Stop | player.go 256–332, 465–650, stream.go's calls of Run, Restart and Stop |
| TrackCache | downloads, pending queue, eviction, restart | cache.go 170–490 |
| StreamingReader | reading a file that is being downloaded | cache.go 20–135, player.go's speaker lock |
| Connection | WsManager.Run, the token gate, app connects | ws.go 105–330, stream.go 240–315, 348–530 |
| Renderer | which messages start, restart, stop and place the player | stream.go 704–1196, player.go's Restart and Run |
| AlsaSpeaker | the device, its rate, pause and suspend | speaker_linux.go, player.go 204–253, 335–388, 436–444, 465–650, 763–846 |
| CecManager | the amplifier: wake, standby, volume | cec.go 91–144, 150–262, 325–513, 564–608 |
| StopSignals | stopWanted and stopCh, which Gapless and PlayerLifecycle share | player.go |
| MC… | definitions for TLC: track numbers, symmetry | |
| …_proofs | theorems (section 4); TrackQueue_proofs is about TrackQueue and PlayCursor, Player_proofs about Gapless and PlayerLifecycle, Devices_proofs about AlsaSpeaker and CecManager | |

One action is one critical section, one channel or atomic operation, or one
call on a file or the network: the places where another goroutine can come in
between. Every module names its bounds in its CONSTANTS ("bound: …") and
assumes no more of them than the source gives.

**PlayCursor.** A sequence, a cursor in it, and what stands at the cursor: a track
`chosen` to be handed out, the one handed out last (`held`), or nothing in
particular. `Looks`, `Gives` and `Retries` are ConsumeTrack, `Appends`, `Moves`
and `Clears` the messages. There is no window, no loader and no object identity:
that ConsumeTrack moves by exactly one per track handed out is what prevTrack,
found by its address in a list that the loader fills and snapshots rebuild, is
there to achieve.

**TrackQueue.** Variables carry the source's names; `tracks` is the heap of
`QueueTrack` objects behind the addresses in `preloaded`, because identity
matters: `prevTrack` is found by address, and a track dropped from the window
while the loader works on it goes on changing state. `Collect` frees what
nothing points to. The loader is a program counter plus its private copy of the
window (`loader.batch`, queue.go:225); the consumer is where it is in
ConsumeTrack, with `prev`, the front track it read under the lock and looks at
afterwards, and, as history, the item handed out last (`last`; forgotten
whenever a message moves the cursor on purpose). The handler is `ws`: a message
whose code has two critical sections takes two steps. `AddTracks` is the whole
function with its duplicate search and renumbering; `Reordered` is
reorderPreloaded, `Grown` growShuffleIndexes, `Inserted` is AddTracks' loop over the new items
and `Deleted` the one of DeleteTracksByQueueItemID, of which `Insert` and `Delete`
are one round. An index of -1 used on a slice ends the process
(`panicked`). Left open: which new items the server sends (any run of those not
in refs), which permutation a snapshot is shuffled by, which items a removal names
and in which order, what a fetch answers, the order of messages. The refinement
mapping to PlayCursor: the play order is refs read through shuffledIndexes, the
cursor `index`; a track is chosen or held at the cursor as long as its object
is in the window.

**QueueLocks.** The same sections, reduced to which mutex is taken outside,
which inside, and which fields are touched under each. `Begin`, `LockOuter`,
`WantInner`, `LockInner`, `UnlockInner`, `UnlockOuter` are the steps of any
section of any goroutine.

**Gapless.** `loop.pc` follows runLoop from check to check: three stop checks
around ConsumeTrack, the wait for a sample-rate boundary, buffering, loading,
the count of the slots, the wait for a free one, the drain. The callback's
`Stream` pops an exhausted slot and starts a goroutine (`advances`), which sets
`currentTrack`, reports, and signals `advanceCh` without blocking. Each wait
also ends by a timeout of 100 or 200 ms, the third branch of `Waits`. `heard` is history.

**PlayerLifecycle.** Every access to an atomic flag in Run's preamble and tail
is a step; runLoop in between is reduced to how it ends. `running` is taken by
CompareAndSwap and given back by the deferred store (`Returns`). `Flags` and
`Sends` are the two steps of Stop, whoever calls it. History variables record
whether this session saw the queue's end (`ranOut`), met a Stop (`issued`), and
has a Stop that it has not yet answered (`unheard`).

**TrackCache.** `file` is what the directory holds ("partial" or "whole"),
`active`, `pending`, `concCount` are the fields of TrackCache, `download` the
goroutines. `Starts` is startDownloadLocked, `Finishes` the section that
unregisters a download and starts the next pending one. evict is a scan, entry
by entry, and a removal, file by file, as in the code. `Crash` loses
everything but `file`. `refused` is history: the last look at the pending queue took
an entry whose file could not be created.

**StreamingReader.** The download goroutine writes, then counts under
`dl.mu`, then broadcasts; a reader tests, sleeps, is woken, tests again, reads
the file with the mutex released, and moves. Three goroutines use readers:
runLoop while it decodes, then the callback and the seek poller under the
speaker lock (`mixMu`), which closeAll needs too. It composes what cache.go
promises with how player.go uses it.

**Connection.** `run` follows WsManager.Run and connectAndRun; `calls` follows
each goroutine inside waitForValidToken, Run's token function and
handleAppConnect's own call of the API among them. Time is reduced to what is
tested: `overdue` (tokenWaitTimeout has passed), `cold` (coldReconnectUntil is
in the future). A token request (`answer`) is answered, refused (`TokenComes`), or
neither: nothing in the code bounds it. `session` is the app whose credentials the
connection was made with; `reached` and `missed` record what the last Reconnect found.

**Renderer.** One message is one step up to the next place where the session or a
goroutine of Restart makes a difference: QueueTracksLoaded has three (delete;
add; set the flag and stop), SetState two (the block that reads IsRunning above
and the one that reads it again below). The queue is its cursor, its start
position and a load number that tells the items of one queue from the same ids
in another; `held` says that ConsumeTrack will move past the track at the
cursor. `go Run()` and Restart are goroutines that come to it late (`runner`).
The server is external and says what it likes; of positions it says 0, one in
the queue loaded last, or, until its first SetState after a load, one in the
queue before (stream.go:925, 1148). `Advances` sets currentTrack late and in any
order, as the goroutines of onAdvance do. `begun`, `ranOut` and `due` are history.

**AlsaSpeaker.** `run` follows Run, adaptSpeakerForTrack and open from call to
call, with open's failures: device busy, open fails, restoration fails. `Pause`
is a handler that reads the flags one by one between Run's stores, as the code
does. `hw` is the set of handles paused in hardware, `paused` is ctrl.Paused,
`played` says that ctrl is in the mixer. `sr` is the rate that was asked for when the
current handle was opened, which is all the code knows; `at` is the rate ALSA opened
each handle at, one of the hardware's (`HwRates`, the same for as long as the program
runs) that is nearest to it, as snd_pcm_hw_params_set_rate_near promises. `overlap`
and `refused` are history: Pause met the start of a session, the device would not
resume. writeLoop looks at stopCh (`WriterChecks`) and writes without blocking
(`WriterWrites`), to a device that takes the samples or, paused or not draining, does
not; what it streams from is the mixer, which Run has cleared (player.go:346, 638)
before it opens a device, so that no callback is asleep in it then.

**CecManager.** Each timer and each wakeAmp is a process; OnPlayback, the section
of triggerStandby, of wakeAmp's end and of applyVolume are the steps, under `mu`
or `volMu` as in the code, and each call on the bus is a step between them.
`amp` and `elsewhere` are the world: the amplifier on or in standby, another
source active. `raced` and `owed` are history: a play came after a timer had
fired, and the volume reference plus the presses received since.

*Composition.* TrackQueue and QueueLocks describe the same sections of queue.go:
the race freedom that QueueLocks checks and proves is what allows TrackQueue to
take a section as one step. Gapless takes ImplementsPlayCursor for granted, with
what TrackQueue_proofs derives from it (ConsumeTrack returns 1, 2, 3, …).
PlayerLifecycle reduces Gapless to its StopEndsSession and SessionEnds, and
StreamingReader puts cache.go's readers under the slots of Gapless. Definitions of
modules that share a proof module are named apart (LifeSpec, CecSpec). Renderer takes PlayerLifecycle's sessions with Stop as
one step, and TrackQueue's queue as PlayCursor's cursor; what its handlers ask of
Pause and OnPlayback are the calls that AlsaSpeaker and CecManager leave open,
and Restart after ScheduleAudioReinit is one of AlsaSpeaker's sessions.

## 3. The runs

Passing runs:

| Run | Question | Instance | Distinct states |
|---|---|---|---|
| queue_playback | does the queue implement a play order read from a cursor, is its window aligned, its loader at rest only when done, and does ConsumeTrack return? | 4 items (1 and 3 the same track), 3 messages among append, state, seek, load, clear, stop; batches of 2; fetches may fail; deadlock checked | 361 k |
| queue_refs | does the play order come to each item of the queue exactly once, whatever edits it sees? | 3 items, 3 messages among insert, remove, state, shuffle, autoplay, start; batches of 2, or the one left; removals that name items in any order; snapshots shuffled as `Shuffles` says, here by a reversal or a rotation | 1.8 M |
| locks | do the two mutexes protect the fields, and what can block everyone? | loader, consumer, 2 handlers (symmetric) | 7 k |
| gapless | is one session playable, in order, complete, and does it end? | 3 tracks, 1 seek, pauses and a stop at any time | 112 k |
| player_sessions | are sessions unique, and are stops and exhaustion of the session they belong to? | 3 goroutines, 5 messages | 92 k |
| cache_downloads | are slots, writers, partial files and pending requests accounted for? | 3 keys, 3 downloads, 1 background slot, room for 1 file, 4 calls, 1 restart, os.Create may fail | 1.3 M |
| reader | does reading behind a download lose no wake-up, no byte, no end, no stop? | 2 readers, 3 blocks, 2 seeks | 117 k |
| connection | does nobody sleep over credentials, does every wait for a token end, what escapes Reconnect, does Stop end Run, is the connection made again? | 1 caller, 2 app connects | 405 k |
| renderer | does an old position get into a new queue, an echo revive an ended one, and is a new queue played? | items 0 and 1, 2 loads, 5 messages, 2 goroutines of Run and Restart | 405 k |
| speaker | is the device accounted for, paused as wanted, heard, and is a track resampled to the rate its device was asked for? does open end beside a device that takes nothing? | tracks of 44 and 96, hardware with 44 and 48, 2 handles, 2 sessions, 3 first tracks, 2 pauses, 1 hotplug | 2.9 M |
| cec | does the amplifier sleep after a stop and not under music, and is its volume the one it was led to? | 2 timers, 2 wakeAmps, 4 plays and stops, 2 volume messages, another source once | 621 k |

The run queue_remove ends in a counterexample, the first disagreement of section 5.
Four more configurations do so, for the next four; they are not in `PROJECT.json` and
are run by hand:

| Configuration | Module | Property | What TLC finds |
|---|---|---|---|
| queue_remove.cfg | MCTrackQueue | NoPanic | a removal at position 0, and an access at index -1 |
| queue_insert.cfg | MCTrackQueue | RelabelsSameTrack | refs 1, 3, 2 over a window of 1, 2: the new number of 3 goes to 2 |
| cache_restart.cfg | MCTrackCache | HitsAreWhole | a process that dies in a download, and a hit on what it left |
| cache_refused.cfg | MCTrackCache | SlotsAreUsed | a file that cannot be created, and a request beside a free slot |
| speaker_rate.cfg | AlsaSpeaker | RateIsExact | a track of 96 on hardware with 44 and 48 |

Two more disagreements have their property in a module, to be put into a cfg in place
of the properties there: PopEnds (locks.cfg) and StopIsHeard (player_sessions.cfg).
Type invariants (`TypeOK`) are in most
modules, too, and are not among the properties of the runs: where a module has
proofs, they are part of what is proved.

Why the bounds are enough. Four items exceed the window of three, so the window
slides, and two of them are the same track, which AddTracks' duplicate search
and renumbering need. Three messages allow edit – edit – snapshot, and the steps
of the loader and the consumer come freely in between. Two handlers are what a
reconnect can produce; the proofs cover more. Three tracks fill both slots with
one waiting. Three sessions allow one ending, one waiting in Restart and one
losing the CompareAndSwap; five messages are two more than a
play–stop–play cycle needs. With one background slot and three keys there is
always a request pending while another runs and playback starts a third. Two
readers on one download are a track that comes twice; three blocks let one be
behind, at and (after a Seek) ahead of the frontier. Two app connects let the
second one meet every state the first one left. Two loads make one queue the
"before" of another, and five messages are load – state – load – state and one
more; two items let the cursor move, two goroutines let a Restart and a Run
compete. Two sessions of the speaker let one find what the other left, two
handles are what a reopening needs at a time, and three first tracks let the
rate change, fail to change and change again; of their two rates the hardware has one
and has not got the other, and 44 and 96 have different nearest rates, so that a track
at the rate of a device that is gone is told from one at its own. Two timers and two wakeAmps are a
stop–play–stop during which the first of each is still under way.

Parts of the state space that runs leave out on purpose, because the property
does not hold there (section 5): WindowAligned, RestingLoaderIsDone and
ImplementsPlayCursor are checked without insertions between preloaded tracks,
without removals, cut-backs of autoplay tracks and shuffles of a queue that
plays, and RestingLoaderIsDone without expired tokens. All runs but queue_playback
have no deadlock check: sessions end, processes stop, or messages reach their
bound. locks has a real deadlock (section 5), so OnlyPopBlocks states
where it may be instead.

Fairness, and why the code justifies it:

| Module | Assumed | Because |
|---|---|---|
| TrackQueue | WF of the loader, of SessionStarts and of Consume, of a handler's second step | goroutines are scheduled, sleeps are timed; the server need not send anything. That a fetch of the loader returns is an assumption about the web API: api.go:342 has no timeout (section 5) |
| QueueLocks | WF inside a section, SF for taking a mutex | Go's mutex hands over to a starving waiter |
| Gapless | WF of runLoop (opening and decoding a track included), of advances, of the second step of Stop; SF of the callback (it runs only unpaused, and pauses may come again and again); SF of a wait's stop branch | a `select` chooses among ready branches at random; a timer cannot always be first. That a track's bytes come, or that its download fails, is an assumption about the network, as in StreamingReader |
| PlayerLifecycle | WF of each goroutine's own steps; none for QueueEnds, DeviceLost, PlayedOut | those depend on the world and on pauses |
| TrackCache | WF of the end of a download whose transfer is over (`Finishes`) and of os.Open; none for the transfer, for callers and evict | these steps are local. A transfer has no timeout (cache.go:375, 389) and may never end; that it does is a hypothesis of PendingServed (DownloadsEnd), where it can be read |
| StreamingReader | WF of goroutines, SF where a mutex is asked for, and the network delivers or fails | without the last one StopEndsReading fails (section 5) |
| Renderer | WF of the handler's later steps, of Run's preamble and tail, of each goroutine; none for messages, TakesNext, Advances, QueueEnds | goroutines are scheduled; a track may be paused for ever |
| AlsaSpeaker | WF of writeLoop's looks and writes and of open; none for Pause, the tracks, the sessions | the PCM is opened with SND_PCM_NONBLOCK (speaker_linux.go:45), so a write returns and a wait for room takes 5 ms at most; stopCh is looked at before each (313). For the same reason snd_pcm_drain (266) is taken to return at once. That the device takes samples is not assumed |
| CecManager | WF of timers and goroutines; a timer outlasts the wakeAmps under way when it was armed | the delay is a number of minutes (cec.go:65), and the sleeps of wakeAmp add up to half a minute |
| Connection | WF of timers and goroutines, of a dial's end; an up connection ends if it was closed or the context is cancelled; none for the answer to a token request | a dial has a timeout of 10 s (ws.go:221), a closed socket makes its reader return. A token request has neither timeout nor context (api.go:356): StopEndsRun excepts a Run that waits for its answer for ever, and that the server answers requests and grants dials again and again is the hypothesis of Reconnects (ServerAnswers) |

What each property says is stated above it in its module.

## 4. The proofs

All are of the form `Spec => []Inv`, or an action property that follows from such
an invariant, for every value of the constants, from the modules' own ASSUMEs
by an inductive invariant that TLC confirmed first. The theorems about TrackQueue
say beside it which messages they are about.

**QueueLocks_proofs.** `IInv` ties `holder` to the phases: whoever is past a Lock
holds that mutex (HoldersAgree), a mutex has one reason to be held (HeldByOne),
and a goroutine is in one of its own sections (InSection). NoDataRace alone is
not inductive, since it says nothing of holders. From it, `SectionsSound` (each
field has a guard that each section touching it takes) gives
*DataRaceFreedom*, and a case analysis of who waits for whom gives
*OnlyPopDeadlocks*: with any number of handlers the nesting in ConsumeTrack is
the only obstacle to deadlock freedom; taking mu before preloadedMu there would
remove it.

**Player_proofs** has two invariants, for two specifications.

*Gapless.* SlotsPlayable, HeardInOrder and NothingCutOff need one another and,
beyond them, what connects the callback to runLoop: what runLoop found in the slots
under a lock it has released still holds when it acts on it, since only the callback
takes tracks out (RoomLeft); the track it holds is later than all that is heard or
in a slot (HoldsLast, Ordered); every track that was loaded is heard, in a slot, in
runLoop's hands, or a Stop was made (Accounted); and a token in stopCh means a set
flag (StopTold), so that a session can leave its loop over full slots only for a
Stop. Lemmas on the elements of Append and Tail stand in front. Results:
*SlotsArePlayable*, *IsHeardInOrder*, *NothingIsCutOff*, for any number of tracks
and seeks.

*PlayerLifecycle.* `LifeInv` adds to OneSession that a goroutine inside Run
means `running`, and from which step of Run's preamble on each flag is clean
(FlagIsFresh, TokenIsFresh, ExhaustionIsCleared): the properties speak of the
loop only, but are established three steps before it. EndsHaveCause carries the
reason a session left its loop to its tail. Results: *SingleSession*,
*StopsAreFresh*, *ExhaustionIsFresh*, and the action property
*ExhaustionHasCause*. They hold with the defect of section 5.7: that one makes a
Stop too weak, never a session stop for the wrong reason.

**Connection_proofs.** `Inv` needs, beyond the properties, that a waiting call
means an open channel and an open channel an expired token; that Run past its
dial has a connection (HasConnection); and that an older session is marked as
missed already while the connection is being made (MakesKnown), before it is
up (StaysKnown). Results: *TypeCorrect*, *SleepersAreReached*, *MarkIsTrue*,
*LastAppConnects*, for any number of API callers and app connects.

**TrackQueue_proofs** is about the queue while the server appends, loads, clears,
seeks, sets a start position and sends snapshots in queue order, in any number, and
while fetches fail as they like: PlainMessages excludes insertions, removals,
cut-backs of autoplay tracks and shuffles, each of which breaks the window
(section 5). `IInv` has the alignment in a form that also speaks of the middle of
things:
- Aligned: the k-th preloaded track is the k-th item from `index`, except between
  the sections of DeleteAllTracks, and the window does not reach past the queue;
- InFront: the consumer's `prev` and the track it looks at are, if preloaded at all,
  in the first two places, `prev` before the other, and ConsumerKnows says which
  item that is; so a pop takes the track that has been handed out, and moves by one;
- QueueUnique and AddsNew: an item is in refs once, which reorderPreloaded needs to
  find the track it looks for;
- LiveIsTrack and InQueueOrder: what is pointed to is not collected; without shuffles
  the play order is that of refs.

Each of the loader's, the consumer's and the handler's actions has its lemma, and
three frame lemmas (LoaderFrame, ConsumerFrame, HandlerFrame) say what an action of
that goroutine need not be asked about. The window a snapshot rebuilds is given by
Realigned. Result: *WindowStaysAligned*.

The refinement maps, step by step: a pop with the read behind it to Looks (or, in
a queue being cleared, LooksIntoClear); ConsumeTrack's return to Gives, its sleep
to Retries, a session's end to Ends; AppendTracks, and a snapshot that extends the
queue, to Appends; the two sections of DeleteAllTracks to Clears and Cleared; a
state of the server to Moves; all of the loader, and the handler's first steps, to
a stutter. Result: *QueueIsPlayCursor*. Of PlayCursor itself, HandsOutInOrder speaks
of two hand-outs, and its invariant CursorInv has to carry from one to the next
where the cursor is: a chosen item is the one at the cursor, a held track is the one
handed out last and at the cursor, and whoever has moved past it stands right behind
it; nothing is known while the queue is being cleared. Results: *CursorIsKnown*,
*InPlayOrder*, and through the refinement *QueuePlaysInOrder*.

*RestingLoaderHasDone* has a second invariant, LoaderKnows, on top of `IInv`: until
the next token, what the loader has not yet settled is what its copy of the window
still holds (Settled), and the window is full (FilledUp). It assumes that no fetch
fails for want of a token, which puts a track back without waking the loader
(section 5).

What does not depend on the order of play is proved for every message. `Edits` says
that the shuffle is a permutation, items are unique, those a message is about to add
are new (AddsNew), and that the cursor is an integer. The steps of the loader and the
consumer leave the queue alone but for that cursor (EditsStay); of the handler's, an
insertion and a removal repeat a round, and `Inserted` and `Deleted` are therefore
recursive functions. A recursive definition says nothing until the function is known
to exist: InsertsExist and DeletesExist show that by the least n for which it would
not, InsertedIs and DeletedKeeps then go round by round in the same way, with what is
left of the message in the hypothesis (InsertKeeps: the items still to come are not
in the queue). That a round keeps the permutation is CutPermutes, for the renumbering
after a removal, and ExtendedPermutes, for growShuffleIndexes; that it keeps items
unique is RemovedUnique, PutUnique and ReplacedUnique, the last for a duplicate that
gets a new number. From the two, PlaysOnce: the play positions and the positions of
refs are in one-to-one correspondence, within the shuffle by its being a permutation
and behind it because there they are equal. Results: *ShuffleStaysPermutation*,
*ItemsStayUnique*, and from both *EveryItemPlaysOnce*. The shuffles
a snapshot brings are assumed to be permutations (ConstantsOK): ConsumeQueueState
copies them as they come. With `Contained`, the cursor of a server that removes nothing
is a natural number (loader, consumer and handler only move it up, or to a position):
*OnlyRemovalsPanic*: NoPanic, which queue_remove violates, holds then, and the panic of
section 5.1 is the only one.

**Devices_proofs** is about the two devices behind the player.

*AlsaSpeaker.* `IInv` says what each pc of Run and Pause knows. Of the handles, what
open owns at each of its steps (Devices): the current handle has a writer, a new one
is in `run.new` until it is installed, and nothing else is open. Of the rates, which
of sr, speakerSR, speakerInitSR, oldSR and loopSR agree where (RatesKept), that
after a failed change there is a device before a track is loaded at its rate
(FallsBack), and that each open handle runs at a rate of the hardware nearest to the
one it was asked for (Chosen): sr is not the rate of the device, and RateTold claims no
more than that the track, and nobody's older request, decided which one it is. Of the
flags, that speakerInitialized is known in a session that does not defer speakerInit
(ReadyKnown). Of the ctrl, that it is paused as wanted or the
Pause that wants it is on its way (PauseArrives). These hold however the goroutines
meet. What is said of the hardware does not (section 5, player.go:591), so the last
part, Sound, is under the history variable: until a Pause has run beside a start, a
paused handle is one that speakerSuspended tells of, except between the call of ALSA
and the store, and is never the new one. Each action's lemma shows the parts without
it for every step, and Sound for a step that no Pause ran beside (Apart); only
NextKeeps joins them. Results: *EveryDeviceIsAccounted*, *EveryPauseIsApplied*,
*EveryPlayIsHeard*, *EveryRateIsTold*, *TracksPlayOnDevices*.

*CecManager, standby.* `CecInv` adds to TimerIsHeld (an armed timer is the one in
standbyTimer, and nothing plays) what the step property needs to know of a
triggerStandby under way, TriggersOwn: one that no play raced with runs in silence,
and no other timer has been armed since it fired, so that by clearing standbyTimer
it clears its own. *NoTimerEscapes* is the invariant, *NoStandbyUnderMusic* the step
property: a triggerStandby that sends the amplifier to sleep under music was
overtaken by that play, which set `raced`.

*CecManager, volume.* VolumeInStep says nothing while volMu is held; `VInv` does:
one applyVolume holds it (OneApplier), lastQobuzVol is already the volume it is to
reach, and the amplifier is as many steps from where it was as keys were pressed
(PressesCounted), which is what a failed press puts into lastQobuzVol. PressesReach
is the arithmetic: all the presses make the difference. Result: *VolumeIsInStep*.

**Renderer_proofs.** For *QueuesStartFresh*: a start position of another load can
be set only by a RendererStateUpdated or a SetState while the server still
echoes; then awaitingRendererState is set or about to be (EchoesAreAwaited), and
SetState's first part keeps the flag's old value for its second, so that the
positions kept are new (PositionsAreNew). The invariant holds at every place
between the load and the start, the two middles of QueueTracksLoaded included.
For *EndIsFinal*: from the end of the queue until the next session or Stop, the
session is in its tail or the player is marked exhausted (EndIsMarked).

**StreamingReader_proofs.** `IInv` says whose call is under way on which reader:
the callback's and the poller's under the speaker lock and on the front slot,
runLoop's on the reader it decodes (Locked); that reader was opened after all
those in the slots, so it is in none of them (Ordered); hence two goroutines are
never in calls on one reader (the lemma UsersApart), and what a call has found
under dl.mu is still so when it acts on it (Found, with Announced about the
download's three numbers). Results: *WakeUpsArrive*, *ReadsAreCovered*,
*EndsAreTrue*, for any number of readers, seeks and blocks.

**TrackCache_proofs.** `IInv` adds to the three properties that an ended download
left its file whole or absent (EndedIsWhole): its goroutine still has to leave
`active`, and only this says the key may then pass for a finished one. OneWriter is
needed beside it, or the end of one download would vouch for another's file. The
slots are counted with FiniteSetTheorems over the set of counted downloads, and the
pending entry that is started is the least index SequencesExt's SelectInSeq
promises, by well-foundedness of <. Results: *NoTwoWriters*, *SlotsAreCounted*,
*FilesAreWhole*, for any number of keys, downloads, slots, calls and restarts.

Model-checked only: every liveness property (fairness and ENABLED are out of the
prover's reach). Each safety invariant and action property of a passing run is stated
by a theorem; those about the window of TrackQueue are proved for the kinds of
messages that queue_playback sends, too, and for any number of them.

## 5. Disagreements

Where the code does something else than its comments, or its own logic,
expect. The first five have a configuration that ends in a counterexample; the next
two name the property that fails.

1. *queue.go:637* (queue_remove, NoPanic). Removing the track at position 0 while
   the cursor is there takes `index` to -1; the next access is out of range.
2. *queue.go:533* (queue_insert, RelabelsSameTrack). AddTracks gives the number of a
   duplicate at refs[j] to preloaded[j-index]. After an insertion between preloaded
   tracks (queue.go:554) that is another track, which gets the number instead, against
   queue.go:522 and 528.
3. *cache.go:240* (cache_restart, HitsAreWhole). A download has its final name
   from the start; after a crash the partial file is a cache hit, against cache.go:228.
4. *cache.go:334* (cache_refused, SlotsAreUsed). If the file of a pending download
   cannot be created, the rest of the pending queue stays, beside a free slot, until
   another background download ends, against cache.go:199. (PendingServed: unless the
   last look at the queue was such a one and nothing runs.)
5. *speaker_linux.go:53* (speaker_rate, RateIsExact). alsa_open drops the rate ALSA
   chose, and `s.sr` (244) is the one asked for: with hardware that has not got it,
   the music runs at the wrong speed, against speaker_linux.go:35 and 17. (RateTold:
   the nearest rate of the hardware to the one the track is resampled to.)
6. *queue.go:435* (PopEnds). ConsumeTrack takes mu inside
   preloadedMu, everyone else the other way round.
7. *player.go:484* (StopIsHeard). Run sets `running` first and clears
   `stopWanted` and `stopCh` later; a Stop in between is erased, and the player
   plays on although the handler saw IsRunning and called Stop.

Met while modelling, and why a property is stated as it is:

Queue
- queue.go:554: AddTracks inserts into refs between tracks that are preloaded
  already and leaves the window as it was; the inserted track is not played
  next. (WindowAligned, ImplementsPlayCursor: without insertions.)
- queue.go:423: ConsumeTrack reads fetchedAutoplay under no lock, which Run (220) and
  ClearPreloaded's section of DeleteAllTracks (589) write under preloadedMu and
  DeleteAutoplayTracks (602) under both: a data race. expandedCache is appended to
  under mu (244), cleared under preloadedMu (588), and read under both (210) or mu
  (800): another. State and the other fields of a QueueTrack are written by the loader
  (234–384) and read by ConsumeTrack (468) and runLoop under none. QueueLocks is
  about the five fields that have a common mutex; TrackQueue takes an access to any of
  these as a step that sees the last value written.
- queue.go:839: a snapshot whose shuffle puts another track at the cursor makes
  reorderPreloaded move the playing track behind it; ConsumeTrack then takes
  prevTrack out of the middle of the window and advances `index` over the other
  one, which is not played. (WindowAligned, ImplementsPlayCursor: without shuffles
  of a queue that plays.)
- queue.go:644: a removal does not notify the loader; the window stays short
  until something else does. (RestingLoaderIsDone: without removals.)
- queue.go:656: `index` is a play position to its readers, but SetIndex stores a
  position of refs, and the removal compares it with one; with a shuffle order
  another track is selected.
- queue.go:584: between the two sections of DeleteAllTracks, ConsumeTrack may pop
  and advance the cursor of the emptied queue: the next queue starts at its
  second track.
- queue.go:680: a start position set while nothing is preloaded waits for the
  next track to be preloaded, whichever that is by then.
- queue.go:257: after "no valid token" a track is put back as queued and nothing
  wakes the loader for it. (RestingLoaderIsDone: without token failures.)
- queue.go:423: while fetchedAutoplay is set ConsumeTrack only sleeps; if the
  request was dropped (queue.go:834, connection down) it does so until a
  message resets the flag. (ConsumeTerminates: without autoplay.)

Player
- player.go:897: a stop between loading a track and enqueuing it leaves the
  streamer open.
- player.go:903: onAdvance goroutines may finish in the wrong order, and runLoop
  sets currentTrack from a count that the callback has made stale: CurrentTrack
  may differ from the track that plays.
- player.go:1081: the seek poller seeks slot 0 on behalf of a track it read
  before the callback advanced.
- player.go:628: a Stop whose token, but not its flag, survived Run's preamble
  ends the session as if the queue had run out. (ExhaustedHasCause names it.)
- stream.go:1137: IsRunning is still true in Run's tail, so an explicit play that
  arrives then starts nothing.
- player.go:639 with cache.go:128: the callback sleeps in Read under the speaker
  lock; closeAll, whose Close would wake it, needs that lock. With a stalled
  network a stop does not end the session. (StopEndsReading: the network
  delivers or fails.)

Message handler
- stream.go:1076: the first SetState after a load, met by the old session on its
  way to the load's Stop, starts the new queue only if it takes the Restart
  branch. With no current track, the same item at position 0, "previous" or no
  item at all it does not, and stream.go:1124–1126 says that no other message
  will come. (NewQueueStarts: what the handler set out to play.)
- player.go:313 with stream.go:1048: SetIndex to the item that the running session
  holds, then Restart: before the goroutine's Stop the old session may consume
  once more, and the new one starts an item further. (NewQueueStarts: unless a
  session still on its way takes a track.)
- stream.go:965: a state of another renderer sets index and start position, also
  while awaitingRendererState keeps off our own; and the Restart branch (1048)
  leaves a start position set earlier.
- player.go:384: onAmpWake restarts the player whether or not it is active; so
  does a Restart that SetActive(false) overtakes.
- stream.go:1071: the Restart branch does not call OnPlayback(true), and the end
  of the queue, QueueCleared and RemoveRenderer do not call OnPlayback(false),
  against cec.go:91.

Speaker
- player.go:340: once the device is lost, a track whose rate is p.speakerSR makes
  adaptSpeakerForTrack return at once; no later play reopens the device, against
  player.go:266–270 ("playback resumes automatically"). (PlaysOnDevice: it is not
  played to no device either.)
- player.go:591: Run reads ctrl.Paused without the lock and suspends later; a
  Pause(false) in between leaves the hardware suspended under music. Likewise
  speakerSuspended.Store(false) after a reopening (366) beside Pause(true).
  (PlayIsHeard: unless the two met.)
- speaker_linux.go:164: Pause uses a handle that open may be closing.
- speaker_linux.go:217: a restored device is a fresh one, but speakerSuspended
  keeps its value.
- player.go:769: with the rate of the first track unknown the deferred speakerInit
  is not made, and the track plays to nothing; PauseApplied, PlayIsHeard: not
  while speakerInit is deferred.
- player.go:737: the wait at a boundary of rates does not look at
  speakerAdaptFailed, although player.go:135–139 says that boundaries are skipped
  then.

HDMI-CEC
- cec.go:104: Stop of a timer that has fired does nothing: a play at that moment
  gets the standby, and triggerStandby forgets the timer of the next stop.
  (StandbyHasReason, StopEndsInStandby: unless that happened.)

Cache
- cache.go:243: the file found under tc.mu may be gone, or evicted, when it is
  opened after tc.mu is released; a new download may have begun it again, and
  then the partial file is read as a whole one.
- cache.go:484: evict looks at `active` while it lists and removes later: it may
  remove the file of a download begun since.
- cache.go:375: neither the request nor the read of its body (389) has a timeout: a
  transfer that stalls keeps its slot, its entry in `active` and its readers, until
  TCP gives it up, if ever. (PendingServed: if downloads end.)

Connection and web API
- api.go:342, 356: no request has a timeout or a context. One that the server accepts
  and never answers keeps its caller: the loader, and with it ConsumeTrack
  (ConsumeTerminates: fetches return); handleAppConnect; and WsManager.Run, which
  Stop's cancel does not reach there, although "Stop shuts down the WsManager
  permanently" (ws.go:165). (StopEndsRun: unless Run waits for that answer for ever;
  WaitIsBounded is about waitForValidToken, not about the request after it.)
- ws.go:186: Reconnect during a token request or a dial closes the old connection
  or none; the one being made stays up with older credentials.
  (OnlyDialsAreMissed says that this is the only way.)
- ws.go:142: a signal left in reconnectNow cuts a later delay, or the cold hold,
  short.
- stream.go:410: a call that times out just as the app connects cold-reconnects
  the connection made with the fresh credentials.
- stream.go:405: with jwt_api expired, the token function waits as well, so the
  reconnection announced by ColdReconnect ends in another wait for the app.
  (Reconnects: with credentials that stay valid.)

## 6. Not modelled

- What writeLoop writes, recovery from underruns, the give-up of a period stuck
  for two seconds (a write that the device goes on refusing), two Pauses at once (the
  handlers of an old and a new connection may overlap), hardware whose rates change
  with a hotplug, the 3 s cooldown after a lost device (PlayerLifecycle has it
  as a choice).
- The position arithmetic and the heartbeat of sendState; the quality messages of
  stream.go; an empty queue that adopts a QueueState snapshot in Renderer
  (TrackQueue has it).
- libcec, the audio status reports and drainChannels; people who switch the
  amplifier by hand; an amplifier that ignores keys.
- SendBatch and its mutex; authenticated mode's session heartbeat; concurrent
  HTTP calls of handleAppConnect (modelled one after another).
- proto.go, api.go, scraper.go, sign.go, secrets.go, config.go, main.go, mdns.go,
  audio device selection: pure I/O, formatting or encoding without state that
  outlives a call. What an API call may answer is a choice in TrackQueue and
  Connection.
- Queue.Stop and the end of the process, except for the cache.

## 7. Plan

Order so far: queue (most state, most interleavings), locks, session, sessions,
cache, reader, connection; then amplifier, speaker, message handler, and the
abstract queue. Next:

1. *PlaybackPosition*: sendState's positions: a reported position is one of the
   track reported, and does not run back while playing.
2. *TrackQueue_proofs*: what the window still is under insertions and removals (its
   tracks are in the queue or about to be dropped); TypeOK for every message.
3. SendBatch in Connection; concurrent app connects.
