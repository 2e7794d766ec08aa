----------------------------- MODULE TrackCache -----------------------------
(***************************************************************************)
(* The on-disk track cache (cache.go): the queue's loader asks for         *)
(* background downloads (EnsureDownload), the player opens tracks (Open),  *)
(* each download is a goroutine of its own, and evict removes old files.   *)
(* One action is one section of tc.mu, or one call on the file system.     *)
(* All files have the same size; which old file goes first is left open,   *)
(* and so is whether a download succeeds.                                  *)
(***************************************************************************)
EXTENDS Integers, SequencesExt

CONSTANTS
    Keys,         \* cache keys: a track in a format
    Downloads,    \* download goroutines
    MaxConc,      \* tc.maxConc
    MaxFiles,     \* tc.maxBytes, in files
    MaxCalls,     \* bound: calls of EnsureDownload and Open
    MaxCrashes,   \* bound: restarts of the process
    CreateMayFail \* os.Create may fail (a full or read-only disk)

ASSUME ConstantsOK ==
    /\ IsFiniteSet(Downloads)
    /\ MaxConc \in Nat \ {0} /\ MaxFiles \in Nat
    /\ MaxCalls \in Nat /\ MaxCrashes \in Nat /\ CreateMayFail \in BOOLEAN

VARIABLES
    file,      \* what is on disk under each key
    active,    \* the keys in tc.active
    pending,   \* tc.pending, by key
    concCount, \* tc.concCount
    download,  \* each download goroutine: where it is, its key, counted
    reader,    \* the player inside Open
    evictor,   \* evict: entries to look at, files it may remove, their total
    calls,     \* calls of EnsureDownload and Open so far
    crashes,   \* restarts so far
    refused    \* history: the last drain of tc.pending could not create its file

NoKey == "no key"
Free == [pc |-> "free", key |-> NoKey, counted |-> FALSE]
Resting == [pc |-> "idle", at |-> NoKey, todo |-> {}, files |-> {}, total |-> 0]
Away == [pc |-> "idle", key |-> NoKey]

cache == <<active, pending, concCount, download, refused>>
vars == <<file, active, pending, concCount, download, reader, evictor, calls,
          crashes, refused>>

Init ==
    /\ file = [k \in Keys |-> "absent"]
    /\ active = {} /\ pending = <<>> /\ concCount = 0
    /\ download = [d \in Downloads |-> Free]
    /\ reader = Away /\ evictor = Resting
    /\ calls = 0 /\ crashes = 0 /\ refused = FALSE

-----------------------------------------------------------------------------
(* startDownloadLocked *)

\* A bug: a download that playback waits for takes a background slot as well.
StartsCounting(k, d, counted, conc) ==
    /\ download[d] = Free
    /\ file' = [file EXCEPT ![k] = "partial"]
    /\ active' = active \cup {k}
    /\ concCount' = conc + 1
    /\ download' = [download EXCEPT ![d] =
                        [pc |-> "fetch", key |-> k, counted |-> counted]]
    /\ UNCHANGED refused

\* The file is created, the download registered, its goroutine d started;
\* conc is the count of slots in use before.
Starts(k, d, counted, conc) ==
    /\ download[d] = Free
    /\ file' = [file EXCEPT ![k] = "partial"]
    /\ active' = active \cup {k}
    /\ concCount' = IF counted THEN conc + 1 ELSE conc
    /\ download' = [download EXCEPT ![d] =
                        [pc |-> "fetch", key |-> k, counted |-> counted]]
    /\ UNCHANGED refused

StartFails ==
    /\ CreateMayFail
    /\ UNCHANGED <<file, active, concCount, download, refused>>

\* A bug: only the disk is asked whether a download is needed.
WantedOnDisk(k) == file[k] = "absent"

Wanted(k) == k \notin active /\ file[k] = "absent"

-----------------------------------------------------------------------------
(* EnsureDownload *)

Calls == calls < MaxCalls /\ calls' = calls + 1

EnsureNothing(k) ==
    /\ ~Wanted(k) \/ k \in ToSet(pending)
    /\ UNCHANGED <<file, cache>>

EnsureStarts(k) ==
    /\ Wanted(k) /\ k \notin ToSet(pending) /\ concCount < MaxConc
    /\ StartFails \/ \E d \in Downloads : Starts(k, d, TRUE, concCount)
    /\ UNCHANGED pending

EnsureQueues(k) ==
    /\ Wanted(k) /\ k \notin ToSet(pending) /\ concCount >= MaxConc
    /\ pending' = Append(pending, k)
    /\ UNCHANGED <<file, active, concCount, download, refused>>

EnsureDownload(k) ==
    /\ Calls
    /\ EnsureNothing(k) \/ EnsureStarts(k) \/ EnsureQueues(k)
    /\ UNCHANGED <<reader, evictor, crashes>>

-----------------------------------------------------------------------------
(* Open: a section of tc.mu, then the file is opened *)

OpenHits(k) ==
    /\ k \notin active /\ file[k] # "absent"
    /\ reader' = [pc |-> "hit", key |-> k]
    /\ UNCHANGED <<file, cache>>

OpenAttaches(k) ==
    /\ k \in active
    /\ reader' = [pc |-> "attach", key |-> k]
    /\ UNCHANGED <<file, cache>>

\* Playback goes first: no background slot is needed.
OpenStarts(k) ==
    /\ Wanted(k)
    /\ pending' = RemoveFirst(pending, k)
    /\ \/ StartFails /\ UNCHANGED reader
       \/ /\ \E d \in Downloads : Starts(k, d, FALSE, concCount)
          /\ reader' = [pc |-> "attach", key |-> k]

Open(k) ==
    /\ Calls /\ reader = Away
    /\ OpenHits(k) \/ OpenAttaches(k) \/ OpenStarts(k)
    /\ UNCHANGED <<evictor, crashes>>

\* os.Open, an error if the file is gone by now.
OpensFile ==
    /\ reader # Away /\ reader' = Away
    /\ UNCHANGED <<file, cache, evictor, calls, crashes>>

-----------------------------------------------------------------------------
(* A download goroutine *)

\* downloadInto returns: a file that is still there is whole ...
FetchSucceeds(d) ==
    /\ download[d].pc = "fetch"
    /\ download' = [download EXCEPT ![d].pc = "ended"]
    /\ file' = [file EXCEPT ![download[d].key] =
                    IF @ = "partial" THEN "whole" ELSE @]
    /\ UNCHANGED <<active, pending, concCount, reader, evictor, calls, crashes,
                   refused>>

\* A bug: the file of a failed download is kept.
FetchFailsKeeps(d) ==
    /\ download[d].pc = "fetch"
    /\ download' = [download EXCEPT ![d].pc = "ended"]
    /\ UNCHANGED <<file, active, pending, concCount, reader, evictor, calls,
                   crashes, refused>>

\* ... or the file of a failed download is removed.
FetchFails(d) ==
    /\ download[d].pc = "fetch"
    /\ download' = [download EXCEPT ![d].pc = "ended"]
    /\ file' = [file EXCEPT ![download[d].key] = "absent"]
    /\ UNCHANGED <<active, pending, concCount, reader, evictor, calls, crashes,
                   refused>>

\* A bug: a download that ends starts no pending one.
FinishesOnly(d) ==
    /\ download[d].pc = "ended"
    /\ active' = active \ {download[d].key}
    /\ concCount' = IF download[d].counted THEN concCount - 1 ELSE concCount
    /\ download' = [download EXCEPT ![d] = Free]
    /\ UNCHANGED <<file, pending, reader, evictor, calls, crashes, refused>>

\* delete(tc.active), the slot freed, and startNextPendingLocked: entries that
\* are active or on disk by now are dropped, the next one is started.
Finishes(d) ==
    LET k == download[d].key
        still == active \ {k}
        conc == IF download[d].counted THEN concCount - 1 ELSE concCount
        i == SelectInSeq(pending, LAMBDA p : p \notin still /\ file[p] = "absent")
        Leaves == /\ active' = still /\ concCount' = conc
                  /\ download' = [download EXCEPT ![d] = Free]
                  /\ UNCHANGED file
    IN  /\ download[d].pc = "ended"
        /\ IF conc >= MaxConc THEN Leaves /\ refused' = FALSE /\ UNCHANGED pending
           ELSE IF i = 0 THEN Leaves /\ refused' = FALSE /\ pending' = <<>>
           ELSE /\ pending' = SubSeq(pending, i + 1, Len(pending))
                /\ \/ CreateMayFail /\ Leaves /\ refused' = TRUE
                   \/ /\ refused' = FALSE
                      /\ active' = still \cup {pending[i]}
                      /\ concCount' = conc + 1
                      /\ download' = [download EXCEPT ![d] =
                             [pc |-> "fetch", key |-> pending[i], counted |-> TRUE]]
                      /\ file' = [file EXCEPT ![pending[i]] = "partial"]
        /\ UNCHANGED <<reader, evictor, calls, crashes>>

-----------------------------------------------------------------------------
(* evict, every 60 seconds, without tc.mu except for the look at active *)

OnDisk == {k \in Keys : file[k] # "absent"}

EvictLists ==
    /\ evictor.pc = "idle" /\ Cardinality(OnDisk) > MaxFiles
    /\ evictor' = [Resting EXCEPT !.pc = "scan", !.todo = OnDisk]
    /\ UNCHANGED <<file, cache, reader, calls, crashes>>

\* One entry: skipped if it is active ...
EvictChecks(k) ==
    /\ evictor.pc = "scan" /\ k \in evictor.todo
    /\ evictor' = [evictor EXCEPT !.todo = @ \ {k},
                                  !.at = IF k \in active THEN NoKey ELSE k,
                                  !.pc = IF k \in active THEN "scan" ELSE "stat"]
    /\ UNCHANGED <<file, cache, reader, calls, crashes>>

\* ... or, tc.mu released, if it is gone; its size counts.
EvictStats ==
    /\ evictor.pc = "stat"
    /\ evictor' = IF file[evictor.at] = "absent"
                  THEN [evictor EXCEPT !.pc = "scan", !.at = NoKey]
                  ELSE [evictor EXCEPT !.pc = "scan", !.at = NoKey,
                                       !.files = @ \cup {evictor.at},
                                       !.total = @ + 1]
    /\ UNCHANGED <<file, cache, reader, calls, crashes>>

EvictTurns ==
    /\ evictor.pc = "scan" /\ evictor.todo = {}
    /\ evictor' = [evictor EXCEPT !.pc = "remove"]
    /\ UNCHANGED <<file, cache, reader, calls, crashes>>

\* os.Remove of one listed file; total shrinks only if it was there.
EvictRemoves(k) ==
    /\ evictor.pc = "remove" /\ evictor.total > MaxFiles /\ k \in evictor.files
    /\ evictor' = [evictor EXCEPT !.files = @ \ {k},
                       !.total = IF file[k] = "absent" THEN @ ELSE @ - 1]
    /\ file' = [file EXCEPT ![k] = "absent"]
    /\ UNCHANGED <<cache, reader, calls, crashes>>

EvictEnds ==
    /\ evictor.pc = "remove"
    /\ evictor.total <= MaxFiles \/ evictor.files = {}
    /\ evictor' = Resting
    /\ UNCHANGED <<file, cache, reader, calls, crashes>>

Evict == \/ EvictLists \/ EvictStats \/ EvictTurns \/ EvictEnds
         \/ \E k \in Keys : EvictChecks(k) \/ EvictRemoves(k)

-----------------------------------------------------------------------------
\* The process dies and starts again: the directory is all that is left, and
\* NewTrackCache takes it as it is.
Crash ==
    /\ crashes < MaxCrashes /\ crashes' = crashes + 1
    /\ active' = {} /\ pending' = <<>> /\ concCount' = 0
    /\ download' = [d \in Downloads |-> Free]
    /\ reader' = Away /\ evictor' = Resting /\ refused' = FALSE
    /\ UNCHANGED <<file, calls>>

Download(d) == FetchSucceeds(d) \/ FetchFails(d) \/ Finishes(d)

Next == \/ \E k \in Keys : EnsureDownload(k) \/ Open(k)
        \/ \E d \in Downloads : Download(d)
        \/ OpensFile \/ Evict \/ Crash

\* A download that has ended gives its slot back.  That it ends is not assumed:
\* neither the request (375) nor the body (389) has a timeout or a context.
Fairness == /\ \A d \in Downloads : WF_vars(Finishes(d))
            /\ WF_vars(OpensFile)

Spec == Init /\ [][Next]_vars /\ Fairness

-----------------------------------------------------------------------------
(* Properties *)

Live == {d \in Downloads : download[d] # Free}

\* Types; and active is the set of keys of the downloads that run.
TypeOK ==
    /\ file \in [Keys -> {"absent", "partial", "whole"}]
    /\ active = {download[d].key : d \in Live}
    /\ pending \in Seq(Keys) /\ concCount \in Nat
    /\ download \in [Downloads -> {Free} \cup
           [pc : {"fetch", "ended"}, key : Keys, counted : BOOLEAN]]
    /\ reader \in {Away} \cup [pc : {"hit", "attach"}, key : Keys]
    /\ evictor.pc \in {"idle", "scan", "stat", "remove"}
    /\ evictor.at \in Keys \cup {NoKey}
    /\ evictor.todo \cup evictor.files \subseteq Keys /\ evictor.total \in Nat
    /\ calls \in 0 .. MaxCalls /\ crashes \in 0 .. MaxCrashes
    /\ refused \in BOOLEAN

\* The background slots in use are those of the counted downloads that run, at
\* most MaxConc of them: none is leaked and none is given back twice, whatever
\* Open starts on the side.
Counted == {d \in Live : download[d].counted}
SlotsCounted ==
    /\ concCount = Cardinality(Counted)
    /\ concCount <= MaxConc

\* A file has one writer: no key is downloaded twice at a time.
OneWriter ==
    \A d, e \in Live : download[d].key = download[e].key => d = e

\* Until the process dies, what is on disk and not in active is whole: Open and
\* EnsureDownload may take its presence for a finished download.
PartialIsActive ==
    crashes = 0 => \A k \in Keys : file[k] = "partial" => k \in active

\* A cache hit is a file fully on disk (Open's comment).  Not so after a crash,
\* which leaves partial files under their final names.
HitsAreWhole ==
    reader.pc = "hit" => file[reader.key] # "partial"

\* The network lets every download end, one way or the other.
DownloadsEnd == \A d \in Downloads : []<>(download[d].pc # "fetch")

\* If downloads end, a queued request is started, or dropped because it has become
\* needless, whatever fails: except when the last download that runs could not
\* create the file of the next one, for then nobody looks at the queue again.
PendingServed ==
    DownloadsEnd =>
        ((pending # <<>>) ~> (pending = <<>> \/ (refused /\ Live = {})))

\* A request waits only while every background slot is in use, as the comments of
\* TrackCache and startNextPendingLocked say.  Not so: a drain that cannot create
\* its file leaves the rest of the queue to the end of some other download.
SlotsAreUsed == pending # <<>> => concCount >= MaxConc
=============================================================================
