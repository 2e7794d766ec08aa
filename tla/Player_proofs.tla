--------------------------- MODULE Player_proofs ----------------------------
(***************************************************************************)
(* Proofs about the player: about Gapless, for any number of tracks and    *)
(* seeks, and about PlayerLifecycle, for any set of goroutines and any     *)
(* number of messages.  Each has its own invariant; they are here together *)
(* as they have p.stopWanted and p.stopCh in common.                       *)
(***************************************************************************)
EXTENDS Gapless, PlayerLifecycle, TLAPS

-----------------------------------------------------------------------------
(* Gapless: what is in the slots can be played, the session is heard in     *)
(* order, and one that nobody stopped plays everything it loaded.           *)

\* The stages of runLoop at which it holds a track that is in no slot yet ...
Loaded == {"count", "play", "play2", "play3", "slot", "enqueue"}
Holding == {"got", "gotPoll", "first?", "boundary", "buffering", "buffering2",
            "adapt", "load"} \cup Loaded

\* ... and those it enters with nothing in the slots.
Alone == {"buffering", "buffering2", "adapt", "play", "play2", "play3"}
Over == {"exit", "done"}

Typed ==
    /\ loop \in [pc : Pcs, qt : Tracks \cup {None}]
    /\ next \in 1 .. N + 1
    /\ slots \in Seq(Tracks) /\ Len(slots) <= 2
    /\ streamer \in [Tracks -> {"none", "open", "closed"}]
    /\ heard \in Seq(Tracks)

\* A token in stopCh, and the step of Stop before it, mean that stopWanted is set.
StopTold == stopCh \/ stopping => stopWanted

\* Only the callback takes tracks out, so what runLoop found about the slots
\* under a lock it has released still holds when it acts on it.
RoomLeft ==
    /\ loop.pc \in Alone => slots = <<>>
    /\ loop.pc = "enqueue" => Len(slots) < 2

HoldsLast == loop.pc \in Holding => loop.qt \in Tracks /\ next = loop.qt + 1

\* Tracks came in queue order; the next one to come is later than all of them.
Bound == IF loop.pc \in Holding THEN loop.qt ELSE next
Ordered ==
    /\ \A i, j \in 1 .. Len(heard) : i < j => heard[i] < heard[j]
    /\ \A i, j \in 1 .. Len(slots) : i < j => slots[i] < slots[j]
    /\ \A i \in 1 .. Len(heard), j \in 1 .. Len(slots) : heard[i] < slots[j]
    /\ \A i \in 1 .. Len(heard) : heard[i] < Bound
    /\ \A j \in 1 .. Len(slots) : slots[j] < Bound

Open ==
    /\ \A t \in ToSet(slots) : streamer[t] = "open"
    /\ loop.pc \in Loaded => streamer[loop.qt] = "open"

\* Every track that was loaded has been heard, is in a slot or in runLoop's
\* hands, or a Stop was made.
Accounted ==
    /\ loop.pc \in Over => stopWanted \/ slots = <<>>
    /\ \A t \in Tracks : streamer[t] # "none" =>
           \/ t \in ToSet(heard) \cup ToSet(slots)
           \/ loop.pc \in Loaded /\ t = loop.qt
           \/ loop.pc \in Over /\ stopWanted

IInv == Typed /\ StopTold /\ RoomLeft /\ HoldsLast /\ Ordered /\ Open /\ Accounted

-----------------------------------------------------------------------------
(* Sequences and their elements *)

LEMMA AppendElements ==
  ASSUME NEW S, NEW s \in Seq(S), NEW e \in S
  PROVE  ToSet(Append(s, e)) = ToSet(s) \cup {e}
<1> DEFINE l == Append(s, e)
<1>1. /\ DOMAIN s = 1 .. Len(s) /\ DOMAIN l = 1 .. (Len(s) + 1) /\ Len(s) \in Nat
      /\ l[Len(s) + 1] = e /\ \A i \in 1 .. Len(s) : l[i] = s[i]
  OBVIOUS
<1> HIDE DEF l
<1>2. ToSet(l) \subseteq ToSet(s) \cup {e}
  BY <1>1 DEF ToSet
<1>3. ToSet(s) \subseteq ToSet(l)
  BY <1>1 DEF ToSet
<1>4. e \in ToSet(l)
  BY <1>1 DEF ToSet
<1>5. QED
  BY <1>2, <1>3, <1>4 DEF l

LEMMA TailElements ==
  ASSUME NEW S, NEW s \in Seq(S), s # <<>>
  PROVE  ToSet(s) = {s[1]} \cup ToSet(Tail(s))
<1>1. DOMAIN s = 1 .. Len(s) /\ Len(s) \in Nat \ {0}
  OBVIOUS
<1>2. /\ DOMAIN Tail(s) = 1 .. (Len(s) - 1)
      /\ \A i \in 1 .. (Len(s) - 1) : Tail(s)[i] = s[i + 1]
  OBVIOUS
<1>3. ASSUME NEW i \in 2 .. Len(s) PROVE s[i] \in ToSet(Tail(s))
  <2>1. i - 1 \in 1 .. (Len(s) - 1) /\ Tail(s)[i - 1] = s[i]
    BY <1>1, <1>2
  <2>2. QED
    BY <1>2, <2>1 DEF ToSet
<1>4. ToSet(s) \subseteq {s[1]} \cup ToSet(Tail(s))
  BY <1>1, <1>3 DEF ToSet
<1>5. {s[1]} \cup ToSet(Tail(s)) \subseteq ToSet(s)
  BY <1>1, <1>2 DEF ToSet
<1>6. QED
  BY <1>4, <1>5

LEMMA NoElements == ToSet(<<>>) = {}
  BY DEF ToSet

-----------------------------------------------------------------------------
LEMMA InitIInv == Init => IInv
<1> SUFFICES ASSUME Init PROVE IInv
  OBVIOUS
<1>1. Typed
  BY ConstantsOK DEF Init, Typed, Pcs, Tracks, ConstantsOK
<1>2. StopTold /\ RoomLeft /\ HoldsLast /\ Ordered /\ Open /\ Accounted
  BY NoElements DEF Init, StopTold, RoomLeft, HoldsLast, Ordered, Open, Accounted,
     Holding, Loaded, Alone, Over
<1>3. QED
  BY <1>1, <1>2 DEF IInv

\* runLoop goes on, and nothing else changes but signals.
LEMMA GoesOn ==
  ASSUME IInv, UNCHANGED <<next, slots, streamer, heard>>,
         NEW to \in Pcs, loop' = [loop EXCEPT !.pc = to],
         StopTold', stopWanted => stopWanted', loop.pc \notin Over,
         to \in Holding => loop.pc \in Holding,
         to \in Loaded => loop.pc \in Loaded,
         loop.pc \in Loaded => to \in Loaded \/ (to = "exit" /\ stopWanted'),
         to \in Alone => slots = <<>>, to = "enqueue" => Len(slots) < 2,
         to \in Over => stopWanted' \/ slots = <<>>
  PROVE  IInv'
<1>1. /\ loop'.pc = to /\ loop'.qt = loop.qt /\ Typed'
  BY DEF IInv, Typed
<1>2. RoomLeft' /\ HoldsLast'
  BY <1>1 DEF IInv, RoomLeft, HoldsLast
<1>3. Ordered'
  <2>1. CASE loop.pc \in Holding /\ to \notin Holding
    <3>1. Bound = loop.qt /\ Bound' = loop.qt + 1 /\ loop.qt \in Tracks
      BY <1>1, <2>1 DEF Bound, IInv, HoldsLast
    <3>2. \A x \in Tracks : x < Bound => x < Bound'
      BY <3>1 DEF Tracks
    <3>3. /\ \A i \in 1 .. Len(heard) : heard[i] \in Tracks
          /\ \A i \in 1 .. Len(slots) : slots[i] \in Tracks
      BY DEF IInv, Typed
    <3>4. QED
      BY <3>2, <3>3 DEF IInv, Ordered
  <2>2. CASE ~(loop.pc \in Holding /\ to \notin Holding)
    <3>1. Bound' = Bound
      BY <1>1, <2>2 DEF Bound
    <3>2. QED
      BY <3>1 DEF IInv, Ordered
  <2>3. QED
    BY <2>1, <2>2
<1>4. Open'
  BY <1>1 DEF IInv, Open
<1>5. ASSUME NEW t \in Tracks, streamer'[t] # "none"
      PROVE  \/ t \in ToSet(heard') \cup ToSet(slots')
             \/ loop'.pc \in Loaded /\ t = loop'.qt
             \/ loop'.pc \in Over /\ stopWanted'
  <2>1. \/ t \in ToSet(heard) \cup ToSet(slots)
        \/ loop.pc \in Loaded /\ t = loop.qt
    BY <1>5 DEF IInv, Accounted
  <2>2. QED
    BY <1>1, <2>1 DEF Over
<1>6. Accounted'
  BY <1>1, <1>5 DEF Accounted
<1>7. QED
  BY <1>1, <1>2, <1>3, <1>4, <1>6 DEF IInv

\* Only signals change.
LEMMA LoopStays ==
  ASSUME IInv, UNCHANGED <<loop, next, slots, streamer, heard>>,
         StopTold', stopWanted => stopWanted'
  PROVE  IInv'
<1>1. Typed' /\ RoomLeft' /\ HoldsLast' /\ Open' /\ Bound' = Bound
  BY DEF IInv, Typed, RoomLeft, HoldsLast, Open, Bound
<1>2. Ordered' /\ Accounted'
  BY <1>1 DEF IInv, Ordered, Accounted
<1>3. QED
  BY <1>1, <1>2 DEF IInv

LEMMA ConsumesKeeps ==
  ASSUME IInv, Consumes
  PROVE  IInv'
<1>1. /\ loop.pc = "consume" /\ next <= N /\ loop' = [pc |-> "got", qt |-> next]
      /\ next' = next + 1
      /\ UNCHANGED <<slots, streamer, heard, stopCh, stopping, stopWanted>>
  BY DEF Consumes, audio, stopVars
<1>2. next \in Tracks /\ next + 1 \in 1 .. N + 1
  BY <1>1, ConstantsOK DEF IInv, Typed, Tracks, ConstantsOK
<1>3. Typed'
  BY <1>1, <1>2 DEF IInv, Typed, Pcs
<1>4. StopTold' /\ RoomLeft' /\ HoldsLast' /\ Open'
  BY <1>1, <1>2 DEF IInv, StopTold, RoomLeft, HoldsLast, Open, Alone, Loaded
<1>5. Bound' = Bound
  BY <1>1 DEF Bound, Holding, Loaded
<1>6. Ordered' /\ Accounted'
  BY <1>1, <1>5 DEF IInv, Ordered, Accounted, Loaded, Over
<1>7. QED
  BY <1>3, <1>4, <1>6 DEF IInv

LEMMA LoadsKeeps ==
  ASSUME IInv, Loads
  PROVE  IInv'
<1>1. /\ loop.pc = "load" /\ loop' = [loop EXCEPT !.pc = "count"]
      /\ streamer' = [streamer EXCEPT ![loop.qt] = "open"]
      /\ UNCHANGED <<next, slots, heard, stopCh, stopping, stopWanted>>
  BY DEF Loads, Goes, stopVars
<1>2. /\ loop'.pc = "count" /\ loop'.qt = loop.qt /\ loop.qt \in Tracks
      /\ loop' \in [pc : Pcs, qt : Tracks \cup {None}]
  BY <1>1 DEF IInv, Typed, HoldsLast, Holding, Pcs
<1>3. /\ streamer' \in [Tracks -> {"none", "open", "closed"}]
      /\ streamer'[loop.qt] = "open"
      /\ \A t \in Tracks : t # loop.qt => streamer'[t] = streamer[t]
  BY <1>1, <1>2 DEF IInv, Typed
<1>4. Typed' /\ StopTold' /\ RoomLeft' /\ HoldsLast'
  BY <1>1, <1>2, <1>3 DEF IInv, Typed, StopTold, RoomLeft, HoldsLast, Alone, Holding
<1>5. Bound' = Bound
  BY <1>1, <1>2 DEF Bound, Holding, Loaded
<1>6. Ordered'
  BY <1>1, <1>5 DEF IInv, Ordered
<1>7. Open'
  <2>1. ToSet(slots) \subseteq Tracks
    BY DEF IInv, Typed, ToSet
  <2>2. QED
    BY <1>1, <1>2, <1>3, <2>1 DEF IInv, Open
<1>8. Accounted'
  BY <1>1, <1>2, <1>3 DEF IInv, Accounted, Loaded, Over
<1>9. QED
  BY <1>4, <1>6, <1>7, <1>8 DEF IInv

\* A track is put behind those in the slots, of which there is one at most.
LEMMA Puts ==
  ASSUME IInv, loop.pc \in {"play3", "enqueue"}, loop' = [loop EXCEPT !.pc = "top"],
         Len(slots) < 2, slots' = Append(slots, loop.qt),
         UNCHANGED <<next, streamer, heard, stopCh, stopping, stopWanted>>
  PROVE  IInv'
<1>1. /\ loop'.pc = "top" /\ loop'.qt = loop.qt /\ loop.pc \in Loaded
      /\ loop.qt \in Tracks /\ next = loop.qt + 1 /\ Bound = loop.qt /\ Bound' = next
      /\ loop' \in [pc : Pcs, qt : Tracks \cup {None}]
  BY DEF IInv, Typed, HoldsLast, Holding, Loaded, Pcs, Bound
<1>2. /\ Len(slots) \in Nat /\ Len(slots') = Len(slots) + 1
      /\ slots'[Len(slots) + 1] = loop.qt /\ slots' \in Seq(Tracks)
      /\ \A i \in 1 .. Len(slots) : slots'[i] = slots[i]
  BY <1>1 DEF IInv, Typed
<1>3. ToSet(slots') = ToSet(slots) \cup {loop.qt}
  BY <1>1, AppendElements DEF IInv, Typed
<1>4. Typed' /\ StopTold' /\ RoomLeft' /\ HoldsLast'
  BY <1>1, <1>2 DEF IInv, Typed, StopTold, RoomLeft, HoldsLast, Alone, Holding, Loaded
<1>5. Ordered'
  <2>1. /\ \A i \in 1 .. Len(slots) : slots[i] \in Nat /\ slots[i] < loop.qt
        /\ \A i \in 1 .. Len(heard) : heard[i] \in Nat /\ heard[i] < loop.qt
        /\ loop.qt \in Nat
    <3>1. /\ \A i \in 1 .. Len(slots) : slots[i] \in Tracks
          /\ \A i \in 1 .. Len(heard) : heard[i] \in Tracks
      BY DEF IInv, Typed
    <3>2. QED
      BY <1>1, <3>1 DEF IInv, Ordered, Tracks
  <2>2. \A i, j \in 1 .. Len(slots') : i < j => slots'[i] < slots'[j]
    BY <1>2, <2>1 DEF IInv, Ordered
  <2>3. \A i \in 1 .. Len(heard), j \in 1 .. Len(slots') : heard[i] < slots'[j]
    BY <1>2, <2>1 DEF IInv, Ordered
  <2>4. /\ \A i \in 1 .. Len(heard) : heard[i] < next
        /\ \A i \in 1 .. Len(slots') : slots'[i] < next
    BY <1>1, <1>2, <2>1
  <2>5. QED
    BY <1>1, <2>2, <2>3, <2>4 DEF IInv, Ordered
<1>6. Open'
  BY <1>1, <1>3 DEF IInv, Open, Loaded
<1>7. Accounted'
  BY <1>1, <1>3 DEF IInv, Accounted, Over, Loaded
<1>8. QED
  BY <1>4, <1>5, <1>6, <1>7 DEF IInv

LEMMA PlayKeeps ==
  ASSUME IInv, Play \/ Enqueue
  PROVE  IInv'
<1>1. CASE Play
  <2>1. slots = <<>> /\ loop.qt \in Tracks
    BY <1>1 DEF Play, Goes, IInv, RoomLeft, HoldsLast, Alone, Holding, Loaded
  <2>2. slots' = Append(slots, loop.qt) /\ Len(slots) < 2
    BY <1>1, <2>1 DEF Play
  <2>3. QED
    BY <1>1, <2>1, <2>2, Puts DEF Play, Goes, stopVars
<1>2. CASE Enqueue
  <2>1. Len(slots) < 2
    BY <1>2 DEF Enqueue, Goes, IInv, RoomLeft
  <2>2. QED
    BY <1>2, <2>1, Puts DEF Enqueue, Goes, stopVars
<1>3. QED
  BY <1>1, <1>2

LEMMA CloseAllKeeps ==
  ASSUME IInv, CloseAll
  PROVE  IInv'
<1>1. /\ loop.pc = "exit" /\ loop' = [loop EXCEPT !.pc = "done"] /\ slots' = <<>>
      /\ streamer' = [t \in Tracks |->
                        IF t \in ToSet(slots) THEN "closed" ELSE streamer[t]]
      /\ UNCHANGED <<next, heard, stopCh, stopping, stopWanted>>
  BY DEF CloseAll, Goes, stopVars
<1>2. /\ loop'.pc = "done" /\ loop'.qt = loop.qt
      /\ loop' \in [pc : Pcs, qt : Tracks \cup {None}]
  BY <1>1 DEF IInv, Typed, Pcs
<1>3. Typed'
  BY <1>1, <1>2 DEF IInv, Typed
<1>4. StopTold' /\ RoomLeft' /\ HoldsLast' /\ Bound' = Bound
  BY <1>1, <1>2 DEF IInv, StopTold, RoomLeft, HoldsLast, Alone, Holding, Loaded, Bound
<1>5. Ordered'
  BY <1>1, <1>4 DEF IInv, Ordered
<1>6. Open'
  BY <1>1, <1>2, NoElements DEF Open, Loaded
<1>7. Accounted'
  <2>1. CASE stopWanted
    BY <1>1, <1>2, <2>1 DEF Accounted, Over
  <2>2. CASE ~stopWanted
    <3>1. slots = <<>>
      BY <1>1, <2>2 DEF IInv, Accounted, Over
    <3>2. QED
      BY <1>1, <1>2, <2>2, <3>1, NoElements DEF IInv, Accounted, Over, Loaded
  <2>3. QED
    BY <2>1, <2>2
<1>8. QED
  BY <1>3, <1>4, <1>5, <1>6, <1>7 DEF IInv

\* The callback takes the track at the head of the line.
LEMMA StreamKeeps ==
  ASSUME IInv, Stream
  PROVE  IInv'
<1>1. /\ slots # <<>> /\ slots' = Tail(slots) /\ heard' = Append(heard, slots[1])
      /\ streamer' = [streamer EXCEPT ![slots[1]] = "closed"]
      /\ UNCHANGED <<loop, next, stopCh, stopping, stopWanted>>
  BY DEF Stream, stopVars
<1>2. /\ Len(slots) \in 1 .. 2 /\ slots[1] \in Tracks /\ Len(slots') = Len(slots) - 1
      /\ \A j \in 1 .. Len(slots') : j + 1 \in 1 .. Len(slots) /\ slots'[j] = slots[j + 1]
      /\ slots' \in Seq(Tracks)
  <2>1. slots \in Seq(Tracks) /\ Len(slots) \in 1 .. 2 /\ slots[1] \in Tracks
    <3>1. slots \in Seq(Tracks) /\ Len(slots) <= 2
      BY DEF IInv, Typed
    <3>2. Len(slots) \in Nat /\ Len(slots) # 0
      BY <1>1, <3>1
    <3>3. Len(slots) \in 1 .. 2
      <4>1. \A n \in Nat : n # 0 /\ n <= 2 => n \in 1 .. 2
        OBVIOUS
      <4>2. QED
        BY <3>1, <3>2, <4>1, Zenon
    <3>4. QED
      BY <3>1, <3>3
  <2>2. slots' \in Seq(Tracks) /\ Len(slots') = Len(slots) - 1
    BY <1>1, <2>1
  <2>3. QED
    BY <1>1, <2>1, <2>2
<1>3. /\ Len(heard) \in Nat /\ Len(heard') = Len(heard) + 1
      /\ heard'[Len(heard) + 1] = slots[1] /\ heard' \in Seq(Tracks)
      /\ \A i \in 1 .. Len(heard) : heard'[i] = heard[i]
  BY <1>1, <1>2 DEF IInv, Typed
<1>4. Typed' /\ StopTold' /\ HoldsLast' /\ Bound' = Bound
  BY <1>1, <1>2, <1>3 DEF IInv, Typed, StopTold, HoldsLast, Bound
<1>5. RoomLeft'
  BY <1>1, <1>2 DEF IInv, RoomLeft
<1>6. Ordered'
  <2>1. /\ \A j \in 1 .. Len(slots') : slots[1] < slots'[j]
        /\ \A i \in 1 .. Len(heard) : heard[i] < slots[1]
    BY <1>2 DEF IInv, Ordered
  <2>2. ASSUME NEW i \in 1 .. Len(heard'), NEW j \in 1 .. Len(heard'), i < j
        PROVE  heard'[i] < heard'[j]
    <3>1. i \in 1 .. Len(heard) /\ heard'[i] = heard[i]
      BY <1>3, <2>2
    <3>2. CASE j = Len(heard) + 1
      BY <1>3, <2>1, <3>1, <3>2
    <3>3. CASE j # Len(heard) + 1
      <4>1. j \in 1 .. Len(heard) /\ heard'[j] = heard[j]
        BY <1>3, <3>3
      <4>2. QED
        BY <2>2, <3>1, <4>1 DEF IInv, Ordered
    <3>4. QED
      BY <3>2, <3>3
  <2>3. ASSUME NEW i \in 1 .. Len(slots'), NEW j \in 1 .. Len(slots'), i < j
        PROVE  slots'[i] < slots'[j]
    <3>1. /\ i + 1 \in 1 .. Len(slots) /\ j + 1 \in 1 .. Len(slots) /\ i + 1 < j + 1
          /\ slots'[i] = slots[i + 1] /\ slots'[j] = slots[j + 1]
      BY <1>2, <2>3
    <3>2. QED
      BY <3>1 DEF IInv, Ordered
  <2>4. ASSUME NEW i \in 1 .. Len(heard'), NEW j \in 1 .. Len(slots')
        PROVE  heard'[i] < slots'[j]
    <3>1. CASE i = Len(heard) + 1
      BY <1>3, <2>1, <3>1
    <3>2. CASE i # Len(heard) + 1
      <4>1. i \in 1 .. Len(heard) /\ heard'[i] = heard[i]
        BY <1>3, <3>2
      <4>2. j + 1 \in 1 .. Len(slots) /\ slots'[j] = slots[j + 1]
        BY <1>2
      <4>3. QED
        BY <4>1, <4>2 DEF IInv, Ordered
    <3>3. QED
      BY <3>1, <3>2
  <2>5. /\ \A i \in 1 .. Len(heard') : heard'[i] < Bound
        /\ \A i \in 1 .. Len(slots') : slots'[i] < Bound
    BY <1>2, <1>3 DEF IInv, Ordered
  <2>6. QED
    BY <1>4, <2>2, <2>3, <2>4, <2>5 DEF Ordered
<1>7. /\ ToSet(slots) = {slots[1]} \cup ToSet(slots')
      /\ ToSet(heard') = ToSet(heard) \cup {slots[1]}
  BY <1>1, <1>2, AppendElements, TailElements DEF IInv, Typed
<1>8. Open'
  <2>1. slots[1] \notin ToSet(slots')
    <3>1. \A j \in 1 .. Len(slots') : slots'[j] # slots[1]
      BY <1>2 DEF IInv, Ordered, Tracks
    <3>2. QED
      BY <1>2, <3>1 DEF ToSet
  <2>2. loop.pc \in Loaded => loop.qt \in Tracks /\ loop.qt # slots[1]
    BY <1>2 DEF IInv, HoldsLast, Ordered, Bound, Holding, Tracks
  <2>3. \A t \in Tracks : t # slots[1] => streamer'[t] = streamer[t]
    BY <1>1, <1>2 DEF IInv, Typed
  <2>4. ToSet(slots') \subseteq Tracks
    BY <1>2 DEF ToSet
  <2>5. QED
    BY <1>1, <1>7, <2>1, <2>2, <2>3, <2>4 DEF IInv, Open
<1>9. Accounted'
  <2>1. slots = <<>> => slots' = <<>>
    BY <1>1
  <2>2. ASSUME NEW t \in Tracks, streamer'[t] # "none"
        PROVE  \/ t \in ToSet(heard') \cup ToSet(slots')
               \/ loop.pc \in Loaded /\ t = loop.qt
               \/ loop.pc \in Over /\ stopWanted
    <3>1. t = slots[1] \/ streamer[t] # "none"
      BY <1>1, <1>2, <2>2 DEF IInv, Typed
    <3>2. QED
      BY <1>7, <3>1 DEF IInv, Accounted
  <2>3. QED
    BY <1>1, <2>1, <2>2 DEF IInv, Accounted
<1>10. QED
  BY <1>4, <1>5, <1>6, <1>8, <1>9 DEF IInv

-----------------------------------------------------------------------------
(* The steps of runLoop that change nothing but its place and the signals *)

LEMMA PollsStopKeeps ==
  ASSUME IInv, TopPolls \/ NilPolls \/ GotPolls
  PROVE  IInv'
<1>1. /\ \E to \in {"exit", "consume", "drain", "first?"} :
            /\ loop' = [loop EXCEPT !.pc = to]
            /\ to = "exit" => stopCh
            /\ to = "first?" => loop.pc = "gotPoll"
            /\ loop.pc \in {"top", "nilPoll", "gotPoll"}
      /\ stopCh' = FALSE
      /\ UNCHANGED <<next, slots, streamer, heard, stopWanted, stopping>>
  BY DEF TopPolls, NilPolls, GotPolls, PollsStop, Goes, audio
<1>2. stopCh => stopWanted
  BY DEF IInv, StopTold
<1>3. QED
  BY <1>1, <1>2, GoesOn DEF IInv, StopTold, Holding, Loaded, Alone, Over, Pcs

LEMMA ChecksStopKeeps ==
  ASSUME IInv, NilChecks \/ DrainChecks \/ GotChecks
  PROVE  IInv'
<1>1. /\ \E to \in {"exit", "nilPoll", "drainWait", "gotPoll"} :
            /\ loop' = [loop EXCEPT !.pc = to]
            /\ to = "exit" => stopWanted
            /\ to = "gotPoll" => loop.pc = "got"
            /\ loop.pc \in {"nil", "drain", "got"}
      /\ UNCHANGED <<next, slots, streamer, heard, stopWanted, stopping, stopCh>>
  BY DEF NilChecks, DrainChecks, GotChecks, ChecksStopWanted, Goes, audio, stopVars
<1>2. QED
  BY <1>1, GoesOn DEF IInv, StopTold, Holding, Loaded, Alone, Over, Pcs

LEMMA WaitsKeeps ==
  ASSUME IInv, NEW from \in {"drainWait", "boundary", "slot"}, Waits(from)
  PROVE  IInv'
<1>1. /\ \E to \in {"exit", "drain", "boundary", "slot"} :
            /\ loop' = [loop EXCEPT !.pc = to]
            /\ to = "exit" => stopCh
            /\ to = "drain" => from = "drainWait"
            /\ to \in {"boundary", "slot"} => to = from
            /\ loop.pc = from
      /\ stopCh' => stopCh
      /\ UNCHANGED <<next, slots, streamer, heard, stopWanted, stopping>>
  BY DEF Waits, Goes, audio
<1>2. stopCh => stopWanted
  BY DEF IInv, StopTold
<1>3. StopTold' /\ (stopWanted => stopWanted')
  BY <1>1, Zenon DEF IInv, StopTold
<1>4. loop.pc \notin Over /\ from \notin Alone
  BY <1>1 DEF Over, Alone
<1>5. QED
  BY <1>1, <1>2, <1>3, <1>4, GoesOn DEF Holding, Loaded, Alone, Over, Pcs

\* The steps at which it does not look for a stop.
LEMMA OthersKeep ==
  ASSUME IInv, \/ ConsumesNothing \/ Drains \/ SkipsFailed \/ ChecksFirst
               \/ BoundaryReached \/ BuffersCurrent \/ BuffersReport
               \/ AdaptsSpeaker \/ LoadFails \/ Counts \/ PlaySetsCurrent
               \/ PlayReports \/ SlotFree
  PROVE  IInv'
<1> DEFINE Goes2(from, to) == loop.pc = from /\ loop' = [loop EXCEPT !.pc = to]
<1>1. /\ stopCh' \in {stopCh, FALSE}
      /\ UNCHANGED <<next, slots, streamer, heard, stopWanted, stopping>>
  BY DEF ConsumesNothing, Drains, SkipsFailed, ChecksFirst, BoundaryReached,
         BuffersCurrent, BuffersReport, AdaptsSpeaker, LoadFails, Counts,
         PlaySetsCurrent, PlayReports, SlotFree, SetsCurrent, Reports, audio,
         stopVars
<1>2. StopTold'
  BY <1>1 DEF IInv, StopTold
<1>3. \/ Goes2("consume", "nil") \/ Goes2("first?", "top") \/ Goes2("load", "top")
      \/ Goes2("buffering", "buffering2") \/ Goes2("buffering2", "adapt")
      \/ Goes2("adapt", "load") \/ Goes2("adapt", "exit")
      \/ Goes2("play", "play2") \/ Goes2("play2", "play3")
      \/ slots = <<>> /\ (Goes2("drainWait", "exit") \/ Goes2("boundary", "buffering"))
      \/ Len(slots) < 2 /\ Goes2("slot", "enqueue")
      \/ ChecksFirst \/ Counts
  BY DEF ConsumesNothing, Drains, SkipsFailed, BoundaryReached, BuffersCurrent,
         BuffersReport, AdaptsSpeaker, LoadFails, PlaySetsCurrent, PlayReports,
         SlotFree, SetsCurrent, Reports, Goes
<1>4. CASE ChecksFirst
  <2>1. \/ slots = <<>> /\ Goes2("first?", "buffering")
        \/ Goes2("first?", "boundary") \/ Goes2("first?", "load")
    BY <1>4 DEF ChecksFirst, Goes
  <2>2. QED
    BY <1>1, <1>2, <2>1, GoesOn DEF Holding, Loaded, Alone, Over, Pcs
<1>5. CASE Counts
  <2>1. (slots = <<>> /\ Goes2("count", "play")) \/ Goes2("count", "slot")
    BY <1>5 DEF Counts, Goes
  <2>2. QED
    BY <1>1, <1>2, <2>1, GoesOn DEF Holding, Loaded, Alone, Over, Pcs
<1>6. QED
  BY <1>1, <1>2, <1>3, <1>4, <1>5, GoesOn
     DEF IInv, RoomLeft, Holding, Loaded, Alone, Over, Pcs

LEMMA RunLoopKeeps ==
  ASSUME IInv, RunLoop
  PROVE  IInv'
<1>1. CASE DrainWaits \/ BoundaryWaits \/ SlotWaits
  BY <1>1, WaitsKeeps DEF DrainWaits, BoundaryWaits, SlotWaits
<1>2. CASE ~(DrainWaits \/ BoundaryWaits \/ SlotWaits)
  BY <1>2, PollsStopKeeps, ChecksStopKeeps, OthersKeep, ConsumesKeeps, LoadsKeeps,
     PlayKeeps, CloseAllKeeps DEF RunLoop
<1>3. QED
  BY <1>1, <1>2

\* The other goroutines: of what the invariant is about they change signals only.
LEMMA OtherGoroutinesKeep ==
  ASSUME IInv, \/ Advance \/ StopFlags \/ StopSends \/ Pause \/ RequestSkipTo
               \/ PollFinds \/ PollSeeks \/ UNCHANGED vars
  PROVE  IInv'
<1>1. UNCHANGED <<loop, next, slots, streamer, heard>>
  BY DEF Advance, AdvanceSetsCurrent, AdvanceEnds, StopFlags, StopSends, Pause,
         RequestSkipTo, PollFinds, PollSeeks, audio, vars
<1>2. StopTold' /\ (stopWanted => stopWanted')
  BY DEF Advance, AdvanceSetsCurrent, AdvanceEnds, StopFlags, StopSends, Pause,
         RequestSkipTo, PollFinds, PollSeeks, stopVars, vars, IInv, StopTold
<1>3. QED
  BY <1>1, <1>2, LoopStays

-----------------------------------------------------------------------------
(* Theorems *)

LEMMA StepKeepsIInv == IInv /\ [Next]_vars => IInv'
  BY RunLoopKeeps, StreamKeeps, OtherGoroutinesKeep DEF Next

LEMMA AlwaysIInv == Spec => []IInv
  BY InitIInv, StepKeepsIInv, PTL DEF Spec

\* The slots hold open streamers of different tracks: neither play nor enqueue
\* (player.go) replaces one that is still to be played.
THEOREM SlotsArePlayable == Spec => []SlotsPlayable
<1>1. ASSUME IInv
      PROVE  SlotsPlayable
  <2>1. ASSUME NEW i \in 1 .. Len(slots), NEW j \in 1 .. Len(slots), slots[i] = slots[j]
        PROVE  i = j
    <3>1. slots \in Seq(Tracks) /\ slots[i] \in Tracks
      BY <1>1 DEF IInv, Typed
    <3>2. ~(i < j) /\ ~(j < i)
      BY <1>1, <2>1, <3>1 DEF IInv, Ordered, Tracks
    <3>3. QED
      BY <3>1, <3>2
  <2>2. IsInjective(slots)
    BY <1>1, <2>1 DEF IsInjective, IInv, Typed
  <2>3. QED
    BY <1>1, <2>2 DEF IInv, Open, SlotsPlayable
<1>2. QED
  BY AlwaysIInv, <1>1, PTL

\* The tracks the callback plays come in the order in which ConsumeTrack returned
\* them, and so will those in the slots.
THEOREM IsHeardInOrder == Spec => []HeardInOrder
<1>1. ASSUME IInv
      PROVE  HeardInOrder
  <2> DEFINE line == heard \o slots
             n == Len(heard)
             m == Len(slots)
  <2>1. /\ n \in Nat /\ m \in Nat /\ Len(line) = n + m
        /\ \A i \in 1 .. n : line[i] = heard[i]
        /\ \A i \in (n + 1) .. (n + m) : i - n \in 1 .. m /\ line[i] = slots[i - n]
    BY <1>1 DEF IInv, Typed
  <2> HIDE DEF line
  <2>2. ASSUME NEW i \in 1 .. (n + m), NEW j \in 1 .. (n + m), i < j
        PROVE  line[i] < line[j]
    <3>1. CASE j <= n
      BY <1>1, <2>1, <2>2, <3>1 DEF IInv, Ordered
    <3>2. CASE i > n
      <4>1. /\ i - n \in 1 .. m /\ j - n \in 1 .. m /\ i - n < j - n
            /\ line[i] = slots[i - n] /\ line[j] = slots[j - n]
        BY <2>1, <2>2, <3>2
      <4>2. QED
        BY <1>1, <4>1 DEF IInv, Ordered
    <3>3. CASE i <= n /\ j > n
      <4>1. i \in 1 .. n /\ j - n \in 1 .. m /\ line[j] = slots[j - n]
        BY <2>1, <2>2, <3>3
      <4>2. QED
        BY <1>1, <2>1, <4>1 DEF IInv, Ordered
    <3>4. QED
      BY <2>1, <3>1, <3>2, <3>3
  <2>3. QED
    BY <2>1, <2>2 DEF HeardInOrder, line
<1>2. QED
  BY AlwaysIInv, <1>1, PTL

\* A session that nobody stopped has played all it has loaded when it is over:
\* runLoop leaves its drain, and a session without a device, with empty slots.
THEOREM NothingIsCutOff == Spec => []NothingCutOff
<1>1. IInv => NothingCutOff
  BY NoElements DEF IInv, Accounted, NothingCutOff, Over, Loaded
<1>2. QED
  BY AlwaysIInv, <1>1, PTL

-----------------------------------------------------------------------------
(* PlayerLifecycle: one session at a time, no stale stop, no stale          *)
(* exhaustion, and no exhaustion without a cause.                           *)

\* The inductive invariant.  running belongs to the one goroutine inside Run;
\* each flag is clean from the step on that clears it; and a session on its way
\* out of the loop has a reason to be.
RunningIsOwned == \A r \in Runs : pc[r] \in InRun => running
FlagIsFresh ==
    \A r \in Runs :
        pc[r] \in {"clearFlags", "drain", "init", "loop", "last"} /\ stopWanted
            => issued
TokenIsFresh ==
    \A r \in Runs : pc[r] \in {"init", "loop", "last"} /\ stopCh => issued
ExhaustionIsCleared ==
    \A r \in Runs :
        pc[r] \in {"drain", "init", "loop", "last"} => ~queueExhausted
EndsHaveCause ==
    \A r \in Runs :
        /\ pc[r] = "last" => ranOut \/ issued
        /\ pc[r] = "tail" => ranOut \/ issued \/ deviceUnavailable
PcOK == pc \in [Runs -> InRun \cup Outside]

LifeInv == /\ PcOK /\ RunningIsOwned /\ OneSession
        /\ FlagIsFresh /\ TokenIsFresh /\ ExhaustionIsCleared /\ EndsHaveCause

LEMMA Initially == LifeInit => LifeInv
BY DEF LifeInit, LifeInv, PcOK, RunningIsOwned, OneSession, FlagIsFresh, TokenIsFresh,
       ExhaustionIsCleared, EndsHaveCause, InRun, Outside

\* The goroutine that takes a step is the only one whose position changes.
LEMMA GoesMoves ==
    ASSUME NEW r \in Runs, NEW from, NEW to \in InRun \cup Outside,
           PcOK, Moves(r, from, to)
    PROVE  /\ PcOK'
           /\ pc[r] = from /\ pc'[r] = to
           /\ \A s \in Runs : s # r => pc'[s] = pc[s]
BY DEF PcOK, Moves

\* A move inside Run, or one outside it, keeps the ownership of running.
LEMMA MoveKeepsOwner ==
    ASSUME NEW r \in Runs, NEW from, NEW to \in InRun \cup Outside,
           PcOK, RunningIsOwned, OneSession, Moves(r, from, to),
           from \in InRun \/ to \in Outside, running' = running
    PROVE  PcOK' /\ RunningIsOwned' /\ OneSession'
<1>1. to \in InRun => from \in InRun
  BY DEF InRun, Outside
<1> QED
  BY <1>1, GoesMoves DEF RunningIsOwned, OneSession

\* With one goroutine in Run, no other one is in its loop.
LEMMA OthersOutside ==
    ASSUME NEW r \in Runs, NEW s \in Runs, r # s, OneSession, pc[r] \in InRun
    PROVE  pc[s] \notin InRun
BY DEF OneSession

\* A move between two steps that the freshness of the flags treats alike, or
\* out of them, keeps it as long as the flags only become clean.
Needs(p) == [flag |-> p \in {"clearFlags", "drain", "init", "loop", "last"},
             token |-> p \in {"init", "loop", "last"},
             cleared |-> p \in {"drain", "init", "loop", "last"}]

LEMMA MoveKeepsFlags ==
    ASSUME NEW r \in Runs, NEW from, NEW to \in InRun \cup Outside,
           LifeInv, Moves(r, from, to),
           issued => issued',
           stopWanted' => stopWanted \/ issued',
           stopCh' => stopCh \/ issued',
           queueExhausted' => queueExhausted,
           Needs(to).flag => Needs(from).flag \/ ~stopWanted',
           Needs(to).token => Needs(from).token \/ ~stopCh',
           Needs(to).cleared => Needs(from).cleared \/ ~queueExhausted'
    PROVE  FlagIsFresh' /\ TokenIsFresh' /\ ExhaustionIsCleared'
<1>1. /\ pc[r] = from /\ pc'[r] = to
      /\ \A s \in Runs : s # r => pc'[s] = pc[s]
  BY GoesMoves DEF LifeInv
<1>2. FlagIsFresh'
  BY <1>1 DEF LifeInv, FlagIsFresh, Needs
<1>3. TokenIsFresh'
  BY <1>1 DEF LifeInv, TokenIsFresh, Needs
<1>4. ExhaustionIsCleared'
  BY <1>1 DEF LifeInv, ExhaustionIsCleared, Needs
<1> QED
  BY <1>2, <1>3, <1>4

\* A move keeps the causes of the other goroutines' ends, and brings one along
\* if it ends a loop itself.
LEMMA MoveKeepsCause ==
    ASSUME NEW r \in Runs, NEW from, NEW to \in InRun \cup Outside,
           LifeInv, Moves(r, from, to),
           ranOut \/ issued => ranOut' \/ issued',
           deviceUnavailable => deviceUnavailable' \/ from \in InRun,
           to = "last" => ranOut' \/ issued',
           to = "tail" => ranOut' \/ issued' \/ deviceUnavailable'
    PROVE  EndsHaveCause'
<1>1. /\ pc[r] = from /\ pc'[r] = to
      /\ \A s \in Runs : s # r => pc'[s] = pc[s]
  BY GoesMoves DEF LifeInv
<1>2. ASSUME NEW s \in Runs, s # r, pc[s] \in {"last", "tail"}, deviceUnavailable
      PROVE  deviceUnavailable'
  <2>1. from \notin InRun
    BY <1>1, <1>2, OthersOutside DEF LifeInv, InRun
  <2> QED
    BY <1>2, <2>1
<1> QED
  BY <1>1, <1>2 DEF LifeInv, EndsHaveCause

\* Both, for the moves that are not on their way out of the loop.
LEMMA MoveKeepsFreshness ==
    ASSUME NEW r \in Runs, NEW from, NEW to \in InRun \cup Outside,
           LifeInv, Moves(r, from, to), to \notin {"last", "tail"},
           issued => issued', ranOut => ranOut',
           deviceUnavailable => deviceUnavailable' \/ from \in InRun,
           stopWanted' => stopWanted \/ issued',
           stopCh' => stopCh \/ issued',
           queueExhausted' => queueExhausted,
           Needs(to).flag => Needs(from).flag \/ ~stopWanted',
           Needs(to).token => Needs(from).token \/ ~stopCh',
           Needs(to).cleared => Needs(from).cleared \/ ~queueExhausted'
    PROVE  FlagIsFresh' /\ TokenIsFresh' /\ ExhaustionIsCleared' /\ EndsHaveCause'
BY MoveKeepsFlags, MoveKeepsCause

\* Both, for the moves out of the loop: the session stays where flags and
\* tokens are fresh or leaves it, and the cause is given.
LEMMA LeavingKeepsFreshness ==
    ASSUME NEW r \in Runs, NEW from \in {"loop", "last"},
           NEW to \in {"last", "tail"}, LifeInv, Moves(r, from, to),
           issued => issued', ranOut => ranOut',
           deviceUnavailable => deviceUnavailable',
           stopWanted' => stopWanted, stopCh' => stopCh,
           queueExhausted' => queueExhausted,
           ranOut' \/ issued' \/ (to = "tail" /\ deviceUnavailable')
    PROVE  FlagIsFresh' /\ TokenIsFresh' /\ ExhaustionIsCleared' /\ EndsHaveCause'
<1> to \in InRun \cup Outside
  BY DEF InRun
<1> QED
  BY MoveKeepsFlags, MoveKeepsCause DEF Needs

\* Restart, and the CompareAndSwap.
LEMMA EntersInductive ==
    ASSUME LifeInv, NEW r \in Runs, Enters(r)
    PROVE  LifeInv'
<1> USE DEF InRun, Outside, Needs, history, flags
<1>1. CASE RestartBegins(r)
  <2>1. PICK to \in {"flag", "cas"} : Moves(r, "restart", to)
    BY <1>1 DEF RestartBegins
  <2>2. UNCHANGED <<running, flags, history>>
    BY <1>1 DEF RestartBegins
  <2> QED
    BY <2>1, <2>2, MoveKeepsOwner, MoveKeepsFreshness DEF LifeInv
<1>2. CASE RestartFlags(r)
  BY <1>2, MoveKeepsOwner, MoveKeepsFreshness DEF RestartFlags, Flags, LifeInv
<1>3. CASE RestartSends(r)
  BY <1>3, MoveKeepsOwner, MoveKeepsFreshness DEF RestartSends, Sends, LifeInv
<1>4. CASE RestartAwaits(r)
  BY <1>4, MoveKeepsOwner, MoveKeepsFreshness DEF RestartAwaits, LifeInv
<1>5. CASE RunWins(r)
  <2>1. /\ ~running /\ running' /\ Moves(r, "cas", "cool")
        /\ UNCHANGED <<stopWanted, stopCh, queueExhausted>>
    BY <1>5 DEF RunWins
  <2>2. \A s \in Runs : pc[s] \notin InRun
    BY <2>1 DEF LifeInv, RunningIsOwned
  <2>3. PcOK' /\ \A s \in Runs : s # r => pc'[s] \notin InRun
    BY <2>1, <2>2, GoesMoves DEF LifeInv
  <2>4. pc'[r] = "cool"
    BY <2>1, GoesMoves DEF LifeInv
  <2>5. RunningIsOwned' /\ OneSession'
    BY <2>1, <2>3 DEF RunningIsOwned, OneSession
  <2>6. FlagIsFresh' /\ TokenIsFresh' /\ ExhaustionIsCleared' /\ EndsHaveCause'
    BY <2>3, <2>4 DEF FlagIsFresh, TokenIsFresh, ExhaustionIsCleared,
                      EndsHaveCause
  <2> QED
    BY <2>3, <2>5, <2>6 DEF LifeInv
<1>6. CASE RunLoses(r)
  BY <1>6, MoveKeepsOwner, MoveKeepsFreshness DEF RunLoses, LifeInv
<1> QED
  BY <1>1, <1>2, <1>3, <1>4, <1>5, <1>6 DEF Enters

\* running is given back by its owner, who leaves Run.
LEMMA ReturnsInductive ==
    ASSUME LifeInv, NEW r \in Runs, NEW from \in InRun, Returns(r, from),
           UNCHANGED flags
    PROVE  LifeInv'
<1> USE DEF InRun, Outside, Needs, flags
<1>1. Moves(r, from, "free") /\ UNCHANGED <<issued, ranOut>>
  BY DEF Returns
<1>2. PcOK' /\ pc[r] = from /\ pc'[r] = "free"
      /\ \A s \in Runs : s # r => pc'[s] = pc[s]
  BY <1>1, GoesMoves DEF LifeInv
<1>3. \A s \in Runs : pc'[s] \notin InRun
  BY <1>2, OthersOutside DEF LifeInv
<1>4. RunningIsOwned' /\ OneSession'
  BY <1>3 DEF RunningIsOwned, OneSession
<1>5. FlagIsFresh' /\ TokenIsFresh' /\ ExhaustionIsCleared' /\ EndsHaveCause'
  BY <1>1, MoveKeepsFreshness
<1> QED
  BY <1>2, <1>4, <1>5 DEF LifeInv

\* The steps of Run before its loop: each flag is cleared by its step.
LEMMA BeginsInductive ==
    ASSUME LifeInv, NEW r \in Runs, Begins(r)
    PROVE  LifeInv'
<1> USE DEF InRun, Outside, Needs, history, flags
<1>1. CASE RunCoolsDown(r)
  BY <1>1, ReturnsInductive DEF RunCoolsDown
<1>2. CASE RunContinues(r)
  BY <1>2, MoveKeepsOwner, MoveKeepsFreshness DEF RunContinues, LifeInv
<1>3. CASE ClearStopWanted(r)
  BY <1>3, MoveKeepsOwner, MoveKeepsFreshness DEF ClearStopWanted, LifeInv
<1>4. CASE ClearFlags(r)
  BY <1>4, MoveKeepsOwner, MoveKeepsFreshness DEF ClearFlags, LifeInv
<1>5. CASE DrainStopCh(r)
  BY <1>5, MoveKeepsOwner, MoveKeepsFreshness DEF DrainStopCh, LifeInv
<1>6. CASE SpeakerReady(r)
  BY <1>6, MoveKeepsOwner, MoveKeepsFreshness DEF SpeakerReady, LifeInv
<1> QED
  BY <1>1, <1>2, <1>3, <1>4, <1>5, <1>6 DEF Begins

\* The steps of runLoop and of Run's tail.
LEMMA LoopInductive ==
    ASSUME LifeInv, NEW r \in Runs,
           Stops(r) \/ Ends(r) \/ QueueEnds(r) \/ DeviceLost(r)
    PROVE  LifeInv'
<1> USE DEF InRun, Outside, Needs, history, flags
<1>1. CASE LoopSeesFlag(r)
  <2>1. PICK from \in {"loop", "last"} : Moves(r, from, "tail")
    BY <1>1 DEF LoopSeesFlag
  <2>2. issued
    BY <1>1, <2>1, GoesMoves DEF LoopSeesFlag, LifeInv, FlagIsFresh
  <2> QED
    BY <1>1, <2>1, <2>2, MoveKeepsOwner, LeavingKeepsFreshness
    DEF LoopSeesFlag, LifeInv
<1>2. CASE LoopTakesToken(r)
  <2>1. PICK from \in {"loop", "last"} : Moves(r, from, "tail")
    BY <1>2 DEF LoopTakesToken
  <2>2. issued
    BY <1>2, <2>1, GoesMoves DEF LoopTakesToken, LifeInv, TokenIsFresh
  <2> QED
    BY <1>2, <2>1, <2>2, MoveKeepsOwner, LeavingKeepsFreshness
    DEF LoopTakesToken, LifeInv
<1>3. CASE ConsumeTakesToken(r)
  <2>1. issued
    BY <1>3, GoesMoves DEF ConsumeTakesToken, LifeInv, TokenIsFresh
  <2> QED
    BY <1>3, <2>1, MoveKeepsOwner, LeavingKeepsFreshness
    DEF ConsumeTakesToken, LifeInv
<1>4. CASE PlayedOut(r)
  <2>1. ranOut \/ issued
    BY <1>4, GoesMoves DEF PlayedOut, LifeInv, EndsHaveCause
  <2> QED
    BY <1>4, <2>1, MoveKeepsOwner, LeavingKeepsFreshness DEF PlayedOut, LifeInv
<1>5. CASE RunTail(r)
  <2>1. /\ Moves(r, "tail", "teardown")
        /\ UNCHANGED <<running, stopWanted, stopCh, ranOut, issued,
                       deviceUnavailable>>
    BY <1>5 DEF RunTail
  <2>2. PcOK' /\ RunningIsOwned' /\ OneSession'
    BY <2>1, MoveKeepsOwner DEF LifeInv
  <2>3. pc[r] = "tail" /\ pc'[r] = "teardown"
        /\ \A s \in Runs : s # r => pc'[s] = pc[s] /\ pc'[s] \notin InRun
    BY <2>1, GoesMoves, OthersOutside DEF LifeInv
  <2>4. FlagIsFresh' /\ TokenIsFresh' /\ ExhaustionIsCleared' /\ EndsHaveCause'
    BY <2>3 DEF FlagIsFresh, TokenIsFresh, ExhaustionIsCleared, EndsHaveCause
  <2> QED
    BY <2>2, <2>4 DEF LifeInv
<1>6. CASE TearDown(r)
  BY <1>6, ReturnsInductive DEF TearDown
<1>7. CASE QueueEnds(r)
  BY <1>7, MoveKeepsOwner, LeavingKeepsFreshness DEF QueueEnds, LifeInv
<1>8. CASE DeviceLost(r)
  <2>1. CASE Moves(r, "init", "teardown")
    BY <1>8, <2>1, MoveKeepsOwner, MoveKeepsFreshness DEF DeviceLost, LifeInv
  <2>2. CASE Moves(r, "loop", "tail")
    BY <1>8, <2>2, MoveKeepsOwner, LeavingKeepsFreshness DEF DeviceLost, LifeInv
  <2> QED
    BY <1>8, <2>1, <2>2 DEF DeviceLost
<1> QED
  BY <1>1, <1>2, <1>3, <1>4, <1>5, <1>6, <1>7, <1>8 DEF Stops, Ends

\* The handler: a Stop marks itself as issued, a spawned goroutine is outside.
LEMMA HandlerInductive ==
    ASSUME LifeInv, Handler
    PROVE  LifeInv'
<1> USE DEF InRun, Outside, Needs, history, flags
<1>1. CASE HandlerStops
  BY <1>1 DEF HandlerStops, LifeInv, PcOK, RunningIsOwned, OneSession, FlagIsFresh,
              TokenIsFresh, ExhaustionIsCleared, EndsHaveCause
<1>2. CASE HandlerFlags
  BY <1>2 DEF HandlerFlags, Flags, LifeInv, PcOK, RunningIsOwned, OneSession,
              FlagIsFresh, TokenIsFresh, ExhaustionIsCleared,
              EndsHaveCause
<1>3. CASE HandlerSends
  BY <1>3 DEF HandlerSends, Sends, LifeInv, PcOK, RunningIsOwned, OneSession,
              FlagIsFresh, TokenIsFresh, ExhaustionIsCleared,
              EndsHaveCause
<1>4. CASE HandlerRestarts
  <2>1. PICK r \in Runs : Moves(r, "free", "restart")
    BY <1>4 DEF HandlerRestarts, Spawns
  <2> QED
    BY <1>4, <2>1, MoveKeepsOwner, MoveKeepsFreshness DEF HandlerRestarts, LifeInv
<1>5. ASSUME NEW explicit \in BOOLEAN, HandlerPlays(explicit)
      PROVE  LifeInv'
  <2>1. CASE ~running /\ (~queueExhausted \/ explicit)
    <3>1. PICK r \in Runs : Moves(r, "free", "cas")
      BY <1>5, <2>1 DEF HandlerPlays, Spawns
    <3> QED
      BY <1>5, <3>1, MoveKeepsOwner, MoveKeepsFreshness DEF HandlerPlays, LifeInv
  <2>2. CASE UNCHANGED pc
    BY <1>5, <2>2 DEF HandlerPlays, LifeInv, PcOK, RunningIsOwned, OneSession,
                      FlagIsFresh, TokenIsFresh, ExhaustionIsCleared,
              EndsHaveCause
  <2> QED
    BY <1>5, <2>1, <2>2 DEF HandlerPlays
<1> QED
  BY <1>1, <1>2, <1>3, <1>4, <1>5 DEF Handler

LEMMA NextInductive == LifeInv /\ [LifeNext]_lifeVars => LifeInv'
<1> SUFFICES ASSUME LifeInv, [LifeNext]_lifeVars
             PROVE  LifeInv'
  OBVIOUS
<1>1. CASE CoolsOff
  BY <1>1 DEF CoolsOff, history, LifeInv, PcOK, RunningIsOwned, OneSession,
              FlagIsFresh, TokenIsFresh, ExhaustionIsCleared,
              EndsHaveCause
<1>2. CASE UNCHANGED lifeVars
  BY <1>2 DEF lifeVars, flags, history, LifeInv, PcOK, RunningIsOwned, OneSession,
              FlagIsFresh, TokenIsFresh, ExhaustionIsCleared,
              EndsHaveCause
<1> QED
  BY <1>1, <1>2, EntersInductive, BeginsInductive, LoopInductive,
     HandlerInductive DEF LifeNext

\* The inductive invariant holds of every behaviour of the player's sessions.
THEOREM Invariance == LifeSpec => []LifeInv
BY Initially, NextInductive, PTL DEF LifeSpec

\* For any number of goroutines inside Run and Restart, one at most is past the
\* CompareAndSwap: the speaker is driven by one session.
THEOREM SingleSession == LifeSpec => []OneSession
<1>1. LifeInv => OneSession
  BY DEF LifeInv
<1> QED
  BY <1>1, Invariance, PTL

\* Whatever Stops an earlier session left half done or unread, the loop of a
\* session only ever meets a flag or a token of a Stop made during it.
THEOREM StopsAreFresh == LifeSpec => []NoStaleStop
<1>1. LifeInv => NoStaleStop
  BY DEF LifeInv, NoStaleStop, FlagIsFresh, TokenIsFresh
<1> QED
  BY <1>1, Invariance, PTL

\* queueExhausted is never set while a session is in its loop.
THEOREM ExhaustionIsFresh == LifeSpec => []PlayingIsNotExhausted
<1>1. LifeInv => PlayingIsNotExhausted
  BY DEF LifeInv, PlayingIsNotExhausted, ExhaustionIsCleared
<1> QED
  BY <1>1, Invariance, PTL

\* A session is marked as exhausted only if it saw the end of the queue or a
\* Stop was made during it; a lost device never counts as the end of the queue.
THEOREM ExhaustionHasCause == LifeSpec => ExhaustedHasCause
<1>1. ASSUME LifeInv, [LifeNext]_lifeVars, queueExhausted', ~queueExhausted
      PROVE  ranOut \/ issued
  <2>1. PICK r \in Runs : RunTail(r)
    BY <1>1 DEF LifeNext, lifeVars, flags, history, Enters, RestartBegins, RestartFlags,
       RestartSends, RestartAwaits, Flags, Sends, RunWins, RunLoses, Begins,
       RunCoolsDown, RunContinues, ClearStopWanted, ClearFlags, DrainStopCh,
       SpeakerReady, Stops, LoopSeesFlag, LoopTakesToken, ConsumeTakesToken,
       Ends, PlayedOut, TearDown, QueueEnds, DeviceLost, CoolsOff, Handler,
       HandlerStops, HandlerFlags, HandlerSends, HandlerPlays, HandlerRestarts
  <2>2. pc[r] = "tail" /\ ~deviceUnavailable
    BY <1>1, <2>1 DEF RunTail, Moves
  <2> QED
    BY <1>1, <2>2 DEF LifeInv, EndsHaveCause
<1>2. LifeInv /\ [LifeNext]_lifeVars
        => [queueExhausted' /\ ~queueExhausted => ranOut \/ issued]_lifeVars
  BY <1>1
<1> QED
  BY <1>2, Invariance, PTL DEF LifeSpec, ExhaustedHasCause
=============================================================================
