----------------------- MODULE StreamingReader_proofs -----------------------
(***************************************************************************)
(* Proofs about StreamingReader, for any number of readers, any size of    *)
(* the file and any number of seeks: a sleeping reader has caught up or is *)
(* about to be told, Read asks the file for what it has, and its end is    *)
(* announced when all of it is there.  They rest on two facts about        *)
(* player.go: no two goroutines are in calls on one reader, and nobody     *)
(* closes or moves the reader of another's call.                           *)
(***************************************************************************)
EXTENDS StreamingReader, TLAPS

Ats == {"none", "test", "asleep", "end test", "end asleep", "read"} \cup Returned
Call == [at : Ats, reader : Readers \cup {None}, avail : Nat]

\* The types the proofs need; positions are not bounded here.
Typed ==
    /\ disk \in 0 .. Size /\ written \in 0 .. Size
    /\ done \in BOOLEAN /\ failed \in BOOLEAN
    /\ pos \in [Readers -> Nat] /\ closed \in [Readers -> BOOLEAN]
    /\ loop \in [pc : {"top", "decode", "place", "close", "done"},
                 reader : Readers \cup {None}]
    /\ slots \in Seq(Readers)
    /\ call \in [Users -> Call]

\* Each call is of whoever may make it: the callback's and the poller's are
\* made under the speaker lock and on the front slot, runLoop's on the reader it
\* decodes.
Locked ==
    /\ \A g \in {"callback", "poller"} :
           ~Idle(g) => mixMu = g /\ slots # <<>> /\ call[g].reader = slots[1]
    /\ ~Idle("loop") => loop.pc = "decode" /\ call["loop"].reader = loop.reader

\* Readers enter the slots in the order they were opened, and no closed one is
\* in use.
Ordered ==
    /\ opened \in Nat
    /\ \A i, j \in 1 .. Len(slots) : i < j => slots[i] < slots[j]
    /\ \A i \in 1 .. Len(slots) : slots[i] <= opened /\ ~closed[slots[i]]
    /\ \A r \in Readers : closed[r] => r <= opened
    /\ loop.pc \in {"decode", "place"} =>
           /\ loop.reader \in Readers /\ loop.reader = opened
           /\ ~closed[loop.reader]
           /\ \A i \in 1 .. Len(slots) : slots[i] < loop.reader

\* What the download goroutine has announced.
Announced ==
    /\ written <= disk
    /\ download \in {"receive", "tell", "tell end", "over"} => written = disk
    /\ done => download \in {"tell end", "over"} /\ (failed \/ disk = Size)

\* What a call has found stays true until the goroutine acts on it.
Found(g) ==
    LET r == call[g].reader
    IN  /\ call[g].at = "read" => pos[r] + call[g].avail <= written /\ ~closed[r]
        /\ call[g].at = "eof" => done /\ ~failed /\ pos[r] >= Size
        /\ call[g].at = "asleep" =>
               CaughtUp(r) \/ download \in {"tell", "tell end"}
        /\ call[g].at = "end asleep" => ~done \/ download = "tell end"
        /\ ~Idle(g) => r \in Readers

IInv == Typed /\ Locked /\ Ordered /\ Announced /\ \A g \in Users : Found(g)

\* No two goroutines are in calls on one reader.
LEMMA UsersApart ==
  ASSUME IInv, NEW g \in Users, NEW h \in Users, g # h, ~Idle(g), ~Idle(h)
  PROVE  call[g].reader # call[h].reader
<1>1. CASE g # "loop" /\ h # "loop"
  BY <1>1 DEF IInv, Locked, Users
<1>2. ASSUME NEW k \in {"callback", "poller"}, ~Idle(k), ~Idle("loop")
      PROVE  call[k].reader # call["loop"].reader
  <2>1. slots # <<>> /\ call[k].reader = slots[1] /\ mixMu = k
    BY <1>2 DEF IInv, Locked
  <2>2. 1 \in 1 .. Len(slots)
    BY <2>1 DEF IInv, Typed
  <2>3. slots[1] \in Readers /\ slots[1] < loop.reader /\ loop.reader \in Readers
    BY <1>2, <2>2, ConstantsOK DEF IInv, Locked, Typed, Ordered
  <2>4. call["loop"].reader = loop.reader
    BY <1>2 DEF IInv, Locked
  <2>5. slots[1] \in Nat /\ loop.reader \in Nat
    BY <2>3, ConstantsOK DEF ConstantsOK
  <2>6. QED
    BY <2>1, <2>3, <2>4, <2>5
<1>3. QED
  BY <1>1, <1>2 DEF Users

LEMMA Counts ==
  ASSUME IInv
  PROVE  disk \in Nat /\ written \in Nat /\ Size \in Nat /\ written <= disk
<1>1. Size \in Nat
  BY ConstantsOK DEF ConstantsOK
<1>2. disk \in 0 .. Size /\ written \in 0 .. Size
  BY DEF IInv, Typed
<1>3. written <= disk
  BY DEF IInv, Announced
<1>4. QED
  BY <1>1, <1>2, <1>3

LEMMA Initially == Init => IInv
<1> SUFFICES ASSUME Init PROVE IInv
  OBVIOUS
<1>1. NoCall \in Call /\ NoCall.at = "none"
  BY DEF NoCall, Call, Ats
<1>2. call = [g \in Users |-> NoCall] /\ slots = <<>>
  BY DEF Init
<1>3. call \in [Users -> Call] /\ slots \in Seq(Readers)
  BY <1>1, <1>2
<1>4. loop \in [pc : {"top", "decode", "place", "close", "done"},
                reader : Readers \cup {None}]
  BY DEF Init
<1>5. Typed
  <2>1. disk \in 0 .. Size /\ written \in 0 .. Size
    BY ConstantsOK DEF Init, ConstantsOK
  <2>2. pos \in [Readers -> Nat] /\ closed \in [Readers -> BOOLEAN]
    BY DEF Init
  <2>3. QED
    BY <1>3, <1>4, <2>1, <2>2 DEF Init, Typed
<1>6. Locked /\ \A g \in Users : Found(g)
  BY <1>1, <1>2 DEF Locked, Found, Idle, Users
<1>7. Ordered
  BY <1>2, ConstantsOK DEF Init, Ordered, ConstantsOK
<1>8. Announced
  BY DEF Init, Announced
<1>9. QED
  BY <1>5, <1>6, <1>7, <1>8 DEF IInv

-----------------------------------------------------------------------------
(* What an assignment to call leaves *)

Others(g) == \A h \in Users : h # g => call'[h] = call[h]

LEMMA CallBecomes ==
  ASSUME Typed, NEW g \in Users, NEW c \in Call, call' = [call EXCEPT ![g] = c]
  PROVE  call' \in [Users -> Call] /\ call'[g] = c /\ Others(g)
  BY DEF Typed, Others

LEMMA AtBecomes ==
  ASSUME Typed, NEW g \in Users, NEW a \in Ats,
         call' = [call EXCEPT ![g].at = a]
  PROVE  /\ call' \in [Users -> Call] /\ Others(g)
         /\ call'[g].at = a /\ call'[g].reader = call[g].reader
         /\ call'[g].avail = call[g].avail
<1>1. call[g] \in Call
  BY DEF Typed
<1>2. [call[g] EXCEPT !.at = a] \in Call
  BY <1>1 DEF Call
<1>3. call' = [call EXCEPT ![g] = [call[g] EXCEPT !.at = a]]
  BY DEF Typed
<1>4. call'[g] = [call[g] EXCEPT !.at = a]
  BY CallBecomes, <1>2, <1>3
<1>5. QED
  BY CallBecomes, <1>1, <1>2, <1>3, <1>4 DEF Call

LEMMA Rouse ==
  ASSUME Typed, NEW g \in Users
  PROVE  /\ Roused(g) \in Call /\ Roused(g).reader = call[g].reader
         /\ Roused(g).avail = call[g].avail
         /\ Roused(g).at \notin {"asleep", "end asleep"}
         /\ Roused(g).at = "none" <=> call[g].at = "none"
         /\ Roused(g).at \in {"test", "end test"} \/ Roused(g).at = call[g].at
<1>1. call[g] \in Call
  BY DEF Typed
<1>2. QED
  BY <1>1 DEF Roused, Call, Ats

LEMMA Wakes ==
  ASSUME Typed, NEW woken \in Woken
  PROVE  /\ woken \in [Users -> Call]
         /\ \A g \in Users : woken[g] = Roused(g)
  BY Rouse DEF Woken

\* What a call has found is still so when others have moved.
LEMMA StillFound ==
  ASSUME IInv, NEW g \in Users, call'[g] \in {call[g], Roused(g)}, UNCHANGED dlVars,
         ~Idle(g) => /\ pos'[call[g].reader] = pos[call[g].reader]
                     /\ closed'[call[g].reader] = closed[call[g].reader]
  PROVE  Found(g)'
<1>1. CASE call'[g] = call[g]
  BY <1>1 DEF IInv, Found, Idle, dlVars, CaughtUp
<1>2. CASE call'[g] = Roused(g)
  BY <1>2, Rouse DEF IInv, Found, Idle, dlVars
<1>3. QED
  BY <1>1, <1>2
-----------------------------------------------------------------------------
(* The download goroutine *)

\* A step of the download leaves the readers' side.
LEMMA DownloadTypes ==
  ASSUME IInv, Download
  PROVE  Typed' /\ Locked' /\ Ordered' /\ Announced'
<1>1. UNCHANGED <<pos, closed, opened, loop, slots, mixMu>>
  BY DEF Download, Receives, AddWritten, Tells, Finish
<1>2. /\ disk' \in 0 .. Size /\ written' \in 0 .. Size
      /\ done' \in BOOLEAN /\ failed' \in BOOLEAN
  <2>1. /\ Size \in Nat /\ disk \in 0 .. Size /\ written \in 0 .. Size
        /\ done \in BOOLEAN /\ failed \in BOOLEAN
    BY ConstantsOK DEF IInv, Typed, ConstantsOK
  <2>2. CASE Receives
    BY <2>1, <2>2 DEF Receives
  <2>3. CASE AddWritten \/ Tells
    BY <2>1, <2>3 DEF AddWritten, Tells
  <2>4. CASE Finish
    BY <2>1, <2>4 DEF Finish
  <2>5. QED
    BY <2>2, <2>3, <2>4 DEF Download
<1>3. call' \in [Users -> Call] /\ \A g \in Users : call'[g] \in {call[g], Roused(g)}
  BY Wakes DEF Download, Receives, AddWritten, Tells, Finish, IInv, Typed
<1>4. \A g \in Users : call'[g].reader = call[g].reader /\ (Idle(g)' <=> Idle(g))
  BY <1>3, Rouse DEF Idle, IInv
<1>5. Typed'
  BY <1>1, <1>2, <1>3 DEF IInv, Typed
<1>6. Locked'
  BY <1>1, <1>4 DEF IInv, Locked, Users
<1>7. Ordered'
  BY <1>1 DEF IInv, Ordered
<1>8. Announced'
  <2>1. Announced /\ disk \in Int /\ written \in Int
    BY Counts DEF IInv
  <2>2. CASE Receives
    BY <2>1, <2>2 DEF Receives, Announced
  <2>3. CASE AddWritten
    BY <2>1, <2>3 DEF AddWritten, Announced
  <2>4. CASE Tells
    BY <2>1, <2>4 DEF Tells, Announced
  <2>5. CASE Finish
    BY <2>1, <2>5 DEF Finish, Announced
  <2>6. QED
    BY <2>2, <2>3, <2>4, <2>5 DEF Download
<1>9. QED
  BY <1>5, <1>6, <1>7, <1>8

\* Who sleeps is told; what was available stays so.
LEMMA DownloadFinds ==
  ASSUME IInv, Download, NEW g \in Users
  PROVE  Found(g)'
<1>1. call[g] \in Call /\ (~Idle(g) => call[g].reader \in Readers)
  BY DEF IInv, Typed, Found
<1>2. CASE Receives
  BY <1>1, <1>2 DEF Receives, IInv, Found, Idle, CaughtUp
<1>3. CASE AddWritten
  <2>1. /\ call' = call /\ pos' = pos /\ closed' = closed /\ done' = done
        /\ failed' = failed /\ download' = "tell" /\ written' = disk
    BY <1>3 DEF AddWritten
  <2>2. call[g].at = "read" => pos[call[g].reader] \in Nat /\ call[g].avail \in Nat
    BY <1>1 DEF IInv, Typed, Call, Idle
  <2>3. written <= disk /\ written \in Int /\ disk \in Int /\ Found(g)
    BY Counts DEF IInv
  <2>4. ~done
    BY <1>3 DEF AddWritten, IInv, Announced
  <2>5. call[g].at = "read" => pos[call[g].reader] + call[g].avail <= disk
    BY <2>2, <2>3 DEF Found
  <2>6. QED
    BY <2>1, <2>3, <2>4, <2>5 DEF Found, Idle
<1>4. CASE Tells
  <2>1. call'[g] = Roused(g)
    BY <1>4, Wakes DEF Tells, IInv
  <2>2. UNCHANGED <<disk, written, done, failed, pos, closed>>
    BY <1>4 DEF Tells
  <2>3. QED
    BY <1>1, <2>1, <2>2, Rouse DEF IInv, Found, Idle
<1>5. CASE Finish
  BY <1>1, <1>5 DEF Finish, IInv, Announced, Found, Idle
<1>6. QED
  BY <1>2, <1>3, <1>4, <1>5 DEF Download
-----------------------------------------------------------------------------
(* Read and Seek *)

\* Inside a call nothing is closed, opened or placed, and the call goes on.
LEMMA ReadingKeeps ==
  ASSUME IInv, NEW g \in Users, ~Idle(g),
         UNCHANGED <<dlVars, closed, opened, loop, slots, mixMu>>,
         pos' \in [Readers -> Nat], call' \in [Users -> Call], Others(g),
         call'[g].reader = call[g].reader,
         \A r \in Readers : r # call[g].reader => pos'[r] = pos[r],
         Found(g)'
  PROVE  IInv'
<1>1. Typed' /\ Ordered' /\ Announced'
  BY DEF IInv, Typed, Ordered, Announced, dlVars
<1>2. Locked'
  BY DEF IInv, Locked, Idle, Others, Users
<1>3. ASSUME NEW h \in Users, h # g
      PROVE  Found(h)'
  <2>1. call'[h] = call[h] /\ UNCHANGED dlVars
    BY <1>3 DEF Others
  <2>2. ~Idle(h) => call[h].reader # call[g].reader /\ call[h].reader \in Readers
    BY <1>3, UsersApart DEF IInv, Found
  <2>3. QED
    BY <2>1, <2>2, StillFound
<1>4. QED
  BY <1>1, <1>2, <1>3 DEF IInv

LEMMA ReadTestKeeps ==
  ASSUME IInv, NEW g \in Users, ReadTest(g)
  PROVE  IInv'
<1> DEFINE r == call[g].reader
           avail == written - pos[r]
<1>1. /\ call[g].at = "test" /\ ~Idle(g) /\ r \in Readers /\ call[g] \in Call
      /\ UNCHANGED <<dlVars, pos, closed, opened, loop, slots, mixMu>>
  BY DEF ReadTest, ReadTests, Idle, IInv, Found, Typed
<1>2. pos[r] \in Nat /\ written \in Nat /\ closed[r] \in BOOLEAN
  BY <1>1, Counts DEF IInv, Typed
<1>3. /\ call' \in [Users -> Call] /\ Others(g) /\ call'[g].reader = r
      /\ \/ call'[g].at = "asleep" /\ CaughtUp(r)
         \/ call'[g].at = "error"
         \/ call'[g].at = "read" /\ call'[g].avail = avail /\ ~closed[r]
         \/ call'[g].at = "eof" /\ ~failed /\ ~CaughtUp(r) /\ ~closed[r] /\ ~(avail > 0)
  <2>1. CASE CaughtUp(r)
    BY <1>1, <2>1, AtBecomes DEF ReadTest, ReadTests, IInv, Ats
  <2>2. CASE ~CaughtUp(r) /\ closed[r]
    BY <1>1, <2>2, AtBecomes DEF ReadTest, ReadTests, IInv, Ats, Returned
  <2>3. CASE ~CaughtUp(r) /\ ~closed[r] /\ avail > 0
    <3>1. call' = [call EXCEPT ![g].at = "read", ![g].avail = avail]
      BY <2>3 DEF ReadTest, ReadTests
    <3>2. [call[g] EXCEPT !.at = "read", !.avail = avail] \in Call
      <4>1. avail \in Nat
        BY <1>2, <2>3
      <4> HIDE DEF avail
      <4>2. QED
        BY <1>1, <4>1 DEF Call, Ats
    <3>3. call' = [call EXCEPT ![g] = [call[g] EXCEPT !.at = "read", !.avail = avail]]
      BY <3>1 DEF IInv, Typed
    <3>4. /\ call' \in [Users -> Call] /\ Others(g)
          /\ call'[g] = [call[g] EXCEPT !.at = "read", !.avail = avail]
      BY <3>2, <3>3, CallBecomes DEF IInv
    <3>5. QED
      BY <1>1, <2>3, <3>4 DEF Call
  <2>4. CASE ~CaughtUp(r) /\ ~closed[r] /\ ~(avail > 0)
    <3>1. call' = [call EXCEPT ![g].at = IF failed THEN "error" ELSE "eof"]
      BY <2>4 DEF ReadTest, ReadTests
    <3>2. QED
      BY <1>1, <2>4, <3>1, AtBecomes DEF IInv, Ats, Returned
  <2>5. QED
    BY <2>1, <2>2, <2>3, <2>4
<1>4. Found(g)'
  <2>1. CASE call'[g].at \in {"asleep", "error"}
    BY <1>1, <1>3, <2>1 DEF Found, CaughtUp, dlVars
  <2>2. CASE call'[g].at = "read"
    BY <1>1, <1>2, <1>3, <2>2 DEF Found, dlVars
  <2>3. CASE call'[g].at = "eof"
    <3>1. done /\ ~failed /\ pos[r] >= written
      BY <1>2, <1>3, <2>3 DEF CaughtUp
    <3>2. written = Size
      BY <3>1 DEF IInv, Announced
    <3>3. QED
      BY <1>1, <1>3, <2>3, <3>1, <3>2 DEF Found, dlVars
  <2>4. QED
    BY <1>3, <2>1, <2>2, <2>3
<1>5. QED
  BY <1>1, <1>3, <1>4, ReadingKeeps DEF IInv, Typed

LEMMA ReadsAtKeeps ==
  ASSUME IInv, NEW g \in Users, ReadsAt(g)
  PROVE  IInv'
<1>1. /\ call[g].at = "read" /\ ~Idle(g) /\ call[g].reader \in Readers
      /\ UNCHANGED <<dlVars, closed, opened, loop, slots, mixMu>>
      /\ call' = [call EXCEPT ![g].at = "data"]
  BY DEF ReadsAt, Idle, IInv, Found
<1>2. PICK n \in 1 .. call[g].avail : pos' = [pos EXCEPT ![call[g].reader] = @ + n]
  BY DEF ReadsAt
<1>3. /\ pos' \in [Readers -> Nat]
      /\ \A r \in Readers : r # call[g].reader => pos'[r] = pos[r]
  BY <1>1, <1>2 DEF IInv, Typed
<1>4. /\ call' \in [Users -> Call] /\ Others(g) /\ call'[g].at = "data"
      /\ call'[g].reader = call[g].reader
  BY <1>1, AtBecomes DEF IInv, Ats, Returned
<1>5. Found(g)'
  BY <1>1, <1>4 DEF Found
<1>6. QED
  BY <1>1, <1>3, <1>4, <1>5, ReadingKeeps

LEMMA SeekEndKeeps ==
  ASSUME IInv, NEW g \in Users, SeekEndTest(g)
  PROVE  IInv'
<1>1. /\ call[g].at = "end test" /\ ~Idle(g) /\ call[g].reader \in Readers
      /\ UNCHANGED <<dlVars, closed, opened, loop, slots, mixMu>>
  BY DEF SeekEndTest, Idle, IInv, Found
<1>2. /\ pos' \in [Readers -> Nat]
      /\ \A r \in Readers : r # call[g].reader => pos'[r] = pos[r]
  BY <1>1, Counts DEF SeekEndTest, IInv, Typed
<1>3. /\ call' \in [Users -> Call] /\ Others(g) /\ call'[g].reader = call[g].reader
      /\ call'[g].at \in {"end asleep", "error", "data"}
      /\ call'[g].at = "end asleep" => ~done
  <2> DEFINE a == IF ~done THEN "end asleep" ELSE IF failed THEN "error" ELSE "data"
  <2>1. a \in Ats /\ call' = [call EXCEPT ![g].at = a]
    BY DEF SeekEndTest, Ats, Returned
  <2>2. QED
    BY <2>1, AtBecomes DEF IInv
<1>4. Found(g)'
  BY <1>1, <1>3 DEF Found, dlVars
<1>5. QED
  BY <1>1, <1>2, <1>3, <1>4, ReadingKeeps

-----------------------------------------------------------------------------
(* runLoop *)

\* The reader that runLoop decodes is open, in no slot, and in no one else's call.
LEMMA Decodes ==
  ASSUME IInv, loop.pc \in {"decode", "place"}
  PROVE  /\ loop.reader \in Readers /\ ~closed[loop.reader]
         /\ \A i \in 1 .. Len(slots) : slots[i] # loop.reader
         /\ \A g \in {"callback", "poller"} :
                ~Idle(g) => call[g].reader # loop.reader
<1>1. /\ loop.reader \in Readers /\ ~closed[loop.reader]
      /\ \A i \in 1 .. Len(slots) : slots[i] < loop.reader
  BY DEF IInv, Ordered
<1>2. \A i \in 1 .. Len(slots) : slots[i] \in Nat
  BY ConstantsOK DEF IInv, Typed, ConstantsOK
<1>3. loop.reader \in Nat
  BY <1>1, ConstantsOK DEF ConstantsOK
<1>4. slots # <<>> => 1 \in 1 .. Len(slots)
  BY DEF IInv, Typed
<1>5. \A i \in 1 .. Len(slots) : slots[i] # loop.reader
  BY <1>1, <1>2, <1>3
<1>6. QED
  BY <1>1, <1>4, <1>5 DEF IInv, Locked

\* A step of runLoop that leaves the readers, and may begin or end its call.
LEMMA LoopCallKeeps ==
  ASSUME IInv, loop.pc = "decode",
         UNCHANGED <<dlVars, closed, opened, slots, mixMu>>,
         pos' \in [Readers -> Nat],
         \A r \in Readers : r # loop.reader => pos'[r] = pos[r],
         call' \in [Users -> Call], Others("loop"),
         \/ loop' = loop
         \/ loop' = [loop EXCEPT !.pc = "place"] /\ call'["loop"].at = "none",
         call'["loop"].at \in {"none", "test", "end test"},
         call'["loop"].at # "none" => call'["loop"].reader = loop.reader
  PROVE  IInv'
<1>1. /\ loop.reader \in Readers
      /\ \A g \in {"callback", "poller"} : ~Idle(g) => call[g].reader # loop.reader
  BY Decodes
<1>2. loop' = loop \/ (loop'.pc = "place" /\ loop'.reader = loop.reader
                        /\ loop' \in [pc : {"place"}, reader : Readers])
  BY <1>1 DEF IInv, Typed
<1>3. Typed'
  BY <1>2 DEF IInv, Typed, dlVars
<1>4. Locked'
  BY <1>2 DEF IInv, Locked, Idle, Others, Users
<1>5. Ordered' /\ Announced'
  BY <1>2 DEF IInv, Ordered, Announced, dlVars
<1>6. Found("loop")'
  BY <1>1 DEF Found, Idle
<1>7. ASSUME NEW g \in {"callback", "poller"}
      PROVE  Found(g)'
  <2>1. call'[g] = call[g] /\ UNCHANGED dlVars
    BY DEF Others, Users
  <2>2. ~Idle(g) => call[g].reader # loop.reader /\ call[g].reader \in Readers
    BY <1>1 DEF IInv, Found, Users
  <2>3. QED
    BY <2>1, <2>2, StillFound DEF Users
<1>8. QED
  BY <1>3, <1>4, <1>5, <1>6, <1>7 DEF IInv, Users

LEMMA CallsAre ==
  ASSUME IInv, NEW g \in Users, NEW r \in Readers, NEW kind \in Ats,
         Calls(g, r, kind)
  PROVE  /\ call' \in [Users -> Call] /\ Others(g)
         /\ call'[g].at = kind /\ call'[g].reader = r
<1>1. [at |-> kind, reader |-> r, avail |-> 0] \in Call
  BY DEF Call
<1>2. QED
  BY <1>1, CallBecomes DEF Calls, IInv

LEMMA NoCallIs ==
  ASSUME IInv, NEW g \in Users, call' = [call EXCEPT ![g] = NoCall]
  PROVE  call' \in [Users -> Call] /\ Others(g) /\ call'[g].at = "none"
<1>1. NoCall \in Call /\ NoCall.at = "none"
  BY DEF NoCall, Call, Ats
<1>2. QED
  BY <1>1, CallBecomes DEF IInv

LEMMA LoopDecodesKeeps ==
  ASSUME IInv, LoopReads \/ LoopSeeks \/ LoopSeeksEnd \/ LoopContinues \/ LoopDecoded
  PROVE  IInv'
<1>1. loop.pc = "decode" /\ loop.reader \in Readers
  BY Decodes DEF LoopReads, LoopSeeks, LoopSeeksEnd, LoopContinues, LoopDecoded,
                 IInv, Locked, Idle
<1>2. UNCHANGED <<dlVars, closed, opened, slots, mixMu>>
  BY DEF LoopReads, LoopSeeks, LoopSeeksEnd, LoopContinues, LoopDecoded
<1>3. /\ pos' \in [Readers -> Nat]
      /\ \A r \in Readers : r # loop.reader => pos'[r] = pos[r]
  <2>1. CASE LoopSeeks
    <3>1. PICK p \in 0 .. Size : pos' = [pos EXCEPT ![loop.reader] = p]
      BY <2>1 DEF LoopSeeks, SeeksTo
    <3>2. p \in Nat
      BY <3>1, Counts
    <3>3. QED
      BY <1>1, <3>1, <3>2 DEF IInv, Typed
  <2>2. CASE pos' = pos
    BY <2>2 DEF IInv, Typed
  <2>3. QED
    BY <2>1, <2>2 DEF LoopReads, LoopSeeksEnd, LoopContinues, LoopDecoded
<1>4. CASE LoopReads \/ LoopSeeksEnd
  <2>1. PICK kind \in {"test", "end test"} : Calls("loop", loop.reader, kind)
    BY <1>4 DEF LoopReads, LoopSeeksEnd
  <2>2. /\ call' \in [Users -> Call] /\ Others("loop")
        /\ call'["loop"].at = kind /\ call'["loop"].reader = loop.reader
    BY <1>1, <2>1, CallsAre DEF Ats, Users
  <2>3. loop' = loop
    BY <1>4 DEF LoopReads, LoopSeeksEnd
  <2>4. QED
    BY <1>1, <1>2, <1>3, <2>2, <2>3, LoopCallKeeps
<1>5. CASE LoopSeeks
  <2>1. loop' = loop /\ call' = call /\ call["loop"].at = "none"
    BY <1>5 DEF LoopSeeks, Idle
  <2>2. call' \in [Users -> Call] /\ Others("loop")
    BY <2>1 DEF IInv, Typed, Others
  <2>3. QED
    BY <1>1, <1>2, <1>3, <2>1, <2>2, LoopCallKeeps
<1>6. CASE LoopContinues \/ LoopDecoded
  <2>1. call' \in [Users -> Call] /\ Others("loop") /\ call'["loop"].at = "none"
    BY <1>6, NoCallIs DEF LoopContinues, LoopDecoded, Users
  <2>2. loop' = loop \/ loop' = [loop EXCEPT !.pc = "place"]
    BY <1>6 DEF LoopContinues, LoopDecoded
  <2>3. QED
    BY <1>1, <1>2, <1>3, <2>1, <2>2, LoopCallKeeps
<1>7. QED
  BY <1>4, <1>5, <1>6

\* A step in which no call is under way but the sleepers', who are told.
LEMMA TellsSleepers ==
  ASSUME IInv, NEW g \in Users, UNCHANGED <<dlVars, pos>>,
         call'[g] = Roused(g),
         ~Idle(g) => closed'[call[g].reader] = closed[call[g].reader]
  PROVE  Found(g)' /\ (Idle(g)' <=> Idle(g)) /\ call'[g].reader = call[g].reader
  BY StillFound, Rouse DEF IInv, Idle

LEMMA LoopOpensKeeps ==
  ASSUME IInv, LoopOpens
  PROVE  IInv'
<1>1. /\ loop.pc = "top" /\ opened + 1 \in Readers /\ opened' = opened + 1
      /\ loop' = [pc |-> "decode", reader |-> opened + 1]
      /\ UNCHANGED <<dlVars, pos, closed, slots, mixMu, call>>
  BY DEF LoopOpens
<1>2. opened \in Nat /\ \A i \in 1 .. Len(slots) : slots[i] \in Nat /\ slots[i] <= opened
  <2>1. \A i \in 1 .. Len(slots) : slots[i] \in Readers
    BY DEF IInv, Typed
  <2>2. QED
    BY <2>1, ConstantsOK DEF IInv, Ordered, ConstantsOK
<1>3. ~closed[opened + 1]
  BY <1>1, <1>2 DEF IInv, Ordered
<1>4. Typed' /\ Announced'
  BY <1>1 DEF IInv, Typed, Announced, dlVars
<1>5. Locked'
  BY <1>1 DEF IInv, Locked, Idle
<1>6. Ordered'
  <2>1. \A r \in Readers : closed'[r] => r <= opened'
    BY <1>1, <1>2, ConstantsOK DEF IInv, Ordered, ConstantsOK
  <2>2. \A i \in 1 .. Len(slots') : slots'[i] <= opened' /\ slots'[i] < loop'.reader
    BY <1>1, <1>2
  <2>3. QED
    BY <1>1, <1>2, <1>3, <2>1, <2>2 DEF IInv, Ordered
<1>7. \A g \in Users : Found(g)'
  BY <1>1, StillFound
<1>8. QED
  BY <1>4, <1>5, <1>6, <1>7 DEF IInv

LEMMA LoopGivesUpKeeps ==
  ASSUME IInv, LoopGivesUp
  PROVE  IInv'
<1>1. /\ ~Idle("loop") /\ loop' = [pc |-> "top", reader |-> None]
      /\ closed' = [closed EXCEPT ![loop.reader] = TRUE]
      /\ UNCHANGED <<dlVars, pos, opened, slots, mixMu>>
  BY DEF LoopGivesUp, Idle, Returned
<1>2. loop.pc = "decode" /\ loop.reader \in Readers /\ loop.reader <= opened
  BY <1>1 DEF IInv, Locked, Ordered
<1>3. PICK woken \in Woken : call' = [woken EXCEPT !["loop"] = NoCall]
  BY DEF LoopGivesUp
<1>4. /\ call' \in [Users -> Call] /\ call'["loop"].at = "none"
      /\ \A g \in {"callback", "poller"} : call'[g] = Roused(g)
  <2>1. NoCall \in Call /\ NoCall.at = "none"
    BY DEF NoCall, Call, Ats
  <2>2. woken \in [Users -> Call] /\ \A g \in Users : woken[g] = Roused(g)
    BY Wakes DEF IInv
  <2>3. QED
    BY <1>3, <2>1, <2>2 DEF Users
<1>5. /\ closed' \in [Readers -> BOOLEAN]
      /\ \A r \in Readers : r # loop.reader => closed'[r] = closed[r]
  BY <1>1, <1>2 DEF IInv, Typed
<1>6. ASSUME NEW g \in {"callback", "poller"}
      PROVE  Found(g)' /\ (Idle(g)' <=> Idle(g)) /\ call'[g].reader = call[g].reader
  <2>1. ~Idle(g) => call[g].reader # loop.reader /\ call[g].reader \in Readers
    BY <1>2, Decodes DEF IInv, Found, Users
  <2>2. QED
    BY <1>1, <1>4, <1>5, <2>1, TellsSleepers DEF Users
<1>7. Typed' /\ Announced'
  BY <1>1, <1>4, <1>5 DEF IInv, Typed, Announced, dlVars
<1>8. Locked'
  BY <1>1, <1>4, <1>6 DEF IInv, Locked, Idle
<1>9. Ordered'
  <2>1. \A i \in 1 .. Len(slots) : slots[i] # loop.reader /\ slots[i] \in Readers
    BY <1>2, Decodes DEF IInv, Typed
  <2>2. QED
    BY <1>1, <1>2, <1>5, <2>1 DEF IInv, Ordered
<1>10. Found("loop")'
  BY <1>4 DEF Found, Idle
<1>11. QED
  BY <1>6, <1>7, <1>8, <1>9, <1>10 DEF IInv, Users

LEMMA LoopPlacesKeeps ==
  ASSUME IInv, LoopPlaces
  PROVE  IInv'
<1>1. /\ loop.pc = "place" /\ mixMu = Nobody
      /\ slots' = Append(slots, loop.reader)
      /\ loop' = [pc |-> "top", reader |-> None]
      /\ UNCHANGED <<dlVars, pos, closed, opened, mixMu, call>>
  BY DEF LoopPlaces
<1>2. /\ loop.reader \in Readers /\ loop.reader = opened /\ ~closed[loop.reader]
      /\ \A i \in 1 .. Len(slots) : slots[i] < loop.reader
      /\ slots \in Seq(Readers) /\ opened \in Nat
  BY <1>1 DEF IInv, Ordered, Typed
<1>3. /\ slots' \in Seq(Readers) /\ Len(slots') = Len(slots) + 1
      /\ \A i \in 1 .. Len(slots) : slots'[i] = slots[i]
      /\ slots'[Len(slots) + 1] = loop.reader
  BY <1>1, <1>2
<1>4. \A g \in Users : Idle(g)
  BY <1>1 DEF IInv, Locked, Users, Nobody
<1>5. Typed' /\ Announced'
  BY <1>1, <1>3 DEF IInv, Typed, Announced, dlVars
<1>6. Locked'
  BY <1>1, <1>4 DEF Locked, Idle, Users
<1>7. Ordered'
  <2>1. \A i \in 1 .. Len(slots') :
            i \in 1 .. Len(slots) \/ (i = Len(slots) + 1 /\ slots'[i] = opened)
    BY <1>2, <1>3
  <2>2. \A i, j \in 1 .. Len(slots') : i < j => slots'[i] < slots'[j]
    BY <1>2, <1>3, <2>1 DEF IInv, Ordered
  <2>3. \A i \in 1 .. Len(slots') : slots'[i] <= opened' /\ ~closed'[slots'[i]]
    BY <1>1, <1>2, <1>3, <2>1 DEF IInv, Ordered
  <2>4. QED
    BY <1>1, <2>2, <2>3 DEF IInv, Ordered
<1>8. \A g \in Users : Found(g)'
  BY <1>1, StillFound
<1>9. QED
  BY <1>5, <1>6, <1>7, <1>8 DEF IInv

LEMMA LoopStopsKeeps ==
  ASSUME IInv, LoopStops \/ Stop
  PROVE  IInv'
<1>1. /\ UNCHANGED <<dlVars, pos, closed, opened, slots, mixMu, call>>
      /\ \/ loop' = loop
         \/ loop.pc # "decode" /\ loop' = [pc |-> "close", reader |-> None]
  BY DEF LoopStops, Stop
<1>2. Typed' /\ Announced'
  <2>1. loop' \in [pc : {"top", "decode", "place", "close", "done"},
                  reader : Readers \cup {None}]
    BY <1>1 DEF IInv, Typed
  <2>2. QED
    BY <1>1, <2>1 DEF IInv, Typed, Announced, dlVars
<1>3. Locked'
  BY <1>1 DEF IInv, Locked, Idle
<1>4. Ordered'
  BY <1>1 DEF IInv, Ordered
<1>5. \A g \in Users : Found(g)'
  BY <1>1, StillFound
<1>6. QED
  BY <1>2, <1>3, <1>4, <1>5 DEF IInv

LEMMA LoopClosesKeeps ==
  ASSUME IInv, LoopCloses
  PROVE  IInv'
<1>1. /\ loop.pc = "close" /\ mixMu = Nobody /\ slots' = <<>>
      /\ closed' = [r \in Readers |-> closed[r] \/ Slotted(r)]
      /\ loop' = [loop EXCEPT !.pc = "done"] /\ call' \in Woken
      /\ UNCHANGED <<dlVars, pos, opened, mixMu>>
  BY DEF LoopCloses
<1>2. \A g \in Users : Idle(g)
  BY <1>1 DEF IInv, Locked, Users, Nobody
<1>3. call' \in [Users -> Call] /\ \A g \in Users : call'[g].at = "none"
  BY <1>1, <1>2, Wakes, Rouse DEF IInv, Idle
<1>4. /\ loop'.pc = "done" /\ closed' \in [Readers -> BOOLEAN]
      /\ loop' \in [pc : {"top", "decode", "place", "close", "done"},
                    reader : Readers \cup {None}]
  BY <1>1 DEF IInv, Typed
<1>5. Typed' /\ Announced'
  <2>1. slots' \in Seq(Readers)
    BY <1>1
  <2>2. QED
    BY <1>1, <1>3, <1>4, <2>1 DEF IInv, Typed, Announced, dlVars
<1>6. Locked' /\ \A g \in Users : Found(g)'
  BY <1>3 DEF Locked, Found, Idle, Users
<1>7. Ordered'
  <2>1. 1 .. Len(slots') = {}
    BY <1>1
  <2>2. \A r \in Readers : closed'[r] => r <= opened'
    BY <1>1 DEF IInv, Ordered, Slotted
  <2>3. QED
    BY <1>1, <1>4, <2>1, <2>2 DEF IInv, Ordered
<1>8. QED
  BY <1>5, <1>6, <1>7 DEF IInv

LEMMA LoopKeeps ==
  ASSUME IInv, Loop
  PROVE  IInv'
  BY LoopOpensKeeps, LoopDecodesKeeps, LoopGivesUpKeeps, LoopPlacesKeeps,
     LoopStopsKeeps, LoopClosesKeeps DEF Loop, LoopEnds

-----------------------------------------------------------------------------
(* Under the speaker lock *)

\* Nobody has the lock, or g itself: no other is in a call on the front slot.
LEMMA FrontIsFree ==
  ASSUME IInv, NEW g \in {"callback", "poller"}, mixMu \in {Nobody, g}, slots # <<>>
  PROVE  /\ slots[1] \in Readers /\ ~closed[slots[1]]
         /\ \A h \in Users : h # g /\ ~Idle(h) =>
                h = "loop" /\ call[h].reader # slots[1] /\ call[h].reader \in Readers
<1>1. 1 \in 1 .. Len(slots)
  BY DEF IInv, Typed
<1>2. slots[1] \in Readers /\ ~closed[slots[1]]
  BY <1>1 DEF IInv, Typed, Ordered
<1>3. ~Idle("loop") => call["loop"].reader # slots[1] /\ call["loop"].reader \in Readers
  BY <1>1, Decodes DEF IInv, Locked
<1>4. \A h \in {"callback", "poller"} : h # g => Idle(h)
  BY DEF IInv, Locked, Nobody
<1>5. QED
  BY <1>2, <1>3, <1>4 DEF Users

\* A step of g that leaves the readers but the front one's position, and begins
\* or ends g's call.
LEMMA SpeakerCallKeeps ==
  ASSUME IInv, NEW g \in {"callback", "poller"}, slots # <<>>, mixMu \in {Nobody, g},
         UNCHANGED <<dlVars, closed, opened, loop, slots>>,
         pos' \in [Readers -> Nat],
         \A r \in Readers : r # slots[1] => pos'[r] = pos[r],
         call' \in [Users -> Call], Others(g),
         \/ call'[g].at = "none"
         \/ call'[g].at \in {"test", "data"} /\ call'[g].reader = slots[1] /\ mixMu' = g
  PROVE  IInv'
<1>1. Typed' /\ Ordered' /\ Announced'
  BY DEF IInv, Typed, Ordered, Announced, dlVars
<1>2. \A h \in {"callback", "poller"} : h # g => Idle(h)
  BY FrontIsFree DEF Users
<1>3. Locked'
  BY <1>2 DEF IInv, Locked, Idle, Others, Users
<1>4. Found(g)'
  BY FrontIsFree DEF Found, Idle
<1>5. ASSUME NEW h \in Users, h # g
      PROVE  Found(h)'
  <2>1. call'[h] = call[h] /\ UNCHANGED dlVars
    BY <1>5 DEF Others
  <2>2. ~Idle(h) => call[h].reader # slots[1] /\ call[h].reader \in Readers
    BY <1>5, FrontIsFree
  <2>3. QED
    BY <2>1, <2>2, StillFound
<1>6. QED
  BY <1>1, <1>3, <1>4, <1>5 DEF IInv

LEMMA SpeakerReadsKeep ==
  ASSUME IInv, CallbackReads \/ CallbackReadsOn \/ PollerSeeks
  PROVE  IInv'
<1>1. PICK g \in {"callback", "poller"} :
        /\ slots # <<>> /\ mixMu \in {Nobody, g} /\ mixMu' = g
        /\ Calls(g, slots[1], "test") \/ Calls(g, slots[1], "data")
        /\ UNCHANGED <<dlVars, closed, opened, loop, slots>>
        /\ pos' = pos \/ \E p \in 0 .. Size : pos' = [pos EXCEPT ![slots[1]] = p]
  <2>1. CASE CallbackReads
    BY <2>1 DEF CallbackReads, Takes
  <2>2. CASE CallbackReadsOn
    BY <2>2 DEF CallbackReadsOn, IInv, Locked, Idle
  <2>3. CASE PollerSeeks
    BY <2>3 DEF PollerSeeks, Takes, SeeksTo
  <2>4. QED
    BY <2>1, <2>2, <2>3
<1>2. slots[1] \in Readers
  BY <1>1, FrontIsFree
<1>3. /\ pos' \in [Readers -> Nat]
      /\ \A r \in Readers : r # slots[1] => pos'[r] = pos[r]
  <2>1. CASE pos' = pos
    BY <2>1 DEF IInv, Typed
  <2>2. ASSUME NEW p \in 0 .. Size, pos' = [pos EXCEPT ![slots[1]] = p]
        PROVE  <1>3!1 /\ <1>3!2
    <3>1. p \in Nat
      BY Counts
    <3>2. QED
      BY <1>2, <2>2, <3>1 DEF IInv, Typed
  <2>3. QED
    BY <1>1, <2>1, <2>2
<1>4. /\ call' \in [Users -> Call] /\ Others(g)
      /\ call'[g].at \in {"test", "data"} /\ call'[g].reader = slots[1]
  <2>1. PICK kind \in {"test", "data"} : Calls(g, slots[1], kind)
    BY <1>1
  <2>2. kind \in Ats /\ g \in Users
    BY DEF Ats, Returned, Users
  <2>3. QED
    BY <1>2, <2>1, <2>2, CallsAre
<1>5. QED
  BY <1>1, <1>3, <1>4, SpeakerCallKeeps

LEMMA UnlocksKeeps ==
  ASSUME IInv, NEW g \in {"callback", "poller"}, Unlocks(g)
  PROVE  IInv'
<1>1. /\ ~Idle(g) /\ UNCHANGED <<dlVars, pos, closed, opened, loop, slots>>
      /\ call' = [call EXCEPT ![g] = NoCall]
  BY DEF Unlocks, Idle, Returned
<1>2. slots # <<>> /\ mixMu = g
  BY <1>1 DEF IInv, Locked
<1>3. call' \in [Users -> Call] /\ Others(g) /\ call'[g].at = "none"
  BY <1>1, NoCallIs DEF Users
<1>4. pos' \in [Readers -> Nat] /\ \A r \in Readers : pos'[r] = pos[r]
  BY <1>1 DEF IInv, Typed
<1>5. QED
  BY <1>1, <1>2, <1>3, <1>4, SpeakerCallKeeps

LEMMA CallbackPopsKeeps ==
  ASSUME IInv, CallbackPops
  PROVE  IInv'
<1>1. /\ ~Idle("callback") /\ slots' = Tail(slots)
      /\ closed' = [closed EXCEPT ![slots[1]] = TRUE]
      /\ UNCHANGED <<dlVars, pos, opened, loop>>
  BY DEF CallbackPops, Idle
<1>2. slots # <<>> /\ mixMu = "callback" /\ slots \in Seq(Readers)
  BY <1>1 DEF IInv, Locked, Typed
<1>3. /\ slots[1] \in Readers
      /\ \A h \in Users : h # "callback" /\ ~Idle(h) =>
             h = "loop" /\ call[h].reader # slots[1] /\ call[h].reader \in Readers
  BY <1>2, FrontIsFree
<1>4. /\ closed' \in [Readers -> BOOLEAN]
      /\ \A r \in Readers : r # slots[1] => closed'[r] = closed[r]
  BY <1>1, <1>3 DEF IInv, Typed
<1>5. PICK woken \in Woken : call' = [woken EXCEPT !["callback"] = NoCall]
  BY DEF CallbackPops
<1>6. /\ call' \in [Users -> Call] /\ call'["callback"].at = "none"
      /\ \A h \in Users : h # "callback" => call'[h] = Roused(h)
  <2>1. NoCall \in Call /\ NoCall.at = "none"
    BY DEF NoCall, Call, Ats
  <2>2. woken \in [Users -> Call] /\ \A h \in Users : woken[h] = Roused(h)
    BY Wakes DEF IInv
  <2>3. QED
    BY <1>5, <2>1, <2>2 DEF Users
<1>7. ASSUME NEW h \in Users, h # "callback"
      PROVE  Found(h)' /\ (Idle(h)' <=> Idle(h)) /\ call'[h].reader = call[h].reader
  BY <1>1, <1>3, <1>4, <1>6, <1>7, TellsSleepers
<1>8. /\ slots' \in Seq(Readers) /\ Len(slots') = Len(slots) - 1
      /\ Len(slots) \in Nat
      /\ \A i \in 1 .. Len(slots') : slots'[i] = slots[i + 1]
  BY <1>1, <1>2
<1>9. Typed' /\ Announced'
  BY <1>1, <1>4, <1>6, <1>8 DEF IInv, Typed, Announced, dlVars
<1>10. Locked'
  <2>1. Idle("poller") /\ Idle("poller")' /\ Idle("callback")'
    BY <1>3, <1>6, <1>7 DEF Users, Idle
  <2>2. Idle("loop")' \/ (loop'.pc = "decode" /\ call'["loop"].reader = loop'.reader)
    BY <1>1, <1>7 DEF IInv, Locked, Users
  <2>3. QED
    BY <2>1, <2>2 DEF Locked
<1>11. Ordered'
  <2>1. \A i \in 1 .. Len(slots') :
            /\ i + 1 \in 1 .. Len(slots) /\ slots[1] < slots[i + 1]
            /\ slots[i + 1] \in Readers /\ slots[1] # slots[i + 1]
    <3>1. \A i \in 1 .. Len(slots') :
              i + 1 \in 1 .. Len(slots) /\ 1 < i + 1 /\ 1 \in 1 .. Len(slots)
      BY <1>8
    <3>2. \A i \in 1 .. Len(slots) : slots[i] \in Readers
      BY <1>2
    <3>3. \A i \in 1 .. Len(slots) : slots[i] \in Nat
      BY <3>2, ConstantsOK DEF ConstantsOK
    <3>4. QED
      BY <3>1, <3>2, <3>3 DEF IInv, Ordered
  <2>2. \A i, j \in 1 .. Len(slots') : i < j => slots'[i] < slots'[j]
    BY <1>8, <2>1 DEF IInv, Ordered
  <2>3. \A i \in 1 .. Len(slots') : slots'[i] <= opened' /\ ~closed'[slots'[i]]
    BY <1>1, <1>4, <1>8, <2>1 DEF IInv, Ordered
  <2>4. \A r \in Readers : closed'[r] => r <= opened'
    <3>1. slots[1] <= opened
      BY <1>2 DEF IInv, Ordered
    <3>2. QED
      BY <1>1, <1>4, <3>1 DEF IInv, Ordered
  <2>5. loop.pc \in {"decode", "place"} =>
            /\ ~closed'[loop.reader]
            /\ \A i \in 1 .. Len(slots') : slots'[i] < loop.reader
    <3>1. 1 \in 1 .. Len(slots)
      BY <1>2
    <3>2. QED
      BY <1>4, <1>8, <2>1, <3>1, Decodes DEF IInv, Ordered
  <2>6. QED
    BY <1>1, <2>2, <2>3, <2>4, <2>5 DEF IInv, Ordered
<1>12. Found("callback")'
  BY <1>6 DEF Found, Idle
<1>13. QED
  BY <1>7, <1>9, <1>10, <1>11, <1>12 DEF IInv

LEMMA SpeakerKeeps ==
  ASSUME IInv, Speaker
  PROVE  IInv'
  BY SpeakerReadsKeep, UnlocksKeeps, CallbackPopsKeeps DEF Speaker, UnlocksSpeaker

-----------------------------------------------------------------------------
(* Theorems *)

LEMMA StepKeepsIInv == IInv /\ [Next]_vars => IInv'
<1> SUFFICES ASSUME IInv, [Next]_vars PROVE IInv'
  OBVIOUS
<1>1. CASE Download
  BY <1>1, DownloadTypes, DownloadFinds DEF IInv
<1>2. CASE Loop
  BY <1>2, LoopKeeps
<1>3. CASE Speaker
  BY <1>3, SpeakerKeeps
<1>4. CASE Stop
  BY <1>4, LoopStopsKeeps
<1>5. ASSUME NEW g \in Users, Reading(g)
      PROVE  IInv'
  BY <1>5, ReadTestKeeps, ReadsAtKeeps, SeekEndKeeps DEF Reading
<1>6. CASE UNCHANGED vars
  <2>1. UNCHANGED <<dlVars, pos, closed, opened, loop, slots, mixMu, call>>
    BY <1>6 DEF vars, dlVars
  <2>2. Typed' /\ Locked' /\ Ordered' /\ Announced'
    BY <2>1 DEF IInv, Typed, Locked, Ordered, Announced, dlVars, Idle
  <2>3. \A g \in Users : Found(g)'
    BY <2>1, StillFound
  <2>4. QED
    BY <2>2, <2>3 DEF IInv
<1>7. QED
  BY <1>1, <1>2, <1>3, <1>4, <1>5, <1>6 DEF Next

LEMMA AlwaysIInv == Spec => []IInv
  BY Initially, StepKeepsIInv, PTL DEF Spec

\* However addWritten, finish, Close and the readers interleave: who sleeps in
\* cond.Wait has caught up, or the broadcast is still to come (cache.go's
\* addWritten, finish and Read).
THEOREM WakeUpsArrive == Spec => []NoLostWakeup
<1>1. IInv => NoLostWakeup
  BY DEF IInv, Found, NoLostWakeup
<1>2. QED
  BY AlwaysIInv, <1>1, PTL

\* ReadAt, called with dl.mu released, asks an open file for bytes it has
\* (cache.go's Read).
THEOREM ReadsAreCovered == Spec => []ReadsWhatIsThere
<1>1. ASSUME IInv PROVE ReadsWhatIsThere
  <2> SUFFICES ASSUME NEW g \in Users, call[g].at = "read"
               PROVE  /\ pos[call[g].reader] + call[g].avail <= disk
                      /\ ~closed[call[g].reader]
    BY DEF ReadsWhatIsThere
  <2>1. /\ pos[call[g].reader] + call[g].avail <= written
        /\ ~closed[call[g].reader] /\ call[g].reader \in Readers
    BY <1>1 DEF IInv, Found, Idle
  <2>2. pos[call[g].reader] \in Nat /\ call[g].avail \in Nat
    BY <1>1, <2>1 DEF IInv, Typed, Call
  <2>3. QED
    BY <1>1, <2>1, <2>2, Counts
<1>2. QED
  BY AlwaysIInv, <1>1, PTL

\* io.EOF means that the download has succeeded and the reader has had all of it
\* (cache.go's Read).
THEOREM EndsAreTrue == Spec => []EndIsTheEnd
<1>1. IInv => EndIsTheEnd
  BY DEF IInv, Found, EndIsTheEnd
<1>2. QED
  BY AlwaysIInv, <1>1, PTL
=============================================================================
