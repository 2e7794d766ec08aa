-------------------------- MODULE TrackCache_proofs --------------------------
(***************************************************************************)
(* Proofs about TrackCache, for any number of keys, downloads, slots, calls*)
(* and restarts: no key is downloaded twice at a time, every background    *)
(* slot is accounted for, and until a restart what is on disk and not      *)
(* being downloaded is whole.                                              *)
(***************************************************************************)
EXTENDS TrackCache, FiniteSetTheorems, WellFoundedInduction, TLAPS

Running == [pc : {"fetch", "ended"}, key : Keys, counted : BOOLEAN]

\* The types the proofs need, and what TypeOK says of active.
Typed ==
    /\ file \in [Keys -> {"absent", "partial", "whole"}]
    /\ pending \in Seq(Keys) /\ concCount \in Int /\ crashes \in Nat
    /\ download \in [Downloads -> {Free} \cup Running]
    /\ active = {download[d].key : d \in Live}

\* A download that has ended left its file whole, or none.
EndedIsWhole ==
    \A d \in Downloads :
        download[d].pc = "ended" => file[download[d].key] # "partial"

IInv == Typed /\ OneWriter /\ SlotsCounted /\ EndedIsWhole /\ PartialIsActive

cached == <<file, active, concCount, download, crashes>>

-----------------------------------------------------------------------------
(* The next pending download, and the sets of downloads *)

\* A set of naturals that is not empty has a least element.
LEMMA LeastExists ==
  ASSUME NEW S \in SUBSET Nat, S # {}
  PROVE  Min(S) \in S
<1> DEFINE R == {ss \in Nat \X Nat : ss[1] < ss[2]}
<1>1. IsWellFoundedOn(R, Nat)
  BY NatLessThanWellFounded DEF OpToRel
<1> HIDE DEF R
<1>2. PICK x \in S : \A y \in S : <<y, x>> \notin R
  BY <1>1, WFMin
<1>3. ASSUME NEW y \in S PROVE x <= y
  <2>1. <<y, x>> \notin R /\ x \in Nat /\ y \in Nat
    BY <1>2
  <2>2. ~(y < x)
    BY <2>1 DEF R
  <2>3. QED
    BY <2>1, <2>2
<1>4. QED
  BY <1>3 DEF Min

\* removePendingLocked leaves a queue of keys.
LEMMA Removed ==
  ASSUME pending \in Seq(Keys), NEW k \in Keys
  PROVE  RemoveFirst(pending, k) \in Seq(Keys)
<1> DEFINE I == {j \in 1 .. Len(pending) : pending[j] = k}
           i == SelectInSeq(pending, LAMBDA v : v = k)
<1>1. i = IF I # {} THEN Min(I) ELSE 0
  BY DEF SelectInSeq
<1>2. I \in SUBSET Nat
  OBVIOUS
<1>3. I # {} => Min(I) \in I
  BY <1>2, LeastExists
<1>4. (\E j \in 1 .. Len(pending) : pending[j] = k) => i \in 1 .. Len(pending)
  BY <1>1, <1>3
<1>5. RemoveFirst(pending, k) =
          IF \E j \in 1 .. Len(pending) : pending[j] = k
          THEN SubSeq(pending, 1, i - 1) \o SubSeq(pending, i + 1, Len(pending))
          ELSE pending
  BY DEF RemoveFirst, RemoveAt
<1> HIDE DEF i
<1>6. ASSUME i \in 1 .. Len(pending)
      PROVE  SubSeq(pending, 1, i - 1) \o SubSeq(pending, i + 1, Len(pending)) \in Seq(Keys)
  <2>1. SubSeq(pending, 1, i - 1) \in Seq(Keys)
    BY <1>6
  <2>2. SubSeq(pending, i + 1, Len(pending)) \in Seq(Keys)
    BY <1>6
  <2>3. QED
    BY <2>1, <2>2
<1>7. QED
  BY <1>4, <1>5, <1>6

LEMMA LiveIs ==
  ASSUME Typed, NEW d \in Downloads
  PROVE  /\ d \in Live <=> download[d].pc # "free"
         /\ d \in Live => download[d] \in Running /\ download[d].key \in active
         /\ d \notin Live => download[d] = Free
  BY DEF Typed, Live, Free, Running

LEMMA CountedIsFinite == IsFiniteSet(Counted)
<1>1. Counted \in SUBSET Downloads
  BY DEF Counted, Live
<1>2. QED
  BY <1>1, ConstantsOK, FS_Subset DEF ConstantsOK

\* What the sets become when download d does.
LEMMA DownloadBecomes ==
  ASSUME Typed, NEW d \in Downloads, NEW r \in {Free} \cup Running,
         download' = [download EXCEPT ![d] = r]
  PROVE  /\ download' \in [Downloads -> {Free} \cup Running]
         /\ download'[d] = r
         /\ \A e \in Downloads : e # d => download'[e] = download[e]
         /\ Live' = IF r = Free THEN Live \ {d} ELSE Live \cup {d}
         /\ Counted' = IF r # Free /\ r.counted THEN Counted \cup {d} ELSE Counted \ {d}
<1>1. /\ download' \in [Downloads -> {Free} \cup Running] /\ download'[d] = r
      /\ \A e \in Downloads : e # d => download'[e] = download[e]
  BY DEF Typed
<1>2. Live' = IF r = Free THEN Live \ {d} ELSE Live \cup {d}
  BY <1>1 DEF Live
<1>3. Counted' = IF r # Free /\ r.counted THEN Counted \cup {d} ELSE Counted \ {d}
  BY <1>1, <1>2 DEF Counted, Live
<1>4. QED
  BY <1>1, <1>2, <1>3

-----------------------------------------------------------------------------
LEMMA InitIInv == Init => IInv
<1> SUFFICES ASSUME Init PROVE IInv
  OBVIOUS
<1>1. /\ Live = {} /\ Counted = {} /\ download = [d \in Downloads |-> Free]
      /\ file = [k \in Keys |-> "absent"] /\ active = {} /\ pending = <<>>
      /\ concCount = 0 /\ crashes = 0
  BY DEF Init, Live, Counted
<1>2. Typed
  <2>1. pending \in Seq(Keys)
    BY <1>1
  <2>2. QED
    BY <1>1, <2>1 DEF Typed
<1>3. SlotsCounted
  BY <1>1, FS_EmptySet, ConstantsOK DEF SlotsCounted, ConstantsOK
<1>4. OneWriter /\ EndedIsWhole /\ PartialIsActive
  BY <1>1 DEF OneWriter, EndedIsWhole, PartialIsActive, Free
<1>5. QED
  BY <1>2, <1>3, <1>4 DEF IInv

LEMMA CacheAlone ==
  ASSUME IInv, UNCHANGED cached, pending' \in Seq(Keys)
  PROVE  IInv'
  BY DEF IInv, cached, Typed, OneWriter, SlotsCounted, EndedIsWhole,
         PartialIsActive, Live, Counted

\* A download of a key that nobody downloads takes the place of a free one.
LEMMA StartsKeeps ==
  ASSUME IInv, NEW k \in Keys, NEW d \in Downloads, NEW counted \in BOOLEAN,
         Starts(k, d, counted, concCount), k \notin active,
         counted => concCount < MaxConc,
         pending' \in Seq(Keys), crashes' = crashes
  PROVE  IInv'
<1> DEFINE r == [pc |-> "fetch", key |-> k, counted |-> counted]
<1>1. /\ download[d] = Free /\ file' = [file EXCEPT ![k] = "partial"]
      /\ active' = active \cup {k}
      /\ concCount' = IF counted THEN concCount + 1 ELSE concCount
      /\ download' = [download EXCEPT ![d] = r]
  BY DEF Starts
<1>2. r \in Running /\ r # Free /\ r.key = k /\ r.counted = counted /\ r.pc = "fetch"
  BY DEF Running, Free
<1> HIDE DEF r
<1>3. /\ download' \in [Downloads -> {Free} \cup Running] /\ download'[d] = r
      /\ \A e \in Downloads : e # d => download'[e] = download[e]
      /\ Live' = Live \cup {d}
      /\ Counted' = IF counted THEN Counted \cup {d} ELSE Counted \ {d}
  BY <1>1, <1>2, DownloadBecomes DEF IInv
<1>4. d \notin Live /\ d \notin Counted
  BY <1>1 DEF Live, Counted
<1>5. \A e \in Live : e # d /\ e \in Downloads /\ download'[e] = download[e]
                      /\ download[e].key \in active /\ download[e].key # k
  BY <1>3, <1>4, LiveIs DEF IInv, Live
<1>6. Typed'
  <2>1. active' = {download'[e].key : e \in Live'}
    BY <1>1, <1>2, <1>3, <1>5 DEF IInv, Typed
  <2>2. file' \in [Keys -> {"absent", "partial", "whole"}] /\ concCount' \in Int
    BY <1>1 DEF IInv, Typed
  <2>3. QED
    BY <1>3, <2>1, <2>2 DEF IInv, Typed
<1>7. OneWriter'
  BY <1>2, <1>3, <1>5 DEF IInv, OneWriter
<1>8. SlotsCounted'
  <2>1. CASE counted
    <3>1. Counted' = Counted \cup {d} /\ concCount' = concCount + 1
      BY <1>1, <1>3, <2>1
    <3>2. Cardinality(Counted') = Cardinality(Counted) + 1
      BY <1>4, <3>1, CountedIsFinite, FS_AddElement
    <3>3. concCount' <= MaxConc
      BY <2>1, <3>1, ConstantsOK DEF IInv, Typed, ConstantsOK
    <3>4. QED
      BY <3>1, <3>2, <3>3 DEF IInv, SlotsCounted
  <2>2. CASE ~counted
    <3>1. Counted' = Counted /\ concCount' = concCount
      BY <1>1, <1>3, <1>4, <2>2
    <3>2. QED
      BY <3>1 DEF IInv, SlotsCounted
  <2>3. QED
    BY <2>1, <2>2
<1>9. EndedIsWhole'
  <2>1. ASSUME NEW e \in Downloads, download'[e].pc = "ended"
        PROVE  file'[download'[e].key] # "partial"
    <3>1. e # d /\ download'[e] = download[e]
      BY <1>2, <1>3, <2>1
    <3>2. e \in Live
      BY <2>1, <3>1, LiveIs DEF IInv
    <3>3. download[e].key # k /\ download[e].key \in Keys
      BY <1>5, <3>2, LiveIs DEF IInv, Running
    <3>4. QED
      BY <1>1, <2>1, <3>1, <3>3 DEF IInv, Typed, EndedIsWhole
  <2>2. QED
    BY <2>1 DEF EndedIsWhole
<1>10. PartialIsActive'
  BY <1>1 DEF IInv, Typed, PartialIsActive
<1>11. QED
  BY <1>6, <1>7, <1>8, <1>9, <1>10 DEF IInv

LEMMA EnsureKeeps ==
  ASSUME IInv, NEW k \in Keys, EnsureDownload(k)
  PROVE  IInv'
<1>1. crashes' = crashes /\ pending \in Seq(Keys)
  BY DEF EnsureDownload, IInv, Typed
<1>2. CASE EnsureNothing(k)
  BY <1>1, <1>2, CacheAlone DEF EnsureNothing, cache, cached
<1>3. CASE EnsureStarts(k)
  <2>1. CASE StartFails
    BY <1>1, <1>3, <2>1, CacheAlone DEF EnsureStarts, StartFails, cached
  <2>2. ASSUME NEW d \in Downloads, Starts(k, d, TRUE, concCount)
        PROVE  IInv'
    BY <1>1, <1>3, <2>2, StartsKeeps DEF EnsureStarts, Wanted
  <2>3. QED
    BY <1>3, <2>1, <2>2 DEF EnsureStarts
<1>4. CASE EnsureQueues(k)
  <2>1. pending' \in Seq(Keys)
    BY <1>1, <1>4 DEF EnsureQueues
  <2>2. QED
    BY <1>1, <1>4, <2>1, CacheAlone DEF EnsureQueues, cached
<1>5. QED
  BY <1>2, <1>3, <1>4 DEF EnsureDownload

LEMMA OpenKeeps ==
  ASSUME IInv, NEW k \in Keys, Open(k)
  PROVE  IInv'
<1>1. crashes' = crashes /\ pending \in Seq(Keys)
  BY DEF Open, IInv, Typed
<1>2. CASE OpenHits(k) \/ OpenAttaches(k)
  BY <1>1, <1>2, CacheAlone DEF OpenHits, OpenAttaches, cache, cached
<1>3. CASE OpenStarts(k)
  <2>1. pending' \in Seq(Keys)
    BY <1>1, <1>3, Removed DEF OpenStarts
  <2>2. CASE StartFails
    BY <1>1, <2>1, <2>2, CacheAlone DEF StartFails, cached
  <2>3. ASSUME NEW d \in Downloads, Starts(k, d, FALSE, concCount)
        PROVE  IInv'
    BY <1>1, <1>3, <2>1, <2>3, StartsKeeps DEF OpenStarts, Wanted
  <2>4. QED
    BY <1>3, <2>2, <2>3 DEF OpenStarts
<1>4. QED
  BY <1>2, <1>3 DEF Open

-----------------------------------------------------------------------------
(* A download ends *)

\* The file of a key changes hands only with the one download of that key.
LEMMA FetchEndsKeeps ==
  ASSUME IInv, NEW d \in Downloads, FetchSucceeds(d) \/ FetchFails(d)
  PROVE  IInv'
<1> DEFINE k == download[d].key
           r == [download[d] EXCEPT !.pc = "ended"]
<1>1. /\ download[d].pc = "fetch" /\ download' = [download EXCEPT ![d].pc = "ended"]
      /\ UNCHANGED <<active, pending, concCount, crashes>>
      /\ \/ file' = [file EXCEPT ![k] = "absent"]
         \/ file' = [file EXCEPT ![k] = IF @ = "partial" THEN "whole" ELSE @]
  BY DEF FetchSucceeds, FetchFails
<1>2. d \in Live /\ download[d] \in Running
  BY <1>1, LiveIs DEF IInv
<1>3. /\ r \in Running /\ r # Free /\ r.key = k /\ r.counted = download[d].counted
      /\ r.pc = "ended" /\ k \in Keys
  BY <1>2 DEF Running, Free
<1>4. download' = [download EXCEPT ![d] = r]
  BY <1>1 DEF IInv, Typed
<1>5. /\ file' \in [Keys -> {"absent", "partial", "whole"}] /\ file'[k] # "partial"
      /\ \A e \in Keys : file'[e] = "partial" => file[e] = "partial"
  BY <1>1, <1>3 DEF IInv, Typed
<1> HIDE DEF r
<1>6. /\ download' \in [Downloads -> {Free} \cup Running] /\ download'[d] = r
      /\ \A e \in Downloads : e # d => download'[e] = download[e]
      /\ Live' = Live \cup {d}
      /\ Counted' = IF r.counted THEN Counted \cup {d} ELSE Counted \ {d}
  BY <1>3, <1>4, DownloadBecomes DEF IInv
<1>7. Live' = Live /\ Counted' = Counted
  BY <1>2, <1>3, <1>6 DEF Counted
<1>8. \A e \in Downloads : download'[e].key = download[e].key
  BY <1>3, <1>6
<1>9. Typed'
  <2>1. active' = {download'[e].key : e \in Live'}
    BY <1>1, <1>7, <1>8 DEF IInv, Typed, Live
  <2>2. QED
    BY <1>1, <1>5, <1>6, <2>1 DEF IInv, Typed
<1>10. OneWriter' /\ SlotsCounted'
  BY <1>1, <1>7, <1>8 DEF IInv, OneWriter, SlotsCounted, Live
<1>11. EndedIsWhole'
  <2>1. ASSUME NEW e \in Downloads, e # d, download'[e].pc = "ended"
        PROVE  file'[download'[e].key] # "partial"
    <3>1. download'[e] = download[e] /\ download[e].key \in Keys
      BY <1>6, <2>1, LiveIs DEF IInv, Running
    <3>2. QED
      BY <1>5, <2>1, <3>1 DEF IInv, EndedIsWhole
  <2>2. QED
    BY <1>3, <1>5, <1>6, <2>1 DEF EndedIsWhole
<1>12. PartialIsActive'
  BY <1>1, <1>5 DEF IInv, PartialIsActive
<1>13. QED
  BY <1>9, <1>10, <1>11, <1>12 DEF IInv

\* The last section of a download, when no pending one is started.
LEMMA LeavesKeeps ==
  ASSUME IInv, NEW d \in Downloads, download[d].pc = "ended",
         active' = active \ {download[d].key}, file' = file,
         concCount' = IF download[d].counted THEN concCount - 1 ELSE concCount,
         download' = [download EXCEPT ![d] = Free],
         pending' \in Seq(Keys), crashes' = crashes
  PROVE  IInv'
<1>1. d \in Live /\ download[d] \in Running
  BY LiveIs DEF IInv
<1>2. /\ download' \in [Downloads -> {Free} \cup Running] /\ download'[d] = Free
      /\ \A e \in Downloads : e # d => download'[e] = download[e]
      /\ Live' = Live \ {d} /\ Counted' = Counted \ {d}
  BY DownloadBecomes DEF IInv
<1>3. \A e \in Live : e # d => download[e].key # download[d].key
  BY <1>1 DEF IInv, OneWriter
<1>4. Typed'
  <2>1. active' = {download'[e].key : e \in Live'}
    BY <1>1, <1>2, <1>3 DEF IInv, Typed, Live
  <2>2. concCount' \in Int
    BY DEF IInv, Typed
  <2>3. QED
    BY <1>2, <2>1, <2>2 DEF IInv, Typed
<1>5. OneWriter'
  BY <1>2 DEF IInv, OneWriter, Live
<1>6. SlotsCounted'
  <2>1. CASE download[d].counted
    <3>1. d \in Counted /\ concCount' = concCount - 1
      BY <1>1, <2>1 DEF Counted
    <3>2. Cardinality(Counted') = Cardinality(Counted) - 1
      BY <1>2, <3>1, CountedIsFinite, FS_RemoveElement
    <3>3. concCount' <= MaxConc
      BY <3>1, ConstantsOK DEF IInv, Typed, SlotsCounted, ConstantsOK
    <3>4. QED
      BY <3>1, <3>2, <3>3 DEF IInv, SlotsCounted
  <2>2. CASE ~download[d].counted
    <3>1. Counted' = Counted /\ concCount' = concCount
      BY <1>2, <2>2 DEF Counted
    <3>2. QED
      BY <3>1 DEF IInv, SlotsCounted
  <2>3. QED
    BY <2>1, <2>2
<1>7. EndedIsWhole'
  BY <1>2 DEF IInv, EndedIsWhole, Free
<1>8. PartialIsActive'
  BY DEF IInv, EndedIsWhole, PartialIsActive
<1>9. QED
  BY <1>4, <1>5, <1>6, <1>7, <1>8 DEF IInv

\* ... and when k is: its download takes the place of the one that ends.
LEMMA NextKeeps ==
  ASSUME IInv, NEW d \in Downloads, download[d].pc = "ended", NEW k \in Keys,
         k \notin active \ {download[d].key},
         NEW conc, conc = IF download[d].counted THEN concCount - 1 ELSE concCount,
         ~(conc >= MaxConc), concCount' = conc + 1,
         active' = (active \ {download[d].key}) \cup {k},
         file' = [file EXCEPT ![k] = "partial"],
         download' = [download EXCEPT
                          ![d] = [pc |-> "fetch", key |-> k, counted |-> TRUE]],
         pending' \in Seq(Keys), crashes' = crashes
  PROVE  IInv'
<1> DEFINE r == [pc |-> "fetch", key |-> k, counted |-> TRUE]
<1>1. d \in Live /\ download[d] \in Running
  BY LiveIs DEF IInv
<1>2. r \in Running /\ r # Free /\ r.key = k /\ r.counted /\ r.pc = "fetch"
  BY DEF Running, Free
<1>3. download' = [download EXCEPT ![d] = r]
  OBVIOUS
<1> HIDE DEF r
<1>4. /\ download' \in [Downloads -> {Free} \cup Running] /\ download'[d] = r
      /\ \A e \in Downloads : e # d => download'[e] = download[e]
      /\ Live' = Live \cup {d} /\ Counted' = Counted \cup {d}
  BY <1>2, <1>3, DownloadBecomes DEF IInv
<1>5. Live' = Live
  BY <1>1, <1>4
<1>6. \A e \in Live : e # d =>
          /\ e \in Downloads /\ download'[e] = download[e]
          /\ download[e].key \in active \ {download[d].key} /\ download[e].key # k
  BY <1>1, <1>4, LiveIs DEF IInv, OneWriter, Live
<1>7. Typed'
  <2>1. active' = {download'[e].key : e \in Live'}
    <3>1. active \ {download[d].key} = {download[e].key : e \in Live \ {d}}
      BY <1>1, <1>6 DEF IInv, Typed
    <3>2. QED
      BY <1>1, <1>2, <1>4, <1>5, <1>6, <3>1
  <2>2. file' \in [Keys -> {"absent", "partial", "whole"}] /\ concCount' \in Int
    BY DEF IInv, Typed
  <2>3. QED
    BY <1>4, <2>1, <2>2 DEF IInv, Typed
<1>8. OneWriter'
  BY <1>2, <1>4, <1>5, <1>6 DEF IInv, OneWriter
<1>9. SlotsCounted'
  <2>1. concCount' <= MaxConc
    BY ConstantsOK DEF IInv, Typed, ConstantsOK
  <2>2. CASE download[d].counted
    <3>1. Counted' = Counted /\ concCount' = concCount
      BY <1>1, <1>4, <2>2 DEF Counted, IInv, Typed
    <3>2. QED
      BY <2>1, <3>1 DEF IInv, SlotsCounted
  <2>3. CASE ~download[d].counted
    <3>1. d \notin Counted /\ concCount' = concCount + 1
      BY <2>3 DEF Counted
    <3>2. Cardinality(Counted') = Cardinality(Counted) + 1
      BY <1>4, <3>1, CountedIsFinite, FS_AddElement
    <3>3. QED
      BY <2>1, <3>1, <3>2 DEF IInv, SlotsCounted
  <2>4. QED
    BY <2>2, <2>3
<1>10. EndedIsWhole'
  <2>1. ASSUME NEW e \in Downloads, download'[e].pc = "ended"
        PROVE  file'[download'[e].key] # "partial"
    <3>1. e # d /\ download'[e] = download[e]
      BY <1>2, <1>4, <2>1
    <3>2. e \in Live /\ download[e].key \in Keys
      BY <2>1, <3>1, LiveIs DEF IInv, Running
    <3>3. QED
      BY <1>6, <2>1, <3>1, <3>2 DEF IInv, Typed, EndedIsWhole
  <2>2. QED
    BY <2>1 DEF EndedIsWhole
<1>11. PartialIsActive'
  BY DEF IInv, Typed, EndedIsWhole, PartialIsActive
<1>12. QED
  BY <1>7, <1>8, <1>9, <1>10, <1>11 DEF IInv

LEMMA FinishesKeeps ==
  ASSUME IInv, NEW d \in Downloads, Finishes(d)
  PROVE  IInv'
<1> DEFINE k == download[d].key
           still == active \ {k}
           conc == IF download[d].counted THEN concCount - 1 ELSE concCount
           i == SelectInSeq(pending, LAMBDA p : p \notin still /\ file[p] = "absent")
           Leaves == /\ active' = still /\ concCount' = conc
                     /\ download' = [download EXCEPT ![d] = Free]
                     /\ UNCHANGED file
<1>1. download[d].pc = "ended" /\ crashes' = crashes /\ pending \in Seq(Keys)
  BY DEF Finishes, IInv, Typed
<1>2. \/ i = 0
      \/ i \in 1 .. Len(pending) /\ pending[i] \notin still /\ pending[i] \in Keys
  <2> DEFINE J == {j \in 1 .. Len(pending) :
                       pending[j] \notin still /\ file[pending[j]] = "absent"}
  <2>1. i = IF J # {} THEN Min(J) ELSE 0
    BY DEF SelectInSeq
  <2>2. J \in SUBSET Nat
    OBVIOUS
  <2>3. J # {} => Min(J) \in J
    BY <2>2, LeastExists
  <2>4. i = 0 \/ i \in J
    BY <2>1, <2>3
  <2> HIDE DEF i
  <2>5. \A j \in J : /\ j \in 1 .. Len(pending)
                      /\ pending[j] \notin still /\ pending[j] \in Keys
    BY <1>1
  <2>6. QED
    BY <2>4, <2>5
<1>3. \/ Leaves /\ pending' \in {pending, <<>>}
      \/ /\ ~(conc >= MaxConc) /\ i # 0
         /\ pending' = SubSeq(pending, i + 1, Len(pending))
         /\ \/ Leaves
            \/ /\ active' = still \cup {pending[i]} /\ concCount' = conc + 1
               /\ download' = [download EXCEPT ![d] =
                      [pc |-> "fetch", key |-> pending[i], counted |-> TRUE]]
               /\ file' = [file EXCEPT ![pending[i]] = "partial"]
  BY DEF Finishes
<1> HIDE DEF i
<1>4. pending' \in Seq(Keys)
  <2>1. CASE pending' \in {pending, <<>>}
    <3>1. <<>> \in Seq(Keys)
      OBVIOUS
    <3>2. QED
      BY <1>1, <2>1, <3>1
  <2>2. CASE i # 0 /\ pending' = SubSeq(pending, i + 1, Len(pending))
    BY <1>1, <1>2, <2>2
  <2>3. QED
    BY <1>3, <2>1, <2>2
<1>5. CASE Leaves
  BY <1>1, <1>4, <1>5, LeavesKeeps
<1>6. CASE ~Leaves
  BY <1>1, <1>2, <1>3, <1>4, <1>6, NextKeeps
<1>7. QED
  BY <1>5, <1>6

-----------------------------------------------------------------------------
(* evict and the restart *)

\* To remove a file changes nothing of what the files say of the downloads.
LEMMA EvictKeeps ==
  ASSUME IInv, Evict \/ OpensFile
  PROVE  IInv'
<1>1. /\ UNCHANGED <<cache, crashes>> /\ pending \in Seq(Keys)
      /\ file' = file \/ \E k \in Keys : file' = [file EXCEPT ![k] = "absent"]
  BY DEF Evict, EvictLists, EvictStats, EvictTurns, EvictEnds, EvictChecks,
         EvictRemoves, OpensFile, cache, IInv, Typed
<1>2. CASE file' = file
  BY <1>1, <1>2, CacheAlone DEF cache, cached
<1>3. ASSUME NEW k \in Keys, file' = [file EXCEPT ![k] = "absent"]
      PROVE  IInv'
  <2>1. UNCHANGED <<active, pending, concCount, download, crashes>>
    BY <1>1 DEF cache
  <2>2. /\ file' \in [Keys -> {"absent", "partial", "whole"}]
        /\ \A e \in Keys : file'[e] = "partial" => file[e] = "partial"
    BY <1>3 DEF IInv, Typed
  <2>3. Live' = Live /\ Counted' = Counted
    BY <2>1 DEF Live, Counted
  <2>4. Typed' /\ OneWriter' /\ SlotsCounted' /\ PartialIsActive'
    BY <2>1, <2>2, <2>3 DEF IInv, Typed, OneWriter, SlotsCounted, PartialIsActive
  <2>5. EndedIsWhole'
    <3>1. \A d \in Downloads : download[d].pc = "ended" => download[d].key \in Keys
      BY LiveIs DEF IInv, Running
    <3>2. QED
      BY <2>1, <2>2, <3>1 DEF IInv, EndedIsWhole
  <2>6. QED
    BY <2>4, <2>5 DEF IInv
<1>4. QED
  BY <1>1, <1>2, <1>3

\* After a restart nothing is said of the files that were there.
LEMMA CrashKeeps ==
  ASSUME IInv, Crash
  PROVE  IInv'
<1>1. /\ Live' = {} /\ Counted' = {} /\ download' = [d \in Downloads |-> Free]
      /\ file' = file /\ active' = {} /\ pending' = <<>> /\ concCount' = 0
      /\ crashes' \in Nat \ {0}
  BY DEF Crash, Live, Counted, IInv, Typed
<1>2. Typed'
  BY <1>1 DEF IInv, Typed
<1>3. SlotsCounted'
  BY <1>1, FS_EmptySet, ConstantsOK DEF SlotsCounted, ConstantsOK
<1>4. OneWriter' /\ EndedIsWhole' /\ PartialIsActive'
  BY <1>1 DEF OneWriter, EndedIsWhole, PartialIsActive, Free
<1>5. QED
  BY <1>2, <1>3, <1>4 DEF IInv

-----------------------------------------------------------------------------
(* Theorems *)

LEMMA StepKeepsIInv == IInv /\ [Next]_vars => IInv'
<1> SUFFICES ASSUME IInv, [Next]_vars PROVE IInv'
  OBVIOUS
<1>1. ASSUME NEW k \in Keys, EnsureDownload(k) \/ Open(k)
      PROVE  IInv'
  BY <1>1, EnsureKeeps, OpenKeeps
<1>2. ASSUME NEW d \in Downloads, Download(d)
      PROVE  IInv'
  BY <1>2, FetchEndsKeeps, FinishesKeeps DEF Download
<1>3. CASE Evict \/ OpensFile
  BY <1>3, EvictKeeps
<1>4. CASE Crash
  BY <1>4, CrashKeeps
<1>5. CASE UNCHANGED vars
  BY <1>5, CacheAlone DEF vars, cached, IInv, Typed
<1>6. QED
  BY <1>1, <1>2, <1>3, <1>4, <1>5 DEF Next

LEMMA AlwaysIInv == Spec => []IInv
  BY InitIInv, StepKeepsIInv, PTL DEF Spec

\* No key is downloaded twice at a time, whatever EnsureDownload, Open, the end
\* of a download and a restart do at once (cache.go's startDownloadLocked).
THEOREM NoTwoWriters == Spec => []OneWriter
<1>1. IInv => OneWriter
  BY DEF IInv
<1>2. QED
  BY AlwaysIInv, <1>1, PTL

\* The background slots of cache.go: concCount is the number of downloads that
\* took one, and is never more than maxConc.
THEOREM SlotsAreCounted == Spec => []SlotsCounted
<1>1. IInv => SlotsCounted
  BY DEF IInv
<1>2. QED
  BY AlwaysIInv, <1>1, PTL

\* Until the process dies, a file that is not being downloaded is whole, which
\* is what Open and EnsureDownload take it for.
THEOREM FilesAreWhole == Spec => []PartialIsActive
<1>1. IInv => PartialIsActive
  BY DEF IInv
<1>2. QED
  BY AlwaysIInv, <1>1, PTL
=============================================================================
