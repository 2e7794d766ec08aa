------------------------- MODULE TrackQueue_proofs --------------------------
(***************************************************************************)
(* Proofs about TrackQueue, for any set of items and any number of         *)
(* messages.  With a server that appends, loads, clears, seeks, sets a     *)
(* start position and sends snapshots in queue order (PlainMessages), the  *)
(* window is aligned, the loader never sleeps over work, and the queue     *)
(* implements PlayCursor, hence hands out the tracks in their order.  With *)
(* any server, the items stay unique and the shuffle a permutation; with   *)
(* one that removes nothing, no cursor panics.  What else the other        *)
(* messages do to the window is in the README, section 5.                  *)
(***************************************************************************)
EXTENDS TrackQueue, SequenceTheorems, FiniteSetTheorems, WellFoundedInduction,
        TLAPS

\* The server neither inserts before what is preloaded, nor removes, nor cuts
\* back autoplay tracks, nor shuffles.
PlainMessages == Messages \cap {"insert", "remove", "autoplay", "shuffle"} = {}

-----------------------------------------------------------------------------
(* The inductive invariant *)

LoaderPCs == {"top", "wait", "fill", "copy", "work"}
ConsumerPCs == {"stopped", "calls", "loop", "ends?", "ready?"}
HandlerPCs == {"idle", "add", "clear", "start"}

Types ==
    /\ refs \in Seq(Items) /\ index \in Nat
    /\ shuffledIndexes \in Seq(Nat)
    /\ preloaded \in Seq(Slots)
    /\ tracks \in [Slots -> Track \cup {Free}]
    /\ token \in BOOLEAN /\ autoplayMode = FALSE
    /\ pendingStart \in Items \cup {None}
    /\ loader \in [pc : LoaderPCs, batch : Seq(Slots)]
    /\ consumer \in [pc : ConsumerPCs, prev : Slots \cup {None},
                     track : Slots \cup {None}, last : Items \cup {None}]
    /\ ws \in [pc : HandlerPCs, items : Seq(Items), after : {None}]

\* Without shuffles the play order is the queue's.
InQueueOrder ==
    \A i \in 1 .. Len(shuffledIndexes) : shuffledIndexes[i] = i - 1

\* What is pointed to has not been collected.
LiveIsTrack == \A a \in Live \cap Slots : tracks[a] \in Track

Unique(s) == \A i, j \in 1 .. Len(s) : s[i] = s[j] => i = j

\* An item is in the queue once, and what is being added is not there.
QueueUnique == Unique(refs)
AddsNew ==
    /\ ws.pc \in {"add", "clear"} => Unique(ws.items)
    /\ ws.pc = "add" =>
           \A i \in 1 .. Len(ws.items), j \in 1 .. Len(refs) : ws.items[i] # refs[j]
    /\ ws.pc = "clear" => refs = <<>>

\* The k-th preloaded track is for the k-th item from index on.
Aligned ==
    ws.pc # "clear" =>
        \A k \in 1 .. Len(preloaded) :
            /\ index + k =< Len(refs)
            /\ tracks[preloaded[k]].item = refs[index + k]

\* The consumer's tracks, if preloaded at all, are in front, one of them.
InFront ==
    /\ Unique(preloaded)
    /\ \A k \in 1 .. Len(preloaded) :
           preloaded[k] \in {consumer.prev, consumer.track} => k = 1
ConsumerKnows ==
    /\ consumer.pc = "stopped" =>
           consumer.prev = None /\ consumer.track = None /\ consumer.last = None
    /\ consumer.pc \in {"calls", "loop", "ends?"} => consumer.track = None
    /\ consumer.pc = "ready?" =>
           /\ consumer.track # None
           /\ \A k \in 1 .. Len(preloaded) : preloaded[k] # consumer.prev

IInv == /\ Types /\ InQueueOrder /\ LiveIsTrack /\ QueueUnique /\ AddsNew
        /\ Aligned /\ InFront /\ ConsumerKnows

\* What the loader has done so far it need not do again before the next
\* notification: the window is full, and its tracks are settled, or in the copy.
FilledUp == Len(preloaded) >= Preload \/ index + Len(preloaded) >= Len(refs)
Settled(t) == tracks[t].state \in {"ready", "failed"}
Undisturbed == ~token /\ ws.pc \notin {"add", "clear"} /\ refs # <<>>
LoaderKnows ==
    Undisturbed =>
        /\ loader.pc \in {"copy", "work", "wait"} => FilledUp
        /\ loader.pc = "work" =>
               \A k \in 1 .. Len(preloaded) :
                   Settled(preloaded[k]) \/ preloaded[k] \in ToSet(loader.batch)
        /\ loader.pc = "wait" =>
               \A k \in 1 .. Len(preloaded) : Settled(preloaded[k])

-----------------------------------------------------------------------------
(* Numbers and sequences *)

LEMMA LeastExists ==
  ASSUME NEW S \in SUBSET Nat, S # {}
  PROVE  \E x \in S : \A y \in S : x =< y
<1> DEFINE R == {ss \in Nat \X Nat : ss[1] < ss[2]}
<1>1. IsWellFoundedOn(R, Nat)
  BY NatLessThanWellFounded DEF OpToRel
<1> HIDE DEF R
<1>2. PICK x \in S : \A y \in S : <<y, x>> \notin R
  BY <1>1, WFMin
<1>3. ASSUME NEW y \in S PROVE x =< y
  <2>1. <<y, x>> \notin R /\ x \in Nat /\ y \in Nat
    BY <1>2
  <2>2. ~(y < x)
    BY <2>1 DEF R
  <2>3. QED
    BY <2>1, <2>2
<1>4. QED
  BY <1>3

LEMMA LeastIs ==
  ASSUME NEW S \in SUBSET Nat, S # {}
  PROVE  Min(S) \in S /\ \A y \in S : Min(S) =< y
BY LeastExists DEF Min

LEMMA GreatestIs ==
  ASSUME NEW a \in Int, NEW b \in Int, NEW S \in SUBSET (a .. b), S # {}
  PROVE  Max(S) \in S /\ \A y \in S : y =< Max(S)
<1> DEFINE D == {b - x : x \in S}
<1>0. \A x \in S : x \in Int /\ a =< x /\ x =< b
  OBVIOUS
<1>1. D \in SUBSET Nat /\ D # {}
  <2>1. \A x \in S : b - x \in Nat
    BY <1>0
  <2>2. QED
    BY <2>1, Zenon
<1>2. PICK d \in D : \A e \in D : d =< e
  BY <1>1, LeastExists
<1>3. PICK m \in S : d = b - m
  OBVIOUS
<1>4. \A y \in S : b - m =< b - y
  BY <1>2, <1>3
<1>5. \A y \in S : m >= y
  BY <1>4
<1>6. QED
  BY <1>5, Zenon DEF Max

LEMMA GreatestIsNat ==
  ASSUME NEW a \in Int, NEW b \in Int, NEW S \in SUBSET (a .. b), S # {}
  PROVE  Max(S) \in a .. b /\ Max(S) \in S /\ \A y \in S : y =< Max(S)
BY GreatestIs

\* PositionOf finds the first place of x.
LEMMA PositionIs ==
  ASSUME NEW D, NEW s \in Seq(D), NEW x
  PROVE  /\ PositionOf(s, x) \in 0 .. Len(s)
         /\ PositionOf(s, x) # 0 => s[PositionOf(s, x)] = x
         /\ PositionOf(s, x) = 0 <=> \A i \in 1 .. Len(s) : s[i] # x
<1> DEFINE I == {i \in 1 .. Len(s) : s[i] = x}
<1>1. PositionOf(s, x) = IF I # {} THEN Min(I) ELSE 0
  BY DEF PositionOf, SelectInSeq
<1>2. I \in SUBSET Nat
  OBVIOUS
<1>3. CASE I # {}
  <2>1. Min(I) \in I
    BY <1>2, <1>3, LeastIs
  <2>2. QED
    BY <1>1, <1>3, <2>1
<1>4. CASE I = {}
  <2>1. \A i \in 1 .. Len(s) : s[i] # x
    BY <1>4
  <2>2. QED
    BY <1>1, <1>4, <2>1
<1>5. QED
  BY <1>3, <1>4

\* What is taken in ascending order is there once each.
LEMMA AscendingIs ==
  ASSUME NEW S \in SUBSET Nat, NEW n \in Nat, NEW s \in Ascending(S, n)
  PROVE  /\ s \in Seq(S) /\ Len(s) = n /\ Unique(s)
         /\ \A i \in 1 .. n : s[i] \in S
<1>1. s \in [1 .. n -> S]
  BY DEF Ascending
<1>2. s \in Seq(S) /\ Len(s) = n
  BY <1>1
<1>3. \A i \in 1 .. n : s[i] \in S
  BY <1>1
<1>4. \A i, j \in 1 .. n : i < j => s[i] < s[j]
  BY DEF Ascending
<1>5. ASSUME NEW i \in 1 .. n, NEW j \in 1 .. n, s[i] = s[j]
      PROVE  i = j
  <2>1. s[i] \in Nat /\ s[j] \in Nat
    BY <1>3
  <2>2. ~(i < j) /\ ~(j < i)
    BY <1>4, <1>5, <2>1
  <2>3. QED
    BY <2>2
<1>6. QED
  BY <1>2, <1>3, <1>5 DEF Unique

\* The front of a sequence removed.
LEMMA FrontRemoved ==
  ASSUME NEW D, NEW s \in Seq(D), s # <<>>
  PROVE  /\ RemoveAt(s, 1) \in Seq(D) /\ Len(RemoveAt(s, 1)) = Len(s) - 1
         /\ \A k \in 1 .. (Len(s) - 1) : RemoveAt(s, 1)[k] = s[k + 1]
<1>1. RemoveAt(s, 1) = SubSeq(s, 1, 0) \o SubSeq(s, 2, Len(s))
  BY DEF RemoveAt
<1>2. SubSeq(s, 1, 0) = <<>>
  OBVIOUS
<1> DEFINE t == SubSeq(s, 2, Len(s))
<1>3. Len(s) \in Nat /\ Len(s) >= 1 /\ \A i \in 2 .. Len(s) : s[i] \in D
  OBVIOUS
<1>4. /\ t \in Seq(D)
      /\ Len(t) = IF 2 =< Len(s) THEN Len(s) - 2 + 1 ELSE 0
      /\ \A i \in 1 .. Len(s) - 2 + 1 : t[i] = s[2 + i - 1]
  BY <1>3, SubSeqProperties
<1>5. RemoveAt(s, 1) = <<>> \o t
  BY <1>1, <1>2
<1> HIDE DEF t
<1>6. RemoveAt(s, 1) = t
  BY <1>4, <1>5
<1>7. Len(t) = Len(s) - 1
  <2>1. CASE Len(s) = 1
    BY <1>4, <2>1
  <2>2. CASE Len(s) >= 2
    BY <1>3, <1>4, <2>2
  <2>3. QED
    BY <1>3, <2>1, <2>2
<1>8. \A k \in 1 .. (Len(s) - 1) : t[k] = s[k + 1]
  BY <1>3, <1>4
<1>9. QED
  BY <1>4, <1>6, <1>7, <1>8

-----------------------------------------------------------------------------
(* The play order without shuffles *)

\* InQueueOrder, of any shuffle.
Ordered(sh) == \A i \in 1 .. Len(sh) : sh[i] = i - 1

LEMMA ItemIs ==
  ASSUME NEW rf \in Seq(Items), NEW sh \in Seq(Nat), Ordered(sh), NEW i \in Nat
  PROVE  /\ InQueue(rf, sh, i) <=> i < Len(rf)
         /\ ItemAt(rf, sh, i) = rf[i + 1]
<1>1. PlayPos(sh, i) = i
  BY DEF PlayPos, Ordered
<1>2. QED
  BY <1>1 DEF InQueue, ItemAt

LEMMA IdentityIs ==
  ASSUME NEW m \in Nat, NEW n \in Nat
  PROVE  /\ Identity(m, n) \in Seq(Nat)
         /\ Len(Identity(m, n)) = IF n > m THEN n - m ELSE 0
         /\ \A k \in 1 .. Len(Identity(m, n)) : Identity(m, n)[k] = m + k - 1
<1> DEFINE l == IF n > m THEN n - m ELSE 0
<1>1. l \in Nat /\ 1 .. (n - m) = 1 .. l
  OBVIOUS
<1>2. Identity(m, n) = [k \in 1 .. l |-> m + k - 1]
  BY <1>1 DEF Identity
<1>3. \A k \in 1 .. l : m + k - 1 \in Nat
  OBVIOUS
<1> HIDE DEF l
<1>4. [k \in 1 .. l |-> m + k - 1] \in Seq(Nat)
  BY <1>1, <1>3
<1>5. Len([k \in 1 .. l |-> m + k - 1]) = l
  BY <1>1
<1>6. QED
  BY <1>2, <1>4, <1>5 DEF l

\* growShuffleIndexes, and adopting a snapshot with no shuffle order.
LEMMA GrownOrdered ==
  ASSUME NEW sh \in Seq(Nat), Ordered(sh), NEW rf \in Seq(Items)
  PROVE  Grown(sh, rf) \in Seq(Nat) /\ Ordered(Grown(sh, rf))
<1> DEFINE t == Identity(Len(sh), Len(rf))
<1>0. Len(sh) \in Nat /\ Len(rf) \in Nat
  OBVIOUS
<1>1. /\ t \in Seq(Nat)
      /\ \A k \in 1 .. Len(t) : t[k] = Len(sh) + k - 1
  BY <1>0, IdentityIs, Zenon
<1> HIDE DEF t
<1>2. /\ sh \o t \in Seq(Nat) /\ Len(sh \o t) = Len(sh) + Len(t)
      /\ \A k \in 1 .. Len(sh) : (sh \o t)[k] = sh[k]
      /\ \A k \in Len(sh) + 1 .. Len(sh) + Len(t) : (sh \o t)[k] = t[k - Len(sh)]
  BY <1>1
<1>3. ASSUME NEW k \in 1 .. Len(sh \o t)
      PROVE  (sh \o t)[k] = k - 1
  <2>1. CASE k \in 1 .. Len(sh)
    BY <1>2, <2>1 DEF Ordered
  <2>2. CASE k \in Len(sh) + 1 .. Len(sh) + Len(t)
    <3>1. k - Len(sh) \in 1 .. Len(t)
      BY <1>1, <2>2
    <3>2. QED
      BY <1>1, <1>2, <2>2, <3>1
  <2>3. QED
    BY <1>1, <1>2, <2>1, <2>2
<1>4. QED
  BY <1>2, <1>3 DEF Grown, Ordered, t

-----------------------------------------------------------------------------
(* reorderPreloaded and the fill loop *)

\* Some track of pre is for the k-th item from ix on, and so are those before.
Finds(rf, ix, pre, heap, k) ==
    /\ ix + k =< Len(rf)
    /\ \E m \in 1 .. Len(pre) : heap[pre[m]].item = rf[ix + k]

\* It leaves tracks of the window, aligned with the new cursor, and stops only
\* where there is none.
LEMMA ReorderedIs ==
  ASSUME NEW rf \in Seq(Items), NEW sh \in Seq(Nat), Ordered(sh), NEW ix \in Nat,
         NEW pre \in Seq(Slots), NEW heap,
         NEW r, r = Reordered(rf, sh, ix, pre, heap)
  PROVE  /\ r \in Seq(Slots) /\ Len(r) \in 0 .. Len(pre) + 1
         /\ \A k \in 1 .. Len(r) :
                /\ ix + k =< Len(rf) /\ heap[r[k]].item = rf[ix + k]
                /\ \E m \in 1 .. Len(pre) : r[k] = pre[m]
         /\ (\A k \in 1 .. Len(pre) : Finds(rf, ix, pre, heap, k))
                => Len(r) >= Len(pre)
<1> DEFINE items == [k \in 1 .. Len(pre) |-> heap[pre[k]].item]
           Match(i) == PositionOf(items, ItemAt(rf, sh, ix + i))
           Kept(m) == \A i \in 0 .. (m - 1) : InQueue(rf, sh, ix + i) /\ Match(i) # 0
           S == {m \in 0 .. (Len(pre) + 1) : Kept(m)}
           n == Max(S)
<1>1. r = [k \in 1 .. n |-> pre[Match(k - 1)]]
  BY DEF Reordered
<1>2. Len(pre) \in Nat /\ Len(rf) \in Nat
  OBVIOUS
<1> DEFINE D == {heap[pre[k]].item : k \in 1 .. Len(pre)}
<1>3. items \in Seq(D) /\ Len(items) = Len(pre)
  <2>1. \A k \in 1 .. Len(pre) : heap[pre[k]].item \in D
    OBVIOUS
  <2> HIDE DEF D
  <2>2. items \in [1 .. Len(pre) -> D]
    BY <2>1
  <2> HIDE DEF items
  <2>3. QED
    BY <1>2, <2>2
<1> HIDE DEF D
<1>4. ASSUME NEW i \in Nat
      PROVE  /\ InQueue(rf, sh, ix + i) <=> ix + i < Len(rf)
             /\ Match(i) = PositionOf(items, rf[ix + i + 1])
  <2>1. ix + i \in Nat
    OBVIOUS
  <2>2. QED
    BY <2>1, ItemIs
<1>5. ASSUME NEW i \in Nat
      PROVE  /\ Match(i) \in 0 .. Len(pre)
             /\ Match(i) # 0 => heap[pre[Match(i)]].item = rf[ix + i + 1]
             /\ Match(i) = 0 =>
                    \A k \in 1 .. Len(pre) : heap[pre[k]].item # rf[ix + i + 1]
  <2> DEFINE x == rf[ix + i + 1]
             p == PositionOf(items, x)
  <2>1. /\ p \in 0 .. Len(items)
        /\ p # 0 => items[p] = x
        /\ p = 0 <=> \A k \in 1 .. Len(items) : items[k] # x
    BY <1>3, PositionIs, Zenon
  <2>2. Match(i) = p
    BY <1>4
  <2> HIDE DEF p, x, Match
  <2>3. \A k \in 1 .. Len(pre) : items[k] = heap[pre[k]].item
    OBVIOUS
  <2> HIDE DEF items
  <2>4. p \in 0 .. Len(pre)
    BY <1>2, <1>3, <2>1
  <2>5. p # 0 => heap[pre[p]].item = x
    BY <1>2, <2>1, <2>3, <2>4
  <2>6. p = 0 => \A k \in 1 .. Len(pre) : heap[pre[k]].item # x
    BY <1>3, <2>1, <2>3
  <2>7. QED
    BY <2>2, <2>4, <2>5, <2>6 DEF x
<1> HIDE DEF Match, items
<1>6. 0 \in S
  BY <1>2
<1>7. n \in 0 .. Len(pre) + 1 /\ n \in S /\ \A m \in S : m =< n
  <2>1. S \in SUBSET (0 .. Len(pre) + 1) /\ S # {}
    BY <1>6
  <2>2. 0 \in Int /\ Len(pre) + 1 \in Int
    BY <1>2
  <2> HIDE DEF S
  <2>3. QED
    BY <2>1, <2>2, GreatestIsNat
<1>8. Kept(n)
  BY <1>7
<1> HIDE DEF n
<1>9. ASSUME NEW k \in 1 .. n
      PROVE  /\ ix + k =< Len(rf) /\ Match(k - 1) \in 1 .. Len(pre)
             /\ heap[pre[Match(k - 1)]].item = rf[ix + k]
  <2>1. k - 1 \in Nat /\ k - 1 \in 0 .. (n - 1)
    BY <1>7
  <2>2. InQueue(rf, sh, ix + (k - 1)) /\ Match(k - 1) # 0
    BY <1>8, <2>1
  <2>3. ix + (k - 1) < Len(rf)
    BY <1>4, <2>1, <2>2
  <2>4. /\ Match(k - 1) \in 0 .. Len(pre)
        /\ heap[pre[Match(k - 1)]].item = rf[ix + (k - 1) + 1]
    BY <1>5, <2>1, <2>2
  <2>5. ix + (k - 1) + 1 = ix + k
    BY <1>7
  <2>6. QED
    BY <1>2, <1>7, <2>2, <2>3, <2>4, <2>5
<1>10. /\ r \in Seq(Slots) /\ Len(r) = n
       /\ \A k \in 1 .. n : r[k] = pre[Match(k - 1)]
  <2>1. \A k \in 1 .. n : pre[Match(k - 1)] \in Slots
    BY <1>9
  <2>2. QED
    BY <1>1, <1>7, <2>1
<1>11. \A k \in 1 .. Len(r) :
           /\ ix + k =< Len(rf) /\ heap[r[k]].item = rf[ix + k]
           /\ \E m \in 1 .. Len(pre) : r[k] = pre[m]
  BY <1>9, <1>10
<1>12. ASSUME \A k \in 1 .. Len(pre) : Finds(rf, ix, pre, heap, k)
       PROVE  Len(r) >= Len(pre)
  <2>1. ASSUME NEW i \in 0 .. (Len(pre) - 1)
        PROVE  InQueue(rf, sh, ix + i) /\ Match(i) # 0
    <3>1. i \in Nat /\ i + 1 \in 1 .. Len(pre) /\ ix + (i + 1) = ix + i + 1
      BY <1>2
    <3>2. /\ ix + i + 1 =< Len(rf)
          /\ \E m \in 1 .. Len(pre) : heap[pre[m]].item = rf[ix + i + 1]
      BY <1>12, <3>1 DEF Finds
    <3>3. InQueue(rf, sh, ix + i)
      <4>1. ix + i < Len(rf)
        BY <1>2, <3>1, <3>2
      <4>2. QED
        BY <1>4, <3>1, <4>1
    <3>4. Match(i) # 0
      BY <1>5, <3>1, <3>2
    <3>5. QED
      BY <3>3, <3>4
  <2>2. Len(pre) \in S
    BY <1>2, <2>1
  <2>3. QED
    BY <1>2, <1>7, <1>10, <2>2
<1>13. QED
  BY <1>7, <1>10, <1>11, <1>12

\* A window: tracks pre for the items of rf from ix on.
Window(rf, ix, pre, heap) ==
    \A k \in 1 .. Len(pre) : ix + k =< Len(rf) /\ heap[pre[k]].item = rf[ix + k]

\* None of the tracks in F is preloaded behind another one.
AtFront(pre, F) == \A k \in 1 .. Len(pre) : pre[k] \in F => k = 1

\* SetIndex and ConsumeQueueState leave a window: its tracks are some of those
\* that were preloaded, still the consumer's in front; with the cursor where it
\* was, nothing changes.
LEMMA Realigned ==
  ASSUME NEW rf \in Seq(Items), Unique(rf), NEW sh \in Seq(Nat), Ordered(sh),
         NEW ox \in Nat, NEW ix \in Nat, NEW pre \in Seq(Slots), NEW heap,
         Window(rf, ox, pre, heap), NEW F, AtFront(pre, F),
         NEW r, r = Reordered(rf, sh, ix, pre, heap)
  PROVE  /\ r \in Seq(Slots) /\ Window(rf, ix, r, heap)
         /\ Unique(r) /\ AtFront(r, F)
         /\ \A k \in 1 .. Len(r) : \E m \in 1 .. Len(pre) : r[k] = pre[m]
         /\ ix = ox => r = pre
<1>1. /\ r \in Seq(Slots) /\ Len(r) \in 0 .. Len(pre) + 1
      /\ \A k \in 1 .. Len(r) :
             /\ ix + k =< Len(rf) /\ heap[r[k]].item = rf[ix + k]
             /\ \E m \in 1 .. Len(pre) : r[k] = pre[m]
      /\ (\A k \in 1 .. Len(pre) : Finds(rf, ix, pre, heap, k))
             => Len(r) >= Len(pre)
  BY ReorderedIs
<1>2. Len(pre) \in Nat /\ Len(rf) \in Nat /\ Len(r) \in Nat
  BY <1>1
<1>3. ASSUME NEW k \in 1 .. Len(r), NEW m \in 1 .. Len(pre), r[k] = pre[m]
      PROVE  ix + k = ox + m
  <2>1. ix + k =< Len(rf) /\ heap[r[k]].item = rf[ix + k]
    BY <1>1
  <2>2. ox + m =< Len(rf) /\ heap[pre[m]].item = rf[ox + m]
    BY DEF Window
  <2>3. ix + k \in 1 .. Len(rf) /\ ox + m \in 1 .. Len(rf)
    BY <1>2, <2>1, <2>2
  <2>4. rf[ix + k] = rf[ox + m]
    BY <1>3, <2>1, <2>2
  <2>5. QED
    BY <2>3, <2>4 DEF Unique
<1>4. Window(rf, ix, r, heap)
  BY <1>1 DEF Window
<1>5. Unique(r)
  <2>1. ASSUME NEW i \in 1 .. Len(r), NEW j \in 1 .. Len(r), r[i] = r[j]
        PROVE  i = j
    <3>1. PICK m \in 1 .. Len(pre) : r[i] = pre[m]
      BY <1>1
    <3>2. ix + i = ox + m /\ ix + j = ox + m
      BY <1>3, <2>1, <3>1
    <3>3. QED
      BY <1>2, <3>2
  <2>2. QED
    BY <2>1 DEF Unique
<1>6. AtFront(r, F)
  <2>1. ASSUME NEW k \in 1 .. Len(r), r[k] \in F
        PROVE  k = 1
    <3>1. PICK m \in 1 .. Len(pre) : r[k] = pre[m]
      BY <1>1
    <3>2. m = 1
      BY <2>1, <3>1 DEF AtFront
    <3>3. 1 \in 1 .. Len(r)
      BY <1>2
    <3>4. PICK l \in 1 .. Len(pre) : r[1] = pre[l]
      BY <1>1, <3>3
    <3>5. ix + k = ox + 1 /\ ix + 1 = ox + l
      BY <1>3, <3>1, <3>2, <3>3, <3>4
    <3>6. QED
      BY <1>2, <3>5
  <2>2. QED
    BY <2>1 DEF AtFront
<1>7. ASSUME ix = ox
      PROVE  r = pre
  <2>1. \A k \in 1 .. Len(pre) : Finds(rf, ix, pre, heap, k)
    BY <1>7 DEF Window, Finds
  <2>2. \A k \in 1 .. Len(r) : k \in 1 .. Len(pre) /\ r[k] = pre[k]
    <3>1. ASSUME NEW k \in 1 .. Len(r)
          PROVE  k \in 1 .. Len(pre) /\ r[k] = pre[k]
      <4>1. PICK m \in 1 .. Len(pre) : r[k] = pre[m]
        BY <1>1
      <4>2. k = m
        BY <1>2, <1>3, <1>7, <4>1
      <4>3. QED
        BY <4>1, <4>2
    <3>2. QED
      BY <3>1
  <2>3. Len(r) = Len(pre)
    <3>1. Len(r) >= Len(pre)
      BY <1>1, <2>1
    <3>2. Len(r) # 0 => Len(r) \in 1 .. Len(r)
      BY <1>2
    <3>3. Len(r) =< Len(pre)
      BY <1>2, <2>2, <3>2
    <3>4. QED
      BY <1>2, <3>1, <3>3
  <2>4. \A k \in 1 .. Len(r) : r[k] = pre[k]
    BY <2>2
  <2>5. QED
    BY <1>1, <2>3, <2>4, SeqEqual
<1>8. QED
  BY <1>1, <1>4, <1>5, <1>6, <1>7

\* The fill loop tops the window up until it is full or the queue ends.
LEMMA FilledIs ==
  ASSUME Types, InQueueOrder
  PROVE  /\ Filled \in Nat /\ Len(preloaded) =< Filled
         /\ \A k \in Len(preloaded) + 1 .. Filled : index + k =< Len(refs)
         /\ Filled >= Preload \/ index + Filled >= Len(refs)
         /\ FilledUp => Filled = Len(preloaded)
<1> DEFINE l == Len(preloaded)
           top == Max({Preload, l})
           S == {n \in l .. top :
                    \A k \in l .. (n - 1) : InQueue(refs, shuffledIndexes, index + k)}
<1>1. Filled = Max(S)
  BY DEF Filled
<1>2. l \in Nat /\ index \in Nat /\ refs \in Seq(Items) /\ Len(refs) \in Nat
  BY DEF Types
<1>3. top \in Nat /\ top >= l /\ top >= Preload /\ (top = l \/ top = Preload)
  <2>1. {Preload, l} \in SUBSET (0 .. (Preload + l)) /\ {Preload, l} # {}
    BY <1>2 DEF Preload
  <2>2. 0 \in Int /\ Preload + l \in Int
    BY <1>2 DEF Preload
  <2> HIDE DEF l
  <2>3. Max({Preload, l}) \in {Preload, l} /\ \A y \in {Preload, l} : y =< Max({Preload, l})
    BY <2>1, <2>2, GreatestIs
  <2>4. QED
    BY <1>2, <2>3 DEF Preload
<1>4. \A k \in Nat : InQueue(refs, shuffledIndexes, index + k) <=> index + k < Len(refs)
  <2>1. Ordered(shuffledIndexes) /\ shuffledIndexes \in Seq(Nat)
    BY DEF Types, InQueueOrder, Ordered
  <2>2. \A k \in Nat : index + k \in Nat
    BY <1>2
  <2>3. QED
    BY <1>2, <2>1, <2>2, ItemIs
<1> HIDE DEF l, top
<1>5. l \in S
  BY <1>2, <1>3
<1>6. Filled \in l .. top /\ Filled \in S /\ \A m \in S : m =< Filled
  <2>1. S \subseteq l .. top
    OBVIOUS
  <2> HIDE DEF S
  <2>2. S \in SUBSET (l .. top) /\ S # {} /\ l \in Int /\ top \in Int
    BY <1>2, <1>3, <1>5, <2>1
  <2>3. QED
    BY <1>1, <2>2, GreatestIsNat
<1>7. \A k \in l .. (Filled - 1) : index + k < Len(refs)
  <2>1. \A k \in l .. (Filled - 1) : InQueue(refs, shuffledIndexes, index + k)
    BY <1>6
  <2>2. \A k \in l .. (Filled - 1) : k \in Nat
    BY <1>2
  <2>3. QED
    BY <1>4, <2>1, <2>2
<1>8. Filled < top => index + Filled >= Len(refs)
  <2>1. ASSUME Filled < top, index + Filled < Len(refs)
        PROVE  FALSE
    <3>1. Filled \in Nat /\ Filled + 1 \in l .. top
      BY <1>2, <1>3, <1>6, <2>1
    <3>2. \A k \in l .. Filled : k \in Nat /\ index + k < Len(refs)
      BY <1>2, <1>7, <2>1, <3>1
    <3>3. Filled + 1 \in S
      BY <1>4, <3>1, <3>2
    <3>4. QED
      BY <1>6, <3>1, <3>3
  <2>2. QED
    BY <1>2, <1>3, <1>6, <2>1
<1> HIDE DEF S
<1>9. \A k \in l + 1 .. Filled : index + k =< Len(refs)
  <2>1. ASSUME NEW k \in l + 1 .. Filled
        PROVE  index + k =< Len(refs)
    <3>1. k - 1 \in l .. (Filled - 1) /\ k \in Nat
      BY <1>2, <1>3, <1>6
    <3>2. index + (k - 1) < Len(refs)
      BY <1>7, <3>1
    <3>3. QED
      BY <1>2, <3>1, <3>2
  <2>2. QED
    BY <2>1
<1>10. FilledUp => Filled = l
  <2>1. CASE l >= Preload
    BY <1>2, <1>3, <1>6, <2>1 DEF Preload
  <2>2. CASE index + l >= Len(refs)
    <3>1. ASSUME Filled # l
          PROVE  FALSE
      <4>1. l \in l .. (Filled - 1)
        BY <1>2, <1>3, <1>6, <3>1
      <4>2. QED
        BY <1>2, <1>7, <2>2, <4>1
    <3>2. QED
      BY <3>1
  <2>3. QED
    BY <2>1, <2>2 DEF FilledUp, l
<1>11. QED
  <2>1. Filled \in Nat /\ l =< Filled
    BY <1>2, <1>3, <1>6
  <2>2. Filled >= Preload \/ index + Filled >= Len(refs)
    BY <1>2, <1>3, <1>6, <1>8 DEF Preload
  <2>3. QED
    BY <2>1, <2>2, <1>9, <1>10 DEF l

-----------------------------------------------------------------------------
(* New tracks and new items; what is collected *)

LEMMA FreshIs ==
  ASSUME NEW n \in Nat, NEW new \in Fresh(n)
  PROVE  /\ new \in Seq(Slots) /\ Len(new) = n /\ Unique(new)
         /\ \A k \in 1 .. n : new[k] \in Slots /\ new[k] \notin Live
<1>1. Slots \in SUBSET Nat /\ Slots \ Live \in SUBSET Nat
  BY ConstantsOK DEF Preload
<1>2. /\ new \in Seq(Slots \ Live) /\ Len(new) = n /\ Unique(new)
      /\ \A k \in 1 .. n : new[k] \in Slots \ Live
  BY <1>1, AscendingIs DEF Fresh
<1> HIDE DEF Unique, Live
<1>3. QED
  BY <1>2

LEMMA FirstOfIs ==
  ASSUME NEW S \in SUBSET Items, NEW s \in FirstOf(S)
  PROVE  s \in Seq(Items) /\ Unique(s) /\ \A k \in 1 .. Len(s) : s[k] \in S
<1>1. PICK b \in Batches : s \in Ascending(S, Min({b, Cardinality(S)}))
  BY DEF FirstOf
<1> DEFINE n == Min({b, Cardinality(S)})
<1>2. IsFiniteSet(S)
  BY ConstantsOK, FS_Subset
<1>3. Cardinality(S) \in Nat /\ b \in Nat
  BY ConstantsOK, <1>2, FS_CardinalityType
<1>4. n \in Nat
  <2>1. {b, Cardinality(S)} \in SUBSET Nat /\ {b, Cardinality(S)} # {}
    BY <1>3
  <2>2. n \in {b, Cardinality(S)}
    BY <2>1, LeastIs, Zenon
  <2>3. QED
    BY <1>3, <2>2
<1> HIDE DEF n
<1>5. S \in SUBSET Nat
  BY ConstantsOK
<1>6. /\ s \in Seq(S) /\ Len(s) = n /\ Unique(s)
      /\ \A k \in 1 .. n : s[k] \in S
  BY <1>1, <1>4, <1>5, AscendingIs DEF n
<1>7. s \in Seq(Items)
  BY <1>6
<1>8. QED
  BY <1>6, <1>7

\* The heaps that steps other than the fill leave: the same tracks, with other
\* states and start positions.
SameItems(heap) ==
    /\ heap \in [Slots -> Track \cup {Free}]
    /\ \A a \in Live \cap Slots : heap[a] \in Track /\ heap[a].item = tracks[a].item

LEMMA TracksSame ==
  ASSUME Types, LiveIsTrack
  PROVE  SameItems(tracks)
BY DEF Types, LiveIsTrack, SameItems

LEMMA StateSame ==
  ASSUME Types, LiveIsTrack, NEW t \in Live \cap Slots, NEW s \in States
  PROVE  SameItems([tracks EXCEPT ![t].state = s])
<1>1. tracks[t] \in Track /\ tracks \in [Slots -> Track \cup {Free}]
  BY DEF Types, LiveIsTrack
<1>2. [tracks[t] EXCEPT !.state = s] \in Track
  BY <1>1 DEF Track
<1>3. [tracks[t] EXCEPT !.state = s].item = tracks[t].item
  BY <1>1 DEF Track
<1>4. [tracks EXCEPT ![t].state = s] = [tracks EXCEPT ![t] = [tracks[t] EXCEPT !.state = s]]
  OBVIOUS
<1>5. QED
  BY <1>1, <1>2, <1>3, <1>4 DEF LiveIsTrack, SameItems

LEMMA StartSame ==
  ASSUME Types, LiveIsTrack, NEW t \in Live \cap Slots, NEW i \in Items \cup {None}
  PROVE  SameItems([tracks EXCEPT ![t].start = i])
<1>1. tracks[t] \in Track /\ tracks \in [Slots -> Track \cup {Free}]
  BY DEF Types, LiveIsTrack
<1>2. [tracks[t] EXCEPT !.start = i] \in Track
  BY <1>1 DEF Track
<1>3. [tracks[t] EXCEPT !.start = i].item = tracks[t].item
  BY <1>1 DEF Track
<1>4. [tracks EXCEPT ![t].start = i] = [tracks EXCEPT ![t] = [tracks[t] EXCEPT !.start = i]]
  OBVIOUS
<1>5. QED
  BY <1>1, <1>2, <1>3, <1>4 DEF LiveIsTrack, SameItems

\* A step after which nothing else is live collects no track that is.
LEMMA NoneCollected ==
  ASSUME Types, LiveIsTrack, NEW heap, SameItems(heap), Collect(heap),
         Live' \subseteq Live, preloaded' \in Seq(Slots)
  PROVE  /\ tracks' \in [Slots -> Track \cup {Free}] /\ LiveIsTrack'
         /\ \A k \in 1 .. Len(preloaded') :
                /\ tracks'[preloaded'[k]] = heap[preloaded'[k]]
                /\ tracks'[preloaded'[k]].item = tracks[preloaded'[k]].item
         /\ \A a \in Slots \cap {consumer'.prev, consumer'.track} :
                tracks'[a].item = tracks[a].item
<1>1. tracks' = [a \in Slots |-> IF a \in Live' THEN heap[a] ELSE Free]
  BY DEF Collect
<1>2. \A a \in Live' \cap Slots :
          heap[a] \in Track /\ heap[a].item = tracks[a].item
  BY DEF SameItems
<1>3. \A a \in Live' \cap Slots : tracks'[a] = heap[a]
  BY <1>1
<1>4. tracks' \in [Slots -> Track \cup {Free}]
  BY <1>1, <1>2
<1>5. LiveIsTrack'
  BY <1>2, <1>3 DEF LiveIsTrack
<1>6. /\ \A k \in 1 .. Len(preloaded') : preloaded'[k] \in Live' \cap Slots
      /\ {consumer'.prev, consumer'.track} \subseteq Live'
  BY DEF Live, ToSet
<1>7. QED
  BY <1>2, <1>3, <1>4, <1>5, <1>6, Zenon

-----------------------------------------------------------------------------
(* The loader's steps *)

Batch == [pc : LoaderPCs, batch : Seq(Slots)]

\* What none of the loader's steps but the fill changes.
WindowStays ==
    UNCHANGED <<refs, shuffledIndexes, index, preloaded, autoplayMode, pendingStart>>

LEMMA LoaderFrame ==
  ASSUME IInv, WindowStays, UNCHANGED <<consumer, ws>>, token' \in BOOLEAN,
         loader' \in Batch, tracks' \in [Slots -> Track \cup {Free}], LiveIsTrack',
         \A k \in 1 .. Len(preloaded) :
             tracks'[preloaded[k]].item = tracks[preloaded[k]].item
  PROVE  IInv'
<1>1. Types'
  BY DEF IInv, Types, WindowStays, Batch
<1>2. InQueueOrder' /\ QueueUnique' /\ AddsNew'
  BY DEF IInv, InQueueOrder, QueueUnique, AddsNew, WindowStays, Unique
<1>3. Aligned'
  BY DEF IInv, Aligned, WindowStays
<1>4. InFront' /\ ConsumerKnows'
  BY DEF IInv, InFront, ConsumerKnows, WindowStays, Unique
<1>5. QED
  BY <1>1, <1>2, <1>3, <1>4 DEF IInv

\* Steps that leave the QueueTracks alone, and steps that set a state.
LEMMA LoaderMoves ==
  ASSUME IInv, WindowStays, UNCHANGED <<consumer, ws>>, token' \in BOOLEAN,
         loader' \in Batch,
         ToSet(loader'.batch) \subseteq ToSet(loader.batch) \cup ToSet(preloaded),
         UNCHANGED tracks
  PROVE  IInv'
<1>1. Live' \subseteq Live
  BY DEF Live, WindowStays
<1>2. LiveIsTrack'
  BY <1>1 DEF IInv, LiveIsTrack
<1>3. QED
  BY <1>2, LoaderFrame DEF IInv, Types

LEMMA LoaderWorks ==
  ASSUME IInv, WindowStays, UNCHANGED <<consumer, ws>>, token' \in BOOLEAN,
         loader' \in Batch,
         ToSet(loader'.batch) \subseteq ToSet(loader.batch),
         NEW heap, SameItems(heap), Collect(heap)
  PROVE  IInv'
<1>1. Live' \subseteq Live
  BY DEF Live, WindowStays
<1>2. preloaded' = preloaded /\ preloaded' \in Seq(Slots)
  BY DEF WindowStays, IInv, Types
<1>3. /\ tracks' \in [Slots -> Track \cup {Free}] /\ LiveIsTrack'
      /\ \A k \in 1 .. Len(preloaded') :
             tracks'[preloaded'[k]].item = tracks[preloaded'[k]].item
  BY <1>1, <1>2, NoneCollected DEF IInv
<1>4. QED
  BY <1>2, <1>3, LoaderFrame

LEMMA BatchTyped ==
  ASSUME IInv
  PROVE  /\ loader \in Batch /\ loader.batch \in Seq(Slots)
         /\ \A pc \in LoaderPCs :
                [pc |-> pc, batch |-> <<>>] \in Batch
         /\ token \in BOOLEAN
BY DEF IInv, Types, Batch

\* The head of the copy is a live track; its tail has the others.
LEMMA BatchHead ==
  ASSUME IInv, loader.batch # <<>>
  PROVE  /\ Head(loader.batch) \in Live \cap Slots
         /\ [loader EXCEPT !.batch = Tail(@)] \in Batch
         /\ ToSet(Tail(loader.batch)) \subseteq ToSet(loader.batch)
<1>1. loader \in [pc : LoaderPCs, batch : Seq(Slots)]
  BY DEF IInv, Types
<1> DEFINE b == loader.batch
<1>2. b \in Seq(Slots) /\ b # <<>>
  BY <1>1
<1>3. [loader EXCEPT !.batch = Tail(@)] \in Batch
  <2>1. Tail(b) \in Seq(Slots)
    BY <1>2
  <2>2. QED
    BY <1>1, <2>1 DEF Batch
<1>4. b \in Seq(Slots) /\ b # <<>>
      => ToSet(Tail(b)) \subseteq ToSet(b) /\ Head(b) \in ToSet(b)
  <2> HIDE DEF b
  <2>1. ASSUME b \in Seq(Slots), b # <<>>
        PROVE  ToSet(Tail(b)) \subseteq ToSet(b) /\ Head(b) \in ToSet(b)
    <3>1. /\ Tail(b) \in Seq(Slots) /\ Len(Tail(b)) = Len(b) - 1
          /\ \A i \in 1 .. Len(Tail(b)) : Tail(b)[i] = b[i + 1]
          /\ Head(b) = b[1] /\ Len(b) \in Nat /\ Len(b) >= 1
      BY <2>1
    <3>2. \A i \in 1 .. Len(Tail(b)) : i + 1 \in 1 .. Len(b)
      BY <3>1
    <3>3. DOMAIN b = 1 .. Len(b) /\ DOMAIN Tail(b) = 1 .. Len(Tail(b))
      BY <2>1, <3>1
    <3>4. 1 \in DOMAIN b
      BY <3>1, <3>3
    <3>5. QED
      BY <3>1, <3>2, <3>3, <3>4 DEF ToSet
  <2>2. QED
    BY <2>1
<1>5. Head(b) \in Slots
  BY <1>2
<1>6. QED
  BY <1>2, <1>3, <1>4, <1>5 DEF Live

LEMMA LoaderTopKeeps ==
  ASSUME IInv, LoaderTop
  PROVE  IInv'
<1>1. /\ WindowStays /\ UNCHANGED <<consumer, ws>> /\ token' = token
      /\ Collect(tracks) /\ loader'.batch = <<>>
      /\ loader' = [pc |-> IF refs = <<>> THEN "wait" ELSE "fill", batch |-> <<>>]
  BY DEF LoaderTop, WindowStays, LoaderGoes, preVars, queueVars
<1>2. loader' \in Batch /\ token' \in BOOLEAN
  BY <1>1, BatchTyped DEF LoaderPCs
<1>3. ToSet(loader'.batch) \subseteq ToSet(loader.batch)
  BY <1>1 DEF ToSet
<1>4. SameItems(tracks)
  BY TracksSame DEF IInv
<1>5. QED
  BY <1>1, <1>2, <1>3, <1>4, LoaderWorks

LEMMA LoaderWakeKeeps ==
  ASSUME IInv, LoaderWake
  PROVE  IInv'
<1>1. /\ WindowStays /\ UNCHANGED <<consumer, ws>> /\ token' = FALSE
      /\ UNCHANGED tracks
      /\ loader' = [pc |-> "top", batch |-> <<>>] /\ loader'.batch = <<>>
  BY DEF LoaderWake, WindowStays, LoaderGoes, preVars, queueVars
<1>2. loader' \in Batch /\ token' \in BOOLEAN
  BY <1>1, BatchTyped DEF LoaderPCs
<1>3. ToSet(loader'.batch) \subseteq ToSet(loader.batch)
  BY <1>1 DEF ToSet
<1>4. QED
  BY <1>1, <1>2, <1>3, LoaderMoves

LEMMA LoaderCopiesKeeps ==
  ASSUME IInv, LoaderCopies
  PROVE  IInv'
<1>1. /\ WindowStays /\ UNCHANGED <<consumer, ws>> /\ token' = token
      /\ UNCHANGED tracks
      /\ loader' = [pc |-> "work", batch |-> preloaded] /\ loader'.batch = preloaded
  BY DEF LoaderCopies, WindowStays, preVars, queueVars
<1>2. loader' \in Batch /\ token' \in BOOLEAN
  <2>1. preloaded \in Seq(Slots)
    BY DEF IInv, Types
  <2>2. QED
    BY <1>1, <2>1, BatchTyped DEF LoaderPCs, Batch
<1>3. QED
  BY <1>1, <1>2, LoaderMoves

LEMMA LoaderRestsKeeps ==
  ASSUME IInv, LoaderRests
  PROVE  IInv'
<1>1. /\ WindowStays /\ UNCHANGED <<consumer, ws>> /\ token' = token
      /\ UNCHANGED tracks
      /\ loader' = [pc |-> "wait", batch |-> <<>>] /\ loader'.batch = <<>>
  BY DEF LoaderRests, WindowStays, LoaderGoes, preVars, queueVars
<1>2. loader' \in Batch /\ token' \in BOOLEAN
  BY <1>1, BatchTyped DEF LoaderPCs
<1>3. ToSet(loader'.batch) \subseteq ToSet(loader.batch)
  BY <1>1 DEF ToSet
<1>4. QED
  BY <1>1, <1>2, <1>3, LoaderMoves

\* What a fetch or a skip does to the copy.
LEMMA LoaderNext ==
  ASSUME IInv, loader.batch # <<>>, WindowStays, UNCHANGED <<consumer, ws, token>>,
         \/ loader' = [pc |-> "top", batch |-> <<>>]
         \/ loader' = [loader EXCEPT !.batch = Tail(@)],
         NEW heap, SameItems(heap), Collect(heap)
  PROVE  IInv'
<1>1. loader' \in Batch /\ token' \in BOOLEAN
  BY BatchTyped, BatchHead DEF LoaderPCs
<1>2. ToSet(loader'.batch) \subseteq ToSet(loader.batch)
  <2>1. CASE loader' = [pc |-> "top", batch |-> <<>>]
    <3>1. loader'.batch = <<>>
      BY <2>1
    <3>2. QED
      BY <3>1 DEF ToSet
  <2>2. CASE loader' = [loader EXCEPT !.batch = Tail(@)]
    <3>1. loader'.batch = Tail(loader.batch)
      BY <2>2, BatchTyped DEF Batch
    <3>2. QED
      BY <3>1, BatchHead
  <2>3. QED
    BY <2>1, <2>2
<1>3. QED
  BY <1>1, <1>2, LoaderWorks

LEMMA LoaderSkipsKeeps ==
  ASSUME IInv, LoaderSkips
  PROVE  IInv'
<1>1. /\ WindowStays /\ UNCHANGED <<consumer, ws, token>>
      /\ loader.batch # <<>> /\ Collect(tracks)
      /\ loader' = [loader EXCEPT !.batch = Tail(@)]
  BY DEF LoaderSkips, WindowStays, preVars, queueVars
<1>2. SameItems(tracks)
  BY TracksSame DEF IInv
<1>3. QED
  BY <1>1, <1>2, LoaderNext

LEMMA FailureTyped ==
  ASSUME NEW s \in States, NEW f \in AfterFailure(s)
  PROVE  f \in States
BY DEF AfterFailure, States

LEMMA LoaderFetchesMetadataKeeps ==
  ASSUME IInv, LoaderFetchesMetadata
  PROVE  IInv'
<1> DEFINE t == Head(loader.batch)
<1>1. /\ WindowStays /\ UNCHANGED <<consumer, ws, token>> /\ loader.batch # <<>>
      /\ \/ /\ loader' = [pc |-> "top", batch |-> <<>>]
            /\ Collect([tracks EXCEPT ![t].state = "streamable"])
         \/ \E s \in AfterFailure("queued") :
                /\ loader' = [loader EXCEPT !.batch = Tail(@)]
                /\ Collect([tracks EXCEPT ![t].state = s])
  BY DEF LoaderFetchesMetadata, WindowStays, LoaderGoes, preVars, queueVars
<1>2. \E s \in States : Collect([tracks EXCEPT ![t].state = s])
  <2>1. "streamable" \in States /\ "queued" \in States
    BY DEF States
  <2>2. QED
    BY <1>1, <2>1, FailureTyped
<1>3. PICK s \in States : Collect([tracks EXCEPT ![t].state = s])
  BY <1>2
<1>4. t \in Live \cap Slots
  BY <1>1, BatchHead
<1>5. SameItems([tracks EXCEPT ![t].state = s])
  BY <1>4, StateSame DEF IInv
<1>6. QED
  BY <1>1, <1>3, <1>5, LoaderNext

LEMMA LoaderFetchesFileURLKeeps ==
  ASSUME IInv, LoaderFetchesFileURL
  PROVE  IInv'
<1> DEFINE t == Head(loader.batch)
<1>1. /\ WindowStays /\ UNCHANGED <<consumer, ws, token>> /\ loader.batch # <<>>
      /\ loader' = [loader EXCEPT !.batch = Tail(@)]
      /\ \/ Collect([tracks EXCEPT ![t].state = "ready"])
         \/ \E s \in AfterFailure("streamable") :
                Collect([tracks EXCEPT ![t].state = s])
  BY DEF LoaderFetchesFileURL, WindowStays, preVars, queueVars
<1>2. \E s \in States : Collect([tracks EXCEPT ![t].state = s])
  <2>1. "streamable" \in States /\ "ready" \in States
    BY DEF States
  <2>2. QED
    BY <1>1, <2>1, FailureTyped
<1>3. PICK s \in States : Collect([tracks EXCEPT ![t].state = s])
  BY <1>2
<1>4. t \in Live \cap Slots
  BY <1>1, BatchHead
<1>5. SameItems([tracks EXCEPT ![t].state = s])
  BY <1>4, StateSame DEF IInv
<1>6. QED
  BY <1>1, <1>3, <1>5, LoaderNext

\* The new tracks of the fill: queued, one for each play position from the end
\* of the window on.
LEMMA LoadedIs ==
  ASSUME IInv, NEW new \in Seq(Slots), Unique(new),
         \A k \in 1 .. Len(new) : new[k] \notin Live
                                  /\ index + Len(preloaded) + k =< Len(refs),
         NEW start \in Items \cup {None},
         NEW heap, heap = Loaded(new, start)
  PROVE  /\ heap \in [Slots -> Track \cup {Free}]
         /\ \A a \in Live \cap Slots : heap[a] = tracks[a] /\ heap[a] \in Track
         /\ \A k \in 1 .. Len(new) :
                /\ heap[new[k]] \in Track
                /\ heap[new[k]].item = refs[index + Len(preloaded) + k]
<1> DEFINE Ld(k) == [item  |-> ItemAt(refs, shuffledIndexes,
                                      index + Len(preloaded) + k - 1),
                     state |-> "queued",
                     start |-> IF k = 1 THEN start ELSE None]
<1>1. heap = [a \in Slots |-> IF a \notin ToSet(new) THEN tracks[a]
                              ELSE Ld(PositionOf(new, a))]
  BY DEF Loaded
<1>2. /\ refs \in Seq(Items) /\ index \in Nat /\ Len(preloaded) \in Nat
      /\ shuffledIndexes \in Seq(Nat) /\ Ordered(shuffledIndexes)
      /\ tracks \in [Slots -> Track \cup {Free}]
  BY DEF IInv, Types, InQueueOrder, Ordered
<1>3. ASSUME NEW k \in 1 .. Len(new)
      PROVE  /\ Ld(k) \in Track
             /\ Ld(k).item = refs[index + Len(preloaded) + k]
  <2> DEFINE p == index + Len(preloaded) + k - 1
  <2>1. Len(new) \in Nat /\ k \in Nat /\ k >= 1
    OBVIOUS
  <2>2. p \in Nat /\ p + 1 = index + Len(preloaded) + k
    BY <1>2, <2>1
  <2>3. p + 1 \in 1 .. Len(refs)
    BY <1>2, <2>1, <2>2
  <2>4. ItemAt(refs, shuffledIndexes, p) = refs[p + 1]
    BY <1>2, <2>2, ItemIs
  <2>5. refs[p + 1] \in Items
    BY <1>2, <2>3
  <2> HIDE DEF p
  <2>6. [item |-> refs[p + 1], state |-> "queued",
         start |-> IF k = 1 THEN start ELSE None] \in Track
    BY <2>5 DEF Track, States
  <2>7. Ld(k) = [item |-> refs[p + 1], state |-> "queued",
                 start |-> IF k = 1 THEN start ELSE None]
    BY <2>4 DEF p
  <2> HIDE DEF Ld
  <2>8. QED
    BY <2>2, <2>6, <2>7
<1> HIDE DEF Ld
<1>4. \A a \in ToSet(new) : /\ PositionOf(new, a) \in 1 .. Len(new)
                            /\ new[PositionOf(new, a)] = a
  <2>1. ASSUME NEW a \in ToSet(new)
        PROVE  PositionOf(new, a) \in 1 .. Len(new) /\ new[PositionOf(new, a)] = a
    <3>1. \E k \in 1 .. Len(new) : new[k] = a
      BY DEF ToSet
    <3>2. /\ PositionOf(new, a) \in 0 .. Len(new)
          /\ PositionOf(new, a) # 0 => new[PositionOf(new, a)] = a
          /\ PositionOf(new, a) = 0 <=> \A i \in 1 .. Len(new) : new[i] # a
      BY PositionIs
    <3>3. PositionOf(new, a) # 0
      BY <3>1, <3>2
    <3>4. QED
      BY <3>2, <3>3
  <2>2. QED
    BY <2>1
<1>5. \A k \in 1 .. Len(new) : new[k] \in ToSet(new) /\ new[k] \in Slots
  BY DEF ToSet
<1>6. \A k \in 1 .. Len(new) : PositionOf(new, new[k]) = k
  BY <1>4, <1>5 DEF Unique
<1>7. \A k \in 1 .. Len(new) : heap[new[k]] = Ld(k)
  BY <1>1, <1>5, <1>6
<1>8. heap \in [Slots -> Track \cup {Free}]
  BY <1>1, <1>2, <1>3, <1>4
<1>9. \A a \in Live \cap Slots : a \notin ToSet(new)
  BY <1>4, <1>5
<1>10. \A a \in Live \cap Slots : heap[a] = tracks[a] /\ heap[a] \in Track
  BY <1>1, <1>9 DEF IInv, LiveIsTrack
<1>11. QED
  BY <1>3, <1>7, <1>8, <1>10

LEMMA FillIs ==
  ASSUME IInv, LoaderFill
  PROVE  \E new \in Seq(Slots), start \in Items \cup {None} :
            /\ Unique(new) /\ Len(new) = Filled - Len(preloaded)
            /\ \A k \in 1 .. Len(new) :
                   /\ new[k] \in Slots /\ new[k] \notin Live
                   /\ index + Len(preloaded) + k =< Len(refs)
            /\ preloaded' = preloaded \o new
            /\ loader' = [pc |-> "copy", batch |-> <<>>]
            /\ pendingStart' \in Items \cup {None}
            /\ UNCHANGED <<refs, shuffledIndexes, index, autoplayMode, token,
                           consumer, ws>>
            /\ Collect(Loaded(new, start))
<1>1. /\ Filled \in Nat /\ Len(preloaded) =< Filled
      /\ \A k \in Len(preloaded) + 1 .. Filled : index + k =< Len(refs)
  BY FilledIs DEF IInv
<1>2. /\ Len(preloaded) \in Nat /\ index \in Nat /\ autoplayMode = FALSE
      /\ pendingStart \in Items \cup {None} /\ Len(refs) \in Nat
  BY DEF IInv, Types
<1> DEFINE n == Filled - Len(preloaded)
           st == IF Len(preloaded) = 0 /\ Filled > 0 THEN pendingStart ELSE None
<1>3. n \in Nat
  BY <1>1, <1>2
<1>4. PICK new \in Fresh(n) :
          preloaded' = preloaded \o new /\ Collect(Loaded(new, st))
  BY DEF LoaderFill
<1>5. /\ loader' = [pc |-> "copy", batch |-> <<>>]
      /\ pendingStart' \in {None, pendingStart}
      /\ UNCHANGED <<refs, shuffledIndexes, index, autoplayMode, token, consumer, ws>>
  BY <1>2 DEF LoaderFill, LoaderGoes, queueVars
<1>6. st \in Items \cup {None}
  BY <1>2
<1> HIDE DEF st
<1>7. /\ new \in Seq(Slots) /\ Len(new) = n /\ Unique(new)
      /\ \A k \in 1 .. n : new[k] \in Slots /\ new[k] \notin Live
  BY <1>3, <1>4, FreshIs
<1>8. ASSUME NEW k \in 1 .. Len(new)
      PROVE  index + Len(preloaded) + k =< Len(refs)
  <2>1. Len(preloaded) + k \in Len(preloaded) + 1 .. Filled
    BY <1>1, <1>2, <1>3, <1>7
  <2>2. index + (Len(preloaded) + k) =< Len(refs)
    BY <1>1, <2>1
  <2>3. index + (Len(preloaded) + k) = index + Len(preloaded) + k
    BY <1>2, <1>3, <1>7
  <2>4. QED
    BY <2>2, <2>3
<1>9. QED
  BY <1>2, <1>4, <1>5, <1>6, <1>7, <1>8

LEMMA LoaderFillKeeps ==
  ASSUME IInv, LoaderFill
  PROVE  /\ IInv' /\ Len(preloaded') = Filled
         /\ \A a \in Slots \cap {consumer.prev, consumer.track} :
                tracks'[a] = tracks[a]
         /\ \A a \in {consumer.prev, consumer.track} :
                a \in ToSet(preloaded') <=> a \in ToSet(preloaded)
<1>1. PICK new \in Seq(Slots), start \in Items \cup {None} :
            /\ Unique(new) /\ Len(new) = Filled - Len(preloaded)
            /\ \A k \in 1 .. Len(new) :
                   /\ new[k] \in Slots /\ new[k] \notin Live
                   /\ index + Len(preloaded) + k =< Len(refs)
            /\ preloaded' = preloaded \o new
            /\ loader' = [pc |-> "copy", batch |-> <<>>]
            /\ pendingStart' \in Items \cup {None}
            /\ UNCHANGED <<refs, shuffledIndexes, index, autoplayMode, token,
                           consumer, ws>>
            /\ Collect(Loaded(new, start))
  BY FillIs
<1> DEFINE l == Len(preloaded)
           heap == Loaded(new, start)
<1>2. /\ heap \in [Slots -> Track \cup {Free}]
      /\ \A a \in Live \cap Slots : heap[a] = tracks[a] /\ heap[a] \in Track
      /\ \A k \in 1 .. Len(new) :
             /\ heap[new[k]] \in Track
             /\ heap[new[k]].item = refs[index + l + k]
  <2>1. \A k \in 1 .. Len(new) : new[k] \notin Live
                                  /\ index + Len(preloaded) + k =< Len(refs)
    BY <1>1
  <2> HIDE DEF heap, l
  <2>2. Unique(new) /\ heap = Loaded(new, start)
    BY <1>1 DEF heap
  <2>3. /\ heap \in [Slots -> Track \cup {Free}]
        /\ \A a \in Live \cap Slots : heap[a] = tracks[a] /\ heap[a] \in Track
        /\ \A k \in 1 .. Len(new) :
               /\ heap[new[k]] \in Track
               /\ heap[new[k]].item = refs[index + Len(preloaded) + k]
    BY <2>1, <2>2, LoadedIs
  <2>4. QED
    BY <2>3 DEF l
<1>3. tracks' = [a \in Slots |-> IF a \in Live' THEN heap[a] ELSE Free]
  BY <1>1 DEF Collect
<1> HIDE DEF heap
<1>4. /\ preloaded \in Seq(Slots) /\ l \in Nat /\ Filled \in Nat /\ l =< Filled
      /\ Len(new) \in Nat
  <2>1. Filled \in Nat /\ l =< Filled
    BY FilledIs DEF IInv
  <2>2. QED
    BY <2>1 DEF IInv, Types
<1>5. /\ preloaded' \in Seq(Slots) /\ Len(preloaded') = Filled
      /\ \A k \in 1 .. l : preloaded'[k] = preloaded[k]
      /\ \A k \in l + 1 .. Filled : preloaded'[k] = new[k - l]
  <2>1. /\ preloaded \o new \in Seq(Slots) /\ Len(preloaded \o new) = l + Len(new)
        /\ \A k \in 1 .. l + Len(new) :
               (preloaded \o new)[k] = IF k =< l THEN preloaded[k] ELSE new[k - l]
    BY <1>4, ConcatProperties
  <2>2. l + Len(new) = Filled
    BY <1>1, <1>4
  <2> HIDE DEF l
  <2>3. \A k \in 1 .. l : k \in 1 .. Filled /\ k =< l
    BY <1>4
  <2>4. \A k \in l + 1 .. Filled : k \in 1 .. Filled /\ ~(k =< l)
    BY <1>4
  <2>5. QED
    BY <1>1, <2>1, <2>2, <2>3, <2>4
<1> HIDE DEF l
<1>6. \A k \in l + 1 .. Filled : k - l \in 1 .. Len(new)
  BY <1>1, <1>4 DEF l
<1>7. \A k \in 1 .. Filled : k \in 1 .. l \/ k \in l + 1 .. Filled
  BY <1>4
<1>8. \A k \in 1 .. l : preloaded[k] \in Live \cap Slots
  BY <1>4 DEF Live, ToSet, l
<1>9. {consumer.prev, consumer.track} \subseteq Live
  BY DEF Live
<1>10. \A k \in 1 .. Filled :
          \/ k \in 1 .. l /\ preloaded'[k] = preloaded[k] /\ preloaded'[k] \in Live
          \/ /\ k \in l + 1 .. Filled /\ preloaded'[k] = new[k - l]
             /\ k - l \in 1 .. Len(new) /\ preloaded'[k] \notin Live
  BY <1>1, <1>5, <1>6, <1>7, <1>8
<1>11. loader'.batch = <<>> /\ ToSet(loader'.batch) = {}
  BY <1>1 DEF ToSet
<1>12. \A k \in 1 .. Filled : preloaded'[k] \in Live'
  BY <1>5 DEF Live, ToSet
<1>13. \A a \in Live' \cap Slots : heap[a] \in Track
  <2>1. ASSUME NEW a \in Live' \cap Slots
        PROVE  heap[a] \in Track
    <3>1. \/ a \in {consumer.prev, consumer.track}
          \/ \E k \in 1 .. Filled : a = preloaded'[k]
      BY <1>1, <1>5, <1>11 DEF Live, ToSet
    <3>2. QED
      BY <1>2, <1>9, <1>10, <3>1
  <2>2. QED
    BY <2>1
<1>14. \A a \in Live' \cap Slots : tracks'[a] = heap[a]
  BY <1>3
<1>15. tracks' \in [Slots -> Track \cup {Free}] /\ LiveIsTrack'
  BY <1>2, <1>3, <1>13, <1>14 DEF LiveIsTrack
<1>16. \A a \in Slots \cap {consumer.prev, consumer.track} : tracks'[a] = tracks[a]
  <2>1. {consumer.prev, consumer.track} \subseteq Live'
    BY <1>1 DEF Live
  <2>2. QED
    BY <1>2, <1>9, <1>14, <2>1
<1>17. \A k \in 1 .. Filled : preloaded'[k] \in Slots
  BY <1>5
<1>18. Types'
  <2>1. /\ refs' \in Seq(Items) /\ index' \in Nat /\ shuffledIndexes' \in Seq(Nat)
        /\ token' \in BOOLEAN /\ autoplayMode' = FALSE
        /\ consumer' \in [pc : ConsumerPCs, prev : Slots \cup {None},
                          track : Slots \cup {None}, last : Items \cup {None}]
        /\ ws' \in [pc : HandlerPCs, items : Seq(Items), after : {None}]
    BY <1>1 DEF IInv, Types
  <2>2. loader' \in [pc : LoaderPCs, batch : Seq(Slots)]
    BY <1>1, BatchTyped DEF LoaderPCs, Batch
  <2>3. QED
    BY <1>1, <1>5, <1>15, <2>1, <2>2 DEF Types
<1>19. InQueueOrder' /\ QueueUnique' /\ AddsNew'
  BY <1>1 DEF IInv, InQueueOrder, QueueUnique, AddsNew, Unique
<1>20. Aligned'
  <2>1. ASSUME ws'.pc # "clear", NEW k \in 1 .. Filled
        PROVE  index + k =< Len(refs) /\ tracks'[preloaded'[k]].item = refs[index + k]
    <3>1. CASE k \in 1 .. l
      <4>1. index + k =< Len(refs) /\ tracks[preloaded[k]].item = refs[index + k]
        BY <1>1, <2>1, <3>1 DEF IInv, Aligned, l
      <4>2. tracks'[preloaded'[k]] = tracks[preloaded[k]]
        BY <1>2, <1>5, <1>8, <1>12, <1>14, <1>17, <3>1
      <4>3. QED
        BY <4>1, <4>2
    <3>2. CASE k \in l + 1 .. Filled
      <4>1. preloaded'[k] = new[k - l] /\ k - l \in 1 .. Len(new)
        BY <1>5, <1>6, <3>2
      <4>2. tracks'[preloaded'[k]] = heap[new[k - l]]
        BY <1>12, <1>14, <1>17, <4>1
      <4>3. index + l + (k - l) = index + k
        BY <1>4, <3>2 DEF IInv, Types
      <4>4. index + l + (k - l) =< Len(refs)
        BY <1>1, <4>1 DEF l
      <4>5. heap[new[k - l]].item = refs[index + l + (k - l)]
        BY <1>2, <4>1
      <4>6. QED
        BY <4>2, <4>3, <4>4, <4>5
    <3>3. QED
      BY <1>7, <3>1, <3>2
  <2>2. QED
    BY <1>1, <1>5, <2>1 DEF Aligned
<1>21. InFront'
  <2>1. Unique(preloaded')
    <3>1. ASSUME NEW i \in 1 .. Filled, NEW j \in 1 .. Filled,
                 preloaded'[i] = preloaded'[j]
          PROVE  i = j
      <4>1. CASE i \in 1 .. l /\ j \in 1 .. l
        BY <1>5, <3>1, <4>1 DEF IInv, InFront, Unique, l
      <4>2. CASE i \in l + 1 .. Filled /\ j \in l + 1 .. Filled
        <5>1. /\ new[i - l] = new[j - l]
              /\ i - l \in 1 .. Len(new) /\ j - l \in 1 .. Len(new)
          BY <1>5, <1>6, <3>1, <4>2
        <5>2. i - l = j - l
          BY <1>1, <5>1 DEF Unique
        <5>3. QED
          BY <1>4, <4>2, <5>2
      <4>3. QED
        BY <1>7, <1>10, <3>1, <4>1, <4>2
    <3>2. QED
      BY <1>5, <3>1 DEF Unique
  <2>2. ASSUME NEW k \in 1 .. Filled,
               preloaded'[k] \in {consumer.prev, consumer.track}
        PROVE  k = 1
    <3>1. k \in 1 .. l /\ preloaded'[k] = preloaded[k]
      BY <1>9, <1>10, <2>2
    <3>2. QED
      BY <2>2, <3>1 DEF IInv, InFront, l
  <2>3. QED
    BY <1>1, <1>5, <2>1, <2>2 DEF InFront
<1>22. ConsumerKnows'
  <2>1. ASSUME consumer.pc = "ready?", NEW k \in 1 .. Filled
        PROVE  preloaded'[k] # consumer.prev
    BY <1>9, <1>10, <2>1 DEF IInv, ConsumerKnows, l
  <2>2. QED
    BY <1>1, <1>5, <2>1 DEF IInv, ConsumerKnows
<1>23. IInv'
  BY <1>15, <1>18, <1>19, <1>20, <1>21, <1>22 DEF IInv
<1>24. \A a \in {consumer.prev, consumer.track} :
          a \in ToSet(preloaded') <=> a \in ToSet(preloaded)
  <2>1. ASSUME NEW a \in {consumer.prev, consumer.track}
        PROVE  a \in ToSet(preloaded') <=> a \in ToSet(preloaded)
    <3>1. a \in ToSet(preloaded') <=> \E k \in 1 .. Filled : preloaded'[k] = a
      BY <1>5 DEF ToSet
    <3>2. a \in ToSet(preloaded) <=> \E k \in 1 .. l : preloaded[k] = a
      BY <1>4 DEF ToSet, l
    <3>3. \A k \in 1 .. l : k \in 1 .. Filled
      BY <1>4
    <3>4. QED
      BY <1>5, <1>9, <1>10, <3>1, <3>2, <3>3
  <2>2. QED
    BY <2>1
<1>25. QED
  BY <1>5, <1>16, <1>23, <1>24

LEMMA LoaderKeeps ==
  ASSUME IInv, Loader
  PROVE  IInv'
<1>1. /\ index \in Nat /\ Len(preloaded) \in Nat
      /\ loader.pc \in LoaderPCs
  BY DEF IInv, Types
<1>2. ~LoaderFillPanics
  BY <1>1 DEF LoaderFillPanics
<1>3. ~LoaderAsks /\ ~LoaderGivesUp /\ ~LoaderMarksAsked
  BY <1>1 DEF LoaderAsks, LoaderGivesUp, LoaderMarksAsked, LoaderAt, LoaderPCs
<1>4. QED
  BY <1>2, <1>3, LoaderTopKeeps, LoaderWakeKeeps, LoaderFillKeeps, LoaderCopiesKeeps,
     LoaderRestsKeeps, LoaderSkipsKeeps, LoaderFetchesMetadataKeeps,
     LoaderFetchesFileURLKeeps DEF Loader

-----------------------------------------------------------------------------
(* The consumer's steps *)

Session == [pc : ConsumerPCs, prev : Slots \cup {None},
            track : Slots \cup {None}, last : Items \cup {None}]

LEMMA SessionTyped ==
  ASSUME IInv
  PROVE  /\ consumer \in Session
         /\ consumer.pc \in ConsumerPCs /\ consumer.last \in Items \cup {None}
         /\ consumer.prev \in Slots \cup {None} /\ consumer.track \in Slots \cup {None}
         /\ None \notin Slots
         /\ \A k \in 1 .. Len(preloaded) : preloaded[k] \in Slots /\ preloaded[k] # None
         /\ None \notin ToSet(preloaded)
<1>1. consumer \in Session /\ preloaded \in Seq(Slots)
  BY DEF IInv, Types, Session
<1>2. None \notin Slots
  BY ConstantsOK DEF Preload, None
<1>3. \A k \in 1 .. Len(preloaded) : preloaded[k] \in Slots /\ preloaded[k] # None
  BY <1>1, <1>2
<1>4. None \notin ToSet(preloaded)
  BY <1>1, <1>3 DEF ToSet
<1>5. QED
  BY <1>1, <1>2, <1>3, <1>4 DEF Session

\* The items of the preloaded tracks, and of those the consumer still has.
ItemsStay ==
    /\ \A k \in 1 .. Len(preloaded) :
           tracks'[preloaded[k]].item = tracks[preloaded[k]].item
    /\ \A a \in Slots \cap {consumer'.prev, consumer'.track} :
           tracks'[a].item = tracks[a].item

\* The consumer's steps that leave the window alone: it keeps tracks, or forgets
\* them.
ConsumerOnly ==
    /\ WindowStays /\ UNCHANGED <<token, loader, ws>>
    /\ Collect(tracks)

LEMMA ConsumerFrame ==
  ASSUME IInv, ConsumerOnly, consumer' \in Session,
         {consumer'.prev, consumer'.track} \subseteq {consumer.prev, consumer.track, None},
         ConsumerKnows'
  PROVE  IInv' /\ ItemsStay
<1>1. SameItems(tracks)
  BY TracksSame DEF IInv
<1>2. /\ preloaded' = preloaded /\ preloaded \in Seq(Slots)
      /\ preloaded' \in Seq(Slots) /\ loader' = loader
  BY DEF ConsumerOnly, WindowStays, IInv, Types
<1>3. Live' \subseteq Live \cup {None}
  BY <1>2 DEF Live
<1>4. LiveIsTrack /\ Types
  BY DEF IInv
<1>5. tracks' = [a \in Slots |-> IF a \in Live' THEN tracks[a] ELSE Free]
  BY DEF ConsumerOnly, Collect
<1>6. None \notin Slots
  BY SessionTyped
<1>7. /\ tracks' \in [Slots -> Track \cup {Free}] /\ LiveIsTrack'
      /\ \A a \in Slots \cap Live' : tracks'[a] = tracks[a]
  <2>1. tracks \in [Slots -> Track \cup {Free}]
    BY <1>4 DEF Types
  <2>2. tracks' \in [Slots -> Track \cup {Free}]
    BY <1>5, <2>1
  <2>3. \A a \in Slots \cap Live' : tracks'[a] = tracks[a]
    BY <1>5
  <2>4. \A a \in Slots \cap Live' : tracks[a] \in Track
    BY <1>3, <1>4, <1>6 DEF LiveIsTrack
  <2>5. LiveIsTrack'
    BY <2>3, <2>4 DEF LiveIsTrack
  <2>6. QED
    BY <2>2, <2>3, <2>5
<1>8. ItemsStay
  <2>1. \A k \in 1 .. Len(preloaded) : preloaded[k] \in Slots \cap Live'
    BY <1>2 DEF Live, ToSet
  <2>2. {consumer'.prev, consumer'.track} \subseteq Live'
    BY DEF Live
  <2>3. QED
    BY <1>7, <2>1, <2>2, Zenon DEF ItemsStay
<1>9. Types'
  BY <1>4, <1>7 DEF ConsumerOnly, WindowStays, Types, Session
<1>10. InQueueOrder' /\ QueueUnique' /\ AddsNew'
  BY DEF ConsumerOnly, IInv, InQueueOrder, QueueUnique, AddsNew, WindowStays, Unique
<1>11. Aligned'
  BY <1>8 DEF ItemsStay, ConsumerOnly, IInv, Aligned, WindowStays
<1>12. InFront'
  <2>1. \A k \in 1 .. Len(preloaded) : preloaded[k] # None
    BY SessionTyped
  <2>2. QED
    BY <1>2, <2>1 DEF IInv, InFront, Unique
<1>13. QED
  BY <1>7, <1>8, <1>9, <1>10, <1>11, <1>12 DEF IInv

LEMMA SessionOver ==
  ASSUME consumer' = [pc |-> "stopped", prev |-> None, track |-> None, last |-> None]
  PROVE  /\ consumer' \in Session /\ ConsumerKnows'
         /\ consumer'.prev = None /\ consumer'.track = None
         /\ consumer'.pc = "stopped" /\ consumer'.last = None
<1>1. /\ consumer'.prev = None /\ consumer'.track = None
      /\ consumer'.pc = "stopped" /\ consumer'.last = None
  OBVIOUS
<1>2. QED
  BY <1>1 DEF Session, ConsumerPCs, ConsumerKnows

LEMMA SessionStartsKeeps ==
  ASSUME IInv, SessionStarts
  PROVE  IInv' /\ ItemsStay
<1>1. /\ consumer' = [pc |-> "calls", prev |-> None, track |-> None, last |-> None]
      /\ ConsumerOnly
  BY DEF SessionStarts, ConsumerOnly, WindowStays, queueVars, preVars
<1>2. /\ consumer'.prev = None /\ consumer'.track = None
      /\ consumer'.pc = "calls" /\ consumer'.last = None
  BY <1>1
<1>3. consumer' \in Session /\ ConsumerKnows'
  BY <1>1, <1>2 DEF Session, ConsumerPCs, ConsumerKnows
<1>4. QED
  BY <1>1, <1>2, <1>3, ConsumerFrame

LEMMA SessionIsStoppedKeeps ==
  ASSUME IInv, SessionIsStopped
  PROVE  IInv' /\ ItemsStay
<1>1. SessionEnds /\ ConsumerOnly
  BY DEF SessionIsStopped, ConsumerOnly, WindowStays, queueVars, preVars
<1>2. QED
  BY <1>1, SessionOver, ConsumerFrame DEF SessionEnds

\* The consumer enters its loop, again, with the track it had.
LEMMA SessionMoves ==
  ASSUME IInv, ConsumerOnly, consumer.pc \in {"calls", "ends?"},
         consumer' = [consumer EXCEPT !.pc = "loop"]
  PROVE  IInv' /\ ItemsStay
<1>1. /\ consumer \in Session /\ consumer' \in Session
      /\ consumer'.prev = consumer.prev /\ consumer'.track = consumer.track
      /\ consumer'.pc = "loop"
  BY SessionTyped DEF Session, ConsumerPCs
<1>2. consumer.track = None
  BY DEF IInv, ConsumerKnows
<1>3. ConsumerKnows'
  BY <1>1, <1>2 DEF ConsumerKnows
<1>4. QED
  BY <1>1, <1>3, ConsumerFrame

LEMMA ConsumeBeginsKeeps ==
  ASSUME IInv, ConsumeBegins
  PROVE  IInv' /\ ItemsStay
<1>1. /\ ConsumerOnly /\ consumer.pc = "calls"
      /\ SessionEnds \/ consumer' = [consumer EXCEPT !.pc = "loop"]
  BY DEF ConsumeBegins, ConsumerAt, ConsumerOnly, WindowStays, queueVars, preVars
<1>2. QED
  BY <1>1, SessionOver, ConsumerFrame, SessionMoves DEF SessionEnds

LEMMA ConsumeEndsKeeps ==
  ASSUME IInv, ConsumeEnds
  PROVE  IInv' /\ ItemsStay
<1>1. /\ ConsumerOnly /\ consumer.pc = "ends?"
      /\ SessionEnds \/ consumer' = [consumer EXCEPT !.pc = "loop"]
  BY DEF ConsumeEnds, ConsumerAt, ConsumerOnly, WindowStays, queueVars, preVars
<1>2. QED
  BY <1>1, SessionOver, ConsumerFrame, SessionMoves DEF SessionEnds

LEMMA TrackIsTrack ==
  ASSUME IInv, consumer.pc = "ready?"
  PROVE  /\ consumer.track \in Slots /\ tracks[consumer.track] \in Track
         /\ tracks[consumer.track].item \in Items
<1>1. consumer.track \in Slots /\ consumer.track \in Live
  BY SessionTyped DEF IInv, ConsumerKnows, Live
<1>2. tracks[consumer.track] \in Track
  BY <1>1 DEF IInv, LiveIsTrack
<1>3. QED
  BY <1>1, <1>2 DEF Track

LEMMA ConsumeReturnsKeeps ==
  ASSUME IInv, ConsumeReturns
  PROVE  IInv' /\ ItemsStay
<1> DEFINE last == IF consumer.track \in ToSet(preloaded)
                   THEN tracks[consumer.track].item ELSE None
<1>1. /\ ConsumerOnly /\ consumer.pc = "ready?"
      /\ consumer' = [pc |-> "calls", prev |-> consumer.track, track |-> None,
                      last |-> last]
  BY DEF ConsumeReturns, ConsumerAt, ConsumerOnly, WindowStays, queueVars, preVars
<1>2. consumer.track \in Slots /\ last \in Items \cup {None}
  BY <1>1, TrackIsTrack
<1> HIDE DEF last
<1>3. /\ consumer'.prev = consumer.track /\ consumer'.track = None
      /\ consumer'.pc = "calls" /\ consumer' \in Session
  BY <1>1, <1>2 DEF Session, ConsumerPCs
<1>4. ConsumerKnows'
  BY <1>3 DEF ConsumerKnows
<1>5. QED
  BY <1>1, <1>3, <1>4, ConsumerFrame

LEMMA ConsumeSleepsKeeps ==
  ASSUME IInv, ConsumeSleeps
  PROVE  IInv' /\ ItemsStay
<1>1. /\ ConsumerOnly /\ consumer.pc = "ready?"
      /\ consumer' = [consumer EXCEPT !.pc = "loop", !.track = None]
  BY DEF ConsumeSleeps, ConsumerAt, ConsumerOnly, WindowStays, queueVars, preVars
<1>2. /\ consumer'.prev = consumer.prev /\ consumer'.track = None
      /\ consumer'.pc = "loop" /\ consumer' \in Session
  BY <1>1, SessionTyped DEF Session, ConsumerPCs
<1>3. ConsumerKnows'
  BY <1>2 DEF ConsumerKnows
<1>4. QED
  BY <1>1, <1>2, <1>3, ConsumerFrame

\* ConsumeTrack's walk drops the front track and advances (d = 1), or, when the
\* previous track is not preloaded any more, neither (d = 0); it takes what is
\* in front then.
Pops(d) ==
    /\ d \in {0, 1} /\ index' = index + d
    /\ preloaded' \in Seq(Slots) /\ Len(preloaded') = Len(preloaded) - d
    /\ \A k \in 1 .. Len(preloaded') : preloaded'[k] = preloaded[k + d]
    /\ IF d = 0 THEN /\ preloaded' = preloaded /\ token' = token
                     /\ \A k \in 1 .. Len(preloaded) : preloaded[k] # consumer.prev
                     /\ consumer'.prev = consumer.prev
                ELSE /\ token' = TRUE /\ preloaded[1] = consumer.prev
                     /\ consumer'.prev = None

Takes ==
    /\ consumer' \in Session /\ consumer'.last = consumer.last
    /\ preloaded' = <<>> => consumer'.track = None /\ consumer'.pc = "ends?"
    /\ preloaded' # <<>> => consumer'.track = preloaded'[1] /\ consumer'.pc = "ready?"

LEMMA PopIs ==
  ASSUME IInv, ConsumePops
  PROVE  /\ consumer.pc = "loop" /\ Collect(tracks)
         /\ UNCHANGED <<refs, shuffledIndexes, autoplayMode, pendingStart, loader, ws>>
         /\ Takes /\ \E d \in {0, 1} : Pops(d)
<1> DEFINE i == PositionOf(preloaded, consumer.prev)
           rest == IF i = 0 THEN preloaded ELSE RemoveAt(preloaded, i)
<1>1. /\ consumer.pc = "loop" /\ Collect(tracks)
      /\ UNCHANGED <<refs, shuffledIndexes, autoplayMode, pendingStart, loader, ws>>
      /\ index' = IF i = 0 THEN index ELSE index + 1
      /\ preloaded' = rest
      /\ IF i = 0 THEN token' = token ELSE token' = TRUE
      /\ consumer' =
             [consumer EXCEPT !.prev = IF i = 0 THEN @ ELSE None,
                              !.track = IF rest = <<>> THEN None ELSE rest[1],
                              !.pc = IF rest = <<>> THEN "ends?" ELSE "ready?"]
  BY DEF ConsumePops, ConsumerAt, Notify
<1>2. /\ preloaded \in Seq(Slots) /\ index \in Nat /\ consumer \in Session
      /\ Len(preloaded) \in Nat
  BY DEF IInv, Types, Session
<1>3. /\ i \in 0 .. Len(preloaded)
      /\ i # 0 => preloaded[i] = consumer.prev
      /\ i = 0 <=> \A k \in 1 .. Len(preloaded) : preloaded[k] # consumer.prev
  BY <1>2, PositionIs
<1> HIDE DEF i
<1>4. i # 0 => i = 1 /\ preloaded # <<>> /\ preloaded[1] = consumer.prev
  <2>1. ASSUME i # 0
        PROVE  i = 1 /\ preloaded # <<>> /\ preloaded[1] = consumer.prev
    <3>1. i \in 1 .. Len(preloaded) /\ preloaded[i] = consumer.prev
      BY <1>2, <1>3, <2>1
    <3>2. i = 1
      BY <3>1 DEF IInv, InFront
    <3>3. QED
      BY <1>2, <3>1, <3>2
  <2>2. QED
    BY <2>1
<1> DEFINE d == IF i = 0 THEN 0 ELSE 1
<1>5. /\ rest \in Seq(Slots) /\ Len(rest) = Len(preloaded) - d
      /\ \A k \in 1 .. Len(rest) : rest[k] = preloaded[k + d]
  <2>1. CASE i = 0
    BY <1>2, <2>1
  <2>2. CASE i # 0
    <3>1. /\ RemoveAt(preloaded, 1) \in Seq(Slots)
          /\ Len(RemoveAt(preloaded, 1)) = Len(preloaded) - 1
          /\ \A k \in 1 .. (Len(preloaded) - 1) :
                 RemoveAt(preloaded, 1)[k] = preloaded[k + 1]
      BY <1>2, <1>4, <2>2, FrontRemoved
    <3>2. rest = RemoveAt(preloaded, 1) /\ d = 1
      BY <1>4, <2>2
    <3> HIDE DEF rest, d
    <3>3. QED
      BY <3>1, <3>2
  <2>3. QED
    BY <2>1, <2>2
<1> HIDE DEF rest
<1>6. /\ consumer'.last = consumer.last
      /\ consumer'.prev = IF i = 0 THEN consumer.prev ELSE None
      /\ consumer'.track = IF rest = <<>> THEN None ELSE rest[1]
      /\ consumer'.pc = IF rest = <<>> THEN "ends?" ELSE "ready?"
      /\ consumer' \in Session
  <2>1. rest # <<>> => rest[1] \in Slots
    BY <1>5
  <2>2. QED
    BY <1>1, <1>2, <2>1 DEF Session, ConsumerPCs
<1>7. Takes
  BY <1>1, <1>6 DEF Takes
<1>8. index' = index + d
  BY <1>1, <1>2
<1>9. Pops(d)
  <2>1. /\ d \in {0, 1} /\ index' = index + d
        /\ preloaded' \in Seq(Slots) /\ Len(preloaded') = Len(preloaded) - d
        /\ \A k \in 1 .. Len(preloaded') : preloaded'[k] = preloaded[k + d]
    BY <1>1, <1>5, <1>8
  <2>2. IF d = 0 THEN /\ preloaded' = preloaded /\ token' = token
                      /\ \A k \in 1 .. Len(preloaded) : preloaded[k] # consumer.prev
                      /\ consumer'.prev = consumer.prev
                 ELSE /\ token' = TRUE /\ preloaded[1] = consumer.prev
                      /\ consumer'.prev = None
    <3>1. CASE i = 0
      BY <1>1, <1>3, <1>6, <3>1 DEF rest
    <3>2. CASE i # 0
      BY <1>1, <1>4, <1>6, <3>2
    <3>3. QED
      BY <3>1, <3>2
  <2> HIDE DEF d
  <2>3. QED
    BY <2>1, <2>2, Zenon DEF Pops
<1>10. QED
  BY <1>1, <1>7, <1>9

LEMMA ConsumePopsKeeps ==
  ASSUME IInv, ConsumePops
  PROVE  /\ IInv'
         /\ consumer'.track \in Slots =>
                tracks'[consumer'.track].item = tracks[consumer'.track].item
<1>1. PICK d \in {0, 1} : Pops(d)
  BY PopIs
<1>2. /\ consumer.pc = "loop" /\ Collect(tracks) /\ Takes
      /\ UNCHANGED <<refs, shuffledIndexes, autoplayMode, pendingStart, loader, ws>>
  BY PopIs
<1>3. /\ preloaded \in Seq(Slots) /\ index \in Nat /\ consumer \in Session
      /\ Len(preloaded) \in Nat /\ token \in BOOLEAN
  BY DEF IInv, Types, Session
<1>4. /\ preloaded' \in Seq(Slots) /\ Len(preloaded') = Len(preloaded) - d
      /\ Len(preloaded') \in Nat /\ index' = index + d /\ index' \in Nat
      /\ \A k \in 1 .. Len(preloaded') :
             preloaded'[k] = preloaded[k + d] /\ k + d \in 1 .. Len(preloaded)
  BY <1>1, <1>3 DEF Pops
<1>5. /\ d = 0 => /\ preloaded' = preloaded /\ token' = token
                  /\ \A k \in 1 .. Len(preloaded) : preloaded[k] # consumer.prev
                  /\ consumer'.prev = consumer.prev
      /\ d = 1 => /\ token' = TRUE /\ preloaded[1] = consumer.prev
                  /\ consumer'.prev = None
  BY <1>1 DEF Pops
<1>6. /\ consumer' \in Session
      /\ preloaded' = <<>> => consumer'.track = None /\ consumer'.pc = "ends?"
      /\ preloaded' # <<>> => consumer'.track = preloaded'[1]
                              /\ consumer'.pc = "ready?" /\ Len(preloaded') >= 1
  BY <1>2, <1>4 DEF Takes
<1>7. None \notin Slots /\ \A k \in 1 .. Len(preloaded) : preloaded[k] # None
  BY SessionTyped
<1>8. Live' \subseteq Live \cup {None}
  <2>1. \A k \in 1 .. Len(preloaded') : preloaded'[k] \in ToSet(preloaded)
    BY <1>3, <1>4 DEF ToSet
  <2>2. ToSet(preloaded') \subseteq ToSet(preloaded)
    BY <1>4, <2>1 DEF ToSet
  <2>3. consumer'.track \in ToSet(preloaded) \cup {None}
    BY <1>4, <1>6, <2>1
  <2>4. consumer'.prev \in {consumer.prev, None}
    BY <1>5
  <2>5. loader' = loader
    BY <1>2
  <2>6. QED
    BY <2>2, <2>3, <2>4, <2>5 DEF Live
<1>9. tracks' = [a \in Slots |-> IF a \in Live' THEN tracks[a] ELSE Free]
  BY <1>2 DEF Collect
<1>10. tracks' \in [Slots -> Track \cup {Free}] /\ LiveIsTrack'
  <2>1. tracks \in [Slots -> Track \cup {Free}] /\ LiveIsTrack
    BY DEF IInv, Types
  <2>2. QED
    BY <1>7, <1>8, <1>9, <2>1 DEF LiveIsTrack
<1>11. \A k \in 1 .. Len(preloaded') : tracks'[preloaded'[k]] = tracks[preloaded'[k]]
  <2>1. \A k \in 1 .. Len(preloaded') : preloaded'[k] \in Slots \cap Live'
    BY <1>4 DEF Live, ToSet
  <2>2. QED
    BY <1>9, <2>1
<1>12. Types'
  <2>1. /\ refs' \in Seq(Items) /\ shuffledIndexes' \in Seq(Nat)
        /\ autoplayMode' = FALSE /\ pendingStart' \in Items \cup {None}
        /\ loader' \in [pc : LoaderPCs, batch : Seq(Slots)]
        /\ ws' \in [pc : HandlerPCs, items : Seq(Items), after : {None}]
    BY <1>2 DEF IInv, Types
  <2>2. token' \in BOOLEAN
    BY <1>3, <1>5
  <2>3. QED
    BY <1>4, <1>6, <1>10, <2>1, <2>2 DEF Types, Session
<1>13. InQueueOrder' /\ QueueUnique' /\ AddsNew'
  BY <1>2 DEF IInv, InQueueOrder, QueueUnique, AddsNew, Unique
<1>14. Aligned'
  <2>1. ASSUME ws.pc # "clear", NEW k \in 1 .. Len(preloaded')
        PROVE  /\ index' + k =< Len(refs)
               /\ tracks'[preloaded'[k]].item = refs[index' + k]
    <3>1. k + d \in 1 .. Len(preloaded) /\ preloaded'[k] = preloaded[k + d]
      BY <1>4
    <3>2. /\ index + (k + d) =< Len(refs)
          /\ tracks[preloaded[k + d]].item = refs[index + (k + d)]
      BY <2>1, <3>1 DEF IInv, Aligned
    <3>3. index + (k + d) = index' + k
      BY <1>3, <1>4
    <3>4. QED
      BY <1>11, <3>1, <3>2, <3>3
  <2>2. QED
    BY <1>2, <2>1 DEF Aligned
<1>15. Unique(preloaded')
  <2>1. ASSUME NEW i \in 1 .. Len(preloaded'), NEW j \in 1 .. Len(preloaded'),
               preloaded'[i] = preloaded'[j]
        PROVE  i = j
    <3>1. /\ i + d \in 1 .. Len(preloaded) /\ j + d \in 1 .. Len(preloaded)
          /\ preloaded[i + d] = preloaded[j + d]
      BY <1>4, <2>1
    <3>2. i + d = j + d
      BY <3>1 DEF IInv, InFront, Unique
    <3>3. QED
      BY <1>3, <3>2
  <2>2. QED
    BY <2>1 DEF Unique
<1>16. \A k \in 1 .. Len(preloaded') : preloaded'[k] # consumer'.prev
  BY <1>4, <1>5, <1>7
<1>17. InFront'
  <2>1. ASSUME NEW k \in 1 .. Len(preloaded'), preloaded'[k] = consumer'.track
        PROVE  k = 1
    <3>1. preloaded' # <<>> /\ 1 \in 1 .. Len(preloaded')
      BY <1>4
    <3>2. consumer'.track = preloaded'[1]
      BY <1>6, <3>1
    <3>3. QED
      BY <1>15, <2>1, <3>1, <3>2 DEF Unique
  <2>2. QED
    BY <1>15, <1>16, <2>1 DEF InFront
<1>18. ConsumerKnows'
  <2>1. preloaded' # <<>> => preloaded'[1] \in Slots
    BY <1>4
  <2>2. QED
    BY <1>6, <1>7, <1>16, <2>1 DEF ConsumerKnows
<1>19. consumer'.track \in Slots =>
           tracks'[consumer'.track].item = tracks[consumer'.track].item
  <2>1. consumer'.track \in Live'
    BY DEF Live
  <2>2. QED
    BY <1>9, <2>1
<1>20. QED
  BY <1>10, <1>12, <1>13, <1>14, <1>17, <1>18, <1>19 DEF IInv

LEMMA ConsumerKeeps ==
  ASSUME IInv, Consumer
  PROVE  IInv'
BY SessionStartsKeeps, SessionIsStoppedKeeps, ConsumeBeginsKeeps, ConsumePopsKeeps,
   ConsumeEndsKeeps, ConsumeReturnsKeeps, ConsumeSleepsKeeps DEF Consumer, Consume

-----------------------------------------------------------------------------
(* The handler's steps *)

Hand == [pc : HandlerPCs, items : Seq(Items), after : {None}]

\* The consumer stays where it is, but may forget what it was handed out.
ConsumerStays ==
    /\ consumer' \in Session
    /\ consumer'.pc = consumer.pc
    /\ consumer'.prev = consumer.prev /\ consumer'.track = consumer.track
    /\ consumer'.last \in {consumer.last, None}

LEMMA ForgetStays ==
  ASSUME IInv, ForgetLast \/ UNCHANGED consumer
  PROVE  ConsumerStays
BY SessionTyped DEF ForgetLast, ConsumerStays, Session

\* What a handler's step leaves of the queue, and of the window.
Queue ==
    /\ refs' \in Seq(Items) /\ Unique(refs') /\ index' \in Nat
    /\ shuffledIndexes' \in Seq(Nat) /\ Ordered(shuffledIndexes')
    /\ ws' \in Hand /\ AddsNew'
Others ==
    /\ UNCHANGED loader /\ ConsumerStays /\ token' \in BOOLEAN
    /\ autoplayMode' = FALSE /\ pendingStart' \in Items \cup {None}
Preloads ==
    /\ preloaded' \in Seq(Slots)
    /\ Unique(preloaded') /\ AtFront(preloaded', {consumer.prev, consumer.track})
    /\ \A k \in 1 .. Len(preloaded') : \E m \in 1 .. Len(preloaded) :
           preloaded'[k] = preloaded[m]
    /\ ws'.pc # "clear" => Window(refs', index', preloaded', tracks)

LEMMA HandlerFrame ==
  ASSUME IInv, Queue, Others, Preloads,
         tracks' \in [Slots -> Track \cup {Free}], LiveIsTrack',
         \A k \in 1 .. Len(preloaded') :
             tracks'[preloaded'[k]].item = tracks[preloaded'[k]].item
  PROVE  IInv'
<1>1. Types'
  BY DEF IInv, Types, Queue, Others, Preloads, ConsumerStays, Session, Hand
<1>2. InQueueOrder' /\ QueueUnique' /\ AddsNew'
  BY DEF Queue, Ordered, InQueueOrder, QueueUnique
<1>3. Aligned'
  BY DEF Preloads, Window, Aligned
<1>4. InFront'
  BY DEF Preloads, Others, ConsumerStays, InFront, AtFront
<1>5. ConsumerKnows'
  <2>1. \A k \in 1 .. Len(preloaded') :
            consumer.pc = "ready?" => preloaded'[k] # consumer.prev
    BY DEF IInv, ConsumerKnows, Preloads
  <2>2. consumer.pc = "stopped" => consumer'.last = None
    BY DEF IInv, ConsumerKnows, Others, ConsumerStays
  <2>3. QED
    BY <2>1, <2>2 DEF IInv, ConsumerKnows, Others, ConsumerStays
<1>6. QED
  BY <1>1, <1>2, <1>3, <1>4, <1>5 DEF IInv

LEMMA HandlerShrinks ==
  ASSUME IInv, Others, Preloads
  PROVE  Live' \subseteq Live
<1>1. \A k \in 1 .. Len(preloaded') : preloaded'[k] \in ToSet(preloaded)
  <2>1. \A m \in 1 .. Len(preloaded) : preloaded[m] \in ToSet(preloaded)
    <3>1. preloaded \in Seq(Slots)
      BY DEF IInv, Types
    <3>2. QED
      BY <3>1 DEF ToSet
  <2>2. QED
    BY <2>1 DEF Preloads
<1>2. ToSet(preloaded') \subseteq ToSet(preloaded)
  BY <1>1 DEF ToSet, Preloads
<1>3. QED
  BY <1>2 DEF Live, Others, ConsumerStays

\* Steps that collect, and steps that leave the QueueTracks alone.
LEMMA HandlerCollects ==
  ASSUME IInv, Queue, Others, Preloads, NEW heap, SameItems(heap), Collect(heap)
  PROVE  IInv' /\ (consumer.track \in Slots =>
                       tracks'[consumer.track].item = tracks[consumer.track].item)
<1>1. Live' \subseteq Live /\ Types /\ LiveIsTrack /\ preloaded' \in Seq(Slots)
  BY HandlerShrinks DEF IInv, Preloads
<1>2. /\ tracks' \in [Slots -> Track \cup {Free}] /\ LiveIsTrack'
      /\ \A k \in 1 .. Len(preloaded') :
             tracks'[preloaded'[k]].item = tracks[preloaded'[k]].item
      /\ \A a \in Slots \cap {consumer'.prev, consumer'.track} :
             tracks'[a].item = tracks[a].item
  BY <1>1, NoneCollected
<1>3. consumer'.track = consumer.track
  BY DEF Others, ConsumerStays
<1>4. QED
  BY <1>2, <1>3, HandlerFrame

LEMMA HandlerLeaves ==
  ASSUME IInv, Queue, Others, Preloads, UNCHANGED tracks
  PROVE  IInv'
<1>1. LiveIsTrack' /\ tracks' \in [Slots -> Track \cup {Free}]
  BY HandlerShrinks DEF IInv, LiveIsTrack, Types
<1>2. QED
  BY <1>1, HandlerFrame

\* A step that leaves the window, and the queue or all but its end, alone.
LEMMA SamePreloads ==
  ASSUME IInv, UNCHANGED preloaded,
         ws'.pc # "clear" =>
             /\ ws.pc # "clear" /\ index' = index /\ Len(refs) =< Len(refs')
             /\ Len(refs') \in Nat
             /\ \A i \in 1 .. Len(refs) : refs'[i] = refs[i]
  PROVE  Preloads
<1>1. /\ preloaded' \in Seq(Slots)
      /\ Unique(preloaded') /\ AtFront(preloaded', {consumer.prev, consumer.track})
      /\ \A k \in 1 .. Len(preloaded') : \E m \in 1 .. Len(preloaded) :
             preloaded'[k] = preloaded[m]
  BY DEF IInv, Types, InFront, AtFront
<1>2. ASSUME ws'.pc # "clear"
      PROVE  Window(refs', index', preloaded', tracks)
  <2>1. ASSUME NEW k \in 1 .. Len(preloaded)
        PROVE  index + k =< Len(refs') /\ tracks[preloaded[k]].item = refs'[index + k]
    <3>1. index + k =< Len(refs) /\ tracks[preloaded[k]].item = refs[index + k]
      BY <1>2 DEF IInv, Aligned
    <3>2. index + k \in 1 .. Len(refs) /\ Len(refs) \in Nat
      BY <3>1 DEF IInv, Types
    <3>3. QED
      BY <1>2, <3>1, <3>2
  <2>2. QED
    BY <1>2, <2>1 DEF Window
<1>3. QED
  BY <1>1, <1>2 DEF Preloads

\* The queue as it is.
LEMMA QueueTyped ==
  ASSUME IInv
  PROVE  /\ refs \in Seq(Items) /\ Unique(refs) /\ index \in Nat /\ Len(refs) \in Nat
         /\ shuffledIndexes \in Seq(Nat) /\ Ordered(shuffledIndexes)
         /\ ws \in Hand /\ ws.items \in Seq(Items) /\ ws.after = None
         /\ ws.pc \in HandlerPCs
         /\ token \in BOOLEAN /\ autoplayMode = FALSE
         /\ pendingStart \in Items \cup {None}
         /\ preloaded \in Seq(Slots)
BY DEF IInv, Types, QueueUnique, InQueueOrder, Ordered, Hand

LEMMA QueueTracksAddedKeeps ==
  ASSUME IInv, PlainMessages, QueueTracksAdded
  PROVE  IInv'
<1>1. TracksArrive("append", None, FALSE)
  BY DEF QueueTracksAdded, Resets, PlainMessages
<1>2. /\ ws.pc = "idle"
      /\ UNCHANGED <<refs, shuffledIndexes, index, preloaded, tracks, pendingStart,
                     autoplayMode, token, loader, consumer>>
  BY <1>1 DEF TracksArrive, Receives
<1>3. PICK s \in NewItems : ws' = [pc |-> "add", items |-> s, after |-> None]
  BY <1>1 DEF TracksArrive
<1>4. s \in Seq(Items) /\ Unique(s) /\ \A k \in 1 .. Len(s) : s[k] \in Items \ ToSet(refs)
  BY FirstOfIs DEF NewItems
<1>5. ws' \in Hand /\ ws'.pc = "add" /\ ws'.items = s
  BY <1>3, <1>4 DEF Hand, HandlerPCs
<1>6. AddsNew'
  <2>1. \A j \in 1 .. Len(refs) : refs[j] \in ToSet(refs)
    BY QueueTyped DEF ToSet
  <2>2. QED
    BY <1>2, <1>4, <1>5, <2>1 DEF AddsNew
<1>7. Queue
  BY <1>2, <1>5, <1>6, QueueTyped DEF Queue
<1>8. Others
  BY <1>2, ForgetStays, QueueTyped DEF Others
<1>9. Preloads
  BY <1>2, <1>5, SamePreloads, QueueTyped
<1>10. QED
  BY <1>2, <1>7, <1>8, <1>9, HandlerLeaves

LEMMA Concatenated ==
  ASSUME NEW s \in Seq(Items), NEW t \in Seq(Items), Unique(s), Unique(t),
         \A i \in 1 .. Len(t), j \in 1 .. Len(s) : t[i] # s[j]
  PROVE  /\ s \o t \in Seq(Items) /\ Unique(s \o t) /\ Len(s) =< Len(s \o t)
         /\ \A i \in 1 .. Len(s) : (s \o t)[i] = s[i]
<1>1. /\ s \o t \in Seq(Items) /\ Len(s \o t) = Len(s) + Len(t)
      /\ \A i \in 1 .. Len(s) + Len(t) :
             (s \o t)[i] = IF i <= Len(s) THEN s[i] ELSE t[i - Len(s)]
  BY ConcatProperties
<1> DEFINE u == s \o t
<1> HIDE DEF u
<1>2. Len(s) \in Nat /\ Len(t) \in Nat
  OBVIOUS
<1>3. \A i \in 1 .. Len(u) :
          \/ i \in 1 .. Len(s) /\ u[i] = s[i]
          \/ i - Len(s) \in 1 .. Len(t) /\ u[i] = t[i - Len(s)]
  BY <1>1, <1>2 DEF u
<1>4. ASSUME NEW i \in 1 .. Len(u), NEW j \in 1 .. Len(u), u[i] = u[j]
      PROVE  i = j
  <2>1. CASE i \in 1 .. Len(s) /\ j \in 1 .. Len(s)
    BY <1>1, <1>2, <1>4, <2>1 DEF u, Unique
  <2>2. CASE i \notin 1 .. Len(s) /\ j \notin 1 .. Len(s)
    <3>1. /\ i - Len(s) \in 1 .. Len(t) /\ u[i] = t[i - Len(s)]
          /\ j - Len(s) \in 1 .. Len(t) /\ u[j] = t[j - Len(s)]
      BY <1>3, <2>2
    <3>2. i - Len(s) = j - Len(s)
      BY <1>4, <3>1 DEF Unique
    <3>3. QED
      BY <1>2, <3>2
  <2>3. ASSUME NEW k \in 1 .. Len(u), NEW l \in 1 .. Len(u), u[k] = u[l],
               k \in 1 .. Len(s), l \notin 1 .. Len(s)
        PROVE  FALSE
    <3>1. l - Len(s) \in 1 .. Len(t) /\ u[l] = t[l - Len(s)]
      BY <1>3, <2>3
    <3>2. u[k] = s[k]
      BY <1>1, <1>2, <2>3 DEF u
    <3>3. QED
      BY <2>3, <3>1, <3>2
  <2>4. QED
    BY <1>4, <2>1, <2>2, <2>3
<1>5. Unique(u)
  BY <1>4 DEF Unique
<1>6. Len(s) =< Len(u) /\ \A i \in 1 .. Len(s) : u[i] = s[i]
  BY <1>1, <1>2 DEF u
<1>7. QED
  BY <1>1, <1>5, <1>6 DEF u

LEMMA AppendTracksKeeps ==
  ASSUME IInv, AppendTracks
  PROVE  /\ IInv' /\ refs' \in Seq(Items) /\ Len(refs) =< Len(refs')
         /\ \A i \in 1 .. Len(refs) : refs'[i] = refs[i]
         /\ ws'.pc # "clear" /\ UNCHANGED <<preloaded, index, consumer>>
         /\ (consumer.track \in Slots =>
                 tracks'[consumer.track].item = tracks[consumer.track].item)
<1>1. /\ ws.pc = "add" /\ refs' = refs \o ws.items
      /\ shuffledIndexes' = Grown(shuffledIndexes, refs')
      /\ token' = TRUE /\ ws' = [pc |-> "idle", items |-> <<>>, after |-> None]
      /\ UNCHANGED <<index, preloaded, pendingStart, autoplayMode, loader, consumer>>
      /\ Collect(tracks)
  BY DEF AppendTracks, Added, HandlerDone, Notify, preVars
<1>2. /\ refs' \in Seq(Items) /\ Unique(refs') /\ Len(refs) =< Len(refs')
      /\ \A i \in 1 .. Len(refs) : refs'[i] = refs[i]
  <2>1. /\ Unique(ws.items)
        /\ \A i \in 1 .. Len(ws.items), j \in 1 .. Len(refs) : ws.items[i] # refs[j]
    BY <1>1 DEF IInv, AddsNew
  <2>2. QED
    BY <1>1, <2>1, QueueTyped, Concatenated
<1>3. shuffledIndexes' \in Seq(Nat) /\ Ordered(shuffledIndexes')
  BY <1>1, <1>2, QueueTyped, GrownOrdered
<1>4. ws' \in Hand /\ ws'.pc = "idle"
  BY <1>1 DEF Hand, HandlerPCs
<1>5. AddsNew'
  BY <1>4 DEF AddsNew
<1>6. Queue
  BY <1>1, <1>2, <1>3, <1>4, <1>5, QueueTyped DEF Queue
<1>7. Others
  BY <1>1, ForgetStays, QueueTyped DEF Others
<1>8. Preloads
  <2>1. Len(refs') \in Nat
    BY <1>2
  <2>2. QED
    BY <1>1, <1>2, <1>4, <2>1, SamePreloads
<1>9. SameItems(tracks)
  BY TracksSame DEF IInv
<1>10. QED
  BY <1>1, <1>2, <1>4, <1>6, <1>7, <1>8, <1>9, HandlerCollects

\* DeleteAllTracks, first half.
LEMMA ClearRefsKeeps ==
  ASSUME IInv, NEW kind, ClearRefs(kind), ws' \in Hand, ws'.pc = "clear",
         Unique(ws'.items)
  PROVE  IInv'
<1>1. /\ ws.pc = "idle" /\ refs' = <<>> /\ shuffledIndexes' = <<>> /\ index' = 0
      /\ ForgetLast
      /\ UNCHANGED <<preloaded, pendingStart, tracks, autoplayMode, token, loader>>
  BY DEF ClearRefs, Receives, preVars
<1>2. AddsNew'
  BY <1>1 DEF AddsNew
<1>3. Queue
  <2>1. refs' \in Seq(Items) /\ Unique(refs')
    BY <1>1 DEF Unique
  <2>2. shuffledIndexes' \in Seq(Nat) /\ Ordered(shuffledIndexes')
    BY <1>1 DEF Ordered
  <2>3. QED
    BY <1>1, <1>2, <2>1, <2>2 DEF Queue
<1>4. Others
  BY <1>1, ForgetStays, QueueTyped DEF Others
<1>5. Preloads
  BY <1>1, SamePreloads
<1>6. QED
  BY <1>1, <1>3, <1>4, <1>5, HandlerLeaves

LEMMA QueueClearedKeeps ==
  ASSUME IInv, QueueCleared
  PROVE  IInv'
<1>1. /\ ClearRefs("clear")
      /\ ws' = [pc |-> "clear", items |-> <<>>, after |-> None]
  BY DEF QueueCleared
<1>2. ws' \in Hand /\ ws'.pc = "clear" /\ ws'.items = <<>>
  BY <1>1 DEF Hand, HandlerPCs
<1>3. Unique(ws'.items)
  BY <1>2 DEF Unique
<1>4. QED
  BY <1>1, <1>2, <1>3, ClearRefsKeeps

LEMMA QueueTracksLoadedKeeps ==
  ASSUME IInv, QueueTracksLoaded
  PROVE  IInv'
<1>1. PICK s \in FirstOf(Items) :
          ws' = [pc |-> "clear", items |-> s, after |-> None]
  BY DEF QueueTracksLoaded
<1>2. s \in Seq(Items) /\ Unique(s)
  BY FirstOfIs
<1>3. ws' \in Hand /\ ws'.pc = "clear" /\ ws'.items = s
  BY <1>1, <1>2 DEF Hand, HandlerPCs
<1>4. ClearRefs("load")
  BY DEF QueueTracksLoaded
<1>5. QED
  BY <1>2, <1>3, <1>4, ClearRefsKeeps

\* Second half.
LEMMA ClearPreloadedKeeps ==
  ASSUME IInv, ClearPreloaded
  PROVE  /\ IInv'
         /\ (consumer.track \in Slots =>
                 tracks'[consumer.track].item = tracks[consumer.track].item)
<1>1. /\ ws.pc = "clear" /\ preloaded' = <<>> /\ pendingStart' = None
      /\ IF ws.items = <<>>
         THEN ws' = [pc |-> "idle", items |-> <<>>, after |-> None]
         ELSE ws' = [ws EXCEPT !.pc = "add"]
      /\ ForgetLast
      /\ UNCHANGED <<refs, shuffledIndexes, index, autoplayMode, token, loader>>
      /\ Collect(tracks)
  BY DEF ClearPreloaded, HandlerDone, queueVars
<1>2. /\ ws' \in Hand
      /\ ws'.pc = "idle" \/ (ws'.pc = "add" /\ ws'.items = ws.items)
  BY <1>1, QueueTyped DEF Hand, HandlerPCs
<1>3. AddsNew'
  <2>1. refs = <<>> /\ Unique(ws.items)
    BY <1>1 DEF IInv, AddsNew
  <2>2. QED
    BY <1>1, <1>2, <2>1 DEF AddsNew
<1>4. Queue
  BY <1>1, <1>2, <1>3, QueueTyped DEF Queue
<1>5. Others
  BY <1>1, ForgetStays, QueueTyped DEF Others
<1>6. Preloads
  <2>1. preloaded' \in Seq(Slots) /\ Len(preloaded') = 0
    BY <1>1
  <2>2. QED
    BY <2>1 DEF Preloads, Unique, AtFront, Window
<1>7. SameItems(tracks)
  BY TracksSame DEF IInv
<1>8. QED
  BY <1>1, <1>4, <1>5, <1>6, <1>7, HandlerCollects

LEMMA SetStateKeeps ==
  ASSUME IInv, NEW item, NEW then \in {"idle", "start"}, SetState(item, then)
  PROVE  /\ IInv' /\ ForgetLast /\ ws.pc = "idle" /\ ws'.pc = then
         /\ token' = TRUE /\ UNCHANGED <<refs, loader>>
         /\ index' \in Nat /\ Preloads
         /\ (consumer.track \in Slots =>
                 tracks'[consumer.track].item = tracks[consumer.track].item)
<1> DEFINE i == PositionOf(refs, item) - 1
           ix == IF i = -1 THEN index ELSE i
<1>1. /\ ws.pc = "idle" /\ ix >= 0 /\ index' = ix
      /\ preloaded' = Reordered(refs, shuffledIndexes, ix, preloaded, tracks)
      /\ token' = TRUE /\ ws' = [ws EXCEPT !.pc = then] /\ ForgetLast
      /\ UNCHANGED <<refs, shuffledIndexes, pendingStart, autoplayMode, loader>>
      /\ Collect(tracks)
  BY DEF SetState, SetIndex, Receives, Notify
<1>2. PositionOf(refs, item) \in Nat
  BY QueueTyped, PositionIs
<1>3. ix \in Nat
  BY <1>1, <1>2, QueueTyped
<1> HIDE DEF ix
<1>4. ws' \in Hand /\ ws'.pc = then
  BY <1>1, QueueTyped DEF Hand, HandlerPCs
<1>5. AddsNew'
  BY <1>4 DEF AddsNew
<1>6. Queue
  BY <1>1, <1>3, <1>4, <1>5, QueueTyped DEF Queue
<1>7. Others
  BY <1>1, ForgetStays, QueueTyped DEF Others
<1> DEFINE F == {consumer.prev, consumer.track}
<1>8. Window(refs, index, preloaded, tracks) /\ AtFront(preloaded, F)
  BY <1>1 DEF IInv, Aligned, Window, InFront, AtFront
<1> HIDE DEF F
<1>9. /\ preloaded' \in Seq(Slots) /\ Window(refs, ix, preloaded', tracks)
      /\ Unique(preloaded') /\ AtFront(preloaded', F)
      /\ \A k \in 1 .. Len(preloaded') :
             \E m \in 1 .. Len(preloaded) : preloaded'[k] = preloaded[m]
  BY <1>1, <1>3, <1>8, QueueTyped, Realigned
<1>10. Preloads
  BY <1>1, <1>9 DEF Preloads, F
<1>11. SameItems(tracks)
  BY TracksSame DEF IInv
<1>12. QED
  BY <1>1, <1>3, <1>4, <1>6, <1>7, <1>10, <1>11, HandlerCollects

LEMMA SetStartAtKeeps ==
  ASSUME IInv, SetStartAt
  PROVE  /\ IInv' /\ ws.pc # "clear" /\ ws'.pc # "clear"
         /\ UNCHANGED <<refs, shuffledIndexes, index, preloaded, token, loader, consumer>>
         /\ (consumer.track \in Slots =>
                 tracks'[consumer.track].item = tracks[consumer.track].item)
<1> DEFINE item == IF InQueue(refs, shuffledIndexes, index)
                   THEN ItemAt(refs, shuffledIndexes, index) ELSE None
<1>1. /\ ws.pc = "start" /\ pendingStart' = item
      /\ Collect(IF preloaded = <<>> THEN tracks
                 ELSE [tracks EXCEPT ![preloaded[1]].start = item])
      /\ ws' = [pc |-> "idle", items |-> <<>>, after |-> None]
      /\ UNCHANGED <<refs, shuffledIndexes, index, preloaded, autoplayMode, token,
                     loader, consumer>>
  BY DEF SetStartAt, HandlerDone, queueVars
<1>2. item \in Items \cup {None}
  <2>1. /\ InQueue(refs, shuffledIndexes, index) <=> index < Len(refs)
        /\ ItemAt(refs, shuffledIndexes, index) = refs[index + 1]
    BY QueueTyped, ItemIs
  <2>2. index < Len(refs) => refs[index + 1] \in Items
    BY QueueTyped
  <2>3. QED
    BY <2>1, <2>2
<1> HIDE DEF item
<1>3. ws' \in Hand /\ ws'.pc = "idle"
  BY <1>1 DEF Hand, HandlerPCs
<1>4. AddsNew'
  BY <1>3 DEF AddsNew
<1>5. Queue
  BY <1>1, <1>3, <1>4, QueueTyped DEF Queue
<1>6. Others
  BY <1>1, <1>2, ForgetStays, QueueTyped DEF Others
<1>7. Preloads
  BY <1>1, <1>3, SamePreloads, QueueTyped
<1> DEFINE heap == IF preloaded = <<>> THEN tracks
                   ELSE [tracks EXCEPT ![preloaded[1]].start = item]
<1>8. SameItems(heap)
  <2>1. CASE preloaded = <<>>
    BY <2>1, TracksSame DEF IInv
  <2>2. CASE preloaded # <<>>
    <3>1. preloaded[1] \in Slots /\ preloaded[1] \in ToSet(preloaded)
      BY <2>2, QueueTyped DEF ToSet
    <3>2. preloaded[1] \in Live \cap Slots
      BY <3>1 DEF Live
    <3>3. SameItems([tracks EXCEPT ![preloaded[1]].start = item])
      BY <1>2, <3>2, StartSame DEF IInv
    <3>4. QED
      BY <2>2, <3>3
  <2>3. QED
    BY <2>1, <2>2
<1> HIDE DEF heap
<1>9. Collect(heap)
  BY <1>1 DEF heap
<1>10. QED
  BY <1>1, <1>3, <1>5, <1>6, <1>7, <1>8, <1>9, HandlerCollects

\* A snapshot: an empty queue takes its tracks; otherwise the window was right.
LEMMA QueueStateKeeps ==
  ASSUME IInv, PlainMessages, QueueState
  PROVE  /\ IInv' /\ refs' \in Seq(Items) /\ Len(refs) =< Len(refs')
         /\ \A i \in 1 .. Len(refs) : refs'[i] = refs[i]
         /\ ws.pc # "clear" /\ ws'.pc # "clear"
         /\ UNCHANGED <<preloaded, index, consumer>>
         /\ token' = TRUE
         /\ (consumer.track \in Slots =>
                 tracks'[consumer.track].item = tracks[consumer.track].item)
<1>1. PICK items \in IF refs = <<>> THEN NewItems ELSE {refs} :
      \E regular \in 0 .. (Len(items) + IF refs = <<>> THEN 0 ELSE 1) :
      \E order \in Orders(regular) :
          /\ ConsumeQueueState(items, regular, order)
          /\ IF order = <<>> /\ Identity(0, Len(shuffledIndexes)) = shuffledIndexes
             THEN UNCHANGED consumer ELSE ForgetLast
  BY DEF QueueState
<1>2. PICK regular \in 0 .. (Len(items) + IF refs = <<>> THEN 0 ELSE 1) :
      \E order \in Orders(regular) :
          /\ ConsumeQueueState(items, regular, order)
          /\ IF order = <<>> /\ Identity(0, Len(shuffledIndexes)) = shuffledIndexes
             THEN UNCHANGED consumer ELSE ForgetLast
  BY <1>1
<1>3. /\ ws.pc = "idle" /\ token' = TRUE /\ autoplayMode' = autoplayMode
      /\ UNCHANGED <<index, pendingStart, loader, ws>> /\ Collect(tracks)
  BY DEF QueueState, Receives, Notify, PlainMessages
<1>4. Orders(regular) = {<<>>}
  BY DEF Orders, PlainMessages
<1>5. shuffledIndexes = Identity(0, Len(shuffledIndexes))
  <2>1. shuffledIndexes \in Seq(Nat) /\ Ordered(shuffledIndexes)
        /\ Len(shuffledIndexes) \in Nat
    BY QueueTyped
  <2> DEFINE id == Identity(0, Len(shuffledIndexes))
  <2>2. /\ id \in Seq(Nat)
        /\ Len(id) = IF Len(shuffledIndexes) > 0 THEN Len(shuffledIndexes) - 0 ELSE 0
        /\ \A k \in 1 .. Len(id) : id[k] = 0 + k - 1
    BY <2>1, IdentityIs, 0 \in Nat
  <2> HIDE DEF id
  <2>3. Len(id) = Len(shuffledIndexes)
    BY <2>1, <2>2
  <2>4. \A k \in 1 .. Len(shuffledIndexes) : shuffledIndexes[k] = id[k]
    BY <2>1, <2>2, <2>3 DEF Ordered
  <2>5. shuffledIndexes = id
    BY <2>1, <2>2, <2>3, <2>4, SeqEqual
  <2>6. QED
    BY <2>5 DEF id
<1>6. ConsumeQueueState(items, regular, <<>>) /\ consumer' = consumer
  BY <1>2, <1>4, <1>5
<1>7. items \in Seq(Items) /\ Unique(items)
  <2>1. CASE refs = <<>>
    <3>1. items \in FirstOf(Items \ ToSet(refs))
      BY <1>1, <2>1 DEF NewItems
    <3>2. QED
      BY <3>1, FirstOfIs
  <2>2. CASE refs # <<>>
    BY <1>1, <2>2, QueueTyped
  <2>3. QED
    BY <2>1, <2>2
<1>8. shuffledIndexes' \in Seq(Nat) /\ Ordered(shuffledIndexes')
  <2>1. regular \in Nat
    BY <1>7
  <2> DEFINE id == Identity(0, regular)
  <2>2. id \in Seq(Nat) /\ \A k \in 1 .. Len(id) : id[k] = 0 + k - 1
    BY <2>1, IdentityIs, 0 \in Nat
  <2>3. shuffledIndexes' = <<>> \o id /\ Len(<<>>) = 0
    BY <1>6 DEF ConsumeQueueState
  <2> HIDE DEF id
  <2>4. shuffledIndexes' = id
    BY <2>2, <2>3, ConcatEmptySeq
  <2>5. QED
    BY <2>2, <2>4 DEF Ordered
<1>9. Window(refs, index, preloaded, tracks)
  BY <1>3 DEF IInv, Aligned, Window
<1>10. /\ refs' \in Seq(Items) /\ Unique(refs') /\ Len(refs) =< Len(refs')
       /\ \A i \in 1 .. Len(refs) : refs'[i] = refs[i]
       /\ preloaded' = preloaded
  <2>1. CASE refs = <<>>
    <3>1. refs' = items /\ preloaded' = <<>>
      BY <1>6, <2>1 DEF ConsumeQueueState
    <3>2. Len(refs) = 0
      BY <2>1
    <3>3. preloaded = <<>>
      BY <1>9, <2>1, <3>2, QueueTyped DEF Window
    <3>4. QED
      BY <1>7, <3>1, <3>2, <3>3
  <2>2. CASE refs # <<>>
    <3>1. /\ refs' = refs
          /\ preloaded' = Reordered(refs, shuffledIndexes', index, preloaded, tracks)
      BY <1>6, <2>2 DEF ConsumeQueueState
    <3> DEFINE F == {consumer.prev, consumer.track}
    <3>2. AtFront(preloaded, F)
      BY DEF IInv, InFront, AtFront
    <3> HIDE DEF F
    <3>3. preloaded' = preloaded
      BY <1>8, <1>9, <3>1, <3>2, QueueTyped, Realigned
    <3>4. QED
      BY <3>1, <3>3, QueueTyped
  <2>3. QED
    BY <2>1, <2>2
<1>11. AddsNew'
  BY <1>3 DEF AddsNew
<1>12. Queue
  BY <1>3, <1>8, <1>10, <1>11, QueueTyped DEF Queue
<1>13. Others
  BY <1>3, <1>6, ForgetStays, QueueTyped DEF Others
<1>14. Preloads
  <2>1. Len(refs') \in Nat
    BY <1>10
  <2>2. QED
    BY <1>3, <1>10, <2>1, SamePreloads
<1>15. SameItems(tracks)
  BY TracksSame DEF IInv
<1>16. QED
  BY <1>3, <1>6, <1>10, <1>12, <1>13, <1>14, <1>15, HandlerCollects

\* The messages of a plain server; nothing indexes below zero.
PlainHandler ==
    \/ QueueTracksAdded \/ AppendTracks \/ QueueCleared \/ QueueTracksLoaded
    \/ ClearPreloaded
    \/ \E item \in Items, then \in {"idle", "start"} : SetState(item, then)
    \/ SetStartAt \/ QueueState

LEMMA HandlerIsPlain ==
  ASSUME PlainMessages, IInv, Handler
  PROVE  PlainHandler
<1>1. ~QueueTracksInserted /\ ~AutoplayTracksLoaded /\ ~QueueTracksRemoved
  BY DEF PlainMessages, QueueTracksInserted, TracksArrive, AutoplayTracksLoaded,
         QueueTracksRemoved, Receives
<1>2. ~InsertTracks /\ ~AddTracksPanics
  BY QueueTyped DEF InsertTracks, AddTracksPanics
<1>3. ~ReorderPanics
  <2>1. ~(index < 0)
    BY QueueTyped
  <2>2. QED
    BY <2>1, Zenon DEF ReorderPanics
<1>4. QED
  BY <1>1, <1>2, <1>3 DEF Handler, PlainHandler, AddTracks

LEMMA HandlerKeeps ==
  ASSUME PlainMessages, IInv, Handler
  PROVE  IInv'
BY HandlerIsPlain, QueueTracksAddedKeeps, AppendTracksKeeps, QueueClearedKeeps,
   QueueTracksLoadedKeeps, ClearPreloadedKeeps, SetStateKeeps, SetStartAtKeeps,
   QueueStateKeeps DEF PlainHandler

-----------------------------------------------------------------------------
(* The invariant *)

LEMMA InitIInv == Init => IInv
<1> SUFFICES ASSUME Init PROVE IInv
  OBVIOUS
<1>1. /\ refs = <<>> /\ shuffledIndexes = <<>> /\ index = 0 /\ preloaded = <<>>
      /\ Len(refs) = 0 /\ Len(shuffledIndexes) = 0 /\ Len(preloaded) = 0
  BY DEF Init
<1>2. Types
  <2>1. tracks \in [Slots -> Track \cup {Free}]
    BY DEF Init
  <2>2. loader \in [pc : LoaderPCs, batch : Seq(Slots)]
    BY DEF Init, LoaderPCs
  <2>3. consumer \in [pc : ConsumerPCs, prev : Slots \cup {None},
                      track : Slots \cup {None}, last : Items \cup {None}]
    BY DEF Init, ConsumerPCs
  <2>4. ws \in [pc : HandlerPCs, items : Seq(Items), after : {None}]
    BY DEF Init, HandlerPCs
  <2>5. token \in BOOLEAN /\ autoplayMode = FALSE /\ pendingStart \in Items \cup {None}
    BY DEF Init
  <2>6. refs \in Seq(Items) /\ index \in Nat /\ shuffledIndexes \in Seq(Nat)
        /\ preloaded \in Seq(Slots)
    BY <1>1
  <2>7. QED
    BY <2>1, <2>2, <2>3, <2>4, <2>5, <2>6, Zenon DEF Types
<1>3. LiveIsTrack
  <2>1. Live = {None}
    BY <1>1 DEF Init, Live, ToSet
  <2>2. None \notin Slots
    BY ConstantsOK DEF None
  <2>3. QED
    BY <2>1, <2>2 DEF LiveIsTrack
<1>4. InQueueOrder /\ QueueUnique /\ Aligned /\ InFront
  BY <1>1 DEF InQueueOrder, QueueUnique, Unique, Aligned, InFront
<1>5. AddsNew /\ ConsumerKnows
  BY DEF Init, AddsNew, ConsumerKnows
<1>6. QED
  BY <1>2, <1>3, <1>4, <1>5 DEF IInv

LEMMA StutterKeeps ==
  ASSUME IInv, UNCHANGED vars
  PROVE  IInv'
<1>1. UNCHANGED <<refs, shuffledIndexes, index, preloaded, tracks, pendingStart,
                  autoplayMode, token, loader, consumer, ws>>
  BY DEF vars
<1>2. Types'
  BY <1>1 DEF IInv, Types
<1>3. InQueueOrder' /\ LiveIsTrack' /\ QueueUnique' /\ AddsNew'
  BY <1>1 DEF IInv, InQueueOrder, LiveIsTrack, Live, QueueUnique, AddsNew, Unique
<1>4. Aligned' /\ InFront' /\ ConsumerKnows'
  BY <1>1 DEF IInv, Aligned, InFront, ConsumerKnows, Unique
<1>5. QED
  BY <1>2, <1>3, <1>4 DEF IInv

LEMMA StepKeeps ==
  ASSUME PlainMessages, IInv, [Next]_vars
  PROVE  IInv'
BY LoaderKeeps, ConsumerKeeps, HandlerKeeps, StutterKeeps DEF Next

\* The inductive invariant holds throughout.
THEOREM QueueIsKnown ==
  ASSUME PlainMessages
  PROVE  Spec => []IInv
<1>1. IInv /\ [Next]_vars => IInv'
  BY StepKeeps
<1>2. QED
  BY InitIInv, <1>1, PTL DEF Spec

\* However the loader, the consumer and the handler interleave, the preloaded
\* tracks are those at index, index + 1, ... of the play order.
THEOREM WindowStaysAligned ==
  ASSUME PlainMessages
  PROVE  Spec => []WindowAligned
<1>1. ASSUME IInv PROVE WindowAligned
  <2>1. ASSUME ws.pc # "clear", NEW k \in 1 .. Len(preloaded)
        PROVE  /\ InQueue(refs, shuffledIndexes, index + k - 1)
               /\ tracks[preloaded[k]].item = ItemAt(refs, shuffledIndexes, index + k - 1)
    <3>1. index + k =< Len(refs) /\ tracks[preloaded[k]].item = refs[index + k]
      BY <1>1, <2>1 DEF IInv, Aligned
    <3> DEFINE i == index + k - 1
    <3>2. i \in Nat /\ i + 1 = index + k
      BY <1>1, QueueTyped
    <3>3. i < Len(refs)
      BY <1>1, <3>1, <3>2, QueueTyped
    <3> HIDE DEF i
    <3>4. InQueue(refs, shuffledIndexes, i) /\ ItemAt(refs, shuffledIndexes, i) = refs[i + 1]
      BY <1>1, <3>2, <3>3, QueueTyped, ItemIs
    <3>5. QED
      BY <3>1, <3>2, <3>4 DEF i
  <2>2. QED
    BY <2>1 DEF WindowAligned
<1>2. QED
  BY QueueIsKnown, <1>1, PTL

-----------------------------------------------------------------------------
(* The queue implements PlayCursor: what PlayCursor sees of it *)

LEMMA OrderIs ==
  ASSUME NEW rf \in Seq(Items), NEW sh \in Seq(Nat), Ordered(sh)
  PROVE  LET n == Cardinality({i \in 0 .. (Len(rf) - 1) : InQueue(rf, sh, i)})
         IN  [i \in 1 .. n |-> ItemAt(rf, sh, i - 1)] = rf
<1> DEFINE n == Cardinality({i \in 0 .. (Len(rf) - 1) : InQueue(rf, sh, i)})
<1>1. Len(rf) \in Nat
  OBVIOUS
<1>2. \A i \in 0 .. (Len(rf) - 1) : InQueue(rf, sh, i) /\ ItemAt(rf, sh, i) = rf[i + 1]
  <2>1. \A i \in 0 .. (Len(rf) - 1) : i \in Nat /\ i < Len(rf)
    BY <1>1
  <2>2. QED
    BY <2>1, ItemIs
<1>3. {i \in 0 .. (Len(rf) - 1) : InQueue(rf, sh, i)} = 0 .. (Len(rf) - 1)
  BY <1>2
<1>4. n = Len(rf)
  <2> DEFINE m == Len(rf) - 1
  <2>1. m \in Int /\ 0 \in Int
    BY <1>1
  <2>2. n = Cardinality(0 .. m)
    BY <1>3
  <2> HIDE DEF m, n
  <2>3. Cardinality(0 .. m) = IF 0 > m THEN 0 ELSE m - 0 + 1
    BY <2>1, FS_Interval
  <2>4. QED
    BY <1>1, <2>2, <2>3 DEF m
<1> HIDE DEF n
<1>5. \A i \in 1 .. Len(rf) : ItemAt(rf, sh, i - 1) = rf[i]
  <2>1. ASSUME NEW i \in 1 .. Len(rf) PROVE ItemAt(rf, sh, i - 1) = rf[i]
    <3>1. i - 1 \in 0 .. (Len(rf) - 1) /\ (i - 1) + 1 = i
      BY <1>1
    <3>2. QED
      BY <1>2, <3>1
  <2>2. QED
    BY <2>1
<1>6. [i \in 1 .. n |-> ItemAt(rf, sh, i - 1)] = [i \in 1 .. Len(rf) |-> rf[i]]
  BY <1>4, <1>5
<1>7. rf = [i \in 1 .. Len(rf) |-> rf[i]]
  OBVIOUS
<1>8. QED
  BY <1>6, <1>7 DEF n

LEMMA OrderIsRefs ==
  ASSUME IInv, IInv'
  PROVE  PlayOrder = refs /\ PlayOrder' = refs'
<1>1. refs \in Seq(Items) /\ shuffledIndexes \in Seq(Nat) /\ Ordered(shuffledIndexes)
  BY QueueTyped
<1>2. /\ refs' \in Seq(Items) /\ shuffledIndexes' \in Seq(Nat)
      /\ Ordered(shuffledIndexes')
  BY DEF IInv, Types, InQueueOrder, Ordered
<1>3. QED
  BY <1>1, <1>2, OrderIs DEF PlayOrder

\* AtCursor, of any state.
At(pc, track, prev, pre) ==
    IF pc = "clear" THEN "nothing"
    ELSE IF track \in ToSet(pre) THEN "chosen"
    ELSE IF prev \in ToSet(pre) THEN "held" ELSE "nothing"

LEMMA AtIs ==
  /\ AtCursor = At(ws.pc, consumer.track, consumer.prev, preloaded)
  /\ AtCursor' = At(ws'.pc, consumer'.track, consumer'.prev, preloaded')
BY DEF AtCursor, At

\* What none of the steps PlayCursor does not see changes.
ViewStays ==
    /\ UNCHANGED <<refs, index>>
    /\ ws'.pc = "clear" <=> ws.pc = "clear"
    /\ consumer'.track = consumer.track /\ consumer'.last = consumer.last
    /\ consumer'.track \in ToSet(preloaded') <=> consumer.track \in ToSet(preloaded)
    /\ consumer'.prev \in ToSet(preloaded') <=> consumer.prev \in ToSet(preloaded)
    /\ consumer.track # None =>
           tracks'[consumer.track].item = tracks[consumer.track].item

LEMMA ViewIsTheSame ==
  ASSUME IInv, IInv', ViewStays
  PROVE  UNCHANGED PC!vars
<1>1. PlayOrder' = PlayOrder
  BY OrderIsRefs DEF ViewStays
<1>2. AtCursor' = AtCursor
  BY AtIs DEF ViewStays, At
<1>3. Chosen' = Chosen
  BY DEF ViewStays, Chosen
<1>4. LastGiven' = LastGiven
  BY DEF ViewStays, LastGiven
<1>5. (ws.pc = "clear")' = (ws.pc = "clear")
  BY Zenon DEF ViewStays
<1>6. index' = index
  BY DEF ViewStays
<1>7. QED
  BY <1>1, <1>2, <1>3, <1>4, <1>5, <1>6 DEF PC!vars

LEMMA FetchItems ==
  ASSUME IInv, NEW heap, SameItems(heap), Collect(heap), UNCHANGED consumer,
         consumer.track # None
  PROVE  tracks'[consumer.track].item = tracks[consumer.track].item
<1>1. consumer.track \in Slots
  BY SessionTyped
<1>2. consumer.track \in Live /\ consumer.track \in Live'
  BY DEF Live
<1>3. QED
  BY <1>1, <1>2 DEF Collect, SameItems

LEMMA LoaderUnseen ==
  ASSUME IInv, Loader
  PROVE  ViewStays
<1>1. /\ index \in Nat /\ Len(preloaded) \in Nat
      /\ loader.pc \in LoaderPCs
  BY DEF IInv, Types
<1>2. ~LoaderFillPanics
  BY <1>1 DEF LoaderFillPanics
<1>3. ~LoaderAsks /\ ~LoaderGivesUp /\ ~LoaderMarksAsked
  BY <1>1 DEF LoaderAsks, LoaderGivesUp, LoaderMarksAsked, LoaderAt, LoaderPCs
<1>4. CASE LoaderFill
  <2>1. UNCHANGED <<refs, index, consumer, ws>>
    BY <1>4 DEF LoaderFill, queueVars
  <2>2. consumer.track # None => consumer.track \in Slots
    BY SessionTyped
  <2>3. QED
    BY <1>4, <2>1, <2>2, LoaderFillKeeps DEF ViewStays
<1>5. ASSUME UNCHANGED <<refs, index, preloaded, consumer, ws>>,
             \/ UNCHANGED tracks
             \/ \E heap : SameItems(heap) /\ Collect(heap)
      PROVE  ViewStays
  <2>1. consumer.track # None =>
            tracks'[consumer.track].item = tracks[consumer.track].item
    BY <1>5, FetchItems
  <2>2. QED
    BY <1>5, <2>1 DEF ViewStays
<1>6. SameItems(tracks)
  BY TracksSame DEF IInv
<1>7. CASE LoaderTop
  BY <1>5, <1>6, <1>7 DEF LoaderTop, queueVars, preVars
<1>8. CASE LoaderWake
  BY <1>5, <1>8 DEF LoaderWake, queueVars, preVars
<1>9. CASE LoaderCopies
  BY <1>5, <1>9 DEF LoaderCopies, queueVars, preVars
<1>10. CASE LoaderRests
  BY <1>5, <1>10 DEF LoaderRests, queueVars, preVars
<1>11. CASE LoaderSkips
  BY <1>5, <1>6, <1>11 DEF LoaderSkips, queueVars, preVars
<1>12. ASSUME LoaderFetchesMetadata \/ LoaderFetchesFileURL
       PROVE  \E heap : SameItems(heap) /\ Collect(heap)
  <2>1. \E s \in States : Collect([tracks EXCEPT ![Head(loader.batch)].state = s])
    <3>1. {"queued", "streamable", "ready"} \subseteq States
      BY DEF States
    <3>2. QED
      BY <1>12, <3>1, FailureTyped DEF LoaderFetchesMetadata, LoaderFetchesFileURL
  <2>2. loader.batch # <<>>
    BY <1>12 DEF LoaderFetchesMetadata, LoaderFetchesFileURL
  <2>3. Head(loader.batch) \in Live \cap Slots
    BY <2>2, BatchHead
  <2>4. QED
    BY <2>1, <2>3, StateSame DEF IInv
<1>13. CASE LoaderFetchesMetadata
  BY <1>5, <1>12, <1>13 DEF LoaderFetchesMetadata, queueVars, preVars
<1>14. CASE LoaderFetchesFileURL
  BY <1>5, <1>12, <1>14 DEF LoaderFetchesFileURL, queueVars
<1>15. QED
  BY <1>2, <1>3, <1>4, <1>7, <1>8, <1>9, <1>10, <1>11, <1>13, <1>14 DEF Loader

LEMMA HandlerUnseen ==
  ASSUME IInv, QueueTracksAdded \/ SetStartAt, PlainMessages
  PROVE  ViewStays
<1>1. CASE QueueTracksAdded
  <2>1. TracksArrive("append", None, FALSE)
    BY <1>1 DEF QueueTracksAdded, Resets, PlainMessages
  <2>2. /\ ws.pc = "idle"
        /\ UNCHANGED <<refs, index, preloaded, tracks, consumer>>
    BY <2>1 DEF TracksArrive, Receives
  <2>3. ws'.pc = "add"
    <3>1. PICK s \in NewItems : ws' = [pc |-> "add", items |-> s, after |-> None]
      BY <2>1 DEF TracksArrive
    <3>2. QED
      BY <3>1
  <2>4. QED
    BY <2>2, <2>3 DEF ViewStays
<1>2. CASE SetStartAt
  <2>1. consumer.track # None => consumer.track \in Slots
    BY SessionTyped
  <2>2. QED
    BY <1>2, <2>1, SetStartAtKeeps DEF ViewStays
<1>3. QED
  BY <1>1, <1>2

\* The session's end, and the consumer's steps that look at nothing.
LEMMA SessionEndIsEnds ==
  ASSUME IInv, IInv', SessionEnds, UNCHANGED <<refs, index, ws>>
  PROVE  PC!Ends
<1>1. /\ consumer'.prev = None /\ consumer'.track = None
      /\ consumer'.pc = "stopped" /\ consumer'.last = None
  BY SessionOver DEF SessionEnds
<1>2. None \notin ToSet(preloaded')
  <2>1. None \notin Slots
    BY SessionTyped
  <2>2. preloaded' \in Seq(Slots)
    BY DEF IInv, Types
  <2>3. QED
    BY <2>1, <2>2 DEF ToSet
<1>3. AtCursor' = "nothing"
  BY <1>1, <1>2, AtIs DEF At
<1>4. Chosen' = None
  BY <1>1 DEF Chosen
<1>5. PlayOrder' = PlayOrder
  BY OrderIsRefs
<1>6. LastGiven' = None
  BY <1>1 DEF LastGiven
<1>7. QED
  BY <1>3, <1>4, <1>5, <1>6 DEF PC!Ends

LEMMA SessionUnseen ==
  ASSUME IInv, UNCHANGED <<refs, index, preloaded, ws>>,
         consumer.track = None, consumer'.track = None,
         consumer'.last = consumer.last, consumer'.prev = consumer.prev
  PROVE  ViewStays
BY DEF ViewStays

LEMMA ConsumerIdles ==
  ASSUME IInv, IInv', SessionStarts \/ SessionIsStopped \/ ConsumeBegins \/ ConsumeEnds
  PROVE  PC!Ends \/ UNCHANGED PC!vars
<1>1. UNCHANGED <<refs, index, preloaded, ws>>
  BY DEF SessionStarts, SessionIsStopped, ConsumeBegins, ConsumeEnds, queueVars, preVars
<1>2. CASE SessionEnds
  BY <1>1, <1>2, SessionEndIsEnds
<1>3. CASE SessionStarts
  <2>1. consumer.pc = "stopped"
        /\ consumer' = [pc |-> "calls", prev |-> None, track |-> None, last |-> None]
    BY <1>3 DEF SessionStarts, ConsumerAt
  <2>2. consumer.prev = None /\ consumer.track = None /\ consumer.last = None
    BY <2>1 DEF IInv, ConsumerKnows
  <2>3. consumer'.prev = None /\ consumer'.track = None /\ consumer'.last = None
    BY <2>1
  <2>4. QED
    BY <1>1, <2>2, <2>3, SessionUnseen, ViewIsTheSame
<1>4. CASE /\ consumer.pc \in {"calls", "ends?"}
           /\ consumer' = [consumer EXCEPT !.pc = "loop"]
  <2>1. consumer \in Session
    BY SessionTyped
  <2>2. /\ consumer'.prev = consumer.prev /\ consumer'.track = consumer.track
        /\ consumer'.last = consumer.last
    BY <1>4, <2>1 DEF Session
  <2>3. consumer.track = None
    BY <1>4 DEF IInv, ConsumerKnows
  <2>4. QED
    BY <1>1, <2>2, <2>3, SessionUnseen, ViewIsTheSame
<1>5. \/ SessionEnds \/ SessionStarts
      \/ /\ consumer.pc \in {"calls", "ends?"}
         /\ consumer' = [consumer EXCEPT !.pc = "loop"]
  BY DEF SessionIsStopped, ConsumeBegins, ConsumeEnds, ConsumerAt
<1>6. QED
  BY <1>2, <1>3, <1>4, <1>5

\* The consumer's track, while one is chosen.
LEMMA ChosenIs ==
  ASSUME IInv, consumer.pc = "ready?"
  PROVE  /\ Chosen = tracks[consumer.track].item /\ Chosen \in Items /\ Chosen # None
         /\ consumer.prev \notin ToSet(preloaded)
<1>1. consumer.track # None /\ tracks[consumer.track].item \in Items
  BY TrackIsTrack DEF IInv, ConsumerKnows
<1>2. None \notin Items
  BY ConstantsOK
<1>3. preloaded \in Seq(Slots) /\ \A k \in 1 .. Len(preloaded) : preloaded[k] # consumer.prev
  BY DEF IInv, Types, ConsumerKnows
<1>4. QED
  BY <1>1, <1>2, <1>3 DEF Chosen, ToSet

LEMMA ReturnIsGives ==
  ASSUME IInv, IInv', ConsumeReturns
  PROVE  PC!Gives
<1> DEFINE la == IF consumer.track \in ToSet(preloaded)
                 THEN tracks[consumer.track].item ELSE None
<1>1. /\ consumer.pc = "ready?" /\ UNCHANGED <<refs, index, preloaded, ws>>
      /\ consumer' = [pc |-> "calls", prev |-> consumer.track, track |-> None,
                      last |-> la]
  BY DEF ConsumeReturns, ConsumerAt, queueVars, preVars
<1>2. /\ consumer'.prev = consumer.track /\ consumer'.track = None
      /\ consumer'.last = la
  BY <1>1
<1>3. None \notin ToSet(preloaded)
  BY SessionTyped
<1>4. /\ Chosen = tracks[consumer.track].item /\ Chosen # None
      /\ consumer.prev \notin ToSet(preloaded)
  BY <1>1, ChosenIs
<1>5. Chosen' = None
  BY <1>2 DEF Chosen
<1>6. PlayOrder' = PlayOrder
  BY <1>1, OrderIsRefs
<1>7. IF AtCursor = "chosen"
      THEN /\ AtCursor' = "held"
           /\ LastGiven' = Chosen
      ELSE /\ AtCursor' = AtCursor
           /\ LastGiven' = None
  BY <1>1, <1>2, <1>3, <1>4, AtIs DEF At, LastGiven
<1>8. (ws.pc = "clear")' = (ws.pc = "clear")
  BY <1>1
<1>9. QED
  BY <1>1, <1>4, <1>5, <1>6, <1>7, <1>8, Zenon DEF PC!Gives

LEMMA SleepIsRetries ==
  ASSUME IInv, IInv', ConsumeSleeps
  PROVE  PC!Retries
<1>1. /\ consumer.pc = "ready?" /\ UNCHANGED <<refs, index, preloaded, ws>>
      /\ consumer' = [consumer EXCEPT !.pc = "loop", !.track = None]
  BY DEF ConsumeSleeps, ConsumerAt, queueVars, preVars
<1>2. consumer \in Session /\ None \notin ToSet(preloaded)
  BY SessionTyped
<1>3. /\ consumer'.prev = consumer.prev /\ consumer'.track = None
      /\ consumer'.last = consumer.last
  BY <1>1, <1>2 DEF Session
<1>4. Chosen # None /\ consumer.prev \notin ToSet(preloaded)
  BY <1>1, ChosenIs
<1>5. Chosen' = None
  BY <1>3 DEF Chosen
<1>6. PlayOrder' = PlayOrder
  BY <1>1, OrderIsRefs
<1>7. AtCursor' = "nothing"
  BY <1>1, <1>2, <1>3, <1>4, AtIs DEF At
<1>8. LastGiven' = LastGiven
  BY <1>1, <1>3 DEF LastGiven
<1>9. (ws.pc = "clear")' = (ws.pc = "clear")
  BY <1>1
<1>10. QED
  BY <1>1, <1>4, <1>5, <1>6, <1>7, <1>8, <1>9, Zenon DEF PC!Retries

\* What ConsumeTrack found at the cursor.
LEMMA PopFinds ==
  ASSUME IInv, IInv', ConsumePops
  PROVE  /\ AtCursor' = IF ws.pc # "clear" /\ consumer'.track # None
                        THEN "chosen" ELSE "nothing"
         /\ consumer'.track # None /\ ws.pc # "clear" =>
                index' < Len(refs) /\ Chosen' = refs[index' + 1]
         /\ Chosen' \in Items \cup {None}
         /\ consumer'.track = None => Chosen' = None
         /\ index' \in Nat
<1>1. PICK d \in {0, 1} : Pops(d)
  BY PopIs
<1>2. Takes /\ UNCHANGED <<refs, ws>>
  BY PopIs
<1>3. preloaded' \in Seq(Slots) /\ index' \in Nat
  BY DEF IInv, Types
<1>4. None \notin Slots /\ None \notin ToSet(preloaded')
  <2>1. None \notin Slots
    BY SessionTyped
  <2>2. QED
    BY <1>3, <2>1 DEF ToSet
<1>5. consumer'.track # None =>
          /\ preloaded' # <<>> /\ consumer'.track = preloaded'[1]
          /\ consumer'.track \in ToSet(preloaded')
  BY <1>2, <1>3 DEF Takes, ToSet
<1>6. consumer'.prev \notin ToSet(preloaded')
  <2>1. CASE d = 0
    BY <1>1, <1>3, <2>1 DEF Pops, ToSet
  <2>2. CASE d = 1
    BY <1>1, <1>4, <2>2 DEF Pops
  <2>3. QED
    BY <2>1, <2>2
<1>7. AtCursor' = IF ws.pc # "clear" /\ consumer'.track # None
                  THEN "chosen" ELSE "nothing"
  BY <1>2, <1>4, <1>5, <1>6, AtIs DEF At
<1>8. ASSUME consumer'.track # None
      PROVE  /\ Chosen' = tracks'[preloaded'[1]].item /\ Chosen' \in Items
             /\ ws.pc # "clear" => index' < Len(refs) /\ Chosen' = refs[index' + 1]
  <2>1. Chosen' = tracks'[consumer'.track].item
    BY <1>8 DEF Chosen
  <2>2. consumer'.track \in Slots /\ consumer'.track \in Live'
    BY <1>3, <1>5, <1>8 DEF Live
  <2>3. tracks'[consumer'.track] \in Track
    BY <2>2 DEF IInv, LiveIsTrack
  <2>4. Chosen' \in Items
    BY <2>1, <2>3 DEF Track
  <2>5. 1 \in 1 .. Len(preloaded')
    BY <1>3, <1>5, <1>8
  <2>6. ws.pc # "clear" =>
            index' + 1 =< Len(refs) /\ tracks'[preloaded'[1]].item = refs[index' + 1]
    BY <1>2, <2>5 DEF IInv, Aligned
  <2>7. QED
    BY <1>3, <1>5, <1>8, <2>1, <2>4, <2>6, QueueTyped
<1>9. consumer'.track = None => Chosen' = None
  BY DEF Chosen
<1>10. QED
  BY <1>3, <1>7, <1>8, <1>9

LEMMA PopIsLooks ==
  ASSUME IInv, IInv', ConsumePops
  PROVE  PC!Looks \/ PC!LooksIntoClear
<1>1. PICK d \in {0, 1} : Pops(d)
  BY PopIs
<1>2. /\ consumer.pc = "loop" /\ Takes /\ UNCHANGED <<refs, ws>>
  BY PopIs
<1>3. consumer.track = None /\ Chosen = None
  BY <1>2 DEF IInv, ConsumerKnows, Chosen
<1>4. preloaded \in Seq(Slots) /\ None \notin ToSet(preloaded) /\ index \in Nat
      /\ Len(refs) \in Nat
  BY SessionTyped, QueueTyped
<1>5. consumer.prev \in ToSet(preloaded) <=> d = 1
  <2>1. CASE d = 0
    BY <1>1, <1>4, <2>1 DEF Pops, ToSet
  <2>2. CASE d = 1
    <3>1. preloaded[1] = consumer.prev /\ Len(preloaded) >= 1
      <4>1. Len(preloaded) - 1 = Len(preloaded') /\ preloaded[1] = consumer.prev
            /\ preloaded' \in Seq(Slots)
        BY <1>1, <2>2 DEF Pops
      <4>2. Len(preloaded') \in Nat /\ Len(preloaded) \in Nat
        BY <1>4, <4>1
      <4>3. QED
        BY <4>1, <4>2
    <3>2. QED
      BY <1>4, <2>2, <3>1 DEF ToSet
  <2>3. QED
    BY <2>1, <2>2
<1>6. PlayOrder = refs /\ PlayOrder' = refs
  BY <1>2, OrderIsRefs
<1>7. LastGiven' = LastGiven
  BY <1>2 DEF Takes, LastGiven
<1>8. (ws.pc = "clear")' = (ws.pc = "clear")
  BY <1>2
<1>9. index' = index + d
  BY <1>1 DEF Pops
<1>10. CASE ws.pc = "clear"
  <2>1. AtCursor' = "nothing" /\ Chosen' \in Items \cup {None}
    BY <1>10, PopFinds
  <2>2. index' \in {index, index + 1}
    BY <1>4, <1>9
  <2>3. PC!LooksIntoClear
    BY <1>6, <1>7, <1>8, <1>10, <2>1, <2>2 DEF PC!LooksIntoClear
  <2>4. QED
    BY <2>3
<1>11. CASE ws.pc # "clear"
  <2>1. index' = IF AtCursor = "held" THEN index + 1 ELSE index
    BY <1>3, <1>4, <1>5, <1>9, <1>11, AtIs DEF At
  <2>2. \/ Chosen' = None /\ AtCursor' = "nothing"
        \/ /\ index' \in 0 .. (Len(PlayOrder) - 1)
           /\ Chosen' = PlayOrder'[index' + 1] /\ Chosen' = PlayOrder[index' + 1]
           /\ AtCursor' = "chosen"
    BY <1>4, <1>6, <1>11, PopFinds
  <2>3. PC!Looks
    BY <1>3, <1>6, <1>7, <1>8, <1>11, <2>1, <2>2 DEF PC!Looks
  <2>4. QED
    BY <2>3
<1>12. QED
  BY <1>10, <1>11

-----------------------------------------------------------------------------
(* ... and what the handler does to it *)

LEMMA ChosenStays ==
  ASSUME consumer.track = consumer'.track,
         consumer.track # None =>
             tracks'[consumer.track].item = tracks[consumer.track].item
  PROVE  Chosen' = Chosen
BY DEF Chosen

LEMMA AddingIsAppends ==
  ASSUME IInv, IInv', ws.pc # "clear", ws'.pc # "clear",
         Len(refs) =< Len(refs'), \A i \in 1 .. Len(refs) : refs'[i] = refs[i],
         UNCHANGED <<preloaded, index, consumer>>,
         consumer.track \in Slots =>
             tracks'[consumer.track].item = tracks[consumer.track].item
  PROVE  PC!Appends
<1>1. PlayOrder = refs /\ PlayOrder' = refs'
  BY OrderIsRefs
<1>2. refs' \in Seq(Items) /\ Len(refs) \in Nat /\ Len(refs') \in Nat
  BY DEF IInv, Types
<1>3. Chosen' = Chosen
  BY SessionTyped, ChosenStays
<1>4. AtCursor' = AtCursor
  BY AtIs DEF At
<1>5. LastGiven' = LastGiven
  BY DEF LastGiven
<1>6. (ws.pc = "clear")' = (ws.pc = "clear")
  OBVIOUS
<1>7. QED
  BY <1>1, <1>2, <1>3, <1>4, <1>5, <1>6 DEF PC!Appends

LEMMA ClearRefsIsClears ==
  ASSUME IInv, IInv', QueueCleared \/ QueueTracksLoaded
  PROVE  PC!Clears
<1>1. /\ refs' = <<>> /\ index' = 0 /\ ForgetLast /\ UNCHANGED tracks
      /\ ws'.pc = "clear"
  <2>1. CASE QueueCleared
    BY <2>1 DEF QueueCleared, ClearRefs
  <2>2. CASE QueueTracksLoaded
    <3>1. PICK s \in FirstOf(Items) :
              ws' = [pc |-> "clear", items |-> s, after |-> None]
      BY <2>2 DEF QueueTracksLoaded
    <3>2. QED
      BY <2>2, <3>1 DEF QueueTracksLoaded, ClearRefs
  <2>3. QED
    BY <2>1, <2>2
<1>2. ConsumerStays
  BY <1>1, ForgetStays
<1>3. Chosen' = Chosen
  BY <1>1, <1>2, ChosenStays DEF ConsumerStays
<1>4. PlayOrder' = <<>>
  BY <1>1, OrderIsRefs
<1>5. AtCursor' = "nothing"
  BY <1>1, AtIs DEF At
<1>6. LastGiven' = None
  BY <1>1 DEF LastGiven
<1>7. (ws.pc = "clear")' = TRUE
  BY <1>1
<1>8. QED
  BY <1>1, <1>3, <1>4, <1>5, <1>6, <1>7 DEF PC!Clears

LEMMA ClearPreloadedIsCleared ==
  ASSUME IInv, IInv', ClearPreloaded
  PROVE  PC!Cleared
<1>1. /\ ws.pc = "clear" /\ preloaded' = <<>> /\ ForgetLast
      /\ UNCHANGED <<refs, index>>
      /\ \/ ws' = [pc |-> "idle", items |-> <<>>, after |-> None]
         \/ ws' = [ws EXCEPT !.pc = "add"]
  BY DEF ClearPreloaded, HandlerDone, queueVars
<1>2. ws'.pc # "clear"
  <2>1. ws \in Hand
    BY QueueTyped
  <2>2. QED
    BY <1>1, <2>1 DEF Hand
<1>3. ConsumerStays /\ consumer'.last = None
  <2>1. consumer \in Session
    BY SessionTyped
  <2>2. QED
    BY <1>1, <2>1, ForgetStays DEF ForgetLast, Session
<1>4. Chosen' = Chosen
  BY <1>3, SessionTyped, ClearPreloadedKeeps, ChosenStays DEF ConsumerStays
<1>5. PlayOrder' = PlayOrder
  BY <1>1, OrderIsRefs
<1>6. AtCursor' = "nothing"
  BY <1>1, AtIs DEF At, ToSet
<1>7. LastGiven' = None
  BY <1>3 DEF LastGiven
<1>8. (ws.pc = "clear")' = FALSE
  BY <1>2
<1>9. QED
  BY <1>1, <1>4, <1>5, <1>6, <1>7, <1>8 DEF PC!Cleared

\* Where the consumer's tracks are, if preloaded at all.
LEMMA OneAtFront ==
  ASSUME NEW pre \in Seq(Slots), NEW F, AtFront(pre, F), NEW a \in F, a \in ToSet(pre)
  PROVE  Len(pre) >= 1 /\ pre[1] = a
<1>1. PICK k \in 1 .. Len(pre) : pre[k] = a
  BY DEF ToSet
<1>2. k = 1
  BY <1>1 DEF AtFront
<1>3. QED
  BY <1>1, <1>2

LEMMA SetStateIsMoves ==
  ASSUME IInv, IInv', NEW item, NEW then \in {"idle", "start"}, SetState(item, then)
  PROVE  PC!Moves
<1> DEFINE F == {consumer.prev, consumer.track}
<1>1. /\ ForgetLast /\ ws.pc = "idle" /\ ws'.pc = then
      /\ UNCHANGED refs /\ index' \in Nat /\ Preloads
      /\ (consumer.track \in Slots =>
              tracks'[consumer.track].item = tracks[consumer.track].item)
  BY SetStateKeeps
<1>2. consumer \in Session /\ ConsumerStays
  BY <1>1, ForgetStays, SessionTyped
<1>3. consumer'.last = None
  BY <1>1, <1>2 DEF ForgetLast, Session
<1>4. Chosen' = Chosen
  BY <1>1, <1>2, SessionTyped, ChosenStays DEF ConsumerStays
<1>5. PlayOrder = refs /\ PlayOrder' = refs /\ refs \in Seq(Items)
  BY <1>1, OrderIsRefs, QueueTyped
<1>6. /\ preloaded \in Seq(Slots) /\ AtFront(preloaded, F)
      /\ Window(refs, index, preloaded, tracks)
      /\ preloaded' \in Seq(Slots) /\ AtFront(preloaded', F)
      /\ Window(refs, index', preloaded', tracks)
      /\ ToSet(preloaded') \subseteq ToSet(preloaded)
  <2>1. AtFront(preloaded, F) /\ Window(refs, index, preloaded, tracks)
    BY <1>1 DEF IInv, InFront, AtFront, Aligned, Window
  <2>2. /\ preloaded' \in Seq(Slots) /\ AtFront(preloaded', F)
        /\ Window(refs, index', preloaded', tracks)
        /\ \A k \in 1 .. Len(preloaded') : \E m \in 1 .. Len(preloaded) :
               preloaded'[k] = preloaded[m]
    BY <1>1 DEF Preloads
  <2>3. preloaded \in Seq(Slots)
    BY QueueTyped
  <2> HIDE DEF F
  <2>4. ToSet(preloaded') \subseteq ToSet(preloaded)
    BY <2>2, <2>3 DEF ToSet
  <2>5. QED
    BY <2>1, <2>2, <2>3, <2>4
<1>7. index \in Nat /\ Len(refs) \in Nat
  BY QueueTyped
<1>8. ASSUME NEW a \in F, a \in ToSet(preloaded')
      PROVE  /\ preloaded[1] = a
             /\ index + 1 =< Len(refs) /\ index' + 1 =< Len(refs)
             /\ refs[index' + 1] = refs[index + 1]
  <2> HIDE DEF F
  <2>1. Len(preloaded') >= 1 /\ preloaded'[1] = a
    BY <1>6, <1>8, OneAtFront
  <2>2. Len(preloaded) >= 1 /\ preloaded[1] = a
    BY <1>6, <1>8, OneAtFront
  <2>3. 1 \in 1 .. Len(preloaded') /\ 1 \in 1 .. Len(preloaded)
    BY <1>6, <2>1, <2>2
  <2>4. /\ index' + 1 =< Len(refs) /\ tracks[a].item = refs[index' + 1]
        /\ index + 1 =< Len(refs) /\ tracks[a].item = refs[index + 1]
    BY <1>6, <2>1, <2>2, <2>3 DEF Window
  <2>5. QED
    BY <2>2, <2>4
<1>9. \/ AtCursor' = "nothing"
      \/ /\ AtCursor' = AtCursor
         /\ index \in 0 .. (Len(refs) - 1) /\ index' \in 0 .. (Len(refs) - 1)
         /\ refs[index' + 1] = refs[index + 1]
  <2>1. ws'.pc # "clear" /\ ws.pc # "clear"
    BY <1>1
  <2>2. /\ consumer'.track = consumer.track /\ consumer'.prev = consumer.prev
        /\ consumer.track \in F /\ consumer.prev \in F
    BY <1>2 DEF ConsumerStays
  <2>3. CASE consumer.track \in ToSet(preloaded')
    <3>1. AtCursor' = "chosen" /\ AtCursor = "chosen"
      BY <1>6, <2>1, <2>2, <2>3, AtIs DEF At
    <3>2. QED
      BY <1>1, <1>7, <1>8, <2>2, <2>3, <3>1
  <2>4. CASE /\ consumer.track \notin ToSet(preloaded')
             /\ consumer.prev \in ToSet(preloaded')
    <3>1. preloaded[1] = consumer.prev
      BY <1>8, <2>2, <2>4
    <3>2. consumer.track \notin ToSet(preloaded)
      <4>1. ASSUME consumer.track \in ToSet(preloaded) PROVE FALSE
        <5>1. preloaded[1] = consumer.track
          BY <1>6, <2>2, <4>1, OneAtFront
        <5>2. QED
          BY <2>4, <3>1, <5>1
      <4>2. QED
        BY <4>1
    <3>3. AtCursor' = "held" /\ AtCursor = "held"
      BY <1>6, <2>1, <2>2, <2>4, <3>2, AtIs DEF At
    <3>4. QED
      BY <1>1, <1>7, <1>8, <2>2, <2>4, <3>3
  <2>5. CASE /\ consumer.track \notin ToSet(preloaded')
             /\ consumer.prev \notin ToSet(preloaded')
    BY <2>1, <2>2, <2>5, AtIs DEF At
  <2>6. QED
    BY <2>3, <2>4, <2>5
<1>10. LastGiven' = None
  BY <1>3 DEF LastGiven
<1>11. /\ (ws.pc = "clear")' = FALSE /\ (ws.pc = "clear") = FALSE
  BY <1>1
<1>12. /\ ~(ws.pc = "clear") /\ (ws.pc = "clear")' = (ws.pc = "clear")
  BY <1>11
<1>13. \/ AtCursor' = "nothing"
       \/ /\ AtCursor' = AtCursor /\ PC!InOrder /\ PC!InOrder'
          /\ PC!AtCursor' = PC!AtCursor
  BY <1>5, <1>9 DEF PC!InOrder, PC!AtCursor
<1>14. PlayOrder' \in Seq(Items)
  BY <1>5
<1> HIDE DEF F
<1>15. QED
  BY <1>1, <1>4, <1>10, <1>12, <1>13, <1>14 DEF PC!Moves

LEMMA HandlerRefines ==
  ASSUME PlainMessages, IInv, IInv', Handler
  PROVE  PC!Next \/ UNCHANGED PC!vars
<1>1. CASE QueueTracksAdded \/ SetStartAt
  BY <1>1, HandlerUnseen, ViewIsTheSame
<1>2. CASE AppendTracks
  <2>1. ws.pc # "clear"
    BY <1>2 DEF AppendTracks
  <2>2. PC!Appends
    BY <1>2, <2>1, AppendTracksKeeps, AddingIsAppends
  <2>3. QED
    BY <2>2 DEF PC!Next
<1>3. CASE QueueState
  <2>1. PC!Appends
    BY <1>3, QueueStateKeeps, AddingIsAppends
  <2>2. QED
    BY <2>1 DEF PC!Next
<1>4. CASE QueueCleared \/ QueueTracksLoaded
  BY <1>4, ClearRefsIsClears DEF PC!Next
<1>5. CASE ClearPreloaded
  BY <1>5, ClearPreloadedIsCleared DEF PC!Next
<1>6. CASE \E item \in Items, then \in {"idle", "start"} : SetState(item, then)
  BY <1>6, SetStateIsMoves DEF PC!Next
<1>7. QED
  BY HandlerIsPlain, <1>1, <1>2, <1>3, <1>4, <1>5, <1>6 DEF PlainHandler

LEMMA ConsumerRefines ==
  ASSUME IInv, IInv', Consumer
  PROVE  PC!Next \/ UNCHANGED PC!vars
<1>1. CASE SessionStarts \/ SessionIsStopped \/ ConsumeBegins \/ ConsumeEnds
  BY <1>1, ConsumerIdles DEF PC!Next
<1>2. CASE ConsumePops
  BY <1>2, PopIsLooks DEF PC!Next
<1>3. CASE ConsumeReturns
  BY <1>3, ReturnIsGives DEF PC!Next
<1>4. CASE ConsumeSleeps
  BY <1>4, SleepIsRetries DEF PC!Next
<1>5. QED
  BY <1>1, <1>2, <1>3, <1>4 DEF Consumer, Consume

LEMMA InitRefines ==
  ASSUME Init
  PROVE  PC!Init
<1>1. IInv
  BY InitIInv
<1>2. /\ refs = <<>> /\ shuffledIndexes = <<>> /\ Len(refs) = 0
      /\ Len(shuffledIndexes) = 0
  BY DEF Init
<1>3. PlayOrder = <<>>
  <2>1. refs \in Seq(Items) /\ shuffledIndexes \in Seq(Nat) /\ Ordered(shuffledIndexes)
    BY <1>1, QueueTyped
  <2>2. PlayOrder = refs
    BY <2>1, OrderIs DEF PlayOrder
  <2>3. QED
    BY <1>2, <2>2
<1>4. AtCursor = "nothing"
  BY AtIs DEF Init, At, ToSet
<1>5. Chosen = None
  BY DEF Init, Chosen
<1>6. LastGiven = None
  BY DEF Init, LastGiven
<1>7. (ws.pc = "clear") = FALSE /\ index = 0
  BY DEF Init
<1>8. QED
  BY <1>3, <1>4, <1>5, <1>6, <1>7 DEF PC!Init

LEMMA StutterRefines ==
  ASSUME UNCHANGED vars
  PROVE  UNCHANGED PC!vars
<1>1. UNCHANGED <<refs, shuffledIndexes, index, preloaded, tracks, consumer, ws>>
  BY DEF vars
<1>2. PlayOrder' = PlayOrder
  BY <1>1 DEF PlayOrder, InQueue, ItemAt, PlayPos
<1>3. AtCursor' = AtCursor /\ Chosen' = Chosen
  BY <1>1 DEF AtCursor, Chosen
<1>4. LastGiven' = LastGiven
  BY <1>1 DEF LastGiven
<1>5. (ws.pc = "clear")' = (ws.pc = "clear")
  BY <1>1
<1>6. QED
  BY <1>1, <1>2, <1>3, <1>4, <1>5 DEF PC!vars

\* The queue, its window, the loader and the handler's critical sections
\* implement a play order read from a cursor.
THEOREM QueueIsPlayCursor ==
  ASSUME PlainMessages
  PROVE  Spec => ImplementsPlayCursor
<1>1. IInv /\ IInv' /\ [Next]_vars => [PC!Next]_(PC!vars)
  <2>1. ASSUME IInv, IInv', Loader PROVE UNCHANGED PC!vars
    BY <2>1, LoaderUnseen, ViewIsTheSame
  <2>2. QED
    BY <2>1, ConsumerRefines, HandlerRefines, StutterRefines DEF Next
<1>2. QED
  BY QueueIsKnown, InitRefines, <1>1, PTL DEF Spec, ImplementsPlayCursor, PC!Spec

-----------------------------------------------------------------------------
(* What PlayCursor promises *)

CursorTyped ==
    /\ PlayOrder \in Seq(Items) /\ index \in Nat
    /\ AtCursor \in {"nothing", "chosen", "held"}
    /\ Chosen \in Items \cup {None} /\ LastGiven \in Items \cup {None}

\* A track chosen at the cursor is the one there.
ChosenIsThere == AtCursor = "chosen" => PC!InOrder /\ Chosen = PC!AtCursor

\* While the track handed out is held nothing is chosen, and it is there.
HeldIsThere ==
    AtCursor = "held" =>
        /\ Chosen = None
        /\ LastGiven # None => PC!InOrder /\ PC!AtCursor = LastGiven

\* Once the cursor has moved past it, it is the one before.
LastIsBehind ==
    LastGiven # None /\ AtCursor # "held" =>
        index \in 1 .. Len(PlayOrder) /\ PlayOrder[index] = LastGiven

\* Nothing is known of a queue that is being cleared.
ClearForgets == ws.pc = "clear" => AtCursor = "nothing" /\ LastGiven = None

CursorInv ==
    CursorTyped /\ ChosenIsThere /\ HeldIsThere /\ LastIsBehind /\ ClearForgets

LEMMA CursorStarts == PC!Init => CursorInv
BY SMT DEF PC!Init, CursorInv, CursorTyped, ChosenIsThere, HeldIsThere,
           LastIsBehind, ClearForgets

\* Nothing is chosen at a cursor while chosen is None.
LEMMA ChosenIsItem ==
  ASSUME CursorInv, AtCursor = "chosen"
  PROVE  Chosen \in Items /\ Chosen # None /\ index + 1 \in 1 .. Len(PlayOrder)
<1>1. None \notin Items
  BY ConstantsOK
<1>2. QED
  BY <1>1, SMT DEF CursorInv, CursorTyped, ChosenIsThere, PC!InOrder, PC!AtCursor

LEMMA LooksKeeps ==
  ASSUME CursorInv, PC!Looks
  PROVE  CursorInv'
<1>1. AtCursor # "chosen"
  BY ChosenIsItem DEF PC!Looks
<1>2. CursorTyped'
  BY SMT DEF CursorInv, CursorTyped, PC!Looks
<1>3. ChosenIsThere'
  BY SMT DEF ChosenIsThere, PC!Looks, PC!InOrder, PC!AtCursor
<1>4. HeldIsThere'
  BY SMT DEF HeldIsThere, PC!Looks
<1>5. LastIsBehind'
  BY <1>1, SMT DEF CursorInv, CursorTyped, LastIsBehind, HeldIsThere, PC!Looks,
                   PC!InOrder, PC!AtCursor
<1>6. ClearForgets'
  BY SMT DEF ClearForgets, PC!Looks
<1>7. QED
  BY <1>2, <1>3, <1>4, <1>5, <1>6 DEF CursorInv

LEMMA GivesKeeps ==
  ASSUME CursorInv, PC!Gives
  PROVE  CursorInv'
<1>1. AtCursor # "held"
  BY DEF CursorInv, HeldIsThere, PC!Gives
<1>2. CursorTyped'
  BY SMT DEF CursorInv, CursorTyped, PC!Gives
<1>3. ChosenIsThere'
  BY SMT DEF ChosenIsThere, PC!Gives
<1>4. HeldIsThere'
  BY <1>1, SMT DEF CursorInv, HeldIsThere, ChosenIsThere, PC!Gives, PC!InOrder,
                   PC!AtCursor
<1>5. LastIsBehind'
  BY <1>1, SMT DEF LastIsBehind, PC!Gives
<1>6. ClearForgets'
  BY SMT DEF CursorInv, ClearForgets, PC!Gives
<1>7. QED
  BY <1>2, <1>3, <1>4, <1>5, <1>6 DEF CursorInv

LEMMA RetriesKeeps ==
  ASSUME CursorInv, PC!Retries
  PROVE  CursorInv'
<1>1. AtCursor # "held"
  BY DEF CursorInv, HeldIsThere, PC!Retries
<1>2. QED
  BY <1>1, SMT DEF CursorInv, CursorTyped, ChosenIsThere, HeldIsThere, LastIsBehind,
                   ClearForgets, PC!Retries, PC!InOrder, PC!AtCursor

LEMMA AppendsKeeps ==
  ASSUME CursorInv, PC!Appends
  PROVE  CursorInv'
<1>1. /\ Len(PlayOrder) \in Nat /\ Len(PlayOrder') \in Nat
      /\ Len(PlayOrder) =< Len(PlayOrder')
  BY SMT DEF CursorInv, CursorTyped, PC!Appends
<1>2. PC!InOrder => PC!InOrder' /\ PC!AtCursor' = PC!AtCursor
  BY <1>1, SMT DEF CursorInv, CursorTyped, PC!Appends, PC!InOrder, PC!AtCursor
<1>3. index \in 1 .. Len(PlayOrder) =>
          index' \in 1 .. Len(PlayOrder') /\ PlayOrder'[index'] = PlayOrder[index]
  BY <1>1, SMT DEF PC!Appends
<1>4. CursorTyped'
  BY SMT DEF CursorInv, CursorTyped, PC!Appends
<1>5. ChosenIsThere' /\ HeldIsThere'
  BY <1>2, Zenon DEF CursorInv, ChosenIsThere, HeldIsThere, PC!Appends
<1>6. LastIsBehind' /\ ClearForgets'
  BY <1>3, Zenon DEF CursorInv, LastIsBehind, ClearForgets, PC!Appends
<1>7. QED
  BY <1>4, <1>5, <1>6 DEF CursorInv

LEMMA MovesKeeps ==
  ASSUME CursorInv, PC!Moves
  PROVE  CursorInv'
<1>1. CursorTyped'
  BY SMT DEF CursorInv, CursorTyped, PC!Moves
<1>2. ChosenIsThere' /\ HeldIsThere'
  BY Zenon DEF CursorInv, ChosenIsThere, HeldIsThere, PC!Moves
<1>3. LastIsBehind' /\ ClearForgets'
  BY Zenon DEF LastIsBehind, ClearForgets, PC!Moves
<1>4. QED
  BY <1>1, <1>2, <1>3 DEF CursorInv

\* The steps after which nothing stands at the cursor.
LEMMA ForgettingKeeps ==
  ASSUME CursorInv, PC!Ends \/ PC!Clears \/ PC!LooksIntoClear \/ PC!Cleared
  PROVE  CursorInv'
<1>1. AtCursor' = "nothing" /\ LastGiven' = None
  BY SMT DEF CursorInv, ClearForgets, PC!Ends, PC!Clears, PC!LooksIntoClear, PC!Cleared
<1>2. CursorTyped'
  <2>1. CASE PC!Ends
    BY <2>1, SMT DEF CursorInv, CursorTyped, PC!Ends
  <2>2. CASE PC!Clears
    BY <2>2, SMT DEF CursorInv, CursorTyped, PC!Clears
  <2>3. CASE PC!LooksIntoClear
    BY <2>3, SMT DEF CursorInv, CursorTyped, PC!LooksIntoClear
  <2>4. CASE PC!Cleared
    BY <2>4, SMT DEF CursorInv, CursorTyped, PC!Cleared
  <2>5. QED
    BY <2>1, <2>2, <2>3, <2>4
<1>3. QED
  BY <1>1, <1>2 DEF CursorInv, ChosenIsThere, HeldIsThere, LastIsBehind, ClearForgets

LEMMA CursorStepKeeps ==
  ASSUME CursorInv, [PC!Next]_(PC!vars)
  PROVE  CursorInv'
<1>1. CASE UNCHANGED PC!vars
  <2>1. /\ UNCHANGED <<PlayOrder, index, AtCursor, Chosen, LastGiven>>
        /\ (ws.pc = "clear")' = (ws.pc = "clear")
    BY <1>1 DEF PC!vars
  <2>2. PC!InOrder' = PC!InOrder /\ PC!AtCursor' = PC!AtCursor
    BY <2>1 DEF PC!InOrder, PC!AtCursor
  <2>3. QED
    BY <2>1, <2>2, Zenon DEF CursorInv, CursorTyped, ChosenIsThere, HeldIsThere,
                             LastIsBehind, ClearForgets
<1>2. CASE PC!Next
  BY <1>2, LooksKeeps, GivesKeeps, RetriesKeeps, AppendsKeeps, MovesKeeps,
     ForgettingKeeps DEF PC!Next
<1>3. QED
  BY <1>1, <1>2

\* Of whatever implements PlayCursor: what stands at the cursor, and what was
\* handed out before it, is known in every reachable state.
THEOREM CursorIsKnown == PC!Spec => []CursorInv
<1>1. CursorInv /\ [PC!Next]_(PC!vars) => CursorInv'
  BY CursorStepKeeps
<1>2. QED
  BY CursorStarts, <1>1, PTL DEF PC!Spec

\* ... and while nothing but appends touches the queue, what is handed out is
\* the successor of what was handed out before.
THEOREM InPlayOrder == PC!Spec => PC!HandsOutInOrder
<1> DEFINE Follows == \E i \in 1 .. (Len(PlayOrder) - 1) :
                          PlayOrder[i] = LastGiven /\ PlayOrder[i + 1] = LastGiven'
<1>1. ASSUME CursorInv, PC!Gives, LastGiven # None, LastGiven' # None
      PROVE  Follows
  <2>1. AtCursor = "chosen" /\ LastGiven' = Chosen
    BY <1>1 DEF PC!Gives
  <2>2. index + 1 \in 1 .. Len(PlayOrder) /\ Chosen = PlayOrder[index + 1]
    BY <1>1, <2>1, ChosenIsItem DEF CursorInv, ChosenIsThere, PC!AtCursor
  <2>3. index \in 1 .. Len(PlayOrder) /\ PlayOrder[index] = LastGiven
    BY <1>1, <2>1 DEF CursorInv, LastIsBehind
  <2>4. index \in 1 .. (Len(PlayOrder) - 1)
    BY <1>1, <2>2, <2>3, SMT DEF CursorInv, CursorTyped
  <2>5. QED
    BY <2>1, <2>2, <2>3, <2>4
<1> HIDE DEF Follows
<1>2. CursorInv /\ [PC!Next]_(PC!vars) =>
        [PC!Gives /\ LastGiven # None /\ LastGiven' # None => Follows]_(PC!vars)
  BY <1>1
<1>3. QED
  BY CursorIsKnown, <1>2, PTL DEF PC!Spec, PC!HandsOutInOrder, Follows

\* ConsumeTrack hands out the tracks of the queue in their order, whatever the
\* loader and the handler do between two calls (queue.go:395-483).
THEOREM QueuePlaysInOrder ==
  ASSUME PlainMessages
  PROVE  Spec => PC!HandsOutInOrder
<1>1. Spec => PC!Spec
  BY QueueIsPlayCursor DEF ImplementsPlayCursor
<1>2. QED
  BY <1>1, InPlayOrder

-----------------------------------------------------------------------------
(* The loader never sleeps over work *)

\* What a collection leaves of the window.
LEMMA WindowCollected ==
  ASSUME IInv, IInv', NEW heap, Collect(heap)
  PROVE  \A k \in 1 .. Len(preloaded') : tracks'[preloaded'[k]] = heap[preloaded'[k]]
<1>1. preloaded' \in Seq(Slots)
  BY DEF IInv, Types
<1>2. \A k \in 1 .. Len(preloaded') :
          preloaded'[k] \in Slots /\ preloaded'[k] \in ToSet(preloaded')
  BY <1>1 DEF ToSet
<1>3. ToSet(preloaded') \subseteq Live'
  BY DEF Live
<1>4. QED
  BY <1>2, <1>3 DEF Collect

LEMMA KnowsStill ==
  ASSUME IInv, LoaderKnows, UNCHANGED <<refs, index, preloaded, token, loader>>,
         ws.pc \in {"add", "clear"} => ws'.pc \in {"add", "clear"},
         \A k \in 1 .. Len(preloaded) :
             tracks'[preloaded[k]].state = tracks[preloaded[k]].state
  PROVE  LoaderKnows'
BY DEF LoaderKnows, Undisturbed, FilledUp, Settled

LEMMA ConsumerLeavesIt ==
  ASSUME IInv, IInv', LoaderKnows, Consumer
  PROVE  LoaderKnows'
<1>1. Collect(tracks) /\ UNCHANGED <<refs, loader, ws>>
  BY DEF Consumer, Consume, SessionStarts, SessionIsStopped, ConsumeBegins,
         ConsumePops, ConsumeEnds, ConsumeReturns, ConsumeSleeps, queueVars
<1>2. \A k \in 1 .. Len(preloaded') : tracks'[preloaded'[k]] = tracks[preloaded'[k]]
  BY <1>1, WindowCollected
<1>3. CASE UNCHANGED <<index, preloaded, token>>
  BY <1>1, <1>2, <1>3, KnowsStill
<1>4. CASE ConsumePops
  <2>1. PICK d \in {0, 1} : Pops(d)
    BY <1>4, PopIs
  <2>2. CASE d = 0
    <3>1. UNCHANGED <<preloaded, token>> /\ index' = index + 0 /\ index \in Nat
      BY <2>1, <2>2, QueueTyped DEF Pops
    <3>2. QED
      BY <1>3, <3>1
  <2>3. CASE d = 1
    BY <2>1, <2>3 DEF Pops, LoaderKnows, Undisturbed
  <2>4. QED
    BY <2>2, <2>3
<1>5. ConsumePops \/ UNCHANGED <<index, preloaded, token>>
  BY DEF Consumer, Consume, SessionStarts, SessionIsStopped, ConsumeBegins,
         ConsumeEnds, ConsumeReturns, ConsumeSleeps, queueVars, preVars
<1>6. QED
  BY <1>3, <1>4, <1>5

LEMMA HandlerTellsIt ==
  ASSUME PlainMessages, IInv, IInv', LoaderKnows, Handler
  PROVE  LoaderKnows'
<1>1. CASE token' = TRUE
  BY <1>1 DEF LoaderKnows, Undisturbed
<1>2. CASE ws'.pc \in {"add", "clear"}
  BY <1>2 DEF LoaderKnows, Undisturbed
<1>3. CASE refs' = <<>>
  BY <1>3 DEF LoaderKnows, Undisturbed
<1>4. CASE SetStartAt
  <2> DEFINE item == IF InQueue(refs, shuffledIndexes, index)
                     THEN ItemAt(refs, shuffledIndexes, index) ELSE None
             heap == IF preloaded = <<>> THEN tracks
                     ELSE [tracks EXCEPT ![preloaded[1]].start = item]
  <2>1. /\ Collect(heap) /\ ws.pc = "start"
        /\ UNCHANGED <<refs, index, preloaded, token, loader>>
    BY <1>4 DEF SetStartAt, queueVars
  <2>2. \A k \in 1 .. Len(preloaded) : tracks'[preloaded[k]] = heap[preloaded[k]]
    <3> HIDE DEF heap
    <3>1. QED
      BY <2>1, WindowCollected
  <2>3. \A k \in 1 .. Len(preloaded) :
            heap[preloaded[k]].state = tracks[preloaded[k]].state
    <3>1. preloaded \in Seq(Slots) /\ tracks \in [Slots -> Track \cup {Free}]
      BY DEF IInv, Types
    <3>2. \A k \in 1 .. Len(preloaded) :
              preloaded[k] \in Slots /\ preloaded[k] \in ToSet(preloaded)
      BY <3>1 DEF ToSet
    <3>3. \A k \in 1 .. Len(preloaded) : tracks[preloaded[k]] \in Track
      BY <3>2 DEF IInv, LiveIsTrack, Live
    <3>4. ASSUME NEW a \in Slots, tracks[a] \in Track
          PROVE  heap[a].state = tracks[a].state
      <4> HIDE DEF item
      <4>1. CASE preloaded = <<>>
        BY <4>1
      <4>2. CASE preloaded # <<>>
        BY <3>1, <3>4, <4>2 DEF Track
      <4>3. QED
        BY <4>1, <4>2
    <3>5. QED
      BY <3>2, <3>3, <3>4
  <2> HIDE DEF heap
  <2>4. QED
    BY <2>1, <2>2, <2>3, KnowsStill
<1>5. CASE QueueTracksAdded
  <2>1. TracksArrive("append", None, FALSE)
    BY <1>5 DEF QueueTracksAdded, Resets, PlainMessages
  <2>2. PICK s \in NewItems : ws' = [pc |-> "add", items |-> s, after |-> None]
    BY <2>1 DEF TracksArrive
  <2>3. QED
    BY <1>2, <2>2
<1>6. CASE QueueCleared \/ QueueTracksLoaded
  BY <1>3, <1>6 DEF QueueCleared, QueueTracksLoaded, ClearRefs
<1>7. CASE ClearPreloaded
  <2>1. refs' = refs /\ ws.pc = "clear"
    BY <1>7 DEF ClearPreloaded, queueVars
  <2>2. QED
    BY <1>3, <2>1 DEF IInv, AddsNew
<1>8. CASE AppendTracks \/ QueueState
           \/ \E item \in Items, then \in {"idle", "start"} : SetState(item, then)
  <2>1. token' = TRUE
    BY <1>8 DEF AppendTracks, Added, QueueState, SetState, Notify
  <2>2. QED
    BY <1>1, <2>1
<1>9. QED
  BY HandlerIsPlain, <1>4, <1>5, <1>6, <1>7, <1>8 DEF PlainHandler

\* A track of the copy is done with: only the others are left.
LEMMA KnowsNext ==
  ASSUME IInv, LoaderKnows, loader.pc = "work", loader.batch # <<>>,
         UNCHANGED <<refs, index, preloaded, token, ws>>,
         loader' = [loader EXCEPT !.batch = Tail(@)],
         \A k \in 1 .. Len(preloaded) :
             /\ preloaded[k] # Head(loader.batch) =>
                    tracks'[preloaded[k]].state = tracks[preloaded[k]].state
             /\ preloaded[k] = Head(loader.batch) =>
                    tracks'[preloaded[k]].state \in {"ready", "failed"}
  PROVE  LoaderKnows'
<1> DEFINE b == loader.batch
<1>1. loader \in Batch /\ b \in Seq(Slots)
  BY BatchTyped
<1>2. loader'.pc = "work" /\ loader'.batch = Tail(b)
  BY <1>1 DEF Batch
<1>3. \A x \in ToSet(b) : x = Head(b) \/ x \in ToSet(Tail(b))
  <2>1. b # <<>>
    OBVIOUS
  <2> HIDE DEF b
  <2>2. /\ Tail(b) \in Seq(Slots) /\ Len(Tail(b)) = Len(b) - 1 /\ Head(b) = b[1]
        /\ \A i \in 1 .. Len(Tail(b)) : Tail(b)[i] = b[i + 1]
        /\ Len(b) \in Nat
    BY <1>1, <2>1
  <2>3. ASSUME NEW i \in 1 .. Len(b), i # 1
        PROVE  b[i] \in ToSet(Tail(b))
    <3>1. i - 1 \in 1 .. Len(Tail(b)) /\ (i - 1) + 1 = i
      BY <2>2, <2>3
    <3>2. Tail(b)[i - 1] = b[i]
      BY <2>2, <3>1
    <3>3. QED
      BY <2>2, <3>1, <3>2 DEF ToSet
  <2>4. QED
    BY <1>1, <2>2, <2>3 DEF ToSet
<1>4. ASSUME Undisturbed', NEW k \in 1 .. Len(preloaded)
      PROVE  \/ tracks'[preloaded[k]].state \in {"ready", "failed"}
             \/ preloaded[k] \in ToSet(Tail(b))
  <2>1. Undisturbed
    BY <1>4 DEF Undisturbed
  <2>2. Settled(preloaded[k]) \/ preloaded[k] \in ToSet(b)
    BY <2>1 DEF LoaderKnows
  <2>3. QED
    BY <1>3, <2>2 DEF Settled
<1> HIDE DEF b
<1>5. FilledUp' <=> FilledUp
  BY DEF FilledUp
<1>6. Undisturbed' => FilledUp'
  BY <1>5 DEF LoaderKnows, Undisturbed
<1>7. preloaded' = preloaded
  OBVIOUS
<1>8. QED
  BY <1>2, <1>4, <1>6, <1>7 DEF LoaderKnows, Settled

LEMMA FetchKnows ==
  ASSUME IInv, IInv', LoaderKnows, LoaderAt("work"), loader.batch # <<>>,
         UNCHANGED <<refs, index, preloaded, token, ws>>,
         loader' = [loader EXCEPT !.batch = Tail(@)],
         NEW s \in {"ready", "failed"},
         Collect([tracks EXCEPT ![Head(loader.batch)].state = s])
  PROVE  LoaderKnows'
<1> DEFINE t == Head(loader.batch)
           heap == [tracks EXCEPT ![t].state = s]
<1>1. t \in Live \cap Slots /\ tracks[t] \in Track /\ tracks \in [Slots -> Track \cup {Free}]
  BY BatchHead DEF IInv, LiveIsTrack, Types
<1>2. heap[t].state = s /\ \A a \in Slots \ {t} : heap[a] = tracks[a]
  <2> HIDE DEF t
  <2>1. QED
    BY <1>1 DEF Track
<1>3. Collect(heap)
  OBVIOUS
<1> HIDE DEF heap, t
<1>4. preloaded' = preloaded /\ preloaded \in Seq(Slots)
  BY QueueTyped
<1>5. \A k \in 1 .. Len(preloaded) :
          tracks'[preloaded[k]] = heap[preloaded[k]] /\ preloaded[k] \in Slots
  BY <1>3, <1>4, WindowCollected
<1>6. \A k \in 1 .. Len(preloaded) :
          /\ preloaded[k] # t => tracks'[preloaded[k]].state = tracks[preloaded[k]].state
          /\ preloaded[k] = t => tracks'[preloaded[k]].state \in {"ready", "failed"}
  BY <1>2, <1>5
<1>7. QED
  BY <1>6, KnowsNext DEF t, LoaderAt

LEMMA LoaderKnowsOn ==
  ASSUME PlainMessages, "token" \notin Failures, IInv, IInv', LoaderKnows, Loader
  PROVE  LoaderKnows'
<1>1. CASE loader'.pc \in {"top", "fill"}
  BY <1>1 DEF LoaderKnows
<1>2. AfterFailure("queued") \subseteq {"failed"}
      /\ AfterFailure("streamable") \subseteq {"failed"}
  BY ConstantsOK DEF AfterFailure
<1>3. CASE LoaderTop
  <2>1. /\ refs' = refs
        /\ loader' = [pc |-> IF refs = <<>> THEN "wait" ELSE "fill", batch |-> <<>>]
    BY <1>3 DEF LoaderTop, LoaderGoes, queueVars
  <2>2. CASE refs = <<>>
    BY <2>1, <2>2 DEF LoaderKnows, Undisturbed
  <2>3. CASE refs # <<>>
    BY <1>1, <2>1, <2>3
  <2>4. QED
    BY <2>2, <2>3
<1>4. CASE LoaderWake
  BY <1>1, <1>4 DEF LoaderWake, LoaderGoes
<1>5. CASE LoaderFill
  <2>1. /\ loader' = [pc |-> "copy", batch |-> <<>>]
        /\ UNCHANGED <<refs, index>>
    BY <1>5, FillIs
  <2>2. Len(preloaded') = Filled /\ (Filled >= Preload \/ index + Filled >= Len(refs))
    BY <1>5, LoaderFillKeeps, FilledIs DEF IInv
  <2>3. FilledUp'
    BY <2>1, <2>2 DEF FilledUp
  <2>4. loader'.pc = "copy"
    BY <2>1
  <2>5. QED
    BY <2>3, <2>4 DEF LoaderKnows
<1>6. CASE LoaderCopies
  <2>1. /\ loader.pc = "copy" /\ loader'.pc = "work" /\ loader'.batch = preloaded
        /\ UNCHANGED <<refs, index, preloaded, token, ws>>
    BY <1>6 DEF LoaderCopies, LoaderAt, queueVars, preVars
  <2>2. \A k \in 1 .. Len(preloaded) : preloaded[k] \in ToSet(preloaded)
    <3>1. preloaded \in Seq(Slots)
      BY QueueTyped
    <3>2. QED
      BY <3>1 DEF ToSet
  <2>3. QED
    BY <2>1, <2>2 DEF LoaderKnows, Undisturbed, FilledUp
<1>7. CASE LoaderFetchesMetadata
  <2>1. /\ LoaderAt("work") /\ loader.batch # <<>>
        /\ UNCHANGED <<refs, index, preloaded, token, ws>>
        /\ \/ loader' = [pc |-> "top", batch |-> <<>>]
           \/ \E s \in AfterFailure("queued") :
                /\ loader' = [loader EXCEPT !.batch = Tail(@)]
                /\ Collect([tracks EXCEPT ![Head(loader.batch)].state = s])
    BY <1>7 DEF LoaderFetchesMetadata, LoaderGoes, queueVars, preVars
  <2>2. CASE loader' = [pc |-> "top", batch |-> <<>>]
    BY <1>1, <2>2
  <2>3. QED
    BY <1>2, <2>1, <2>2, FetchKnows
<1>8. CASE LoaderFetchesFileURL
  <2>1. /\ LoaderAt("work") /\ loader.batch # <<>>
        /\ UNCHANGED <<refs, index, preloaded, token, ws>>
        /\ loader' = [loader EXCEPT !.batch = Tail(@)]
        /\ \E s \in {"ready"} \cup AfterFailure("streamable") :
               Collect([tracks EXCEPT ![Head(loader.batch)].state = s])
    BY <1>8 DEF LoaderFetchesFileURL, queueVars
  <2>2. QED
    BY <1>2, <2>1, FetchKnows
<1>9. CASE LoaderSkips
  <2>1. /\ loader.pc = "work" /\ loader.batch # <<>>
        /\ UNCHANGED <<refs, index, preloaded, token, ws>>
        /\ loader' = [loader EXCEPT !.batch = Tail(@)]
        /\ tracks[Head(loader.batch)].state \in {"ready", "failed"}
        /\ Collect(tracks)
    BY <1>9 DEF LoaderSkips, LoaderAt, queueVars, preVars
  <2>2. \A k \in 1 .. Len(preloaded) : tracks'[preloaded[k]] = tracks[preloaded[k]]
    BY <2>1, WindowCollected
  <2>3. QED
    BY <2>1, <2>2, KnowsNext
<1>10. CASE LoaderRests
  <2>1. /\ loader.pc = "work" /\ loader.batch = <<>> /\ loader'.pc = "wait"
        /\ UNCHANGED <<refs, index, preloaded, tracks, token, ws>>
    BY <1>10 DEF LoaderRests, LoaderAt, LoaderGoes, queueVars, preVars
  <2>2. ToSet(loader.batch) = {}
    BY <2>1 DEF ToSet
  <2>3. QED
    BY <2>1, <2>2 DEF LoaderKnows, Undisturbed, FilledUp, Settled
<1>11. ~LoaderFillPanics
  BY QueueTyped DEF LoaderFillPanics, IInv, Types
<1>12. ~LoaderAsks /\ ~LoaderGivesUp /\ ~LoaderMarksAsked
  BY BatchTyped DEF Batch, LoaderAsks, LoaderGivesUp, LoaderMarksAsked, LoaderAt, LoaderPCs
<1>13. QED
  BY <1>3, <1>4, <1>5, <1>6, <1>7, <1>8, <1>9, <1>10, <1>11, <1>12 DEF Loader

\* No wake-up is lost: asleep with no token on notifyCh, the loader has filled
\* the window and settled every track in it (queue.go:150-282).
THEOREM RestingLoaderHasDone ==
  ASSUME PlainMessages, "token" \notin Failures
  PROVE  Spec => []RestingLoaderIsDone
<1>1. Init => LoaderKnows
  BY DEF Init, LoaderKnows, Undisturbed
<1>2. ASSUME IInv, IInv', LoaderKnows, [Next]_vars
      PROVE  LoaderKnows'
  <2>1. CASE UNCHANGED vars
    BY <1>2, <2>1, KnowsStill DEF vars
  <2>2. QED
    BY <1>2, <2>1, LoaderKnowsOn, ConsumerLeavesIt, HandlerTellsIt DEF Next
<1>3. IInv /\ LoaderKnows => RestingLoaderIsDone
  <2>1. ASSUME IInv, LoaderKnows, loader.pc = "wait", ~token, ws.pc = "idle",
               refs # <<>>
        PROVE  /\ Filled = Len(preloaded)
               /\ \A t \in ToSet(preloaded) : tracks[t].state \in {"ready", "failed"}
    <3>1. FilledUp /\ \A k \in 1 .. Len(preloaded) : Settled(preloaded[k])
      BY <2>1 DEF LoaderKnows, Undisturbed
    <3>2. Filled = Len(preloaded)
      BY <2>1, <3>1, FilledIs DEF IInv
    <3>3. preloaded \in Seq(Slots)
      BY <2>1, QueueTyped
    <3>4. QED
      BY <3>1, <3>2, <3>3 DEF ToSet, Settled
  <2>2. QED
    BY <2>1 DEF RestingLoaderIsDone
<1>4. QED
  BY QueueIsKnown, <1>1, <1>2, <1>3, PTL DEF Spec

-----------------------------------------------------------------------------
(* Parts of sequences, sequences with an element less, or more *)

LEMMA PartIs ==
  ASSUME NEW D, NEW s \in Seq(D), NEW m \in 1 .. (Len(s) + 1),
         NEW n \in (m - 1) .. Len(s)
  PROVE  /\ SubSeq(s, m, n) \in Seq(D) /\ Len(SubSeq(s, m, n)) = n - m + 1
         /\ \A k \in 1 .. (n - m + 1) : SubSeq(s, m, n)[k] = s[m + k - 1]
<1>1. m \in Int /\ n \in Int /\ Len(s) \in Nat
  OBVIOUS
<1>2. \A i \in m .. n : s[i] \in D
  BY <1>1
<1> DEFINE t == SubSeq(s, m, n)
<1>3. /\ t \in Seq(D) /\ Len(t) = IF m =< n THEN n - m + 1 ELSE 0
      /\ \A k \in 1 .. n - m + 1 : t[k] = s[m + k - 1]
  BY <1>1, <1>2, SubSeqProperties
<1> HIDE DEF t
<1>4. Len(t) = n - m + 1
  BY <1>1, <1>3
<1>5. QED
  BY <1>3, <1>4 DEF t

\* A sequence without its i-th element.
LEMMA RemovedIs ==
  ASSUME NEW D, NEW s \in Seq(D), NEW i \in 1 .. Len(s)
  PROVE  /\ RemoveAt(s, i) \in Seq(D) /\ Len(RemoveAt(s, i)) = Len(s) - 1
         /\ \A k \in 1 .. (Len(s) - 1) :
                RemoveAt(s, i)[k] = IF k < i THEN s[k] ELSE s[k + 1]
<1> DEFINE a == SubSeq(s, 1, i - 1)
           b == SubSeq(s, i + 1, Len(s))
           r == a \o b
<1>1. Len(s) \in Nat /\ i \in Int /\ 1 =< i /\ i =< Len(s)
  OBVIOUS
<1>2. /\ a \in Seq(D) /\ Len(a) = (i - 1) - 1 + 1
      /\ \A k \in 1 .. ((i - 1) - 1 + 1) : a[k] = s[1 + k - 1]
  <2>1. 1 \in 1 .. (Len(s) + 1) /\ i - 1 \in (1 - 1) .. Len(s)
    BY <1>1
  <2>2. QED
    BY <2>1, PartIs
<1>3. /\ b \in Seq(D) /\ Len(b) = Len(s) - (i + 1) + 1
      /\ \A k \in 1 .. (Len(s) - (i + 1) + 1) : b[k] = s[(i + 1) + k - 1]
  <2>1. i + 1 \in 1 .. (Len(s) + 1) /\ Len(s) \in ((i + 1) - 1) .. Len(s)
    BY <1>1
  <2>2. QED
    BY <2>1, PartIs
<1>4. RemoveAt(s, i) = r
  BY DEF RemoveAt
<1> HIDE DEF a, b
<1>5. /\ r \in Seq(D) /\ Len(r) = Len(a) + Len(b)
      /\ \A k \in 1 .. Len(a) + Len(b) : r[k] = IF k =< Len(a) THEN a[k] ELSE b[k - Len(a)]
  BY <1>2, <1>3, ConcatProperties
<1> HIDE DEF r
<1>6. Len(a) = i - 1 /\ Len(b) = Len(s) - i /\ Len(r) = Len(s) - 1
  BY <1>1, <1>2, <1>3, <1>5
<1>7. ASSUME NEW k \in 1 .. (Len(s) - 1)
      PROVE  r[k] = IF k < i THEN s[k] ELSE s[k + 1]
  <2>1. r[k] = IF k =< i - 1 THEN a[k] ELSE b[k - (i - 1)]
    BY <1>1, <1>5, <1>6
  <2>2. CASE k < i
    <3>1. k =< i - 1 /\ k \in 1 .. ((i - 1) - 1 + 1) /\ 1 + k - 1 = k
      BY <1>1, <2>2
    <3>2. QED
      BY <1>2, <2>1, <2>2, <3>1
  <2>3. CASE ~(k < i)
    <3>1. /\ ~(k =< i - 1) /\ k - (i - 1) \in 1 .. (Len(s) - (i + 1) + 1)
          /\ (i + 1) + (k - (i - 1)) - 1 = k + 1
      BY <1>1, <2>3
    <3>2. QED
      BY <1>3, <2>1, <2>3, <3>1
  <2>4. QED
    BY <2>2, <2>3
<1>8. QED
  BY <1>4, <1>5, <1>6, <1>7

\* The sequence t of elements of D is s with e put in as its i-th element.
IsPut(t, D, s, i, e) ==
    /\ t \in Seq(D) /\ Len(t) = Len(s) + 1
    /\ \A k \in 1 .. (Len(s) + 1) :
           t[k] = IF k < i THEN s[k] ELSE IF k = i THEN e ELSE s[k - 1]

LEMMA PutIs ==
  ASSUME NEW D, NEW s \in Seq(D), NEW i \in 1 .. (Len(s) + 1), NEW e \in D
  PROVE  IsPut(InsertAt(s, i, e), D, s, i, e)
<1> DEFINE a == SubSeq(s, 1, i - 1)
           b == SubSeq(s, i, Len(s))
           c == a \o <<e>>
           r == c \o b
<1>1. Len(s) \in Nat /\ i \in Int /\ 1 =< i /\ i =< Len(s) + 1
  OBVIOUS
<1>2. /\ a \in Seq(D) /\ Len(a) = (i - 1) - 1 + 1
      /\ \A k \in 1 .. ((i - 1) - 1 + 1) : a[k] = s[1 + k - 1]
  <2>1. 1 \in 1 .. (Len(s) + 1) /\ i - 1 \in (1 - 1) .. Len(s)
    BY <1>1
  <2>2. QED
    BY <2>1, PartIs
<1>3. /\ b \in Seq(D) /\ Len(b) = Len(s) - i + 1
      /\ \A k \in 1 .. (Len(s) - i + 1) : b[k] = s[i + k - 1]
  <2>1. i \in 1 .. (Len(s) + 1) /\ Len(s) \in (i - 1) .. Len(s)
    BY <1>1
  <2>2. QED
    BY <2>1, PartIs
<1>4. InsertAt(s, i, e) = r
  BY DEF InsertAt
<1> HIDE DEF a, b
<1>5. <<e>> \in Seq(D) /\ Len(<<e>>) = 1 /\ <<e>>[1] = e
  OBVIOUS
<1>6. /\ c \in Seq(D) /\ Len(c) = Len(a) + Len(<<e>>)
      /\ \A k \in 1 .. Len(a) + Len(<<e>>) :
             c[k] = IF k =< Len(a) THEN a[k] ELSE <<e>>[k - Len(a)]
  BY <1>2, <1>5, ConcatProperties
<1> HIDE DEF c
<1>7. /\ r \in Seq(D) /\ Len(r) = Len(c) + Len(b)
      /\ \A k \in 1 .. Len(c) + Len(b) : r[k] = IF k =< Len(c) THEN c[k] ELSE b[k - Len(c)]
  <2>1. c \in Seq(D) /\ b \in Seq(D)
    BY <1>3, <1>6
  <2>2. QED
    BY <2>1, ConcatProperties
<1> HIDE DEF r
<1>8. /\ Len(a) = i - 1 /\ Len(b) = Len(s) - i + 1 /\ Len(c) = i
      /\ Len(r) = Len(s) + 1
  BY <1>1, <1>2, <1>3, <1>5, <1>6, <1>7
<1>9. ASSUME NEW k \in 1 .. (Len(s) + 1)
      PROVE  r[k] = IF k < i THEN s[k] ELSE IF k = i THEN e ELSE s[k - 1]
  <2>1. r[k] = IF k =< i THEN c[k] ELSE b[k - i]
    BY <1>1, <1>7, <1>8
  <2>2. CASE k < i
    <3>1. k =< i - 1 /\ k =< i /\ k \in 1 .. ((i - 1) - 1 + 1) /\ 1 + k - 1 = k
      BY <1>1, <2>2
    <3>2. c[k] = a[k]
      BY <1>1, <1>5, <1>6, <1>8, <3>1
    <3>3. QED
      BY <1>2, <2>1, <2>2, <3>1, <3>2
  <2>3. CASE k = i
    <3>1. c[i] = <<e>>[i - (i - 1)] /\ i - (i - 1) = 1
      BY <1>1, <1>5, <1>6, <1>8
    <3>2. QED
      BY <1>1, <1>5, <2>1, <2>3, <3>1
  <2>4. CASE k > i
    <3>1. /\ ~(k =< i) /\ k - i \in 1 .. (Len(s) - i + 1) /\ i + (k - i) - 1 = k - 1
      BY <1>1, <2>4
    <3>2. QED
      BY <1>1, <1>3, <2>1, <2>4, <3>1
  <2>5. QED
    BY <1>1, <2>2, <2>3, <2>4
<1>10. IsPut(r, D, s, i, e)
  BY <1>7, <1>8, <1>9 DEF IsPut
<1>11. QED
  BY <1>4, <1>10

-----------------------------------------------------------------------------
(* Permutations, and sequences without repetitions *)

\* IsPermutation, position by position.
Permutes(sh) ==
    /\ Unique(sh) /\ \A k \in 1 .. Len(sh) : sh[k] < Len(sh)
    /\ \A v \in 0 .. (Len(sh) - 1) : \E k \in 1 .. Len(sh) : sh[k] = v

LEMMA UniqueIs ==
  ASSUME NEW D, NEW s \in Seq(D)
  PROVE  IsInjective(s) <=> Unique(s)
BY DEF IsInjective, Unique

LEMMA PermutesIs ==
  ASSUME NEW sh \in Seq(Nat)
  PROVE  IsPermutation(sh) <=> Permutes(sh)
<1>1. DOMAIN sh = 1 .. Len(sh) /\ Len(sh) \in Nat /\ \A k \in 1 .. Len(sh) : sh[k] \in Nat
  OBVIOUS
<1>2. IsInjective(sh) <=> Unique(sh)
  BY UniqueIs
<1>3. ASSUME ToSet(sh) = 0 .. (Len(sh) - 1)
      PROVE  /\ \A k \in 1 .. Len(sh) : sh[k] < Len(sh)
             /\ \A v \in 0 .. (Len(sh) - 1) : \E k \in 1 .. Len(sh) : sh[k] = v
  <2>1. ASSUME NEW k \in 1 .. Len(sh) PROVE sh[k] < Len(sh)
    <3>1. sh[k] \in 0 .. (Len(sh) - 1)
      BY <1>1, <1>3 DEF ToSet
    <3>2. QED
      BY <1>1, <3>1
  <2>2. ASSUME NEW v \in 0 .. (Len(sh) - 1) PROVE \E k \in 1 .. Len(sh) : sh[k] = v
    BY <1>1, <1>3 DEF ToSet
  <2>3. QED
    BY <2>1, <2>2
<1>4. ASSUME \A k \in 1 .. Len(sh) : sh[k] < Len(sh),
             \A v \in 0 .. (Len(sh) - 1) : \E k \in 1 .. Len(sh) : sh[k] = v
      PROVE  ToSet(sh) = 0 .. (Len(sh) - 1)
  <2>1. ASSUME NEW v \in ToSet(sh) PROVE v \in 0 .. (Len(sh) - 1)
    BY <1>1, <1>4 DEF ToSet
  <2>2. ASSUME NEW v \in 0 .. (Len(sh) - 1) PROVE v \in ToSet(sh)
    BY <1>1, <1>4 DEF ToSet
  <2>3. QED
    BY <2>1, <2>2
<1>5. QED
  BY <1>2, <1>3, <1>4, Zenon DEF IsPermutation, Permutes

\* growShuffleIndexes, and ConsumeQueueState's extension of a snapshot's order.
LEMMA ExtendedPermutes ==
  ASSUME NEW sh \in Seq(Nat), Permutes(sh), NEW n \in Nat
  PROVE  /\ sh \o Identity(Len(sh), n) \in Seq(Nat)
         /\ Permutes(sh \o Identity(Len(sh), n))
<1> DEFINE m == Len(sh)
           t == Identity(m, n)
           u == sh \o t
<1>1. m \in Nat /\ \A k \in 1 .. m : sh[k] \in Nat
  OBVIOUS
<1>2. /\ t \in Seq(Nat) /\ Len(t) = IF n > m THEN n - m ELSE 0
      /\ \A k \in 1 .. Len(t) : t[k] = m + k - 1
  BY <1>1, IdentityIs
<1> HIDE DEF t
<1>3. /\ u \in Seq(Nat) /\ Len(u) = m + Len(t)
      /\ \A k \in 1 .. m + Len(t) : u[k] = IF k =< m THEN sh[k] ELSE t[k - m]
  BY <1>2, ConcatProperties
<1> HIDE DEF u
<1>4. Len(t) \in Nat
  BY <1>1, <1>2
<1>5. \A k \in 1 .. m : u[k] = sh[k]
  BY <1>1, <1>3, <1>4
<1>6. ASSUME NEW k \in (m + 1) .. Len(u) PROVE u[k] = k - 1
  <2>1. k - m \in 1 .. Len(t) /\ m + (k - m) - 1 = k - 1 /\ ~(k =< m)
    BY <1>1, <1>3, <1>4
  <2>2. k \in 1 .. m + Len(t)
    BY <1>1, <1>3, <1>4
  <2>3. QED
    BY <1>2, <1>3, <2>1, <2>2
<1>7. Len(u) \in Nat /\ m =< Len(u)
  BY <1>1, <1>3, <1>4
<1>8. \A k \in 1 .. m : sh[k] < m
  BY DEF Permutes
<1> HIDE DEF m
<1>9. Unique(u)
  <2>1. ASSUME NEW k \in 1 .. Len(u), NEW l \in 1 .. Len(u), u[k] = u[l]
        PROVE  k = l
    <3>1. CASE k \in 1 .. m /\ l \in 1 .. m
      BY <1>5, <2>1, <3>1 DEF Permutes, Unique, m
    <3>2. CASE k \notin 1 .. m /\ l \notin 1 .. m
      BY <1>1, <1>6, <1>7, <2>1, <3>2
    <3>3. CASE k \in 1 .. m /\ l \notin 1 .. m
      BY <1>1, <1>5, <1>6, <1>7, <1>8, <2>1, <3>3
    <3>4. CASE k \notin 1 .. m /\ l \in 1 .. m
      BY <1>1, <1>5, <1>6, <1>7, <1>8, <2>1, <3>4
    <3>5. QED
      BY <3>1, <3>2, <3>3, <3>4
  <2>2. QED
    BY <2>1 DEF Unique
<1>10. ASSUME NEW k \in 1 .. Len(u) PROVE u[k] < Len(u)
  <2>1. CASE k \in 1 .. m
    BY <1>1, <1>5, <1>7, <1>8, <2>1
  <2>2. CASE k \notin 1 .. m
    BY <1>1, <1>6, <1>7, <2>2
  <2>3. QED
    BY <2>1, <2>2
<1>11. ASSUME NEW v \in 0 .. (Len(u) - 1) PROVE \E k \in 1 .. Len(u) : u[k] = v
  <2>1. CASE v < m
    <3>1. PICK k \in 1 .. m : sh[k] = v
      BY <1>1, <2>1 DEF Permutes, m
    <3>2. QED
      BY <1>1, <1>5, <1>7, <3>1
  <2>2. CASE ~(v < m)
    <3>1. v + 1 \in (m + 1) .. Len(u) /\ v + 1 \in 1 .. Len(u) /\ (v + 1) - 1 = v
      BY <1>1, <1>7, <2>2
    <3>2. QED
      BY <1>6, <3>1
  <2>3. QED
    BY <2>1, <2>2
<1>12. QED
  BY <1>3, <1>9, <1>10, <1>11 DEF Permutes, u, t, m

\* DeleteTracksByQueueItemID: the entry f of the shuffle, for the position i of
\* refs, goes, and the positions behind i move down.
LEMMA CutPermutes ==
  ASSUME NEW sh \in Seq(Nat), Permutes(sh), NEW f \in 1 .. Len(sh), NEW i, sh[f] = i
  PROVE  Cut(sh, f, i) \in Seq(Nat) /\ Permutes(Cut(sh, f, i))
<1> DEFINE n == Len(sh)
           r == RemoveAt(sh, f)
           c == Cut(sh, f, i)
           Src(k) == IF k < f THEN k ELSE k + 1
<1>1. n \in Nat /\ f \in 1 .. n /\ \A k \in 1 .. n : sh[k] \in Nat /\ sh[k] < n
  BY DEF Permutes
<1>2. i \in Nat /\ i < n
  BY <1>1
<1>3. /\ r \in Seq(Nat)
      /\ \A k \in 1 .. (n - 1) : r[k] = IF k < f THEN sh[k] ELSE sh[k + 1]
  BY RemovedIs
<1>4. c = [k \in 1 .. (n - 1) |-> IF r[k] > i THEN r[k] - 1 ELSE r[k]]
  BY DEF Cut
<1> HIDE DEF r, c
<1>5. ASSUME NEW k \in 1 .. (n - 1)
      PROVE  /\ Src(k) \in 1 .. n /\ Src(k) # f /\ r[k] = sh[Src(k)]
             /\ sh[Src(k)] \in Nat /\ sh[Src(k)] < n /\ sh[Src(k)] # i
             /\ c[k] = IF sh[Src(k)] > i THEN sh[Src(k)] - 1 ELSE sh[Src(k)]
             /\ c[k] \in Nat /\ c[k] < n - 1
  <2>1. Src(k) \in 1 .. n /\ Src(k) # f
    BY <1>1
  <2>2. r[k] = sh[Src(k)]
    BY <1>3
  <2>3. sh[Src(k)] # i
    BY <2>1 DEF Permutes, Unique
  <2> HIDE DEF Src
  <2>4. sh[Src(k)] \in Nat /\ sh[Src(k)] < n
    BY <1>1, <2>1
  <2>5. c[k] = IF sh[Src(k)] > i THEN sh[Src(k)] - 1 ELSE sh[Src(k)]
    BY <1>4, <2>2
  <2>6. c[k] \in Nat /\ c[k] < n - 1
    <3> DEFINE x == sh[Src(k)]
    <3>1. x \in Nat /\ x < n /\ x # i /\ c[k] = IF x > i THEN x - 1 ELSE x
      BY <2>3, <2>4, <2>5
    <3>2. n \in Nat
      BY <1>1
    <3> HIDE DEF x, n
    <3>3. QED
      BY <1>2, <3>1, <3>2
  <2>7. QED
    BY <2>1, <2>2, <2>3, <2>4, <2>5, <2>6
<1>6. n - 1 \in Nat
  BY <1>1
<1>7. c \in Seq(Nat) /\ Len(c) = n - 1
  <2>1. c = [k \in 1 .. (n - 1) |-> c[k]]
    BY <1>4
  <2>2. \A k \in 1 .. (n - 1) : c[k] \in Nat
    BY <1>5
  <2>3. c \in [1 .. (n - 1) -> Nat]
    BY <2>1, <2>2
  <2> HIDE DEF n
  <2>4. QED
    BY <1>6, <2>3
<1>8. ASSUME NEW k \in 1 .. (n - 1), NEW l \in 1 .. (n - 1), c[k] = c[l]
      PROVE  k = l
  <2>1. /\ Src(k) \in 1 .. n /\ Src(l) \in 1 .. n
        /\ sh[Src(k)] \in Nat /\ sh[Src(l)] \in Nat
        /\ sh[Src(k)] # i /\ sh[Src(l)] # i
        /\ c[k] = IF sh[Src(k)] > i THEN sh[Src(k)] - 1 ELSE sh[Src(k)]
        /\ c[l] = IF sh[Src(l)] > i THEN sh[Src(l)] - 1 ELSE sh[Src(l)]
    BY <1>5
  <2>2. sh[Src(k)] = sh[Src(l)]
    <3> DEFINE x == sh[Src(k)]
               y == sh[Src(l)]
    <3>1. /\ x \in Nat /\ x # i /\ y \in Nat /\ y # i
          /\ (IF x > i THEN x - 1 ELSE x) = IF y > i THEN y - 1 ELSE y
      BY <1>8, <2>1
    <3> HIDE DEF x, y
    <3>2. x = y
      BY <1>2, <3>1
    <3>3. QED
      BY <3>2 DEF x, y
  <2>3. Src(k) = Src(l)
    <3> HIDE DEF Src
    <3>1. QED
      BY <2>1, <2>2 DEF Permutes, Unique
  <2>4. QED
    BY <1>1, <2>3
<1>9. ASSUME NEW v \in 0 .. ((n - 1) - 1)
      PROVE  \E k \in 1 .. (n - 1) : c[k] = v
  <2> DEFINE w == IF v < i THEN v ELSE v + 1
  <2>1. w \in 0 .. (n - 1) /\ w # i /\ v \in Nat
    BY <1>1, <1>2
  <2>2. PICK j \in 1 .. n : sh[j] = w
    BY <2>1 DEF Permutes
  <2>3. j # f
    BY <2>1, <2>2
  <2> DEFINE k == IF j < f THEN j ELSE j - 1
  <2>4. k \in 1 .. (n - 1) /\ Src(k) = j
    BY <1>1, <2>3
  <2> HIDE DEF k
  <2>5. c[k] = IF w > i THEN w - 1 ELSE w
    <3> HIDE DEF Src, w
    <3>1. c[k] = IF sh[Src(k)] > i THEN sh[Src(k)] - 1 ELSE sh[Src(k)]
      BY <1>5, <2>4
    <3>2. QED
      BY <2>2, <2>4, <3>1
  <2>6. c[k] = v
    BY <1>2, <2>1, <2>5
  <2>7. QED
    BY <2>4, <2>6
<1>10. QED
  BY <1>5, <1>7, <1>8, <1>9 DEF Permutes, Unique, c

\* What edits do to the items.
LEMMA RemovedUnique ==
  ASSUME NEW D, NEW s \in Seq(D), Unique(s), NEW i \in 1 .. Len(s)
  PROVE  Unique(RemoveAt(s, i))
<1> DEFINE r == RemoveAt(s, i)
<1>1. /\ r \in Seq(D) /\ Len(r) = Len(s) - 1
      /\ \A k \in 1 .. (Len(s) - 1) : r[k] = IF k < i THEN s[k] ELSE s[k + 1]
  BY RemovedIs
<1> HIDE DEF r
<1>2. Len(s) \in Nat /\ i \in 1 .. Len(s)
  OBVIOUS
<1>3. ASSUME NEW k \in 1 .. Len(r), NEW l \in 1 .. Len(r), r[k] = r[l]
      PROVE  k = l
  <2> DEFINE a == IF k < i THEN k ELSE k + 1
             b == IF l < i THEN l ELSE l + 1
  <2>1. a \in 1 .. Len(s) /\ b \in 1 .. Len(s) /\ r[k] = s[a] /\ r[l] = s[b]
    BY <1>1, <1>2
  <2>2. a = b
    <3> HIDE DEF a, b
    <3>1. QED
      BY <1>3, <2>1 DEF Unique
  <2>3. QED
    BY <1>1, <1>2, <2>2
<1>4. QED
  BY <1>3 DEF Unique, r

LEMMA PutUnique ==
  ASSUME NEW D, NEW s \in Seq(D), Unique(s), NEW i \in 1 .. (Len(s) + 1),
         NEW e \in D, \A k \in 1 .. Len(s) : s[k] # e
  PROVE  /\ Unique(InsertAt(s, i, e))
         /\ \A k \in 1 .. Len(InsertAt(s, i, e)) :
                InsertAt(s, i, e)[k] = e \/ \E m \in 1 .. Len(s) : InsertAt(s, i, e)[k] = s[m]
<1> DEFINE r == InsertAt(s, i, e)
<1>0. IsPut(r, D, s, i, e)
  BY PutIs
<1>1. /\ r \in Seq(D) /\ Len(r) = Len(s) + 1
      /\ \A k \in 1 .. (Len(s) + 1) :
             r[k] = IF k < i THEN s[k] ELSE IF k = i THEN e ELSE s[k - 1]
  <2> HIDE DEF r
  <2>1. QED
    BY <1>0 DEF IsPut
<1> HIDE DEF r
<1>2. Len(s) \in Nat /\ i \in 1 .. (Len(s) + 1)
  OBVIOUS
<1> DEFINE From(k) == IF k < i THEN k ELSE k - 1
<1>3. ASSUME NEW k \in 1 .. Len(r)
      PROVE  \/ k = i /\ r[k] = e
             \/ k # i /\ From(k) \in 1 .. Len(s) /\ r[k] = s[From(k)]
  BY <1>1, <1>2
<1>4. ASSUME NEW k \in 1 .. Len(r), NEW l \in 1 .. Len(r), r[k] = r[l]
      PROVE  k = l
  <2>1. CASE k = i \/ l = i
    <3> HIDE DEF From
    <3>1. QED
      BY <1>3, <1>4, <2>1
  <2>2. CASE k # i /\ l # i
    <3>1. From(k) = From(l)
      <4> HIDE DEF From
      <4>1. QED
        BY <1>3, <1>4, <2>2 DEF Unique
    <3>2. QED
      BY <1>1, <1>2, <2>2, <3>1
  <2>3. QED
    BY <2>1, <2>2
<1>5. QED
  <2> HIDE DEF From
  <2>1. QED
    BY <1>3, <1>4 DEF Unique, r

LEMMA ReplacedUnique ==
  ASSUME NEW D, NEW s \in Seq(D), Unique(s), NEW i \in 1 .. Len(s),
         NEW e \in D, \A k \in 1 .. Len(s) : s[k] # e
  PROVE  /\ [s EXCEPT ![i] = e] \in Seq(D) /\ Unique([s EXCEPT ![i] = e])
         /\ \A k \in 1 .. Len([s EXCEPT ![i] = e]) :
                \/ [s EXCEPT ![i] = e][k] = e
                \/ \E m \in 1 .. Len(s) : [s EXCEPT ![i] = e][k] = s[m]
<1> DEFINE r == [s EXCEPT ![i] = e]
<1>1. r \in Seq(D) /\ Len(r) = Len(s)
  OBVIOUS
<1>2. \A k \in 1 .. Len(s) : r[k] = IF k = i THEN e ELSE s[k]
  OBVIOUS
<1> HIDE DEF r
<1>3. Unique(r)
  BY <1>1, <1>2 DEF Unique
<1>4. QED
  BY <1>1, <1>2, <1>3 DEF r

\* A beginning of a sequence.
LEMMA BeginningUnique ==
  ASSUME NEW D, NEW s \in Seq(D), Unique(s), NEW n \in 0 .. Len(s)
  PROVE  /\ SubSeq(s, 1, n) \in Seq(D) /\ Unique(SubSeq(s, 1, n))
         /\ Len(SubSeq(s, 1, n)) = n
         /\ \A k \in 1 .. n : SubSeq(s, 1, n)[k] = s[k]
<1> DEFINE r == SubSeq(s, 1, n)
<1>1. /\ r \in Seq(D) /\ Len(r) = n - 1 + 1
      /\ \A k \in 1 .. (n - 1 + 1) : r[k] = s[1 + k - 1]
  <2>1. 1 \in 1 .. (Len(s) + 1) /\ n \in (1 - 1) .. Len(s)
    OBVIOUS
  <2>2. QED
    BY <2>1, PartIs
<1> HIDE DEF r
<1>2. n \in Nat /\ n =< Len(s) /\ Len(s) \in Nat
  OBVIOUS
<1>3. Len(r) = n /\ \A k \in 1 .. n : r[k] = s[k]
  BY <1>1, <1>2
<1>4. Unique(r)
  BY <1>2, <1>3 DEF Unique
<1>5. QED
  BY <1>1, <1>3, <1>4 DEF r

-----------------------------------------------------------------------------
(* AddTracks and DeleteTracksByQueueItemID, item by item *)

Inserting(f, base, items, n) ==
    f = [k \in 0 .. n |-> IF k = 0 THEN base ELSE Insert(f[k - 1], items[k])]

\* A function that is defined by recursion on 0 .. n exists.
LEMMA InsertsExist ==
  ASSUME NEW STATE base, NEW STATE items, NEW STATE n, n \in Nat
  PROVE  \E f : Inserting(f, base, items, n)
<1> DEFINE Made(m) == \E f : Inserting(f, base, items, m)
           Bad == {m \in Nat : ~Made(m)}
<1>1. ASSUME Bad # {}
      PROVE  FALSE
  <2>1. Bad \in SUBSET Nat
    OBVIOUS
  <2>2. PICK m \in Bad : \A y \in Bad : m =< y
    <3> HIDE DEF Bad
    <3>1. QED
      BY <1>1, <2>1, LeastExists
  <2>3. m \in Nat /\ ~Made(m)
    OBVIOUS
  <2>4. CASE m = 0
    <3> DEFINE f == [k \in 0 .. 0 |-> base]
    <3>1. f = [k \in 0 .. 0 |-> IF k = 0 THEN base ELSE Insert(f[k - 1], items[k])]
      OBVIOUS
    <3>2. Made(0)
      BY <3>1 DEF Inserting
    <3>3. QED
      BY <2>3, <2>4, <3>2
  <2>5. CASE m # 0
    <3>1. m - 1 \in Nat /\ m - 1 \notin Bad
      <4> HIDE DEF Made, Bad
      <4>1. QED
        BY <2>2, <2>3, <2>5
    <3>2. PICK f : f = [k \in 0 .. (m - 1) |->
                            IF k = 0 THEN base ELSE Insert(f[k - 1], items[k])]
      BY <3>1 DEF Inserting
    <3> DEFINE g == [k \in 0 .. m |-> IF k = m THEN Insert(f[m - 1], items[m]) ELSE f[k]]
    <3>3. ASSUME NEW k \in 0 .. m
          PROVE  g[k] = IF k = 0 THEN base ELSE Insert(g[k - 1], items[k])
      <4>1. CASE k = 0
        BY <2>3, <2>5, <3>1, <3>2, <4>1
      <4>2. CASE k = m
        <5>1. g[k - 1] = f[m - 1]
          BY <2>3, <2>5, <4>2
        <5>2. QED
          BY <2>3, <2>5, <4>2, <5>1
      <4>3. CASE k # 0 /\ k # m
        <5>1. k - 1 \in 0 .. m /\ k - 1 # m /\ k \in 0 .. (m - 1)
          BY <2>3, <4>3
        <5>2. g[k - 1] = f[k - 1] /\ g[k] = f[k]
          BY <4>3, <5>1
        <5>3. f[k] = Insert(f[k - 1], items[k])
          BY <3>2, <4>3, <5>1
        <5>4. QED
          BY <4>3, <5>2, <5>3
      <4>4. QED
        BY <4>1, <4>2, <4>3
    <3>4. g = [k \in 0 .. m |-> g[k]]
      OBVIOUS
    <3> HIDE DEF g
    <3>5. g = [k \in 0 .. m |-> IF k = 0 THEN base ELSE Insert(g[k - 1], items[k])]
      BY <3>3, <3>4
    <3>6. QED
      BY <2>3, <3>5 DEF Inserting
  <2>6. QED
    BY <2>4, <2>5
<1>2. QED
  BY <1>1

LEMMA InsertedIs ==
  ASSUME Len(ws.items) \in Nat
  PROVE  /\ Inserted[0] = [refs |-> refs, heap |-> tracks,
                           at   |-> PlayPos(shuffledIndexes, Position(ws.after)) + 1]
         /\ \A k \in 1 .. Len(ws.items) :
                Inserted[k] = Insert(Inserted[k - 1], ws.items[k])
<1> DEFINE base == [refs |-> refs, heap |-> tracks,
                    at   |-> PlayPos(shuffledIndexes, Position(ws.after)) + 1]
           items == ws.items
           n == Len(ws.items)
<1>1. Inserted = CHOOSE f : f =
          [k \in 0 .. n |-> IF k = 0 THEN base ELSE Insert(f[k - 1], items[k])]
  BY DEF Inserted
<1> HIDE DEF base, items, n
<1>2. n \in Nat
  BY DEF n
<1>3. \E f : Inserting(f, base, items, n)
  BY <1>2, InsertsExist
<1>4. Inserted = [k \in 0 .. n |->
                     IF k = 0 THEN base ELSE Insert(Inserted[k - 1], items[k])]
  BY <1>1, <1>3 DEF Inserting
<1>5. Inserted[0] = base
  BY <1>2, <1>4
<1>6. \A k \in 1 .. n : Inserted[k] = Insert(Inserted[k - 1], items[k])
  BY <1>2, <1>4
<1>7. QED
  BY <1>5, <1>6 DEF base, items, n

\* The same for what DeleteTracksByQueueItemID does.
Deleting(f, base, ids, n) ==
    f = [k \in 0 .. n |-> IF k = 0 THEN base ELSE Delete(f[k - 1], ids[k])]

LEMMA DeletesExist ==
  ASSUME NEW STATE base, NEW STATE ids, NEW STATE n, n \in Nat
  PROVE  \E f : Deleting(f, base, ids, n)
<1> DEFINE Made(m) == \E f : Deleting(f, base, ids, m)
           Bad == {m \in Nat : ~Made(m)}
<1>1. ASSUME Bad # {}
      PROVE  FALSE
  <2>1. Bad \in SUBSET Nat
    OBVIOUS
  <2>2. PICK m \in Bad : \A y \in Bad : m =< y
    <3> HIDE DEF Bad
    <3>1. QED
      BY <1>1, <2>1, LeastExists
  <2>3. m \in Nat /\ ~Made(m)
    OBVIOUS
  <2>4. CASE m = 0
    <3> DEFINE f == [k \in 0 .. 0 |-> base]
    <3>1. f = [k \in 0 .. 0 |-> IF k = 0 THEN base ELSE Delete(f[k - 1], ids[k])]
      OBVIOUS
    <3>2. Made(0)
      BY <3>1 DEF Deleting
    <3>3. QED
      BY <2>3, <2>4, <3>2
  <2>5. CASE m # 0
    <3>1. m - 1 \in Nat /\ m - 1 \notin Bad
      <4> HIDE DEF Made, Bad
      <4>1. QED
        BY <2>2, <2>3, <2>5
    <3>2. PICK f : f = [k \in 0 .. (m - 1) |->
                            IF k = 0 THEN base ELSE Delete(f[k - 1], ids[k])]
      BY <3>1 DEF Deleting
    <3> DEFINE g == [k \in 0 .. m |-> IF k = m THEN Delete(f[m - 1], ids[m]) ELSE f[k]]
    <3>3. ASSUME NEW k \in 0 .. m
          PROVE  g[k] = IF k = 0 THEN base ELSE Delete(g[k - 1], ids[k])
      <4>1. CASE k = 0
        BY <2>3, <2>5, <3>1, <3>2, <4>1
      <4>2. CASE k = m
        <5>1. g[k - 1] = f[m - 1]
          BY <2>3, <2>5, <4>2
        <5>2. QED
          BY <2>3, <2>5, <4>2, <5>1
      <4>3. CASE k # 0 /\ k # m
        <5>1. k - 1 \in 0 .. m /\ k - 1 # m /\ k \in 0 .. (m - 1)
          BY <2>3, <4>3
        <5>2. g[k - 1] = f[k - 1] /\ g[k] = f[k]
          BY <4>3, <5>1
        <5>3. f[k] = Delete(f[k - 1], ids[k])
          BY <3>2, <4>3, <5>1
        <5>4. QED
          BY <4>3, <5>2, <5>3
      <4>4. QED
        BY <4>1, <4>2, <4>3
    <3>4. g = [k \in 0 .. m |-> g[k]]
      OBVIOUS
    <3> HIDE DEF g
    <3>5. g = [k \in 0 .. m |-> IF k = 0 THEN base ELSE Delete(g[k - 1], ids[k])]
      BY <3>3, <3>4
    <3>6. QED
      BY <2>3, <3>5 DEF Deleting
  <2>6. QED
    BY <2>4, <2>5
<1>2. QED
  BY <1>1

-----------------------------------------------------------------------------
(* What insertions and removals keep *)

LEMMA PositionIsNat ==
  ASSUME refs \in Seq(Items), shuffledIndexes \in Seq(Nat), NEW item
  PROVE  PlayPos(shuffledIndexes, Position(item)) \in Nat
<1> DEFINE p == PositionOf(refs, item)
           q == PositionOf(shuffledIndexes, p - 1)
<1>1. p \in 0 .. Len(refs) /\ q \in 0 .. Len(shuffledIndexes)
  BY PositionIs
<1>2. Position(item) = IF p - 1 = -1 THEN 0
                       ELSE IF p - 1 < Len(shuffledIndexes) /\ q - 1 # -1 THEN q - 1
                       ELSE p - 1
  BY DEF Position
<1> HIDE DEF p, q
<1>3. Len(refs) \in Nat /\ Len(shuffledIndexes) \in Nat
  OBVIOUS
<1>4. Position(item) \in Nat
  BY <1>1, <1>2, <1>3
<1>5. QED
  BY <1>3, <1>4 DEF PlayPos

LEMMA DuplicateIs ==
  ASSUME index \in Nat, NEW rf \in Seq(Items), NEW item, Duplicate(rf, item) # -1
  PROVE  Duplicate(rf, item) + 1 \in 1 .. Len(rf)
<1> DEFINE I == {i \in (index + 1) .. Len(rf) : TrackOf[rf[i]] = TrackOf[item]}
<1>1. Duplicate(rf, item) = (IF I # {} THEN Min(I) ELSE 0) - 1
  BY DEF Duplicate, SelectInSubSeq
<1>2. I \in SUBSET Nat
  OBVIOUS
<1>3. CASE I = {}
  BY <1>1, <1>3
<1>4. CASE I # {}
  <2>1. Min(I) \in I
    BY <1>2, <1>4, LeastIs
  <2>2. Min(I) \in 1 .. Len(rf)
    BY <2>1
  <2> HIDE DEF I
  <2>3. QED
    BY <1>1, <1>4, <2>2
<1>5. QED
  BY <1>3, <1>4

\* One inserted item: put in, or in the place of a duplicate of its track.
LEMMA InsertKeeps ==
  ASSUME index \in Nat, NEW STATE acc, acc.refs \in Seq(Items), Unique(acc.refs),
         acc.at \in Nat, NEW STATE item, item \in Items,
         \A m \in 1 .. Len(acc.refs) : acc.refs[m] # item
  PROVE  /\ Insert(acc, item).refs \in Seq(Items) /\ Unique(Insert(acc, item).refs)
         /\ Insert(acc, item).at \in Nat
         /\ \A k \in 1 .. Len(Insert(acc, item).refs) :
                \/ Insert(acc, item).refs[k] = item
                \/ \E m \in 1 .. Len(acc.refs) : Insert(acc, item).refs[k] = acc.refs[m]
<1> DEFINE s == acc.refs
           j == Duplicate(s, item)
<1>1. CASE j # -1
  <2>1. j + 1 \in 1 .. Len(s)
    BY <1>1, DuplicateIs
  <2>2. Insert(acc, item) = Renumber(acc, j, item)
    BY <1>1 DEF Insert
  <2>3. /\ Renumber(acc, j, item).refs = [s EXCEPT ![j + 1] = item]
        /\ Renumber(acc, j, item).at = acc.at
    BY DEF Renumber
  <2> HIDE DEF j
  <2> DEFINE i == j + 1
             r == [s EXCEPT ![i] = item]
  <2>4. i \in 1 .. Len(s) /\ s \in Seq(Items) /\ Unique(s)
        /\ \A k \in 1 .. Len(s) : s[k] # item
    BY <2>1
  <2> HIDE DEF i, s
  <2>5. /\ [s EXCEPT ![i] = item] \in Seq(Items) /\ Unique([s EXCEPT ![i] = item])
        /\ \A k \in 1 .. Len([s EXCEPT ![i] = item]) :
               \/ [s EXCEPT ![i] = item][k] = item
               \/ \E m \in 1 .. Len(s) : [s EXCEPT ![i] = item][k] = s[m]
    BY <2>4, ReplacedUnique
  <2>6. Insert(acc, item).refs = [s EXCEPT ![i] = item] /\ Insert(acc, item).at = acc.at
    BY <2>2, <2>3 DEF i
  <2>7. QED
    BY <2>5, <2>6 DEF s
<1>2. CASE j = -1
  <2> DEFINE ins == IF acc.at > Len(s) THEN Len(s) ELSE acc.at
             i == ins + 1
  <2>1. Insert(acc, item) = Put(acc, item)
    BY <1>2 DEF Insert
  <2>2. Put(acc, item).refs = InsertAt(s, i, item) /\ Put(acc, item).at = acc.at + 1
    BY DEF Put
  <2>3. Len(s) \in Nat
    OBVIOUS
  <2>4. i \in 1 .. (Len(s) + 1)
    BY <2>3
  <2>5. s \in Seq(Items) /\ Unique(s) /\ \A k \in 1 .. Len(s) : s[k] # item
    OBVIOUS
  <2> HIDE DEF i, ins, s, j
  <2>6. InsertAt(s, i, item) \in Seq(Items)
    <3>1. IsPut(InsertAt(s, i, item), Items, s, i, item)
      BY <2>4, <2>5, PutIs
    <3>2. QED
      BY <3>1 DEF IsPut
  <2>7. /\ Unique(InsertAt(s, i, item))
        /\ \A k \in 1 .. Len(InsertAt(s, i, item)) :
               \/ InsertAt(s, i, item)[k] = item
               \/ \E m \in 1 .. Len(s) : InsertAt(s, i, item)[k] = s[m]
    BY <2>4, <2>5, PutUnique
  <2>8. Insert(acc, item).refs = InsertAt(s, i, item) /\ Insert(acc, item).at = acc.at + 1
    BY <2>1, <2>2
  <2>9. QED
    BY <2>6, <2>7, <2>8 DEF s
<1>3. QED
  BY <1>1, <1>2

\* All the items of a message.
LEMMA InsertedKeeps ==
  ASSUME refs \in Seq(Items), Unique(refs), shuffledIndexes \in Seq(Nat),
         index \in Nat, ws.items \in Seq(Items), ws.pc = "add", AddsNew
  PROVE  /\ Inserted[Len(ws.items)].refs \in Seq(Items)
         /\ Unique(Inserted[Len(ws.items)].refs)
<1> DEFINE n == Len(ws.items)
           Good(k) ==
              /\ Inserted[k].refs \in Seq(Items) /\ Unique(Inserted[k].refs)
              /\ Inserted[k].at \in Nat
              /\ \A l \in (k + 1) .. n, m \in 1 .. Len(Inserted[k].refs) :
                     ws.items[l] # Inserted[k].refs[m]
           Bad == {k \in 0 .. n : ~Good(k)}
<1>1. n \in Nat /\ \A l \in 1 .. n : ws.items[l] \in Items
  OBVIOUS
<1>2. Good(0)
  <2>1. Inserted[0] = [refs |-> refs, heap |-> tracks,
                       at   |-> PlayPos(shuffledIndexes, Position(ws.after)) + 1]
    BY <1>1, InsertedIs
  <2>2. PlayPos(shuffledIndexes, Position(ws.after)) \in Nat
    BY PositionIsNat
  <2>3. Inserted[0].refs = refs /\ Inserted[0].at \in Nat
    BY <2>1, <2>2
  <2>4. \A l \in (0 + 1) .. n, m \in 1 .. Len(refs) : ws.items[l] # refs[m]
    BY DEF AddsNew
  <2>5. QED
    BY <2>3, <2>4
<1>3. ASSUME NEW k \in 1 .. n, Good(k - 1)
      PROVE  Good(k)
  <2> DEFINE acc == Inserted[k - 1]
             item == ws.items[k]
  <2>1. Inserted[k] = Insert(acc, item)
    BY <1>1, InsertedIs
  <2>2. item \in Items /\ k \in ((k - 1) + 1) .. n
    BY <1>1
  <2>3. \A m \in 1 .. Len(acc.refs) : acc.refs[m] # item
    BY <1>3, <2>2
  <2>4. acc.refs \in Seq(Items) /\ Unique(acc.refs) /\ acc.at \in Nat
    BY <1>3
  <2>5. ASSUME NEW l \in (k + 1) .. n
        PROVE  ws.items[l] # item /\ \A m \in 1 .. Len(acc.refs) : ws.items[l] # acc.refs[m]
    <3>1. l \in 1 .. n /\ l # k /\ l \in ((k - 1) + 1) .. n
      BY <1>1
    <3>2. ws.items[l] # item
      BY <3>1 DEF AddsNew, Unique
    <3>3. QED
      BY <1>3, <3>1, <3>2
  <2> HIDE DEF acc, item
  <2>6. /\ Insert(acc, item).refs \in Seq(Items) /\ Unique(Insert(acc, item).refs)
        /\ Insert(acc, item).at \in Nat
        /\ \A i \in 1 .. Len(Insert(acc, item).refs) :
               \/ Insert(acc, item).refs[i] = item
               \/ \E m \in 1 .. Len(acc.refs) : Insert(acc, item).refs[i] = acc.refs[m]
    BY <2>2, <2>3, <2>4, InsertKeeps
  <2>7. \A l \in (k + 1) .. n, i \in 1 .. Len(Insert(acc, item).refs) :
            ws.items[l] # Insert(acc, item).refs[i]
    BY <2>5, <2>6
  <2>8. QED
    BY <2>1, <2>6, <2>7
<1>4. ASSUME Bad # {}
      PROVE  FALSE
  <2>1. Bad \in SUBSET Nat
    BY <1>1
  <2>2. PICK k \in Bad : \A y \in Bad : k =< y
    <3> HIDE DEF Bad
    <3>1. QED
      BY <1>4, <2>1, LeastExists
  <2>3. k \in 0 .. n /\ ~Good(k)
    OBVIOUS
  <2> HIDE DEF Good
  <2>4. k # 0 /\ k \in 1 .. n /\ k - 1 \in 0 .. n
    BY <1>1, <1>2, <2>3
  <2>5. k - 1 \notin Bad
    <3> HIDE DEF Bad
    <3>1. QED
      BY <1>1, <2>2, <2>4
  <2>6. Good(k - 1)
    BY <2>4, <2>5
  <2>7. QED
    BY <1>3, <2>3, <2>4, <2>6
<1>5. Good(n)
  <2> HIDE DEF Good
  <2>1. n \in 0 .. n
    BY <1>1
  <2>2. QED
    BY <1>4, <2>1
<1>6. QED
  BY <1>5

\* One removed item.
Shape(acc) ==
    /\ acc.refs \in Seq(Items) /\ Unique(acc.refs)
    /\ acc.sh \in Seq(Nat) /\ Permutes(acc.sh)
    /\ acc.ix \in Int

LEMMA DeleteKeeps ==
  ASSUME NEW STATE acc, Shape(acc), NEW STATE item
  PROVE  Shape(Delete(acc, item))
<1> DEFINE p == PositionOf(acc.refs, item)
           i == p - 1
           f == PositionOf(acc.sh, i)
<1>1. p \in 0 .. Len(acc.refs)
  BY PositionIs DEF Shape
<1>2. f \in 0 .. Len(acc.sh) /\ (f # 0 => acc.sh[f] = i)
  BY PositionIs DEF Shape
<1>3. CASE i = -1
  BY <1>3 DEF Delete
<1>4. CASE i # -1
  <2>1. /\ Delete(acc, item).refs = RemoveAt(acc.refs, i + 1)
        /\ Delete(acc, item).sh = IF f = 0 THEN acc.sh ELSE Cut(acc.sh, f, i)
        /\ Delete(acc, item).ix = IF f # 0 /\ acc.ix >= i THEN acc.ix - 1 ELSE acc.ix
    BY <1>4 DEF Delete
  <2> HIDE DEF f
  <2>2. i + 1 \in 1 .. Len(acc.refs) /\ Len(acc.refs) \in Nat
    BY <1>1, <1>4 DEF Shape
  <2> HIDE DEF i, p
  <2>3. RemoveAt(acc.refs, i + 1) \in Seq(Items) /\ Unique(RemoveAt(acc.refs, i + 1))
    <3>1. RemoveAt(acc.refs, i + 1) \in Seq(Items)
      BY <2>2, RemovedIs DEF Shape
    <3>2. Unique(RemoveAt(acc.refs, i + 1))
      BY <2>2, RemovedUnique DEF Shape
    <3>3. QED
      BY <3>1, <3>2
  <2>4. Delete(acc, item).sh \in Seq(Nat) /\ Permutes(Delete(acc, item).sh)
    <3>1. CASE f = 0
      BY <2>1, <3>1 DEF Shape
    <3>2. CASE f # 0
      <4>1. f \in 1 .. Len(acc.sh) /\ acc.sh[f] = i
        BY <1>2, <3>2 DEF Shape
      <4>2. Cut(acc.sh, f, i) \in Seq(Nat) /\ Permutes(Cut(acc.sh, f, i))
        BY <4>1, CutPermutes DEF Shape
      <4>3. QED
        BY <2>1, <3>2, <4>2
    <3>3. QED
      BY <3>1, <3>2
  <2>5. Delete(acc, item).ix \in Int
    BY <2>1 DEF Shape
  <2>6. QED
    BY <2>1, <2>3, <2>4, <2>5 DEF Shape
<1>5. QED
  BY <1>3, <1>4

LEMMA DeletedKeeps ==
  ASSUME refs \in Seq(Items), Unique(refs), shuffledIndexes \in Seq(Nat),
         Permutes(shuffledIndexes), index \in Int, NEW ids, NEW n \in Nat
  PROVE  Shape(Deleted(ids, n))
<1> DEFINE base == [refs |-> refs, pre |-> preloaded, sh |-> shuffledIndexes,
                    ix   |-> index]
           left == CHOOSE f : f =
               [k \in 0 .. n |-> IF k = 0 THEN base ELSE Delete(f[k - 1], ids[k])]
           Bad == {k \in 0 .. n : ~Shape(left[k])}
<1>1. Deleted(ids, n) = left[n]
  BY DEF Deleted
<1>2. Shape(base)
  BY DEF Shape
<1> HIDE DEF base
<1>3. \E f : Deleting(f, base, ids, n)
  BY DeletesExist
<1>4. left = [k \in 0 .. n |-> IF k = 0 THEN base ELSE Delete(left[k - 1], ids[k])]
  BY <1>3 DEF Deleting
<1> HIDE DEF left
<1>5. left[0] = base /\ \A k \in 1 .. n : left[k] = Delete(left[k - 1], ids[k])
  BY <1>4
<1>6. ASSUME Bad # {}
      PROVE  FALSE
  <2>1. Bad \in SUBSET Nat
    OBVIOUS
  <2>2. PICK k \in Bad : \A y \in Bad : k =< y
    <3> HIDE DEF Bad
    <3>1. QED
      BY <1>6, <2>1, LeastExists
  <2>3. k \in 0 .. n /\ ~Shape(left[k])
    OBVIOUS
  <2>4. k # 0 /\ k \in 1 .. n /\ k - 1 \in 0 .. n
    BY <1>2, <1>5, <2>3
  <2>5. k - 1 \notin Bad
    <3> HIDE DEF Bad
    <3>1. QED
      BY <2>2, <2>4
  <2>6. Shape(left[k - 1])
    BY <2>4, <2>5
  <2>7. Shape(Delete(left[k - 1], ids[k]))
    BY <2>6, DeleteKeeps
  <2>8. QED
    BY <1>5, <2>3, <2>4, <2>7
<1>7. QED
  BY <1>1, <1>6

-----------------------------------------------------------------------------
(* The queue, whatever the server sends *)

\* The queue, of which only the handler changes more than the cursor.
Hands == [pc : HandlerPCs, items : Seq(Items), after : Items \cup {None}]
Edits ==
    /\ refs \in Seq(Items) /\ Unique(refs)
    /\ shuffledIndexes \in Seq(Nat) /\ Permutes(shuffledIndexes)
    /\ index \in Int
    /\ ws \in Hands /\ AddsNew

LEMMA EditsStart == Init => Edits
<1>1. ASSUME Init PROVE Edits
  <2>1. refs = <<>> /\ shuffledIndexes = <<>> /\ index = 0
        /\ ws = [pc |-> "idle", items |-> <<>>, after |-> None]
    BY <1>1 DEF Init
  <2>2. ws \in Hands /\ ws.pc = "idle"
    BY <2>1 DEF Hands, HandlerPCs
  <2>3. AddsNew
    BY <2>2 DEF AddsNew
  <2>4. refs \in Seq(Items) /\ Len(refs) = 0 /\ Len(shuffledIndexes) = 0
        /\ shuffledIndexes \in Seq(Nat)
    BY <2>1
  <2>5. Unique(refs) /\ Permutes(shuffledIndexes)
    BY <2>4 DEF Unique, Permutes
  <2>6. QED
    BY <2>1, <2>2, <2>3, <2>4, <2>5 DEF Edits
<1>2. QED
  BY <1>1

\* The goroutines beside the handler touch the cursor alone.
LEMMA LoaderEdits ==
  ASSUME Loader
  PROVE  UNCHANGED <<refs, shuffledIndexes, index, ws>>
BY DEF Loader, LoaderTop, LoaderWake, LoaderFill, LoaderFillPanics, Panic, LoaderAsks,
   LoaderGivesUp, LoaderMarksAsked, LoaderCopies, LoaderFetchesMetadata,
   LoaderFetchesFileURL, LoaderSkips, LoaderRests, queueVars

LEMMA ConsumerEdits ==
  ASSUME Consumer
  PROVE  /\ UNCHANGED <<refs, shuffledIndexes, ws>>
         /\ index' = index \/ index' = index + 1
BY DEF Consumer, Consume, SessionStarts, SessionIsStopped, ConsumeBegins, ConsumePops,
   ConsumeEnds, ConsumeReturns, ConsumeSleeps, queueVars

LEMMA EditsStay ==
  ASSUME Edits, UNCHANGED <<refs, shuffledIndexes, ws>>, index' \in Int
  PROVE  Edits'
BY DEF Edits, AddsNew, Unique, Permutes

\* The messages.
LEMMA NewItemsAre ==
  ASSUME NEW s \in NewItems
  PROVE  /\ s \in Seq(Items) /\ Unique(s)
         /\ \A i \in 1 .. Len(s) : s[i] \in Items /\ s[i] \notin ToSet(refs)
<1>1. Items \ ToSet(refs) \in SUBSET Items
  OBVIOUS
<1>2. s \in Seq(Items) /\ Unique(s) /\ \A k \in 1 .. Len(s) : s[k] \in Items \ ToSet(refs)
  BY <1>1, FirstOfIs DEF NewItems
<1>3. QED
  BY <1>2

\* With tracks on their way, what is in refs is what was there.
LEMMA ArrivalEdits ==
  ASSUME Edits, NEW s \in NewItems, NEW after \in Items \cup {None},
         ws' = [pc |-> "add", items |-> s, after |-> after],
         refs' = refs \/ DropAutoplay, UNCHANGED <<shuffledIndexes, index>>
  PROVE  Edits'
<1>1. /\ s \in Seq(Items) /\ Unique(s)
      /\ \A i \in 1 .. Len(s) : s[i] \notin ToSet(refs)
  BY NewItemsAre
<1>2. refs \in Seq(Items) /\ Unique(refs) /\ Len(refs) \in Nat
      /\ Len(shuffledIndexes) \in Nat
  BY DEF Edits
<1>3. /\ refs' \in Seq(Items) /\ Unique(refs') /\ Len(refs') \in 0 .. Len(refs)
      /\ \A k \in 1 .. Len(refs') : refs'[k] = refs[k]
  <2>1. CASE refs' = refs
    BY <1>2, <2>1
  <2>2. CASE DropAutoplay
    <3> DEFINE n == IF Len(refs) > Len(shuffledIndexes) THEN Len(shuffledIndexes)
                    ELSE Len(refs)
    <3>1. refs' = SubSeq(refs, 1, n)
      BY <2>2 DEF DropAutoplay
    <3>2. n \in 0 .. Len(refs)
      BY <1>2
    <3> HIDE DEF n
    <3>3. /\ SubSeq(refs, 1, n) \in Seq(Items) /\ Unique(SubSeq(refs, 1, n))
          /\ Len(SubSeq(refs, 1, n)) = n
          /\ \A k \in 1 .. n : SubSeq(refs, 1, n)[k] = refs[k]
      BY <1>2, <3>2, BeginningUnique
    <3>4. QED
      BY <3>1, <3>2, <3>3
  <2>3. QED
    BY <2>1, <2>2
<1>4. ws' \in Hands /\ ws'.pc = "add" /\ ws'.items = s
  BY <1>1 DEF Hands, HandlerPCs
<1>5. AddsNew'
  <2>1. ASSUME NEW i \in 1 .. Len(s), NEW j \in 1 .. Len(refs') PROVE s[i] # refs'[j]
    <3>1. refs'[j] = refs[j] /\ j \in 1 .. Len(refs)
      BY <1>2, <1>3
    <3>2. refs[j] \in ToSet(refs)
      BY <1>2, <3>1 DEF ToSet
    <3>3. QED
      BY <1>1, <3>1, <3>2
  <2>2. QED
    BY <1>1, <1>4, <2>1 DEF AddsNew
<1>6. QED
  BY <1>3, <1>4, <1>5 DEF Edits, Permutes, Unique

\* The end of a message: nothing is left to add.
LEMMA DoneEdits ==
  ASSUME HandlerDone
  PROVE  ws' \in Hands /\ AddsNew'
<1>1. ws' = [pc |-> "idle", items |-> <<>>, after |-> None]
  BY DEF HandlerDone
<1>2. ws'.pc = "idle"
  BY <1>1
<1>3. ws' \in Hands
  BY <1>1 DEF Hands, HandlerPCs
<1>4. QED
  BY <1>2, <1>3 DEF AddsNew

LEMMA AddedEdits ==
  ASSUME Edits, NEW STATE rf, rf \in Seq(Items), Unique(rf), NEW STATE heap, Added(rf, heap)
  PROVE  Edits'
<1>1. /\ refs' = rf /\ shuffledIndexes' = Grown(shuffledIndexes, rf) /\ HandlerDone
      /\ index' = index
  BY DEF Added
<1>2. shuffledIndexes \in Seq(Nat) /\ Permutes(shuffledIndexes) /\ Len(rf) \in Nat
  BY DEF Edits
<1>3. /\ Grown(shuffledIndexes, rf) \in Seq(Nat)
      /\ Permutes(Grown(shuffledIndexes, rf))
  BY <1>2, ExtendedPermutes DEF Grown
<1>4. shuffledIndexes' \in Seq(Nat) /\ Permutes(shuffledIndexes')
  BY <1>1, <1>3
<1>5. refs' \in Seq(Items) /\ Unique(refs')
  BY <1>1
<1>6. QED
  BY <1>1, <1>4, <1>5, DoneEdits DEF Edits, Permutes, Unique

LEMMA AddTracksEdits ==
  ASSUME Edits, AddTracks
  PROVE  Edits'
<1>1. /\ refs \in Seq(Items) /\ Unique(refs) /\ shuffledIndexes \in Seq(Nat)
      /\ index \in Int /\ ws.items \in Seq(Items) /\ AddsNew
  BY DEF Edits, Hands
<1>2. CASE AppendTracks
  <2>1. ws.pc = "add" /\ Added(refs \o ws.items, tracks)
    BY <1>2 DEF AppendTracks
  <2>2. refs \o ws.items \in Seq(Items) /\ Unique(refs \o ws.items)
    BY <1>1, <2>1, Concatenated DEF AddsNew
  <2> DEFINE rf == refs \o ws.items
  <2> HIDE DEF rf
  <2>3. rf \in Seq(Items) /\ Unique(rf) /\ Added(rf, tracks)
    BY <2>1, <2>2 DEF rf
  <2>4. QED
    BY <2>3, AddedEdits
<1>3. CASE InsertTracks
  <2> DEFINE acc == Inserted[Len(ws.items)]
             rf == acc.refs
             heap == acc.heap
  <2>1. ws.pc = "add" /\ index \in Nat /\ Added(rf, heap)
    BY <1>1, <1>3 DEF InsertTracks
  <2>2. rf \in Seq(Items) /\ Unique(rf)
    BY <1>1, <2>1, InsertedKeeps
  <2> HIDE DEF rf, heap
  <2>3. QED
    BY <2>1, <2>2, AddedEdits
<1>4. QED
  BY <1>2, <1>3 DEF AddTracks

LEMMA ClearEdits ==
  ASSUME Edits, QueueCleared \/ QueueTracksLoaded
  PROVE  Edits'
<1>1. /\ refs' = <<>> /\ shuffledIndexes' = <<>> /\ index' = 0
  BY DEF QueueCleared, QueueTracksLoaded, ClearRefs
<1>2. ws' \in Hands /\ ws'.pc = "clear" /\ Unique(ws'.items)
  <2>1. CASE QueueCleared
    <3>1. ws' = [pc |-> "clear", items |-> <<>>, after |-> None]
      BY <2>1 DEF QueueCleared
    <3>2. <<>> \in Seq(Items) /\ Unique(<<>>)
      BY DEF Unique
    <3>3. QED
      BY <3>1, <3>2 DEF Hands, HandlerPCs
  <2>2. CASE QueueTracksLoaded
    <3>1. PICK s \in FirstOf(Items) : ws' = [pc |-> "clear", items |-> s, after |-> None]
      BY <2>2 DEF QueueTracksLoaded
    <3>2. s \in Seq(Items) /\ Unique(s)
      BY FirstOfIs
    <3>3. QED
      BY <3>1, <3>2 DEF Hands, HandlerPCs
  <2>3. QED
    BY <2>1, <2>2
<1>3. AddsNew'
  BY <1>1, <1>2 DEF AddsNew
<1>4. refs' \in Seq(Items) /\ Len(refs') = 0 /\ Len(shuffledIndexes') = 0
      /\ shuffledIndexes' \in Seq(Nat)
  BY <1>1
<1>5. Unique(refs') /\ Permutes(shuffledIndexes')
  BY <1>4 DEF Unique, Permutes
<1>6. QED
  BY <1>1, <1>2, <1>3, <1>4, <1>5 DEF Edits, Unique, Permutes

LEMMA ClearPreloadedEdits ==
  ASSUME Edits, ClearPreloaded
  PROVE  Edits'
<1>1. ws.pc = "clear" /\ UNCHANGED <<refs, shuffledIndexes, index>>
  BY DEF ClearPreloaded, queueVars
<1>2. ws \in Hands /\ refs = <<>> /\ Unique(ws.items)
  BY <1>1 DEF Edits, AddsNew
<1>3. ws' \in Hands /\ AddsNew'
  <2>1. CASE ws.items = <<>>
    BY <2>1, DoneEdits DEF ClearPreloaded
  <2>2. CASE ws.items # <<>>
    <3>1. ws' = [ws EXCEPT !.pc = "add"]
      BY <2>2 DEF ClearPreloaded
    <3>2. ws' \in Hands /\ ws'.pc = "add" /\ ws'.items = ws.items
      BY <1>2, <3>1 DEF Hands, HandlerPCs
    <3>3. Len(refs') = 0
      BY <1>1, <1>2
    <3>4. QED
      BY <1>2, <3>2, <3>3 DEF AddsNew
  <2>3. QED
    BY <2>1, <2>2
<1>4. QED
  BY <1>1, <1>3 DEF Edits, Unique, Permutes

LEMMA RemovalEdits ==
  ASSUME Edits, QueueTracksRemoved
  PROVE  Edits'
<1>1. PICK n \in 1 .. Len(refs) : \E ids \in [1 .. n -> ToSet(refs)] :
          LET acc == Deleted(ids, n)
          IN  /\ IsInjective(ids)
              /\ refs' = acc.refs /\ preloaded' = acc.pre
              /\ shuffledIndexes' = acc.sh /\ index' = acc.ix
  BY DEF QueueTracksRemoved
<1>2. PICK ids : LET acc == Deleted(ids, n)
                 IN  /\ refs' = acc.refs /\ shuffledIndexes' = acc.sh
                     /\ index' = acc.ix
  BY <1>1
<1>3. Shape(Deleted(ids, n))
  <2>1. n \in Nat
    BY DEF Edits
  <2>2. QED
    BY <2>1, DeletedKeeps DEF Edits
<1>4. /\ refs' \in Seq(Items) /\ Unique(refs') /\ index' \in Int
      /\ shuffledIndexes' \in Seq(Nat) /\ Permutes(shuffledIndexes')
  BY <1>2, <1>3 DEF Shape
<1>5. ws' = ws /\ ws.pc = "idle"
  BY DEF QueueTracksRemoved, Receives
<1>6. ws' \in Hands /\ AddsNew'
  BY <1>5 DEF Edits, AddsNew
<1>7. QED
  BY <1>4, <1>6 DEF Edits, Unique, Permutes

LEMMA SetStateEdits ==
  ASSUME Edits, NEW item, NEW then \in {"idle", "start"}, SetState(item, then)
  PROVE  Edits' /\ index' \in Nat
<1>1. /\ ws.pc = "idle" /\ SetIndex(item) /\ ws' = [ws EXCEPT !.pc = then]
      /\ UNCHANGED <<refs, shuffledIndexes>>
  BY DEF SetState, Receives
<1>2. ws' \in Hands /\ ws'.pc = then
  BY <1>1 DEF Edits, Hands, HandlerPCs
<1>3. AddsNew'
  BY <1>2 DEF AddsNew
<1>4. index' \in Nat
  <2> DEFINE p == PositionOf(refs, item)
  <2>1. p \in 0 .. Len(refs) /\ Len(refs) \in Nat
    BY PositionIs DEF Edits
  <2>2. LET ix == IF p - 1 = -1 THEN index ELSE p - 1 IN ix >= 0 /\ index' = ix
    BY <1>1 DEF SetIndex
  <2> HIDE DEF p
  <2>3. QED
    BY <2>1, <2>2 DEF Edits
<1>5. QED
  BY <1>1, <1>2, <1>3, <1>4 DEF Edits, Unique, Permutes

LEMMA StartEdits ==
  ASSUME Edits, SetStartAt
  PROVE  Edits'
<1>1. UNCHANGED <<refs, shuffledIndexes, index>> /\ HandlerDone
  BY DEF SetStartAt, queueVars
<1>2. QED
  BY <1>1, DoneEdits DEF Edits, Unique, Permutes

LEMMA SnapshotEdits ==
  ASSUME Edits, QueueState
  PROVE  Edits'
<1>1. PICK items \in IF refs = <<>> THEN NewItems ELSE {refs} :
      \E regular \in 0 .. (Len(items) + IF refs = <<>> THEN 0 ELSE 1) :
      \E order \in Orders(regular) : ConsumeQueueState(items, regular, order)
  BY DEF QueueState
<1>2. refs \in Seq(Items) /\ Unique(refs)
  BY DEF Edits
<1>3. items \in Seq(Items) /\ Unique(items)
  BY <1>2, NewItemsAre
<1>4. PICK regular \in 0 .. (Len(items) + IF refs = <<>> THEN 0 ELSE 1) :
          \E order \in Orders(regular) : ConsumeQueueState(items, regular, order)
  BY <1>1
<1>5. regular \in Nat
  BY <1>3
<1> PICK order \in Orders(regular) : ConsumeQueueState(items, regular, order)
  BY <1>4
<1>6. order \in Seq(Nat) /\ Permutes(order)
  <2>1. order = <<>> \/ order \in Shuffles
    BY DEF Orders
  <2>2. CASE order = <<>>
    <3>1. order \in Seq(Nat) /\ Len(order) = 0
      BY <2>2
    <3>2. QED
      BY <3>1 DEF Permutes, Unique
  <2>3. CASE order \in Shuffles
    BY <2>3, PermutesIs, ConstantsOK
  <2>4. QED
    BY <2>1, <2>2, <2>3
<1>7. /\ shuffledIndexes' = order \o Identity(Len(order), regular)
      /\ refs' = items \/ refs' = refs
  BY DEF ConsumeQueueState
<1>8. shuffledIndexes' \in Seq(Nat) /\ Permutes(shuffledIndexes')
  <2>1. /\ order \o Identity(Len(order), regular) \in Seq(Nat)
        /\ Permutes(order \o Identity(Len(order), regular))
    BY <1>5, <1>6, ExtendedPermutes
  <2>2. QED
    BY <1>7, <2>1
<1>9. refs' \in Seq(Items) /\ Unique(refs')
  BY <1>2, <1>3, <1>7
<1>10. ws' = ws /\ ws.pc = "idle" /\ index' = index
  BY DEF QueueState, Receives
<1>11. QED
  BY <1>8, <1>9, <1>10 DEF Edits, AddsNew, Unique, Permutes

LEMMA HandlerEdits ==
  ASSUME Edits, Handler
  PROVE  Edits'
<1>1. CASE QueueTracksAdded \/ QueueTracksInserted
  <2>1. PICK kind \in {"append", "insert"}, after \in Items \cup {None},
             reset \in BOOLEAN : TracksArrive(kind, after, reset)
    <3>1. ToSet(refs) \subseteq Items
      BY DEF Edits, ToSet
    <3>2. Resets \subseteq BOOLEAN
      BY DEF Resets
    <3>3. QED
      BY <1>1, <3>1, <3>2 DEF QueueTracksAdded, QueueTracksInserted
  <2>2. PICK s \in NewItems : ws' = [pc |-> "add", items |-> s, after |-> after]
    BY <2>1 DEF TracksArrive
  <2>3. /\ refs' = refs \/ DropAutoplay
        /\ UNCHANGED <<shuffledIndexes, index>>
    BY <2>1 DEF TracksArrive
  <2>4. QED
    BY <2>2, <2>3, ArrivalEdits
<1>2. CASE AutoplayTracksLoaded
  <2>1. PICK s \in NewItems : ws' = [pc |-> "add", items |-> s, after |-> None]
    BY <1>2 DEF AutoplayTracksLoaded
  <2>2. DropAutoplay /\ UNCHANGED <<shuffledIndexes, index>>
    BY <1>2 DEF AutoplayTracksLoaded
  <2>3. QED
    BY <2>1, <2>2, ArrivalEdits
<1>3. CASE AddTracks
  BY <1>3, AddTracksEdits
<1>4. CASE AddTracksPanics \/ ReorderPanics
  <2>1. UNCHANGED <<refs, shuffledIndexes, index, ws>>
    BY <1>4 DEF AddTracksPanics, ReorderPanics, Panic
  <2>2. QED
    BY <2>1, EditsStay DEF Edits
<1>5. CASE QueueCleared \/ QueueTracksLoaded
  BY <1>5, ClearEdits
<1>6. CASE ClearPreloaded
  BY <1>6, ClearPreloadedEdits
<1>7. CASE QueueTracksRemoved
  BY <1>7, RemovalEdits
<1>8. CASE \E item \in Items, then \in {"idle", "start"} : SetState(item, then)
  BY <1>8, SetStateEdits
<1>9. CASE SetStartAt
  BY <1>9, StartEdits
<1>10. CASE QueueState
  BY <1>10, SnapshotEdits
<1>11. QED
  BY <1>1, <1>2, <1>3, <1>4, <1>5, <1>6, <1>7, <1>8, <1>9, <1>10 DEF Handler

THEOREM QueueIsEdited == Spec => []Edits
<1>1. ASSUME Edits, [Next]_vars
      PROVE  Edits'
  <2>1. CASE Loader
    BY <1>1, <2>1, LoaderEdits, EditsStay DEF Edits
  <2>2. CASE Consumer
    <3>1. index \in Int
      BY <1>1 DEF Edits
    <3>2. QED
      BY <1>1, <2>2, <3>1, ConsumerEdits, EditsStay
  <2>3. CASE Handler
    BY <1>1, <2>3, HandlerEdits
  <2>4. CASE UNCHANGED vars
    BY <1>1, <2>4, EditsStay DEF vars, Edits
  <2>5. QED
    BY <1>1, <2>1, <2>2, <2>3, <2>4 DEF Next
<1>2. QED
  BY <1>1, EditsStart, PTL DEF Spec

\* Appends, insertions, removals and snapshots keep the shuffle a permutation.
THEOREM ShuffleStaysPermutation == Spec => []ShuffleIsPermutation
<1>1. Edits => ShuffleIsPermutation
  BY PermutesIs DEF Edits, ShuffleIsPermutation
<1>2. QED
  BY <1>1, QueueIsEdited, PTL

\* No edit puts an item into the queue twice.
THEOREM ItemsStayUnique == Spec => []ItemsUnique
<1>1. Edits => ItemsUnique
  BY UniqueIs DEF Edits, ItemsUnique
<1>2. QED
  BY <1>1, QueueIsEdited, PTL

\* A position of refs is played at one play position, and no two are at the same.
LEMMA PlaysOnce ==
  ASSUME Edits, NEW p \in 1 .. Len(refs)
  PROVE  \E i \in 0 .. (Len(refs) + Len(shuffledIndexes)) :
            /\ PlayPos(shuffledIndexes, i) = p - 1
            /\ \A j \in 0 .. (Len(refs) + Len(shuffledIndexes)) :
                  PlayPos(shuffledIndexes, j) = p - 1 => j = i
<1> DEFINE sh == shuffledIndexes
           n == Len(sh)
           Places == 0 .. (Len(refs) + n)
           P(i) == PlayPos(sh, i)
<1>1. n \in Nat /\ Len(refs) \in Nat
  BY DEF Edits
<1>2. \A k \in 1 .. n : sh[k] \in Nat /\ sh[k] < n
  BY DEF Edits, Permutes
<1>3. \A v \in 0 .. (n - 1) : \E k \in 1 .. n : sh[k] = v
  BY DEF Edits, Permutes
<1>4. \A k, l \in 1 .. n : sh[k] = sh[l] => k = l
  BY DEF Edits, Permutes, Unique
<1>5. ASSUME NEW k \in 1 .. n PROVE P(k - 1) = sh[k]
  <2>1. k - 1 < n /\ (k - 1) + 1 = k
    BY <1>1
  <2>2. QED
    BY <2>1 DEF PlayPos
<1>6. ASSUME NEW i \in Places, ~(i < n) PROVE P(i) = i
  BY <1>6 DEF PlayPos
<1> HIDE DEF P, n, sh
<1>7. ASSUME NEW i \in Places, i < n
      PROVE  \E k \in 1 .. n : i = k - 1 /\ P(i) = sh[k]
  <2>1. i + 1 \in 1 .. n /\ i = (i + 1) - 1
    BY <1>1, <1>7
  <2>2. P((i + 1) - 1) = sh[i + 1]
    BY <1>5, <2>1
  <2>3. P(i) = sh[i + 1]
    BY <2>1, <2>2, Zenon
  <2>4. QED
    BY <2>1, <2>3
<1>8. \E i \in Places : P(i) = p - 1 /\ \A j \in Places : P(j) = p - 1 => j = i
  <2>1. CASE p - 1 < n
    <3>1. p - 1 \in 0 .. (n - 1)
      BY <1>1, <2>1
    <3>2. PICK k \in 1 .. n : sh[k] = p - 1
      BY <1>3, <3>1
    <3>3. k - 1 \in Places /\ P(k - 1) = p - 1
      BY <1>1, <1>5, <3>2
    <3>4. ASSUME NEW j \in Places, P(j) = p - 1
          PROVE  j = k - 1
      <4>1. CASE j < n
        <5>1. PICK l \in 1 .. n : j = l - 1 /\ P(j) = sh[l]
          BY <1>7, <4>1
        <5>2. l = k
          BY <1>4, <3>2, <3>4, <5>1
        <5>3. QED
          BY <5>1, <5>2
      <4>2. CASE ~(j < n)
        <5>1. j = p - 1
          BY <1>6, <3>4, <4>2
        <5>2. QED
          BY <2>1, <4>2, <5>1
      <4>3. QED
        BY <4>1, <4>2
    <3>5. QED
      BY <3>3, <3>4
  <2>2. CASE ~(p - 1 < n)
    <3>1. p - 1 \in Places
      BY <1>1
    <3>2. P(p - 1) = p - 1
      BY <1>6, <2>2, <3>1
    <3>3. ASSUME NEW j \in Places, P(j) = p - 1
          PROVE  j = p - 1
      <4>1. CASE j < n
        <5>1. PICK l \in 1 .. n : P(j) = sh[l]
          BY <1>7, <4>1
        <5>2. p - 1 < n
          BY <1>2, <3>3, <5>1
        <5>3. QED
          BY <2>2, <5>2
      <4>2. CASE ~(j < n)
        BY <1>6, <3>3, <4>2
      <4>3. QED
        BY <4>1, <4>2
    <3>4. QED
      BY <3>1, <3>2, <3>3
  <2>3. QED
    BY <2>1, <2>2
<1>9. QED
  BY <1>8 DEF P, n, sh

\* Edits leave a play order that comes to each item of the queue once.
THEOREM EveryItemPlaysOnce == Spec => []PlaysEachOnce
<1>1. ASSUME Edits PROVE PlaysEachOnce
  <2> DEFINE Places == 0 .. (Len(refs) + Len(shuffledIndexes))
             Plays(i, item) == /\ InQueue(refs, shuffledIndexes, i)
                               /\ ItemAt(refs, shuffledIndexes, i) = item
  <2>1. /\ refs \in Seq(Items) /\ shuffledIndexes \in Seq(Nat)
        /\ Len(refs) \in Nat /\ Len(shuffledIndexes) \in Nat
        /\ \A i, j \in 1 .. Len(refs) : refs[i] = refs[j] => i = j
    BY <1>1 DEF Edits, Unique
  <2>2. ASSUME NEW item \in ToSet(refs)
        PROVE  \E i \in Places :
                  Plays(i, item) /\ \A j \in Places : Plays(j, item) => j = i
    <3>1. PICK p \in 1 .. Len(refs) : refs[p] = item
      BY <2>1, <2>2 DEF ToSet
    <3>2. PICK i \in Places : /\ PlayPos(shuffledIndexes, i) = p - 1
                              /\ \A j \in Places :
                                    PlayPos(shuffledIndexes, j) = p - 1 => j = i
      BY <1>1, PlaysOnce
    <3>3. Plays(i, item)
      BY <2>1, <3>1, <3>2 DEF InQueue, ItemAt
    <3>4. ASSUME NEW j \in Places, Plays(j, item)
          PROVE  j = i
      <4>1. PlayPos(shuffledIndexes, j) \in Nat
        <5>1. j < Len(shuffledIndexes) => j + 1 \in 1 .. Len(shuffledIndexes)
          BY <2>1
        <5>2. \A k \in 1 .. Len(shuffledIndexes) : shuffledIndexes[k] \in Nat
          BY <2>1
        <5>3. QED
          BY <2>1, <5>1, <5>2 DEF PlayPos
      <4>2. /\ PlayPos(shuffledIndexes, j) + 1 \in 1 .. Len(refs)
            /\ refs[PlayPos(shuffledIndexes, j) + 1] = refs[p]
        BY <2>1, <3>1, <3>4, <4>1 DEF InQueue, ItemAt
      <4>3. PlayPos(shuffledIndexes, j) + 1 = p
        BY <2>1, <4>2
      <4>4. PlayPos(shuffledIndexes, j) = p - 1
        BY <4>1, <4>3
      <4>5. QED
        BY <3>2, <4>4
    <3>5. QED
      BY <3>3, <3>4
  <2>3. QED
    BY <2>2 DEF PlaysEachOnce
<1>2. QED
  BY <1>1, QueueIsEdited, PTL

-----------------------------------------------------------------------------
(* The cursor, while nothing is removed *)

\* While nothing is removed, the cursor is a position.
Contained == index \in Nat /\ preloaded \in Seq(Slots) /\ ~panicked

\* What reorderPreloaded leaves is preloaded, whatever the order.
LEMMA ReorderedTyped ==
  ASSUME NEW rf, NEW sh, NEW ix, NEW pre \in Seq(Slots), NEW heap
  PROVE  Reordered(rf, sh, ix, pre, heap) \in Seq(Slots)
<1> DEFINE items == [k \in 1 .. Len(pre) |-> heap[pre[k]].item]
           D == {heap[pre[k]].item : k \in 1 .. Len(pre)}
           Match(i) == PositionOf(items, ItemAt(rf, sh, ix + i))
           Kept(m) == \A i \in 0 .. (m - 1) : InQueue(rf, sh, ix + i) /\ Match(i) # 0
           S == {m \in 0 .. (Len(pre) + 1) : Kept(m)}
           n == Max(S)
<1>1. Reordered(rf, sh, ix, pre, heap) = [k \in 1 .. n |-> pre[Match(k - 1)]]
  BY DEF Reordered
<1>2. Len(pre) \in Nat
  OBVIOUS
<1>3. items \in Seq(D) /\ Len(items) = Len(pre)
  <2>1. \A k \in 1 .. Len(pre) : heap[pre[k]].item \in D
    OBVIOUS
  <2> HIDE DEF D
  <2>2. items \in [1 .. Len(pre) -> D]
    BY <2>1
  <2> HIDE DEF items
  <2>3. QED
    BY <1>2, <2>2
<1> HIDE DEF D, items
<1>4. \A i : Match(i) \in 0 .. Len(pre)
  BY <1>3, PositionIs
<1> HIDE DEF Match
<1>5. n \in 0 .. Len(pre) + 1 /\ n \in S
  <2>1. S \in SUBSET (0 .. Len(pre) + 1) /\ 0 \in S
    BY <1>2
  <2>2. S # {} /\ 0 \in Int /\ Len(pre) + 1 \in Int
    BY <1>2, <2>1
  <2> HIDE DEF S
  <2>3. QED
    BY <2>1, <2>2, GreatestIsNat
<1>6. Kept(n)
  BY <1>5
<1> HIDE DEF n
<1>7. n \in Nat
  BY <1>5
<1>8. \A k \in 1 .. n : pre[Match(k - 1)] \in Slots
  <2>1. ASSUME NEW k \in 1 .. n PROVE Match(k - 1) \in 1 .. Len(pre)
    <3>1. k - 1 \in 0 .. (n - 1)
      BY <1>7
    <3>2. Match(k - 1) # 0 /\ Match(k - 1) \in 0 .. Len(pre)
      BY <1>4, <1>6, <3>1
    <3>3. QED
      BY <1>2, <3>2
  <2>2. QED
    BY <2>1
<1>9. [k \in 1 .. n |-> pre[Match(k - 1)]] \in Seq(Slots)
  BY <1>7, <1>8
<1>10. QED
  BY <1>1, <1>9

LEMMA FilledTyped ==
  ASSUME preloaded \in Seq(Slots)
  PROVE  Filled - Len(preloaded) \in Nat
<1> DEFINE l == Len(preloaded)
           top == Max({Preload, l})
           S == {n \in l .. top :
                    \A k \in l .. (n - 1) : InQueue(refs, shuffledIndexes, index + k)}
<1>1. l \in Nat
  OBVIOUS
<1>2. top \in Nat /\ l =< top
  <2>1. {Preload, l} \in SUBSET (0 .. (Preload + l)) /\ {Preload, l} # {}
    BY <1>1 DEF Preload
  <2>2. 0 \in Int /\ Preload + l \in Int
    BY <1>1 DEF Preload
  <2> HIDE DEF l
  <2>3. Max({Preload, l}) \in {Preload, l} /\ \A y \in {Preload, l} : y =< Max({Preload, l})
    BY <2>1, <2>2, GreatestIs
  <2>4. QED
    BY <1>1, <2>3 DEF Preload
<1>3. Filled = Max(S)
  BY DEF Filled
<1> HIDE DEF l, top
<1>4. l \in S /\ S \in SUBSET (l .. top)
  BY <1>1, <1>2
<1>5. Max(S) \in l .. top
  <2> HIDE DEF S
  <2>1. S # {} /\ l \in Int /\ top \in Int
    BY <1>1, <1>2, <1>4
  <2>2. QED
    BY <1>4, <2>1, GreatestIsNat
<1>6. QED
  BY <1>1, <1>3, <1>5 DEF l

LEMMA LoaderContained ==
  ASSUME Contained, Loader
  PROVE  Contained'
<1>1. index \in Nat /\ preloaded \in Seq(Slots) /\ Len(preloaded) \in Nat /\ ~panicked
  BY DEF Contained
<1>2. ~LoaderFillPanics
  BY <1>1 DEF LoaderFillPanics
<1>3. index' = index
  BY LoaderEdits
<1>4. panicked' = panicked
  BY <1>2 DEF Loader, LoaderTop, LoaderWake, LoaderFill, LoaderAsks, LoaderGivesUp,
     LoaderMarksAsked, LoaderCopies, LoaderFetchesMetadata, LoaderFetchesFileURL,
     LoaderSkips, LoaderRests
<1>5. CASE LoaderFill
  <2>1. PICK new \in Fresh(Filled - Len(preloaded)) : preloaded' = preloaded \o new
    BY <1>5 DEF LoaderFill
  <2>2. new \in Seq(Slots)
    BY <1>1, FilledTyped, FreshIs
  <2>3. preloaded' \in Seq(Slots)
    BY <1>1, <2>1, <2>2
  <2>4. QED
    BY <1>1, <1>3, <1>4, <2>3 DEF Contained
<1>6. CASE ~LoaderFill
  <2>1. preloaded' = preloaded
    BY <1>2, <1>6 DEF Loader, LoaderTop, LoaderWake, LoaderAsks, LoaderGivesUp,
       LoaderMarksAsked, LoaderCopies, LoaderFetchesMetadata, LoaderFetchesFileURL,
       LoaderSkips, LoaderRests, preVars
  <2>2. QED
    BY <1>1, <1>3, <1>4, <2>1 DEF Contained
<1>7. QED
  BY <1>5, <1>6

LEMMA ConsumerContained ==
  ASSUME Contained, Consumer
  PROVE  Contained'
<1>1. index' \in Nat
  <2>1. index' = index \/ index' = index + 1
    BY ConsumerEdits
  <2>2. QED
    BY <2>1 DEF Contained
<1>2. panicked' = panicked
  BY DEF Consumer, Consume, SessionStarts, SessionIsStopped, ConsumeBegins, ConsumePops,
     ConsumeEnds, ConsumeReturns, ConsumeSleeps
<1>3. preloaded' \in Seq(Slots)
  <2>1. CASE ConsumePops
    <3> DEFINE i == PositionOf(preloaded, consumer.prev)
    <3>1. preloaded' = IF i = 0 THEN preloaded ELSE RemoveAt(preloaded, i)
      BY <2>1 DEF ConsumePops
    <3>2. i \in 0 .. Len(preloaded) /\ Len(preloaded) \in Nat
      BY PositionIs DEF Contained
    <3> HIDE DEF i
    <3>3. i # 0 => RemoveAt(preloaded, i) \in Seq(Slots)
      BY <3>2, RemovedIs DEF Contained
    <3>4. QED
      BY <3>1, <3>3 DEF Contained
  <2>2. CASE ~ConsumePops
    <3>1. preloaded' = preloaded
      BY <2>2 DEF Consumer, Consume, SessionStarts, SessionIsStopped, ConsumeBegins,
         ConsumeEnds, ConsumeReturns, ConsumeSleeps, preVars
    <3>2. QED
      BY <3>1 DEF Contained
  <2>3. QED
    BY <2>1, <2>2
<1>4. QED
  BY <1>1, <1>2, <1>3 DEF Contained

LEMMA HandlerContained ==
  ASSUME Edits, Contained, "remove" \notin Messages, Handler
  PROVE  Contained'
<1>1. ~AddTracksPanics /\ ~ReorderPanics /\ ~QueueTracksRemoved
  BY DEF Contained, AddTracksPanics, ReorderPanics, QueueTracksRemoved, Receives
<1>2. CASE QueueTracksAdded \/ QueueTracksInserted \/ AutoplayTracksLoaded \/ AddTracks
           \/ SetStartAt
  <2>1. UNCHANGED <<index, preloaded, panicked>>
    BY <1>2 DEF QueueTracksAdded, QueueTracksInserted, TracksArrive,
       AutoplayTracksLoaded, AddTracks, AppendTracks, InsertTracks, Added, SetStartAt,
       queueVars, preVars
  <2>2. QED
    BY <2>1 DEF Contained
<1>3. CASE QueueCleared \/ QueueTracksLoaded
  <2>1. index' = 0 /\ UNCHANGED <<preloaded, panicked>>
    BY <1>3 DEF QueueCleared, QueueTracksLoaded, ClearRefs, preVars
  <2>2. QED
    BY <2>1 DEF Contained
<1>4. CASE ClearPreloaded
  <2>1. preloaded' = <<>> /\ UNCHANGED <<index, panicked>>
    BY <1>4 DEF ClearPreloaded, queueVars
  <2>2. preloaded' \in Seq(Slots)
    BY <2>1
  <2>3. QED
    BY <2>1, <2>2 DEF Contained
<1>5. ASSUME NEW item, NEW then \in {"idle", "start"}, SetState(item, then)
      PROVE  Contained'
  <2>1. index' \in Nat /\ panicked' = panicked
    BY <1>5, SetStateEdits DEF SetState
  <2>2. PICK ix : preloaded' = Reordered(refs, shuffledIndexes, ix, preloaded, tracks)
    BY <1>5 DEF SetState, SetIndex
  <2>3. preloaded' \in Seq(Slots)
    BY <2>2, ReorderedTyped DEF Contained
  <2>4. QED
    BY <2>1, <2>3 DEF Contained
<1>6. CASE QueueState
  <2>1. UNCHANGED <<index, panicked>>
    BY <1>6 DEF QueueState
  <2>2. \/ preloaded' = <<>>
        \/ preloaded' = Reordered(refs, shuffledIndexes', index, preloaded, tracks)
    BY <1>6 DEF QueueState, ConsumeQueueState
  <2>3. preloaded' \in Seq(Slots)
    <3>1. preloaded \in Seq(Slots) /\ <<>> \in Seq(Slots)
      BY DEF Contained
    <3>2. \A sh : Reordered(refs, sh, index, preloaded, tracks) \in Seq(Slots)
      BY <3>1, ReorderedTyped
    <3>3. QED
      BY <2>2, <3>1, <3>2
  <2>4. QED
    BY <2>1, <2>3 DEF Contained
<1>7. QED
  BY <1>1, <1>2, <1>3, <1>4, <1>5, <1>6 DEF Handler

\* Unless a track is removed (queue.go:637), no goroutine indexes a slice out
\* of range, whatever else the server sends.
THEOREM OnlyRemovalsPanic ==
  ASSUME "remove" \notin Messages
  PROVE  Spec => []NoPanic
<1>1. Init => Contained
  BY DEF Init, Contained
<1>2. Edits /\ Contained /\ [Next]_vars => Contained'
  BY LoaderContained, ConsumerContained, HandlerContained DEF Next, vars, Contained
<1>3. Contained => NoPanic
  BY DEF Contained, NoPanic
<1>4. QED
  BY QueueIsEdited, <1>1, <1>2, <1>3, PTL DEF Spec
=============================================================================
