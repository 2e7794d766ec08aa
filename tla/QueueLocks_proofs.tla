-------------------------- MODULE QueueLocks_proofs --------------------------
(***************************************************************************)
(* Proofs about QueueLocks, for any number of handlers: the guarded fields *)
(* are free of data races, and only ConsumeTrack's nested section can      *)
(* block every goroutine.                                                  *)
(***************************************************************************)
EXTENDS QueueLocks, TLAPS

\* The mutex that guards a field.
Guard(v) == IF v \in {"preloaded", "pendingStartMs"} THEN "preloadedMu" ELSE "mu"

\* What the table of sections promises about one section of g.
Sound(g, s) ==
    /\ s.outer \in Locks
    /\ s.inner \in Locks \cup {"none"}
    /\ s.inner # s.outer
    /\ \A v \in s.fields : Guard(v) = s.outer
    /\ \A v \in s.nested : Guard(v) \in {s.outer, s.inner}
    /\ s.outer = "preloadedMu" /\ s.inner # "none" => g = Consumer /\ s = Pop

\* A mutex a goroutine holds, given where it is in its section.
HasOuter(g) == phase[g] \in {"inOuter", "wantInner", "inInner"}
HasInner(g) == phase[g] = "inInner"

\* The inductive invariant: holder and the phases tell the same story.
InSection ==
    \A g \in Goroutines : phase[g] # "idle" => section[g] \in SectionsOf(g)
HoldersAgree ==
    \A g \in Goroutines :
        /\ HasOuter(g) => holder[section[g].outer] = g
        /\ HasInner(g) => holder[section[g].inner] = g
        /\ phase[g] \in {"wantInner", "inInner"} => section[g].inner # "none"
HeldByOne ==
    \A l \in Locks : \A g \in Goroutines :
        holder[l] = g => \/ HasOuter(g) /\ section[g].outer = l
                         \/ HasInner(g) /\ section[g].inner = l
IInv == TypeOK /\ InSection /\ HoldersAgree /\ HeldByOne

\* Every section takes the mutexes its fields need, and only Pop takes mu
\* inside preloadedMu.
LEMMA SectionsSound ==
    ASSUME NEW g \in Goroutines, NEW s \in SectionsOf(g)
    PROVE  Sound(g, s)
<1>1. CASE g = Loader
  <2>1. s \in LoaderSections
    BY <1>1 DEF SectionsOf
  <2> QED
    BY <2>1 DEF LoaderSections, Plain, Nested, Sound, Guard, Locks
<1>2. CASE g = Consumer
  <2>1. s \in ConsumerSections
    BY <1>2, GoroutinesDistinct DEF SectionsOf
  <2> QED
    BY <2>1, <1>2 DEF ConsumerSections, Pop, Plain, Nested, Sound, Guard, Locks
<1>3. CASE g # Loader /\ g # Consumer
  <2>1. s \in HandlerSections
    BY <1>3 DEF SectionsOf
  <2> QED
    BY <2>1 DEF HandlerSections, Plain, Nested, Sound, Guard, Locks
<1> QED
  BY <1>1, <1>2, <1>3

\* The sections of a goroutine are among those TypeOK lists.
LEMMA SectionsTyped ==
    ASSUME NEW g \in Goroutines
    PROVE  SectionsOf(g) \subseteq LoaderSections \cup ConsumerSections
                                       \cup HandlerSections \cup {Idle}
BY DEF SectionsOf

LEMMA InitInductive == Init => IInv
BY GoroutinesDistinct
   DEF Init, IInv, TypeOK, InSection, HoldersAgree, HeldByOne, HasOuter, HasInner,
       Phases, Goroutines

\* Every step of a goroutine preserves the inductive invariant.
LEMMA NextInductive == IInv /\ [Next]_vars => IInv'
<1> SUFFICES ASSUME IInv, [Next]_vars
             PROVE  IInv'
  OBVIOUS
<1> USE DEF IInv, TypeOK, Phases
<1>n. NoOne \notin Goroutines
  BY GoroutinesDistinct DEF Goroutines
<1>s. ASSUME NEW g \in Goroutines, phase[g] # "idle"
      PROVE  Sound(g, section[g])
  BY <1>s, SectionsSound DEF InSection
<1>1. ASSUME NEW g \in Goroutines, Begin(g)
      PROVE  IInv'
  <2>1. PICK s \in SectionsOf(g) : section' = [section EXCEPT ![g] = s]
    BY <1>1 DEF Begin
  <2>2. /\ phase[g] = "idle" /\ phase' = [phase EXCEPT ![g] = "wantOuter"]
        /\ holder' = holder
    BY <1>1 DEF Begin, Moves
  <2>3. TypeOK'
    BY <2>1, <2>2, SectionsTyped
  <2>4. InSection'
    BY <2>1, <2>2 DEF InSection
  <2>5. HoldersAgree'
    BY <2>1, <2>2 DEF HoldersAgree, HasOuter, HasInner
  <2>6. HeldByOne'
    BY <2>1, <2>2 DEF HeldByOne, HasOuter, HasInner
  <2> QED
    BY <2>3, <2>4, <2>5, <2>6
<1>2. ASSUME NEW g \in Goroutines, LockOuter(g)
      PROVE  IInv'
  <2> DEFINE l == section[g].outer
  <2>1. /\ phase[g] = "wantOuter" /\ phase' = [phase EXCEPT ![g] = "inOuter"]
        /\ holder[l] = NoOne /\ holder' = [holder EXCEPT ![l] = g]
        /\ section' = section
    BY <1>2 DEF LockOuter, Moves, Takes
  <2>2. l \in Locks
    BY <2>1, <1>s DEF Sound
  <2>3. TypeOK'
    BY <2>1, <2>2
  <2>4. InSection'
    BY <2>1 DEF InSection
  <2>5. HoldersAgree'
    BY <2>1, <2>2, <1>n DEF HoldersAgree, HasOuter, HasInner
  <2>6. HeldByOne'
    BY <2>1, <2>2 DEF HeldByOne, HasOuter, HasInner
  <2> QED
    BY <2>3, <2>4, <2>5, <2>6
<1>3. ASSUME NEW g \in Goroutines, WantInner(g)
      PROVE  IInv'
  <2>1. /\ phase[g] = "inOuter" /\ phase' = [phase EXCEPT ![g] = "wantInner"]
        /\ section[g].inner # "none" /\ section' = section /\ holder' = holder
    BY <1>3 DEF WantInner, Moves
  <2>2. InSection'
    BY <2>1 DEF InSection
  <2>3. HoldersAgree'
    BY <2>1 DEF HoldersAgree, HasOuter, HasInner
  <2>4. HeldByOne'
    BY <2>1 DEF HeldByOne, HasOuter, HasInner
  <2> QED
    BY <2>1, <2>2, <2>3, <2>4
<1>4. ASSUME NEW g \in Goroutines, LockInner(g)
      PROVE  IInv'
  <2> DEFINE l == section[g].inner
  <2>1. /\ phase[g] = "wantInner" /\ phase' = [phase EXCEPT ![g] = "inInner"]
        /\ holder[l] = NoOne /\ holder' = [holder EXCEPT ![l] = g]
        /\ section' = section
    BY <1>4 DEF LockInner, Moves, Takes
  <2>2. l \in Locks
    BY <2>1, <1>s DEF Sound, HoldersAgree
  <2>3. TypeOK'
    BY <2>1, <2>2
  <2>4. InSection'
    BY <2>1 DEF InSection
  <2>5. HoldersAgree'
    BY <2>1, <2>2, <1>n DEF HoldersAgree, HasOuter, HasInner
  <2>6. HeldByOne'
    BY <2>1, <2>2 DEF HeldByOne, HasOuter, HasInner
  <2> QED
    BY <2>3, <2>4, <2>5, <2>6
<1>5. ASSUME NEW g \in Goroutines, UnlockInner(g)
      PROVE  IInv'
  <2> DEFINE l == section[g].inner
  <2>1. /\ phase[g] = "inInner" /\ phase' = [phase EXCEPT ![g] = "inOuter"]
        /\ holder' = [holder EXCEPT ![l] = NoOne]
        /\ section' = section
    BY <1>5 DEF UnlockInner, Moves, Gives
  <2>2. l \in Locks /\ l # section[g].outer /\ holder[l] = g
    BY <2>1, <1>s DEF Sound, HoldersAgree, HasInner
  <2>3. TypeOK'
    BY <2>1, <2>2
  <2>4. InSection'
    BY <2>1 DEF InSection
  <2>5. HoldersAgree'
    BY <2>1, <2>2 DEF HoldersAgree, HasOuter, HasInner
  <2>6. HeldByOne'
    BY <2>1, <2>2, <1>n DEF HeldByOne, HasOuter, HasInner
  <2> QED
    BY <2>3, <2>4, <2>5, <2>6
<1>6. ASSUME NEW g \in Goroutines, UnlockOuter(g)
      PROVE  IInv'
  <2> DEFINE l == section[g].outer
  <2>1. /\ phase[g] = "inOuter" /\ phase' = [phase EXCEPT ![g] = "idle"]
        /\ holder' = [holder EXCEPT ![l] = NoOne]
        /\ section' = [section EXCEPT ![g] = Idle]
    BY <1>6 DEF UnlockOuter, Moves, Gives
  <2>2. l \in Locks /\ holder[l] = g
    BY <2>1, <1>s DEF Sound, HoldersAgree, HasOuter
  <2>3. TypeOK'
    BY <2>1, <2>2
  <2>4. InSection'
    BY <2>1 DEF InSection
  <2>5. HoldersAgree'
    BY <2>1, <2>2 DEF HoldersAgree, HasOuter, HasInner
  <2>6. HeldByOne'
    BY <2>1, <2>2, <1>n DEF HeldByOne, HasOuter, HasInner
  <2> QED
    BY <2>3, <2>4, <2>5, <2>6
<1>7. CASE UNCHANGED vars
  BY <1>7 DEF vars, InSection, HoldersAgree, HeldByOne, HasOuter, HasInner
<1> QED
  BY <1>1, <1>2, <1>3, <1>4, <1>5, <1>6, <1>7 DEF Next, Step

\* The inductive invariant: each goroutine holds exactly the mutexes its place in
\* its section says, and no mutex has two owners.
THEOREM Invariance == Spec => []IInv
BY InitInductive, NextInductive, PTL DEF Spec

\* Two goroutines that touch one field both hold the field's mutex.
LEMMA RaceFree == IInv => NoDataRace
<1> SUFFICES ASSUME IInv,
                    NEW g \in Goroutines, NEW h \in Goroutines,
                    NEW v \in Touches(g) \cap Touches(h)
             PROVE  g = h
  BY DEF NoDataRace
<1>1. ASSUME NEW k \in Goroutines, v \in Touches(k)
      PROVE  holder[Guard(v)] = k
  <2>1. phase[k] \in {"inOuter", "inInner"}
    BY <1>1 DEF Touches
  <2>2. Sound(k, section[k])
    BY <2>1, SectionsSound DEF IInv, InSection
  <2>3. CASE phase[k] = "inOuter"
    BY <1>1, <2>2, <2>3 DEF Touches, Sound, IInv, HoldersAgree, HasOuter
  <2>4. CASE phase[k] = "inInner"
    BY <1>1, <2>2, <2>4 DEF Touches, Sound, IInv, HoldersAgree, HasOuter, HasInner
  <2> QED
    BY <2>1, <2>3, <2>4
<1> QED
  BY <1>1

\* refs, shuffledIndexes, index, preloaded and pendingStartMs are never touched
\* by two goroutines at once, for any number of handlers.
THEOREM DataRaceFreedom == Spec => []NoDataRace
BY Invariance, RaceFree, PTL

\* If no goroutine can go on, the holder of preloadedMu is waiting for mu, and
\* only ConsumeTrack takes the mutexes in that order.
LEMMA BlockingOrder == IInv => OnlyPopBlocks
<1> SUFFICES ASSUME IInv, ~PopWaits,
                    NEW g \in Goroutines, phase[g] # "idle",
                    \A h \in Goroutines : ~CanMove(h)
             PROVE  FALSE
  BY DEF OnlyPopBlocks
<1> USE DEF IInv, TypeOK
<1>1. ASSUME NEW h \in Goroutines, phase[h] # "idle"
      PROVE  /\ Sound(h, section[h])
             /\ \/ phase[h] = "wantOuter" /\ holder[section[h].outer] # NoOne
                \/ phase[h] = "wantInner" /\ holder[section[h].inner] # NoOne
                   /\ section[h].inner # "none"
  <2>1. Sound(h, section[h])
    BY <1>1, SectionsSound DEF InSection
  <2>2. phase[h] \in {"wantOuter", "wantInner"}
    BY <1>1 DEF CanMove, Phases
  <2> QED
    BY <2>1, <2>2 DEF CanMove, HoldersAgree
<1>2. ASSUME NEW l \in Locks, holder[l] # NoOne
      PROVE  holder[l] \in Goroutines /\ phase[holder[l]] = "wantInner"
                 /\ section[holder[l]].outer = l
  <2>1. holder[l] \in Goroutines
    BY <1>2
  <2>2. phase[holder[l]] # "inInner"
    BY <2>1 DEF CanMove
  <2>3. HasOuter(holder[l]) /\ section[holder[l]].outer = l
    BY <2>1, <2>2 DEF HeldByOne, HasInner
  <2> QED
    BY <2>1, <2>3 DEF HasOuter, CanMove
<1>3. holder["preloadedMu"] = NoOne
  <2> SUFFICES ASSUME holder["preloadedMu"] # NoOne
               PROVE  FALSE
    OBVIOUS
  <2> DEFINE h == holder["preloadedMu"]
  <2>1. h \in Goroutines /\ phase[h] = "wantInner"
            /\ section[h].outer = "preloadedMu"
    BY <1>2 DEF Locks
  <2>2. h = Consumer /\ section[h] = Pop
    BY <2>1, <1>1 DEF Sound
  <2> QED
    BY <2>1, <2>2 DEF PopWaits
<1>4. holder["mu"] = NoOne
  <2> SUFFICES ASSUME holder["mu"] # NoOne
               PROVE  FALSE
    OBVIOUS
  <2> DEFINE h == holder["mu"]
  <2>1. h \in Goroutines /\ phase[h] = "wantInner" /\ section[h].outer = "mu"
    BY <1>2 DEF Locks
  <2>2. section[h].inner = "preloadedMu" /\ holder["preloadedMu"] # NoOne
    BY <2>1, <1>1 DEF Sound, Locks
  <2> QED
    BY <2>2, <1>3
<1> QED
  BY <1>1, <1>3, <1>4 DEF Sound, Locks

\* With any number of handlers, whenever some goroutine is in a section either
\* one can go on or ConsumeTrack waits for mu holding preloadedMu.
THEOREM OnlyPopDeadlocks == Spec => []OnlyPopBlocks
BY Invariance, BlockingOrder, PTL
=============================================================================
