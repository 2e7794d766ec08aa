----------------------------- MODULE QueueLocks -----------------------------
(***************************************************************************)
(* The locking of queue.go: every critical section of the loader           *)
(* (Queue.Run), of the consumer (ConsumeTrack) and of the message handler, *)
(* with the mutexes it takes, their nesting, and the fields it touches.    *)
(* What a section computes is the subject of TrackQueue.                   *)
(* fetchedAutoplay and expandedCache are not in the tables: the code reads *)
(* or writes each of them under one mutex here, the other one (or none)    *)
(* there, so no claim about them would hold.                               *)
(* A reconnecting WebSocket may have two read goroutines inside the        *)
(* handler at once, hence a set of handlers.                               *)
(***************************************************************************)
EXTENDS FiniteSets

CONSTANTS
    Loader, Consumer, \* the goroutines of Queue.Run and of the player's loop
    Handlers,         \* the goroutines inside the message handler
    NoOne             \* the holder of a free mutex

ASSUME GoroutinesDistinct ==
    /\ Loader # Consumer /\ Loader \notin Handlers /\ Consumer \notin Handlers
    /\ NoOne \notin Handlers \cup {Loader, Consumer}

Goroutines == Handlers \cup {Loader, Consumer}
Locks == {"mu", "preloadedMu"}

-----------------------------------------------------------------------------
(* The sections: the first lock taken, the second one taken inside it if    *)
(* any, and the fields touched under the first and under the second.        *)

Plain(lock, fields) ==
    [outer |-> lock, inner |-> "none", fields |-> fields, nested |-> {}]
Nested(outer, fields, inner, nested) ==
    [outer |-> outer, inner |-> inner, fields |-> fields, nested |-> nested]

\* A bug: the fill section takes its mutexes the other way round.
LoaderSectionsSwapped ==
    {Plain("mu", {"refs"}),
     Nested("preloadedMu", {"preloaded", "pendingStartMs"}, "mu",
            {"refs", "shuffledIndexes", "index"}),
     Plain("preloadedMu", {"preloaded"}), Plain("preloadedMu", {})}

LoaderSections ==
    {Plain("mu", {"refs"}),                                 \* hasRefs
     Nested("mu", {}, "preloadedMu",                        \* fill
            {"refs", "shuffledIndexes", "index", "preloaded", "pendingStartMs"}),
     Plain("preloadedMu", {"preloaded"}),                   \* copy, suggestions
     Plain("preloadedMu", {})}                              \* fetchedAutoplay

\* A bug: the increment without its mutex.
PopUnguarded == Plain("preloadedMu", {"preloaded", "index"})

\* ConsumeTrack increments index inside its walk over preloaded.
Pop == Nested("preloadedMu", {"preloaded"}, "mu", {"index"})

ConsumerSections ==
    {Plain("mu", {"refs"}),                                 \* empty?
     Pop,
     Plain("mu", {"refs", "index"})}                        \* at the end?

HandlerSections ==
    {Nested("mu", {"refs", "shuffledIndexes", "index"},     \* AddTracks
            "preloadedMu", {"preloaded", "index"}),
     Plain("mu", {"refs", "shuffledIndexes", "index"}),     \* DeleteAll, 1st part
     Plain("preloadedMu", {"preloaded", "pendingStartMs"}), \* 2nd part, SetStartAt
     Nested("mu", {}, "preloadedMu",                        \* DeleteAutoplayTracks
            {"refs", "shuffledIndexes"}),
     Nested("mu", {}, "preloadedMu",                        \* Delete..ByQueueItemID
            {"refs", "shuffledIndexes", "index", "preloaded"}),
     Nested("mu", {"refs", "shuffledIndexes"},              \* ConsumeQueueState
            "preloadedMu", {"refs", "shuffledIndexes", "index", "preloaded"}),
     Plain("mu", {"refs", "shuffledIndexes"})}              \* Position, Grow..

SectionsOf(g) == IF g = Loader THEN LoaderSections
                 ELSE IF g = Consumer THEN ConsumerSections ELSE HandlerSections

Idle == Plain("none", {})

-----------------------------------------------------------------------------
VARIABLES
    section, \* the section each goroutine is in or wants to enter
    phase,   \* how far it is in it
    holder   \* who holds each mutex

vars == <<section, phase, holder>>

Phases == {"idle", "wantOuter", "inOuter", "wantInner", "inInner"}

Init ==
    /\ section = [g \in Goroutines |-> Idle]
    /\ phase = [g \in Goroutines |-> "idle"]
    /\ holder = [l \in Locks |-> NoOne]

Moves(g, from, to) == phase[g] = from /\ phase' = [phase EXCEPT ![g] = to]
Takes(g, l) == holder[l] = NoOne /\ holder' = [holder EXCEPT ![l] = g]
Gives(l) == holder' = [holder EXCEPT ![l] = NoOne]

Begin(g) ==
    /\ Moves(g, "idle", "wantOuter")
    /\ \E s \in SectionsOf(g) : section' = [section EXCEPT ![g] = s]
    /\ UNCHANGED holder

LockOuter(g) ==
    /\ Moves(g, "wantOuter", "inOuter")
    /\ Takes(g, section[g].outer)
    /\ UNCHANGED section

\* Not every pass takes the second mutex: AddTracks does for a duplicate only,
\* ConsumeTrack when it finds prevTrack.
WantInner(g) ==
    /\ Moves(g, "inOuter", "wantInner")
    /\ section[g].inner # "none"
    /\ UNCHANGED <<section, holder>>

LockInner(g) ==
    /\ Moves(g, "wantInner", "inInner")
    /\ Takes(g, section[g].inner)
    /\ UNCHANGED section

UnlockInner(g) ==
    /\ Moves(g, "inInner", "inOuter")
    /\ Gives(section[g].inner)
    /\ UNCHANGED section

UnlockOuter(g) ==
    /\ Moves(g, "inOuter", "idle")
    /\ Gives(section[g].outer)
    /\ section' = [section EXCEPT ![g] = Idle]

Step(g) == LockOuter(g) \/ WantInner(g) \/ LockInner(g) \/ UnlockInner(g)
               \/ UnlockOuter(g)

Next == \E g \in Goroutines : Begin(g) \/ Step(g)

\* A goroutine inside a section runs on; a mutex that keeps coming free is
\* eventually granted (Go's mutex hands over to a starving waiter).
Fairness ==
    \A g \in Goroutines :
        /\ WF_vars(WantInner(g) \/ UnlockInner(g) \/ UnlockOuter(g))
        /\ SF_vars(UnlockOuter(g))
        /\ SF_vars(LockOuter(g)) /\ SF_vars(LockInner(g))

Spec == Init /\ [][Next]_vars /\ Fairness

-----------------------------------------------------------------------------
(* Properties *)

\* Types; a goroutine that is idle has left its section.
TypeOK ==
    /\ section \in [Goroutines -> LoaderSections \cup ConsumerSections
                                    \cup HandlerSections \cup {Idle}]
    /\ phase \in [Goroutines -> Phases]
    /\ holder \in [Locks -> Goroutines \cup {NoOne}]
    /\ \A g \in Goroutines : phase[g] = "idle" => section[g] = Idle

\* The fields a goroutine may be touching now.
Touches(g) ==
    CASE phase[g] = "inOuter" -> section[g].fields
      [] phase[g] = "inInner" -> section[g].fields \cup section[g].nested
      [] OTHER -> {}

\* refs, shuffledIndexes, index, preloaded and pendingStartMs are never touched
\* by two goroutines at once, whichever of the two mutexes each of them took.
NoDataRace ==
    \A g, h \in Goroutines : g # h => Touches(g) \cap Touches(h) = {}

CanMove(g) ==
    \/ phase[g] \in {"inOuter", "inInner"}
    \/ phase[g] = "wantOuter" /\ holder[section[g].outer] = NoOne
    \/ phase[g] = "wantInner" /\ holder[section[g].inner] = NoOne

\* ConsumeTrack waiting for mu with preloadedMu in its hands.
PopWaits == phase[Consumer] = "wantInner" /\ section[Consumer] = Pop

\* Only that wait can block everyone: in every other state with a goroutine in
\* a section, some goroutine can go on.
OnlyPopBlocks ==
    (\E g \in Goroutines : phase[g] # "idle") =>
        PopWaits \/ \E g \in Goroutines : CanMove(g)

\* ConsumeTrack gets out of the section that drops the previous track, so that
\* it can see the player's stop.  It does not: two goroutines that nest the
\* mutexes in opposite orders wait for each other (README, section 5).
PopEnds == phase[Consumer] = "inOuter" ~> phase[Consumer] = "idle"
=============================================================================
