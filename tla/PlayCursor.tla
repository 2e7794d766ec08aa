----------------------------- MODULE PlayCursor -----------------------------
(***************************************************************************)
(* What the queue promises the player: ConsumeTrack reads the play order   *)
(* from a cursor.  It hands out the item at the cursor and, asked again,   *)
(* moves the cursor by one first, whatever is appended in the meantime.    *)
(* A message may place the cursor anew, or reorder what is ahead of it.    *)
(* While the queue is being cleared nothing is promised.                   *)
(* TrackQueue, with its window of preloaded tracks, the loader that fills  *)
(* it and the goroutines in between, implements this specification.        *)
(***************************************************************************)
EXTENDS Integers, Sequences

CONSTANTS
    Items,  \* the queue items
    None    \* not one of them

VARIABLES
    order,    \* the items in play order
    cursor,   \* a position in order, counted from 0
    at,       \* what stands at the cursor: a track "chosen" to be handed out,
              \* the track handed out last ("held"), or nothing in particular
    chosen,   \* the item to be handed out, or None
    last,     \* the item handed out last, None once its successor is open
    clearing  \* the queue is being cleared

vars == <<order, cursor, at, chosen, last, clearing>>

AtCursor == order[cursor + 1]
InOrder == cursor \in 0 .. (Len(order) - 1)

Init ==
    /\ order = <<>> /\ cursor = 0 /\ at = "nothing"
    /\ chosen = None /\ last = None /\ clearing = FALSE

\* ConsumeTrack moves past the track handed out last and looks: the item there
\* may not have been loaded yet.
Looks ==
    /\ ~clearing /\ chosen = None
    /\ cursor' = IF at = "held" THEN cursor + 1 ELSE cursor
    /\ \/ chosen' = None /\ at' = "nothing"
       \/ cursor' \in 0 .. (Len(order) - 1)
          /\ chosen' = order[cursor' + 1] /\ at' = "chosen"
    /\ UNCHANGED <<order, last, clearing>>

\* The item chosen is handed out; it is held unless the cursor was moved off it.
Gives ==
    /\ chosen # None /\ chosen' = None
    /\ IF at = "chosen" THEN at' = "held" /\ last' = chosen
                        ELSE at' = at /\ last' = None
    /\ UNCHANGED <<order, cursor, clearing>>

\* It is not ready: look again, without a move.
Retries ==
    /\ chosen # None /\ chosen' = None /\ at' = "nothing"
    /\ UNCHANGED <<order, cursor, last, clearing>>

\* The session ends, and what it was handed is forgotten.
Ends ==
    /\ at' = "nothing" /\ chosen' = None /\ last' = None
    /\ UNCHANGED <<order, cursor, clearing>>

Appends ==
    /\ order' \in Seq(Items) /\ Len(order') >= Len(order)
    /\ \A i \in 1 .. Len(order) : order'[i] = order[i]
    /\ UNCHANGED <<cursor, at, chosen, last, clearing>>

\* A message moves the cursor or reorders the queue; what stands at the cursor
\* stays there only if it is the same item.
Moves ==
    /\ ~clearing
    /\ order' \in Seq(Items) /\ cursor' \in Nat
    /\ \/ at' = "nothing"
       \/ at' = at /\ InOrder /\ InOrder' /\ AtCursor' = AtCursor
    /\ last' = None
    /\ UNCHANGED <<chosen, clearing>>

Clears ==
    /\ order' = <<>> /\ cursor' = 0 /\ at' = "nothing" /\ last' = None
    /\ clearing' = TRUE /\ UNCHANGED chosen

LooksIntoClear ==
    /\ clearing /\ cursor' \in {cursor, cursor + 1}
    /\ chosen' \in Items \cup {None} /\ at' = "nothing"
    /\ UNCHANGED <<order, last, clearing>>

Cleared ==
    /\ clearing /\ clearing' = FALSE /\ at' = "nothing" /\ last' = None
    /\ UNCHANGED <<order, cursor, chosen>>

Next ==
    \/ Looks \/ Gives \/ Retries \/ Ends \/ Appends \/ Moves
    \/ Clears \/ LooksIntoClear \/ Cleared

Spec == Init /\ [][Next]_vars

-----------------------------------------------------------------------------
(* Properties *)

\* While nothing but appends touches the queue, what is handed out is the
\* successor of what was handed out before: no track is skipped, none repeated.
HandsOutInOrder ==
    [][Gives /\ last # None /\ last' # None =>
         \E i \in 1 .. (Len(order) - 1) : order[i] = last /\ order[i + 1] = last']_vars
=============================================================================
