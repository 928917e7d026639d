------------------------------ MODULE LocalBook ------------------------------
(***************************************************************************)
(* What a local order book promises to its reader: it always shows one of  *)
(* the ladders the exchange has had, it follows the exchange forward while *)
(* it is live, and it jumps (also backwards) only while it is not.         *)
(***************************************************************************)
EXTENDS Naturals, Sequences

CONSTANTS Ladders, Nothing  \* what may be shown; what is shown at first

VARIABLES
    history,  \* history[n]: the exchange's ladder after update n
    shown,    \* the update the book is at, 0 when it has never been installed
    view,     \* what the book shows
    live      \* the book follows the stream

vars == <<history, shown, view, live>>

Init ==
    /\ \E ld \in Ladders : history = <<ld>>
    /\ shown = 0
    /\ view = Nothing
    /\ live = FALSE

\* The exchange makes one more update.
Advance ==
    /\ \E ld \in Ladders : history' = Append(history, ld)
    /\ UNCHANGED <<shown, view, live>>

ShowAt(n) == shown' = n /\ view' = history[n]

\* A live book moves forward to a later state of the exchange.
Follow ==
    /\ live
    /\ shown # 0
    /\ \E n \in shown..Len(history) : ShowAt(n)
    /\ UNCHANGED <<history, live>>

LoseSync == live /\ live' = FALSE /\ UNCHANGED <<history, shown, view>>

\* A book that is not live may be moved to any state the exchange has had.
Resync ==
    /\ ~live
    /\ \E n \in 1..Len(history) : ShowAt(n)
    /\ UNCHANGED <<history, live>>

GoLive == ~live /\ live' = TRUE /\ UNCHANGED <<history, shown, view>>

Next == Advance \/ Follow \/ LoseSync \/ Resync \/ GoLive

Spec == Init /\ [][Next]_vars
=============================================================================
