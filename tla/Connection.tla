------------------------------ MODULE Connection ------------------------------
(***************************************************************************)
(* What one connection promises to the tasks that use it, and all that the *)
(* tasks may rely on: a binance.core.transport.Stream seen from outside.   *)
(* A request that has been sent fails at once when the socket is lost or   *)
(* closed, so it is answered only over the socket that carried it; one     *)
(* that comes while the first socket is being opened waits for it; and     *)
(* once close() has been called nothing is answered until all is gone.     *)
(***************************************************************************)
CONSTANT Users  \* the tasks that send requests, each one at a time

VARIABLES
    state,    \* the connection
    request   \* the request of each user

vars == <<state, request>>

\* There is none; its first socket is being opened; a socket is open; it is
\* gone and the next one is being opened; given up; close() is under way.
States == {"absent", "opening", "up", "lost", "abandoned", "closing"}

\* None, or its user has what it wanted; not sent yet; sent; answered with the
\* answer to this very request; raised.
Requests == {"none", "asked", "sent", "answered", "failed"}

Init == state = "absent" /\ request = [u \in Users |-> "none"]

\* What becomes of a request while the connection stays as it is.
Onward(r) ==
    CASE r = "none"  -> {"none", "asked"}
      [] r = "asked" -> {"asked", "none"}
                          \cup {q \in {"failed"} : state # "opening"}
                          \cup {q \in {"sent"} : state \in {"up", "closing"}}
      [] r = "sent"  -> {"sent", "failed", "none"}
                          \cup {q \in {"answered"} : state \in {"up", "abandoned"}}
      [] OTHER       -> {r, "none"}

\* What becomes of a request when its socket goes.
Cut(r) ==
    CASE r = "asked" -> {"asked", "failed", "none"}
      [] r = "sent"  -> {"failed", "none"}
      [] OTHER       -> {r, "none"}

Serve ==
    /\ request' \in [Users -> Requests]
    /\ \A u \in Users : request'[u] \in Onward(request[u])
    /\ UNCHANGED state

\* The user that needs the connection may be the one that opens it.
Open ==
    /\ state = "absent" /\ state' = "opening"
    /\ request' \in [Users -> Requests]
    /\ \A u \in Users : request'[u] \in Onward(request[u])

Up == state \in {"opening", "lost"} /\ state' = "up" /\ UNCHANGED request

Lose(becomes) ==
    /\ state' = becomes
    /\ request' \in [Users -> Requests]
    /\ \A u \in Users : request'[u] \in Cut(request[u])

Drop == state = "up" /\ Lose("lost")

Abandon == state \in {"opening", "up", "lost"} /\ state' = "abandoned" /\ UNCHANGED request

Close == state \in States \ {"absent", "closing"} /\ Lose("closing")

Closed == state = "closing" /\ state' = "absent" /\ UNCHANGED request

Next == Serve \/ Open \/ Up \/ Drop \/ Abandon \/ Close \/ Closed

Spec == Init /\ [][Next]_vars
=============================================================================
