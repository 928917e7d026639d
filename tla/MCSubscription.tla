--------------------------- MODULE MCSubscription ---------------------------
(* Subscription on a small instance: two paths, one with two names. *)
EXTENDS Subscription, TLC

CONSTANTS p1, p2, a, b, c

MCRoute == (a :> p1) @@ (b :> p1) @@ (c :> p2) @@ (User :> WsApi)
MCArgs == {{a, c}, {b, User}}
=============================================================================
