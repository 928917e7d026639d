--------------------------- MODULE MCRateLimiter ---------------------------
(* RateLimiter on small instances: its cfg files give the constants. *)
EXTENDS RateLimiter, TLC

SpotPools == {"weight", "raw", "orders", "connections"}

\* The weight pool is tight; raw requests, as in DEFAULT_RULES, never run out
\* before the weight does.
SmallLimit == "weight" :> 2 @@ "raw" :> 4 @@ "orders" :> 1 @@ "connections" :> 1
SmallCap == [SmallLimit EXCEPT !["weight"] = 3]
SmallInterval == "weight" :> 2 @@ "raw" :> 1 @@ "orders" :> 2 @@ "connections" :> 1

Query(via) == [via |-> via, weight |-> 2, draws |-> {"weight", "raw"}]
Order(via) == [via |-> via, weight |-> 1, draws |-> {"weight", "raw", "orders"}]
Connection == [via |-> "socket", weight |-> 1, draws |-> {"connections"}]

Everything == {Query("rest"), Order("ws"), Connection}
OverRest == {Query("rest"), Order("rest")}
=============================================================================
