------------------------------ MODULE MCRouting ------------------------------
EXTENDS Routing

Alone(subs) == {<<{s}>> : s \in subs}
With(subs, arg) == {<<{s}, {arg}>> : s \in subs}
MoreWith(subs, arg, more) == {<<{s}, {arg}, {more}>> : s \in subs}

SpotDocumented ==
    Alone({"ALL_MARKET_MINI_TICKERS", "ALL_MARKET_WINDOW_TICKERS", "USER"})
    \cup With({"TRADE", "AGG_TRADE", "BLOCK_TRADE", "REFERENCE_PRICE", "BOOK_TICKER",
               "AVG_PRICE", "MINI_TICKER", "TICKER", "ORDER_BOOK", "WINDOW_TICKER"}, "plain")
    \cup With({"ALL_MARKET_WINDOW_TICKERS"}, "4h")
    \cup MoreWith({"KLINE", "KLINE_UTC8"}, "scored", "1h")
    \cup MoreWith({"WINDOW_TICKER"}, "plain", "1h")
    \cup { <<{"ORDER_BOOK", "TRADE"}, {"plain"}>>,
           <<{"ORDER_BOOK"}, {"plain"}, {"100"}>>,
           <<{"PARTIAL_ORDER_BOOK"}, {"plain"}, {"20"}>>,
           <<{"PARTIAL_ORDER_BOOK"}, {"plain"}, {"5"}, {"1000"}>> }

FuturesDocumented(symbol) ==
    Alone({"ALL_MARKET_MARK_PRICE", "ALL_MARKET_LIQUIDATION", "ALL_MARKET_MINI_TICKERS",
           "ALL_MARKET_TICKERS", "ALL_MARKET_BOOK_TICKER", "CONTRACT_INFO", "USER"})
    \cup With({"MARK_PRICE", "FORCE_ORDER", "AGG_TRADE", "MINI_TICKER", "TICKER",
               "BOOK_TICKER", "PARTIAL_ORDER_BOOK", "ORDER_BOOK"}, symbol)
    \cup With({"ALL_MARKET_MARK_PRICE"}, "1s")
    \cup MoreWith({"KLINE"}, symbol, "1m")
    \cup MoreWith({"MARK_PRICE"}, symbol, "1s")
    \cup { <<{"PARTIAL_ORDER_BOOK"}, {symbol}, {"5"}, {"500"}>>,
           <<{"ORDER_BOOK"}, {symbol}, {"100"}>>,
           <<{"CONTINUOUS_KLINE"}, {"pair"}, {"PERPETUAL"}, {"1m"}>> }

MCDocumented ==
    [spot |-> SpotDocumented,
     um |-> FuturesDocumented("plain")
              \cup Alone({"ASSET_INDEX", "TRADING_SESSION"})
              \cup With({"COMPOSITE_INDEX", "ASSET_INDEX", "RPI_DIFF_DEPTH"}, "plain")
              \cup MoreWith({"RPI_DIFF_DEPTH"}, "plain", "500"),
     cm |-> FuturesDocumented("scored")
              \cup With({"PAIR_MARK_PRICE", "INDEX_PRICE"}, "pair")
              \cup MoreWith({"PAIR_MARK_PRICE", "INDEX_PRICE"}, "pair", "1s")
              \cup MoreWith({"INDEX_PRICE_KLINE"}, "pair", "1m")
              \cup MoreWith({"MARK_PRICE_KLINE"}, "scored", "1m")]

(* The calls explored: a list of the sub types that take one symbol, one of   *)
(* those that take nothing, and the longer forms one by one (the diff book's  *)
(* and the window ticker's apart); with calls the program must refuse: no     *)
(* interval, a value out of range, a list of sub types in a long form, a      *)
(* parameter too many or too few.                                             *)
Subs(rs) == UNION {r[1] : r \in rs}
Bulk(m, symbol) ==
    LET shorts == {q \in MCDocumented[m] : Len(q) = 1 /\ q # <<{"ASSET_INDEX"}>>}
        singles == {q \in MCDocumented[m] : Len(q) = 2 /\ q[2] = {symbol}}
        pairs == {q \in MCDocumented[m] : Len(q) = 2 /\ q[2] = {"pair"}}
    IN  { <<Subs(shorts)>>, <<Subs(singles), {symbol}>> }
        \cup (IF pairs = {} THEN {} ELSE {<<Subs(pairs), {"pair"}>>})
        \cup {q \in MCDocumented[m] : Len(q) > 2 /\ q[1] \notin {{"ORDER_BOOK"}, {"WINDOW_TICKER"}}}

Refusable ==
    { <<{"KLINE"}, {"plain"}>>, <<{"PARTIAL_ORDER_BOOK"}, {"plain"}, {"100"}>>,
      <<{"KLINE", "TICKER"}, {"plain"}, {"1m"}>>, <<{"USER"}, {"plain"}>>, <<{"TRADE"}>> }

(* Mark prices asked for by the other's symbol, the one of a pair and not.    *)
Crossed == {<<{"MARK_PRICE"}, {"pair"}>>, <<{"PAIR_MARK_PRICE"}, {"scored"}>>}

MCRequests == [spot |-> Bulk("spot", "plain") \cup Refusable,
               um   |-> Bulk("um", "plain") \cup Refusable \cup With({"MARK_PRICE"}, "pair"),
               cm   |-> Bulk("cm", "scored") \cup Refusable \cup Crossed]
=============================================================================
