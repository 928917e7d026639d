---------------------------- MODULE RoutingProofs ----------------------------
(***************************************************************************)
(* Proofs about Routing, for all requests and any number of calls.         *)
(*                                                                         *)
(* The tables are reduced to what their rows have in common: every         *)
(* processor but that of the user data is for one handler class, which its *)
(* event types or, where it looks at none, its stream determine; and every *)
(* stream carries events of one class.  That is checked row by row, so     *)
(* that no pair of rows needs to be compared.                              *)
(***************************************************************************)
EXTENDS Routing, SequenceTheorems, WellFoundedInduction, TLAPS

-----------------------------------------------------------------------------
(* The tables *)

\* The handler class that messages with an event type are for.
EventClass(e) ==
    CASE e = "kline" -> "KLINE"
      [] e = "trade" -> "TRADE"
      [] e = "aggTrade" -> "AGG_TRADE"
      [] e = "blockTrade" -> "BLOCK_TRADE"
      [] e = "referencePrice" -> "REFERENCE_PRICE"
      [] e = "avgPrice" -> "AVG_PRICE"
      [] e = "depthUpdate" -> "ORDER_BOOK"
      [] e \in {"1hTicker", "4hTicker", "1dTicker"} -> "WINDOW_TICKER"
      [] e = "24hrMiniTicker" -> "MINI_TICKER"
      [] e = "24hrTicker" -> "TICKER"
      [] e = "markPriceUpdate" -> "MARK_PRICE"
      [] e = "continuous_kline" -> "CONTINUOUS_KLINE"
      [] e = "forceOrder" -> "FORCE_ORDER"
      [] e = "compositeIndex" -> "COMPOSITE_INDEX"
      [] e = "assetIndexUpdate" -> "ASSET_INDEX"
      [] e \in {"EquityUpdate", "CommodityUpdate"} -> "TRADING_SESSION"
      [] e = "indexPriceUpdate" -> "INDEX_PRICE"
      [] e = "indexPrice_kline" -> "INDEX_PRICE_KLINE"
      [] e = "markPrice_kline" -> "MARK_PRICE_KLINE"
      [] OTHER -> "none"

\* The class behind a wire name whose messages are told by their event type,
\* and behind one whose messages are told by the name of the stream.
EventWire(wire) ==
    CASE wire \in {"@kline", "@kline+08:00"} -> "KLINE"
      [] wire = "@trade" -> "TRADE"
      [] wire = "@aggTrade" -> "AGG_TRADE"
      [] wire = "@blockTrade" -> "BLOCK_TRADE"
      [] wire = "@referencePrice" -> "REFERENCE_PRICE"
      [] wire = "@avgPrice" -> "AVG_PRICE"
      [] wire = "@depth" -> "ORDER_BOOK"
      [] wire = "@ticker_w" -> "WINDOW_TICKER"
      [] wire = "@miniTicker" -> "MINI_TICKER"
      [] wire = "@ticker" -> "TICKER"
      [] wire = "@markPrice" -> "MARK_PRICE"
      [] wire = "@continuousKline" -> "CONTINUOUS_KLINE"
      [] wire = "@forceOrder" -> "FORCE_ORDER"
      [] wire = "@compositeIndex" -> "COMPOSITE_INDEX"
      [] wire = "@assetIndex" -> "ASSET_INDEX"
      [] wire = "tradingSession" -> "TRADING_SESSION"
      [] wire = "@indexPrice" -> "INDEX_PRICE"
      [] wire = "@indexPriceKline" -> "INDEX_PRICE_KLINE"
      [] wire = "@markPriceKline" -> "MARK_PRICE_KLINE"
      [] OTHER -> "none"

StreamWire(wire) ==
    CASE wire = "@bookTicker" -> "BOOK_TICKER"
      [] wire = "@depthN" -> "PARTIAL_ORDER_BOOK"
      [] wire = "!miniTicker@arr" -> "ALL_MARKET_MINI_TICKERS"
      [] wire = "!ticker_w@arr" -> "ALL_MARKET_WINDOW_TICKERS"
      [] wire = "!markPrice@arr" -> "ALL_MARKET_MARK_PRICE"
      [] wire = "!ticker@arr" -> "ALL_MARKET_TICKERS"
      [] wire = "!forceOrder@arr" -> "ALL_MARKET_LIQUIDATION"
      [] wire = "!bookTicker" -> "ALL_MARKET_BOOK_TICKER"
      [] wire = "!contractInfo" -> "CONTRACT_INFO"
      [] wire = "!assetIndex@arr" -> "ALL_ASSET_INDEX"
      [] wire = "@rpiDepth" -> "RPI_DIFF_DEPTH"
      [] OTHER -> "none"

Arrays == {"!markPrice@arr", "!assetIndex@arr", "!forceOrder@arr", "!ticker_w@arr",
           "!ticker@arr", "!miniTicker@arr"}

UserEvents(m) == IF m = "spot" THEN SpotUserEvents ELSE FuturesUserEvents

\* No class of a processor but the user's.
Foreign == {"none", "USER", "HandlerException", "StreamError", "executionReport",
            "eventStreamTerminated", "ORDER_TRADE_UPDATE", "listenKeyExpired"}

Fields == {"sub", "bases", "wire", "es", "slots", "array", "keep"}

ByEvent(r, c) ==
    /\ c \notin Foreign \cup {"PAIR_MARK_PRICE"} /\ ~r.array
    /\ r.es # {} /\ \A e : e \in r.es <=> EventClass(e) = c
    /\ EventWire(r.wire) = c
    /\ r.sub = IF r.wire = "@kline+08:00" THEN "KLINE_UTC8" ELSE c
    /\ c = "MARK_PRICE" => 1 \in DOMAIN r.slots /\ r.slots[1] = Sym

ByStream(r, c) ==
    /\ c \notin Foreign \cup {"PAIR_MARK_PRICE"} /\ ~r.array
    /\ r.es = {} /\ \A e : EventClass(e) # c
    /\ StreamWire(r.wire) = c
    /\ r.sub = IF c = "ALL_ASSET_INDEX" THEN "ASSET_INDEX" ELSE c

OfPair(r, c) ==
    /\ c = "PAIR_MARK_PRICE" /\ r.array /\ r.es = {} /\ r.wire = "@markPrice" /\ r.sub = c
    /\ 1 \in DOMAIN r.slots /\ r.slots[1] = Sym

\* A row of market m, and that of its user data.  "futures" stands for a row
\* that COIN-M has yet to make its own.
Known(m, r) ==
    /\ DOMAIN r = Fields /\ \E c : r.bases = {c} /\ (ByEvent(r, c) \/ ByStream(r, c) \/ OfPair(r, c))
    /\ m = "cm" => r.keep
    /\ m = "spot" => r.wire # "@rpiDepth"
    /\ m \in {"spot", "um"} => ~r.array

OfUser(m, r) ==
    /\ r.sub = "USER" /\ r.wire = "user" /\ ~r.array /\ r.slots = <<>>
    /\ r.bases = UserEvents(m) /\ r.es = UserEvents(m)

AllKnown(m, rows) == \E S : rows \in Seq(S) /\ \A r \in S : Known(m, r)

LEMMA EventClasses ==
    /\ \A e : e \in {"kline"} <=> EventClass(e) = "KLINE"
    /\ \A e : e \in {"trade"} <=> EventClass(e) = "TRADE"
    /\ \A e : e \in {"aggTrade"} <=> EventClass(e) = "AGG_TRADE"
    /\ \A e : e \in {"blockTrade"} <=> EventClass(e) = "BLOCK_TRADE"
    /\ \A e : e \in {"referencePrice"} <=> EventClass(e) = "REFERENCE_PRICE"
    /\ \A e : e \in {"avgPrice"} <=> EventClass(e) = "AVG_PRICE"
    /\ \A e : e \in {"depthUpdate"} <=> EventClass(e) = "ORDER_BOOK"
    /\ \A e : e \in {"1hTicker", "4hTicker", "1dTicker"} <=> EventClass(e) = "WINDOW_TICKER"
    /\ \A e : e \in {"24hrMiniTicker"} <=> EventClass(e) = "MINI_TICKER"
    /\ \A e : e \in {"24hrTicker"} <=> EventClass(e) = "TICKER"
    /\ \A e : e \in {"markPriceUpdate"} <=> EventClass(e) = "MARK_PRICE"
    /\ \A e : e \in {"continuous_kline"} <=> EventClass(e) = "CONTINUOUS_KLINE"
    /\ \A e : e \in {"forceOrder"} <=> EventClass(e) = "FORCE_ORDER"
    /\ \A e : e \in {"compositeIndex"} <=> EventClass(e) = "COMPOSITE_INDEX"
    /\ \A e : e \in {"assetIndexUpdate"} <=> EventClass(e) = "ASSET_INDEX"
    /\ \A e : e \in {"EquityUpdate", "CommodityUpdate"} <=> EventClass(e) = "TRADING_SESSION"
    /\ \A e : e \in {"indexPriceUpdate"} <=> EventClass(e) = "INDEX_PRICE"
    /\ \A e : e \in {"indexPrice_kline"} <=> EventClass(e) = "INDEX_PRICE_KLINE"
    /\ \A e : e \in {"markPrice_kline"} <=> EventClass(e) = "MARK_PRICE_KLINE"
BY DEF EventClass

LEMMA EventWires ==
    /\ EventWire("@kline") = "KLINE"
    /\ EventWire("@kline+08:00") = "KLINE"
    /\ EventWire("@trade") = "TRADE"
    /\ EventWire("@aggTrade") = "AGG_TRADE"
    /\ EventWire("@blockTrade") = "BLOCK_TRADE"
    /\ EventWire("@referencePrice") = "REFERENCE_PRICE"
    /\ EventWire("@avgPrice") = "AVG_PRICE"
    /\ EventWire("@depth") = "ORDER_BOOK"
    /\ EventWire("@ticker_w") = "WINDOW_TICKER"
    /\ EventWire("@miniTicker") = "MINI_TICKER"
    /\ EventWire("@ticker") = "TICKER"
    /\ EventWire("@markPrice") = "MARK_PRICE"
    /\ EventWire("@continuousKline") = "CONTINUOUS_KLINE"
    /\ EventWire("@forceOrder") = "FORCE_ORDER"
    /\ EventWire("@compositeIndex") = "COMPOSITE_INDEX"
    /\ EventWire("@assetIndex") = "ASSET_INDEX"
    /\ EventWire("tradingSession") = "TRADING_SESSION"
    /\ EventWire("@indexPrice") = "INDEX_PRICE"
    /\ EventWire("@indexPriceKline") = "INDEX_PRICE_KLINE"
    /\ EventWire("@markPriceKline") = "MARK_PRICE_KLINE"
BY DEF EventWire

LEMMA StreamWires ==
    /\ StreamWire("@bookTicker") = "BOOK_TICKER"
    /\ StreamWire("@depthN") = "PARTIAL_ORDER_BOOK"
    /\ StreamWire("!miniTicker@arr") = "ALL_MARKET_MINI_TICKERS"
    /\ StreamWire("!ticker_w@arr") = "ALL_MARKET_WINDOW_TICKERS"
    /\ StreamWire("!markPrice@arr") = "ALL_MARKET_MARK_PRICE"
    /\ StreamWire("!ticker@arr") = "ALL_MARKET_TICKERS"
    /\ StreamWire("!forceOrder@arr") = "ALL_MARKET_LIQUIDATION"
    /\ StreamWire("!bookTicker") = "ALL_MARKET_BOOK_TICKER"
    /\ StreamWire("!contractInfo") = "CONTRACT_INFO"
    /\ StreamWire("!assetIndex@arr") = "ALL_ASSET_INDEX"
    /\ StreamWire("@rpiDepth") = "RPI_DIFF_DEPTH"
BY DEF StreamWire

LEMMA Wires ==
    /\ \A wire : StreamWire(wire) # "none" => EventWire(wire) = "none"
    /\ \A wire : EventWire(wire) = "MARK_PRICE" <=> wire = "@markPrice"
    /\ EventWire("user") = "none" /\ StreamWire("user") = "none" /\ StreamWire("@markPrice") = "none"
    /\ \A wire \in Arrays : StreamWire(wire) # "none"
    /\ \A v, w : StreamWire(v) = StreamWire(w) /\ StreamWire(v) # "none" => v = w
<1>1. \A wire : StreamWire(wire) # "none" => EventWire(wire) = "none"
    BY DEF StreamWire, EventWire
<1>2. \A wire : EventWire(wire) = "MARK_PRICE" <=> wire = "@markPrice"
    BY DEF EventWire
<1>3. EventWire("user") = "none" /\ StreamWire("user") = "none" /\ StreamWire("@markPrice") = "none"
    BY DEF StreamWire, EventWire
<1>4. \A wire \in Arrays : StreamWire(wire) # "none"
    BY DEF Arrays, StreamWire
<1>5. \A v, w : StreamWire(v) = StreamWire(w) /\ StreamWire(v) # "none" => v = w
    BY DEF StreamWire
<1> QED BY <1>1, <1>2, <1>3, <1>4, <1>5

LEMMA EventRow ==
    ASSUME NEW m \in {"spot", "um", "futures"}, NEW sub, NEW wire, NEW es, NEW slots,
           sub \notin Foreign \cup {"PAIR_MARK_PRICE"}, wire # "@kline+08:00", es # {},
           \A e : e \in es <=> EventClass(e) = sub, EventWire(wire) = sub,
           sub = "MARK_PRICE" => 1 \in DOMAIN slots /\ slots[1] = Sym, wire # "@rpiDepth"
    PROVE  Known(m, Row(sub, wire, es, slots))
<1> DEFINE r == Row(sub, wire, es, slots)
<1>1. /\ DOMAIN r = Fields /\ r.bases = {sub} /\ r.sub = sub /\ r.wire = wire /\ r.es = es
      /\ r.slots = slots /\ r.array = FALSE
    BY DEF Row, Fields
<1> HIDE DEF r
<1>2. ByEvent(r, sub)
    BY <1>1 DEF ByEvent
<1> QED BY <1>1, <1>2 DEF Known, r

LEMMA StreamRow ==
    ASSUME NEW m \in {"spot", "um", "futures"}, NEW sub, NEW wire, NEW slots,
           m = "spot" => wire # "@rpiDepth",
           sub \notin Foreign \cup {"PAIR_MARK_PRICE", "ALL_ASSET_INDEX"},
           \A e : EventClass(e) # sub, StreamWire(wire) = sub
    PROVE  Known(m, Row(sub, wire, {}, slots))
<1> DEFINE r == Row(sub, wire, {}, slots)
<1>1. /\ DOMAIN r = Fields /\ r.bases = {sub} /\ r.sub = sub /\ r.wire = wire /\ r.es = {}
      /\ r.slots = slots /\ r.array = FALSE
    BY DEF Row, Fields
<1> HIDE DEF r
<1>2. ByStream(r, sub)
    BY <1>1 DEF ByStream
<1> QED BY <1>1, <1>2 DEF Known, r

LEMMA Listed ==
    ASSUME NEW m, NEW rows, NEW S, rows \in Seq(S), \A r \in S : Known(m, r)
    PROVE  AllKnown(m, rows)
BY DEF AllKnown

LEMMA Lists ==
    ASSUME NEW m
    PROVE  /\ \A a : Known(m, a) => AllKnown(m, <<a>>)
           /\ \A a, b : Known(m, a) /\ Known(m, b) => AllKnown(m, <<a, b>>)
           /\ \A a, b, c : Known(m, a) /\ Known(m, b) /\ Known(m, c) => AllKnown(m, <<a, b, c>>)
           /\ \A a, b, c, d :
                Known(m, a) /\ Known(m, b) /\ Known(m, c) /\ Known(m, d)
                => AllKnown(m, <<a, b, c, d>>)
           /\ \A a, b, c, d, e :
                Known(m, a) /\ Known(m, b) /\ Known(m, c) /\ Known(m, d) /\ Known(m, e)
                => AllKnown(m, <<a, b, c, d, e>>)
           /\ \A a, b, c, d, e, f :
                Known(m, a) /\ Known(m, b) /\ Known(m, c) /\ Known(m, d) /\ Known(m, e) /\ Known(m, f)
                => AllKnown(m, <<a, b, c, d, e, f>>)
           /\ \A s, t : AllKnown(m, s) /\ AllKnown(m, t) => AllKnown(m, s \o t)
<1>1. ASSUME NEW a, Known(m, a) PROVE AllKnown(m, <<a>>)
    <2>1. PICK rows, S : rows = <<a>> /\ S = {a}
        OBVIOUS
    <2>2. rows \in Seq(S)
        BY <2>1
    <2>3. \A r \in S : Known(m, r)
        BY <1>1, <2>1
    <2>4. AllKnown(m, rows)
        BY <2>2, <2>3, Listed
    <2> QED BY <2>1, <2>4
<1>2. ASSUME NEW a, NEW b, Known(m, a), Known(m, b) PROVE AllKnown(m, <<a, b>>)
    <2>1. PICK rows, S : rows = <<a, b>> /\ S = {a, b}
        OBVIOUS
    <2>2. rows \in Seq(S)
        BY <2>1
    <2>3. \A r \in S : Known(m, r)
        BY <1>2, <2>1
    <2>4. AllKnown(m, rows)
        BY <2>2, <2>3, Listed
    <2> QED BY <2>1, <2>4
<1>3. ASSUME NEW a, NEW b, NEW c, Known(m, a), Known(m, b), Known(m, c)
      PROVE  AllKnown(m, <<a, b, c>>)
    <2>1. PICK rows, S : rows = <<a, b, c>> /\ S = {a, b, c}
        OBVIOUS
    <2>2. rows \in Seq(S)
        BY <2>1
    <2>3. \A r \in S : Known(m, r)
        BY <1>3, <2>1
    <2>4. AllKnown(m, rows)
        BY <2>2, <2>3, Listed
    <2> QED BY <2>1, <2>4
<1>4. ASSUME NEW s, NEW t, AllKnown(m, s), AllKnown(m, t) PROVE AllKnown(m, s \o t)
    <2>1. PICK S : s \in Seq(S) /\ \A r \in S : Known(m, r)
        BY <1>4 DEF AllKnown
    <2>2. PICK T : t \in Seq(T) /\ \A r \in T : Known(m, r)
        BY <1>4 DEF AllKnown
    <2>3. s \in Seq(S \cup T) /\ t \in Seq(S \cup T)
        BY <2>1, <2>2
    <2>4. s \o t \in Seq(S \cup T)
        BY <2>3, ConcatProperties
    <2> QED BY <2>1, <2>2, <2>4 DEF AllKnown
<1>5. ASSUME NEW a, NEW b, NEW c, NEW d,
             Known(m, a), Known(m, b), Known(m, c), Known(m, d)
      PROVE  AllKnown(m, <<a, b, c, d>>)
    <2>1. PICK rows, S : rows = <<a, b, c, d>> /\ S = {a, b, c, d}
        OBVIOUS
    <2>2. rows \in Seq(S)
        BY <2>1
    <2>3. \A r \in S : Known(m, r)
        BY <1>5, <2>1
    <2>4. AllKnown(m, rows)
        BY <2>2, <2>3, Listed
    <2> QED BY <2>1, <2>4
<1>6. ASSUME NEW a, NEW b, NEW c, NEW d, NEW e,
             Known(m, a), Known(m, b), Known(m, c), Known(m, d), Known(m, e)
      PROVE  AllKnown(m, <<a, b, c, d, e>>)
    <2>1. PICK rows, S : rows = <<a, b, c, d, e>> /\ S = {a, b, c, d, e}
        OBVIOUS
    <2>2. rows \in Seq(S)
        BY <2>1
    <2>3. \A r \in S : Known(m, r)
        BY <1>6, <2>1
    <2>4. AllKnown(m, rows)
        BY <2>2, <2>3, Listed
    <2> QED BY <2>1, <2>4
<1>7. ASSUME NEW a, NEW b, NEW c, NEW d, NEW e, NEW f,
             Known(m, a), Known(m, b), Known(m, c), Known(m, d), Known(m, e), Known(m, f)
      PROVE  AllKnown(m, <<a, b, c, d, e, f>>)
    <2>1. PICK rows, S : rows = <<a, b, c, d, e, f>> /\ S = {a, b, c, d, e, f}
        OBVIOUS
    <2>2. rows \in Seq(S)
        BY <2>1
    <2>3. \A r \in S : Known(m, r)
        BY <1>7, <2>1
    <2>4. AllKnown(m, rows)
        BY <2>2, <2>3, Listed
    <2> QED BY <2>1, <2>4
<1> QED BY <1>1, <1>2, <1>3, <1>4, <1>5, <1>6, <1>7

LEMMA KeptIs == ASSUME NEW rows, AllKnown("futures", rows) PROVE AllKnown("cm", Kept(rows))
<1>1. PICK S : rows \in Seq(S) /\ \A r \in S : Known("futures", r)
    BY DEF AllKnown
<1>2. ASSUME NEW r, Known("futures", r) PROVE Known("cm", [r EXCEPT !.keep = TRUE])
    <2>1. PICK c : r.bases = {c} /\ (ByEvent(r, c) \/ ByStream(r, c) \/ OfPair(r, c))
        BY <1>2 DEF Known
    <2>2. PICK q : q = [r EXCEPT !.keep = TRUE]
        OBVIOUS
    <2>3. /\ DOMAIN q = Fields /\ q.sub = r.sub /\ q.bases = r.bases /\ q.wire = r.wire
          /\ q.es = r.es /\ q.slots = r.slots /\ q.array = r.array /\ q.keep
        BY <1>2, <2>2 DEF Known, Fields
    <2>4. ByEvent(q, c) \/ ByStream(q, c) \/ OfPair(q, c)
        BY <2>1, <2>3 DEF ByEvent, ByStream, OfPair
    <2> QED BY <2>1, <2>2, <2>3, <2>4 DEF Known
<1>3. PICK T : T = {[r EXCEPT !.keep = TRUE] : r \in S}
    OBVIOUS
<1>4. PICK n \in Nat : rows \in [1..n -> S]
    BY <1>1
<1>5. Kept(rows) = [i \in 1..n |-> [rows[i] EXCEPT !.keep = TRUE]]
    BY <1>4 DEF Kept
<1>6. \A i \in 1..n : [rows[i] EXCEPT !.keep = TRUE] \in T
    BY <1>3, <1>4
<1>7. Kept(rows) \in [1..n -> T]
    BY <1>5, <1>6
<1>8. Kept(rows) \in Seq(T)
    BY <1>4, <1>7
<1>9. \A r \in T : Known("cm", r)
    BY <1>1, <1>2, <1>3
<1> QED BY <1>8, <1>9 DEF AllKnown

\* The rows that differ from the default in one field.
LEMMA KlineRow ==
    ASSUME NEW sub, NEW wire, NEW slots,
           <<sub, wire>> \in {<<"KLINE", "@kline">>, <<"KLINE_UTC8", "@kline+08:00">>}
    PROVE  Known("spot", [Row(sub, wire, {"kline"}, slots) EXCEPT !.bases = {"KLINE"}])
<1>1. PICK r : r = [Row(sub, wire, {"kline"}, slots) EXCEPT !.bases = {"KLINE"}]
    OBVIOUS
<1>2. /\ DOMAIN r = Fields /\ r.bases = {"KLINE"} /\ r.sub = sub /\ r.wire = wire
      /\ r.es = {"kline"} /\ r.array = FALSE
    BY <1>1 DEF Row, Fields
<1>3. ByEvent(r, "KLINE")
    BY <1>2, EventClasses, EventWires DEF ByEvent, Foreign
<1>4. r.wire # "@rpiDepth"
    BY <1>2
<1> QED BY <1>1, <1>2, <1>3, <1>4 DEF Known

LEMMA AllAssetRow ==
    Known("um", [Row("ASSET_INDEX", "!assetIndex@arr", {}, <<>>) EXCEPT !.bases = {"ALL_ASSET_INDEX"}])
<1>1. PICK r : r = [Row("ASSET_INDEX", "!assetIndex@arr", {}, <<>>) EXCEPT !.bases = {"ALL_ASSET_INDEX"}]
    OBVIOUS
<1>2. /\ DOMAIN r = Fields /\ r.bases = {"ALL_ASSET_INDEX"} /\ r.sub = "ASSET_INDEX"
      /\ r.wire = "!assetIndex@arr" /\ r.es = {} /\ r.array = FALSE
    BY <1>1 DEF Row, Fields
<1>3. \A e : EventClass(e) # "ALL_ASSET_INDEX"
    BY DEF EventClass
<1>4. ByStream(r, "ALL_ASSET_INDEX")
    BY <1>2, <1>3, StreamWires DEF ByStream, Foreign
<1> QED BY <1>1, <1>2, <1>4 DEF Known

LEMMA PairRow ==
    ASSUME NEW slots, 1 \in DOMAIN slots, slots[1] = Sym
    PROVE  Known("futures", [Row("PAIR_MARK_PRICE", "@markPrice", {}, slots) EXCEPT !.array = TRUE])
<1>1. PICK r : r = [Row("PAIR_MARK_PRICE", "@markPrice", {}, slots) EXCEPT !.array = TRUE]
    OBVIOUS
<1>2. /\ DOMAIN r = Fields /\ r.bases = {"PAIR_MARK_PRICE"} /\ r.sub = "PAIR_MARK_PRICE"
      /\ r.wire = "@markPrice" /\ r.es = {} /\ r.array = TRUE /\ r.slots = slots
    BY <1>1 DEF Row, Fields
<1>3. OfPair(r, "PAIR_MARK_PRICE")
    BY <1>2 DEF OfPair
<1> QED BY <1>1, <1>2, <1>3 DEF Known

LEMMA UserIs ==
    ASSUME NEW m
    PROVE  OfUser(m, UserRow(UserEvents(m)))
<1>1. PICK r : r = UserRow(UserEvents(m))
    OBVIOUS
<1>2. /\ r.bases = UserEvents(m) /\ r.sub = "USER" /\ r.wire = "user" /\ r.es = UserEvents(m)
      /\ r.array = FALSE /\ r.slots = <<>>
    BY <1>1 DEF UserRow, Row
<1> QED BY <1>1, <1>2 DEF OfUser

LEMMA Unclaimed ==
    \A e : EventClass(e) \notin {"BOOK_TICKER", "PARTIAL_ORDER_BOOK", "ALL_MARKET_MINI_TICKERS",
        "ALL_MARKET_WINDOW_TICKERS", "ALL_MARKET_MARK_PRICE", "ALL_MARKET_TICKERS",
        "ALL_MARKET_LIQUIDATION", "ALL_MARKET_BOOK_TICKER", "CONTRACT_INFO", "RPI_DIFF_DEPTH"}
BY DEF EventClass

LEMMA SpotKnown ==
    AllKnown("spot", SpotKlines \o SpotTrades \o SpotBooks \o SpotTickers)
<1>1. AllKnown("spot", SpotKlines)
    <2>1. Known("spot", [Row("KLINE", "@kline", {"kline"}, <<Sym, Intervals>>) EXCEPT !.bases = {"KLINE"}])
        BY KlineRow
    <2>2. Known("spot", [Row("KLINE_UTC8", "@kline+08:00", {"kline"}, <<Sym, Intervals>>)
                           EXCEPT !.bases = {"KLINE"}])
        BY KlineRow
    <2> QED BY <2>1, <2>2, Lists DEF SpotKlines
<1>2. AllKnown("spot", SpotTrades)
    <2>1. /\ Known("spot", Row("TRADE", "@trade", {"trade"}, <<Sym>>))
          /\ Known("spot", Row("AGG_TRADE", "@aggTrade", {"aggTrade"}, <<Sym>>))
          /\ Known("spot", Row("BLOCK_TRADE", "@blockTrade", {"blockTrade"}, <<Sym>>))
          /\ Known("spot", Row("REFERENCE_PRICE", "@referencePrice", {"referencePrice"}, <<Sym>>))
          /\ Known("spot", Row("AVG_PRICE", "@avgPrice", {"avgPrice"}, <<Sym>>))
        BY EventRow, EventClasses, EventWires DEF Foreign
    <2>2. Known("spot", Row("BOOK_TICKER", "@bookTicker", {}, <<Sym>>))
        BY StreamRow, Unclaimed, StreamWires DEF Foreign
    <2> QED BY <2>1, <2>2, Lists DEF SpotTrades
<1>3. AllKnown("spot", SpotBooks)
    <2>1. Known("spot", Row("ORDER_BOOK", "@depth", {"depthUpdate"}, <<Sym, SpotSpeed>>))
        BY EventRow, EventClasses, EventWires DEF Foreign
    <2>2. Known("spot", Row("PARTIAL_ORDER_BOOK", "@depthN", {}, <<Sym, Level, SpotSpeed>>))
        BY StreamRow, Unclaimed, StreamWires DEF Foreign
    <2> QED BY <2>1, <2>2, Lists DEF SpotBooks
<1>4. AllKnown("spot", SpotTickers)
    <2>1. /\ Known("spot", Row("WINDOW_TICKER", "@ticker_w", {"1hTicker", "4hTicker", "1dTicker"}, <<Sym, Window>>))
          /\ Known("spot", Row("MINI_TICKER", "@miniTicker", {"24hrMiniTicker"}, <<Sym>>))
          /\ Known("spot", Row("TICKER", "@ticker", {"24hrTicker"}, <<Sym>>))
        BY EventRow, EventClasses, EventWires DEF Foreign
    <2>2. /\ Known("spot", Row("ALL_MARKET_MINI_TICKERS", "!miniTicker@arr", {}, <<>>))
          /\ Known("spot", Row("ALL_MARKET_WINDOW_TICKERS", "!ticker_w@arr", {}, <<Window>>))
        BY StreamRow, Unclaimed, StreamWires DEF Foreign
    <2> QED BY <2>1, <2>2, Lists DEF SpotTickers
<1> QED BY <1>1, <1>2, <1>3, <1>4, Lists

LEMMA SharedKnown ==
    ASSUME NEW m \in {"um", "futures"}, NEW contracts PROVE  AllKnown(m, SharedRows(contracts))
<1>1. AllKnown(m, FuturesMarkPrices)
    <2>1. Known(m, Row("MARK_PRICE", "@markPrice", {"markPriceUpdate"}, <<Sym, Lax({"1s"}, "omitted")>>))
        BY EventRow, EventClasses, EventWires DEF Foreign
    <2>2. Known(m, Row("ALL_MARKET_MARK_PRICE", "!markPrice@arr", {}, <<Lax({"1s"}, "omitted")>>))
        BY StreamRow, Unclaimed, StreamWires DEF Foreign
    <2> QED BY <2>1, <2>2, Lists DEF FuturesMarkPrices
<1>2. AllKnown(m, FuturesAggTrade)
    <2>1. Known(m, Row("AGG_TRADE", "@aggTrade", {"aggTrade"}, <<Sym>>))
        BY EventRow, EventClasses, EventWires DEF Foreign
    <2> QED BY <2>1, Lists DEF FuturesAggTrade
<1>3. AllKnown(m, FuturesKlines(contracts))
    <2>1. /\ Known(m, Row("KLINE", "@kline", {"kline"}, <<Sym, Intervals>>))
          /\ Known(m, Row("CONTINUOUS_KLINE", "@continuousKline", {"continuous_kline"}, <<Sym, Need(contracts), Intervals>>))
        BY EventRow, EventClasses, EventWires DEF Foreign
    <2> QED BY <2>1, Lists DEF FuturesKlines
<1>4. AllKnown(m, FuturesTickers)
    <2>1. /\ Known(m, Row("MINI_TICKER", "@miniTicker", {"24hrMiniTicker"}, <<Sym>>))
          /\ Known(m, Row("TICKER", "@ticker", {"24hrTicker"}, <<Sym>>))
        BY EventRow, EventClasses, EventWires DEF Foreign
    <2>2. /\ Known(m, Row("ALL_MARKET_MINI_TICKERS", "!miniTicker@arr", {}, <<>>))
          /\ Known(m, Row("ALL_MARKET_TICKERS", "!ticker@arr", {}, <<>>))
        BY StreamRow, Unclaimed, StreamWires DEF Foreign
    <2> QED BY <2>1, <2>2, Lists DEF FuturesTickers
<1>5. AllKnown(m, FuturesLiquidations)
    <2>1. Known(m, Row("FORCE_ORDER", "@forceOrder", {"forceOrder"}, <<Sym>>))
        BY EventRow, EventClasses, EventWires DEF Foreign
    <2>2. Known(m, Row("ALL_MARKET_LIQUIDATION", "!forceOrder@arr", {}, <<>>))
        BY StreamRow, Unclaimed, StreamWires DEF Foreign
    <2> QED BY <2>1, <2>2, Lists DEF FuturesLiquidations
<1>6. AllKnown(m, FuturesBooks)
    <2>1. Known(m, Row("ORDER_BOOK", "@depth", {"depthUpdate"}, <<Sym, Speed>>))
        BY EventRow, EventClasses, EventWires DEF Foreign
    <2>2. /\ Known(m, Row("BOOK_TICKER", "@bookTicker", {}, <<Sym>>))
          /\ Known(m, Row("ALL_MARKET_BOOK_TICKER", "!bookTicker", {}, <<>>))
          /\ Known(m, Row("PARTIAL_ORDER_BOOK", "@depthN", {}, <<Sym, Level, Speed>>))
        BY StreamRow, Unclaimed, StreamWires DEF Foreign
    <2> QED BY <2>1, <2>2, Lists DEF FuturesBooks
<1>7. AllKnown(m, ContractInfo)
    <2>1. Known(m, Row("CONTRACT_INFO", "!contractInfo", {}, <<>>))
        BY StreamRow, Unclaimed, StreamWires DEF Foreign
    <2> QED BY <2>1, Lists DEF ContractInfo
<1> QED BY <1>1, <1>2, <1>3, <1>4, <1>5, <1>6, <1>7, Lists DEF SharedRows

LEMMA UmKnown ==
    AllKnown("um", SharedRows(UMContracts) \o UMIndexes \o UMSessions \o UMRpiDepth)
<1>1. AllKnown("um", UMIndexes)
    <2>1. /\ Known("um", Row("COMPOSITE_INDEX", "@compositeIndex", {"compositeIndex"}, <<Sym>>))
          /\ Known("um", Row("ASSET_INDEX", "@assetIndex", {"assetIndexUpdate"}, <<Sym>>))
        BY EventRow, EventClasses, EventWires DEF Foreign
    <2> QED BY <2>1, AllAssetRow, Lists DEF UMIndexes
<1>2. AllKnown("um", UMSessions)
    <2>1. Known("um", Row("TRADING_SESSION", "tradingSession", {"EquityUpdate", "CommodityUpdate"}, <<>>))
        BY EventRow, EventClasses, EventWires DEF Foreign
    <2> QED BY <2>1, Lists DEF UMSessions
<1>3. AllKnown("um", UMRpiDepth)
    <2>1. Known("um", Row("RPI_DIFF_DEPTH", "@rpiDepth", {}, <<Sym, Opt({"500"}, "500")>>))
        BY StreamRow, Unclaimed, StreamWires DEF Foreign
    <2> QED BY <2>1, Lists DEF UMRpiDepth
<1> QED BY <1>1, <1>2, <1>3, SharedKnown, Lists

LEMMA CmKnown ==
    AllKnown("cm", Kept(SharedRows(CMContracts) \o CMPairMarkPrice \o CMIndexes \o CMMarkPriceKline))
<1>1. AllKnown("futures", CMPairMarkPrice)
    <2>1. PICK slots : slots = <<Sym, Opt({"1s"}, "omitted")>>
        OBVIOUS
    <2>2. 1 \in DOMAIN slots /\ slots[1] = Sym
        BY <2>1
    <2> QED BY <2>1, <2>2, PairRow, Lists DEF CMPairMarkPrice
<1>2. AllKnown("futures", CMIndexes)
    <2>1. /\ Known("futures", Row("INDEX_PRICE", "@indexPrice", {"indexPriceUpdate"}, <<Sym, Lax({"1s"}, "omitted")>>))
          /\ Known("futures", Row("INDEX_PRICE_KLINE", "@indexPriceKline", {"indexPrice_kline"}, <<Sym, Intervals>>))
        BY EventRow, EventClasses, EventWires DEF Foreign
    <2> QED BY <2>1, Lists DEF CMIndexes
<1>3. AllKnown("futures", CMMarkPriceKline)
    <2>1. Known("futures", Row("MARK_PRICE_KLINE", "@markPriceKline", {"markPrice_kline"}, <<Sym, Intervals>>))
        BY EventRow, EventClasses, EventWires DEF Foreign
    <2> QED BY <2>1, Lists DEF CMMarkPriceKline
<1> QED BY <1>1, <1>2, <1>3, SharedKnown, Lists, KeptIs

LEMMA Extended ==
    ASSUME NEW m, NEW rows, NEW u, AllKnown(m, rows), OfUser(m, u)
    PROVE  LET all == rows \o <<u>> IN
           /\ \E n \in Nat : DOMAIN all = 1..n
           /\ \A i \in DOMAIN all : Known(m, all[i]) \/ OfUser(m, all[i])
<1>1. PICK S : rows \in Seq(S) /\ \A r \in S : Known(m, r)
    BY DEF AllKnown
<1>2. PICK T : T = S \cup {u}
    OBVIOUS
<1>3. rows \in Seq(T) /\ <<u>> \in Seq(T)
    BY <1>1, <1>2
<1>4. PICK all : all = rows \o <<u>>
    OBVIOUS
<1>5. all \in Seq(T)
    BY <1>3, <1>4, ConcatProperties
<1>6. Len(all) \in Nat /\ DOMAIN all = 1..Len(all) /\ \A i \in DOMAIN all : all[i] \in T
    BY <1>5
<1> QED BY <1>1, <1>2, <1>4, <1>6

\* Every row of every market is of one of the kinds.
LEMMA TableRows ==
    ASSUME NEW m \in {"spot", "um", "cm"}
    PROVE  /\ DOMAIN Table[m] \subseteq Nat
           /\ \A i \in DOMAIN Table[m] : Known(m, Table[m][i]) \/ OfUser(m, Table[m][i])
<1>1. OfUser(m, UserRow(UserEvents(m)))
    BY UserIs
<1>2. CASE m = "spot"
    <2>1. PICK rows : rows = SpotKlines \o SpotTrades \o SpotBooks \o SpotTickers
        OBVIOUS
    <2>2. Table[m] = rows \o <<UserRow(UserEvents(m))>>
        BY <1>2, <2>1 DEF Table, SpotProcessors, UserEvents
    <2>3. AllKnown(m, rows)
        BY <1>2, <2>1, SpotKnown
    <2> QED BY <1>1, <2>2, <2>3, Extended
<1>3. CASE m = "um"
    <2>1. PICK rows : rows = SharedRows(UMContracts) \o UMIndexes \o UMSessions \o UMRpiDepth
        OBVIOUS
    <2>2. Table[m] = rows \o <<UserRow(UserEvents(m))>>
        BY <1>3, <2>1 DEF Table, UMProcessors, UserEvents
    <2>3. AllKnown(m, rows)
        BY <1>3, <2>1, UmKnown
    <2> QED BY <1>1, <2>2, <2>3, Extended
<1>4. CASE m = "cm"
    <2>1. PICK rows : rows = Kept(SharedRows(CMContracts) \o CMPairMarkPrice \o CMIndexes \o CMMarkPriceKline)
        OBVIOUS
    <2>2. Table[m] = rows \o <<UserRow(UserEvents(m))>>
        BY <1>4, <2>1 DEF Table, CMProcessors, UserEvents
    <2>3. AllKnown(m, rows)
        BY <1>4, <2>1, CmKnown
    <2> QED BY <1>1, <2>2, <2>3, Extended
<1> QED BY <1>2, <1>3, <1>4

\* What a stream carries is for the class of its wire name, or is told by nothing
\* but the name; only the diffs of other books look like those of the local one.
CarryOK(m, wire, e) ==
    \/ wire = "user" /\ e \in UserEvents(m) /\ EventClass(e) = "none"
    \/ /\ e \notin SpotUserEvents \cup FuturesUserEvents
       /\ \/ EventWire(wire) # "none" /\ EventClass(e) = EventWire(wire)
          \/ StreamWire(wire) # "none" /\ (wire \in Arrays \/ EventClass(e) = "none")
          \/ wire = "@depthN" /\ e = "depthUpdate" /\ m # "spot"
          \/ wire = "@rpiDepth" /\ e = "depthUpdate"

LEMMA Carried ==
    ASSUME NEW m \in {"spot", "um", "cm"}
    PROVE  \A c \in CarriesOf[m] : CarryOK(m, c[1], c[2])
<1>1. /\ CarryOK(m, "@kline", "kline")
      /\ CarryOK(m, "@kline+08:00", "kline")
      /\ CarryOK(m, "@trade", "trade")
      /\ CarryOK(m, "@aggTrade", "aggTrade")
      /\ CarryOK(m, "@blockTrade", "blockTrade")
      /\ CarryOK(m, "@referencePrice", "referencePrice")
      /\ CarryOK(m, "@avgPrice", "avgPrice")
      /\ CarryOK(m, "@ticker_w", "1hTicker")
      /\ CarryOK(m, "@ticker_w", "4hTicker")
      /\ CarryOK(m, "@ticker", "24hrTicker")
      /\ CarryOK(m, "@miniTicker", "24hrMiniTicker")
    BY EventClasses, EventWires DEF CarryOK, SpotUserEvents, FuturesUserEvents
<1>2. /\ CarryOK(m, "@depth", "depthUpdate")
      /\ CarryOK(m, "@continuousKline", "continuous_kline")
      /\ CarryOK(m, "@indexPriceKline", "indexPrice_kline")
      /\ CarryOK(m, "@markPriceKline", "markPrice_kline")
      /\ CarryOK(m, "@markPrice", "markPriceUpdate")
      /\ CarryOK(m, "@indexPrice", "indexPriceUpdate")
      /\ CarryOK(m, "@assetIndex", "assetIndexUpdate")
      /\ CarryOK(m, "@forceOrder", "forceOrder")
      /\ CarryOK(m, "@compositeIndex", "compositeIndex")
      /\ CarryOK(m, "tradingSession", "EquityUpdate")
      /\ CarryOK(m, "tradingSession", "CommodityUpdate")
    BY EventClasses, EventWires DEF CarryOK, SpotUserEvents, FuturesUserEvents
<1>3. /\ CarryOK(m, "!ticker_w@arr", "1hTicker")
      /\ CarryOK(m, "!ticker@arr", "24hrTicker")
      /\ CarryOK(m, "!miniTicker@arr", "24hrMiniTicker")
      /\ CarryOK(m, "@rpiDepth", "depthUpdate")
      /\ CarryOK(m, "!markPrice@arr", "markPriceUpdate")
      /\ CarryOK(m, "!assetIndex@arr", "assetIndexUpdate")
      /\ CarryOK(m, "!forceOrder@arr", "forceOrder")
      /\ CarryOK(m, "!contractInfo", "contractInfo")
    <2>1. EventClass("contractInfo") = "none"
        BY DEF EventClass
    <2> QED BY <2>1, StreamWires, EventClasses DEF CarryOK, Arrays, SpotUserEvents, FuturesUserEvents
<1>4. ASSUME NEW c \in CommonCarries PROVE CarryOK(m, c[1], c[2])
    BY <1>1, <1>2, <1>3 DEF CommonCarries
<1>5. \A e \in SpotUserEvents \cup FuturesUserEvents \cup {"untyped", "bookTicker"} : EventClass(e) = "none"
    BY DEF EventClass, SpotUserEvents, FuturesUserEvents
<1>6. m = "spot" => \A c \in SpotCarries : CarryOK(m, c[1], c[2])
    BY <1>5, StreamWires DEF SpotCarries, CarryOK, UserEvents, SpotUserEvents, FuturesUserEvents
<1>7. m # "spot" => \A c \in FuturesCarries : CarryOK(m, c[1], c[2])
    BY <1>5, StreamWires DEF FuturesCarries, CarryOK, UserEvents, SpotUserEvents, FuturesUserEvents
<1>8. CarriesOf[m] = CommonCarries \cup (IF m = "spot" THEN SpotCarries ELSE FuturesCarries)
    BY DEF CarriesOf, Table
<1> QED BY <1>4, <1>6, <1>7, <1>8

LEMMA FirstIsIn ==
    ASSUME NEW S \in SUBSET Nat, S # {}
    PROVE  FirstOf(S) \in S
<1> DEFINE Below == {pair \in Nat \X Nat : pair[1] < pair[2]}
<1>1. IsWellFoundedOn(Below, Nat)
    BY NatLessThanWellFounded DEF OpToRel
<1>2. PICK i \in S : \A j \in S : <<j, i>> \notin Below
    <2> HIDE DEF Below
    <2> QED BY <1>1, WFMin
<1>3. ASSUME NEW j \in S PROVE i <= j
    <2>1. i \in Nat /\ j \in Nat
        OBVIOUS
    <2>2. <<j, i>> \in Nat \X Nat /\ <<j, i>>[1] = j /\ <<j, i>>[2] = i
        BY <2>1
    <2>3. ~(j < i)
        BY <1>2, <2>2
    <2> QED BY <2>1, <2>3
<1> QED BY <1>3 DEF FirstOf

-----------------------------------------------------------------------------
(* Subscriptions and the rows that serve them *)

Serving(m, sub) == {i \in DOMAIN Table[m] : Table[m][i].sub = sub}
RowOf(m, sub) == Table[m][FirstOf(Serving(m, sub))]
EventsIn(m, name) == {c[2] : c \in {d \in CarriesOf[m] : d[1] = name.wire}}
OwnIn(m, w, e) == IF w.sub = "USER" THEN {e} ELSE RowOf(m, w.sub).bases

\* The classes that row r dispatches event e to.
Aims(r, e) == IF r.sub = "USER" THEN {e} ELSE r.bases

\* A subscription that its market's processor accepted and named.
Named(m, w) ==
    /\ Serving(m, w.sub) # {}
    /\ Accepts(RowOf(m, w.sub), w.args)
    /\ w.name = NameOf(RowOf(m, w.sub), w.args)

\* A mark price of COIN-M that is asked for by the other's symbol.
Crosses(m, w) ==
    /\ m = "cm"
    /\ \/ w.sub = "MARK_PRICE" /\ w.args[1] = "pair"
       \/ w.sub = "PAIR_MARK_PRICE" /\ w.args[1] # "pair"

LEMMA RowFacts ==
    ASSUME NEW m \in {"spot", "um", "cm"}, NEW sub, Serving(m, sub) # {}
    PROVE  /\ RowOf(m, sub).sub = sub
           /\ Known(m, RowOf(m, sub)) \/ OfUser(m, RowOf(m, sub))
<1>1. Serving(m, sub) \in SUBSET Nat
    BY TableRows DEF Serving
<1>2. FirstOf(Serving(m, sub)) \in Serving(m, sub)
    BY <1>1, FirstIsIn
<1> QED BY <1>2, TableRows DEF Serving, RowOf

\* A symbol is a name's first part: a pair's name is a pair's, and no other's.
LEMMA SymbolNamed ==
    ASSUME NEW m, NEW w, Named(m, w), NEW r, r = RowOf(m, w.sub),
           1 \in DOMAIN r.slots, r.slots[1] = Sym
    PROVE  /\ 1 <= Len(w.args) /\ w.args[1] \in Symbols
           /\ w.name.at[1] = Normal(r, w.args[1])
           /\ w.name.at[1] = "pair" <=> w.args[1] = "pair"
<1>1. Sym.ok = Symbols /\ Sym.dflt = "required" /\ Sym.strict = TRUE
    BY DEF Sym
<1>2. 1 <= Len(w.args) /\ w.args[1] \in Symbols
    BY <1>1 DEF Named, Accepts
<1>3. w.name.at[1] = Normal(r, w.args[1])
    BY <1>1, <1>2 DEF Named, NameOf
<1>4. w.name.at[1] = "pair" <=> w.args[1] = "pair"
    BY <1>3 DEF Normal
<1> QED BY <1>2, <1>3, <1>4

\* The kind of the row decides what the name looks like and what it carries,
\* unless it was asked for by the other's symbol.
LEMMA NamedRow ==
    ASSUME market \in {"spot", "um", "cm"}, NEW m, m = market, NEW w, Named(m, w), ~Crosses(m, w),
           NEW r, r = RowOf(m, w.sub)
    PROVE  /\ r.sub = w.sub /\ w.name.wire = r.wire
           /\ Known(m, r) \/ OfUser(m, r)
           /\ \A c : ByEvent(r, c) => ~IsArray(w.name)
           /\ \A c : OfPair(r, c) => IsArray(w.name)
<1>1. r.sub = w.sub /\ (Known(m, r) \/ OfUser(m, r))
    BY RowFacts DEF Named
<1>2. w.name.wire = r.wire
    BY DEF Named, NameOf
<1>3. ASSUME NEW c, ByEvent(r, c) PROVE ~IsArray(w.name)
    <2>1. EventWire(r.wire) = c /\ c # "none"
        BY <1>3 DEF ByEvent, Foreign
    <2>2. r.wire \notin Arrays
        BY <2>1, Wires
    <2>3. m = "cm" /\ r.wire = "@markPrice" => w.name.at[1] # "pair"
        <3> SUFFICES ASSUME m = "cm", r.wire = "@markPrice" PROVE w.name.at[1] # "pair"
            OBVIOUS
        <3>1. c = "MARK_PRICE"
            BY <2>1, Wires
        <3>2. 1 \in DOMAIN r.slots /\ r.slots[1] = Sym /\ w.sub = "MARK_PRICE"
            BY <1>1, <1>3, <3>1 DEF ByEvent
        <3> QED BY <3>2, SymbolNamed DEF Crosses
    <2> QED BY <1>2, <2>2, <2>3 DEF IsArray, Arrays
<1>4. ASSUME NEW c, OfPair(r, c) PROVE IsArray(w.name)
    <2>1. 1 \in DOMAIN r.slots /\ r.slots[1] = Sym /\ w.sub = "PAIR_MARK_PRICE" /\ r.wire = "@markPrice"
        BY <1>1, <1>4 DEF OfPair
    <2>2. m = "cm"
        BY <1>1, <1>4 DEF Known, OfPair, OfUser
    <2>3. w.name.at[1] = "pair"
        BY <2>1, <2>2, SymbolNamed DEF Crosses
    <2> QED BY <1>2, <2>1, <2>2, <2>3 DEF IsArray
<1> QED BY <1>1, <1>2, <1>3, <1>4

\* The streams whose messages the local book takes for its own.
Overheard(m, w) == m # "spot" /\ w.sub \in {"PARTIAL_ORDER_BOOK", "RPI_DIFF_DEPTH"}

LEMMA KnownAims ==
    ASSUME NEW m, NEW r, NEW c, r.bases = {c},
           ByEvent(r, c) \/ ByStream(r, c) \/ OfPair(r, c)
    PROVE  /\ r.sub # "USER" /\ c \notin Foreign
           /\ \A e : Aims(r, e) = {c}
<1>1. c \notin Foreign
    BY DEF ByEvent, ByStream, OfPair, Foreign
<1>2. r.sub # "USER"
    BY <1>1 DEF ByEvent, ByStream, OfPair, Foreign
<1> QED BY <1>1, <1>2 DEF Aims

LEMMA EventsCarried ==
    ASSUME NEW m \in {"spot", "um", "cm"}, NEW name, NEW e \in EventsIn(m, name)
    PROVE  CarryOK(m, name.wire, e)
BY Carried DEF EventsIn

\* Whatever row takes a message dispatches it to the classes it is for, unless
\* the row is the book's and the message the diff of another book.
LEMMA TakenByItsOwn ==
    ASSUME market \in {"spot", "um", "cm"}, NEW m, m = market, NEW w, Named(m, w), ~Crosses(m, w),
           NEW e \in EventsIn(m, w.name),
           NEW q, Known(m, q) \/ OfUser(m, q), Matches(q, w.name, e)
    PROVE  \/ Aims(q, e) = OwnIn(m, w, e)
           \/ Overheard(m, w) /\ e = "depthUpdate" /\ Aims(q, e) = {"ORDER_BOOK"}
<1>1. PICK r : r = RowOf(m, w.sub)
    OBVIOUS
<1>2. /\ r.sub = w.sub /\ w.name.wire = r.wire
      /\ Known(m, r) \/ OfUser(m, r)
      /\ \A c : ByEvent(r, c) => ~IsArray(w.name)
      /\ \A c : OfPair(r, c) => IsArray(w.name)
    BY <1>1, NamedRow
<1>3. CarryOK(m, r.wire, e)
    BY <1>2, EventsCarried
<1>4. w.name.wire \in Arrays => IsArray(w.name)
    BY DEF Arrays, IsArray
<1>5. ASSUME NEW d, ByEvent(q, d)
      PROVE  EventClass(e) = d /\ d # "none" /\ ~IsArray(w.name) /\ d \notin Foreign
    BY <1>5 DEF ByEvent, Matches, Foreign
<1>6. ASSUME NEW d, ByStream(q, d)
      PROVE  StreamWire(r.wire) = d /\ d # "none"
    BY <1>2, <1>6 DEF ByStream, Matches, Foreign
<1>7. ASSUME NEW d, OfPair(q, d)
      PROVE  IsArray(w.name) /\ r.wire = "@markPrice"
    BY <1>2, <1>7 DEF OfPair, Matches
<1>8. ASSUME OfUser(m, q) PROVE e \in UserEvents(m) /\ ~IsArray(w.name) /\ Aims(q, e) = {e}
    <2>1. UserEvents(m) # {}
        BY DEF UserEvents, SpotUserEvents, FuturesUserEvents
    <2> QED BY <1>8, <2>1 DEF OfUser, Matches, Aims
<1>9. UserEvents(m) \subseteq SpotUserEvents \cup FuturesUserEvents
    BY DEF UserEvents
<1>10. CASE OfUser(m, r)
    <2>1. r.wire = "user" /\ w.sub = "USER" /\ OwnIn(m, w, e) = {e}
        BY <1>2, <1>10 DEF OfUser, OwnIn
    <2>2. EventClass(e) = "none"
        BY <1>3, <2>1, Wires DEF CarryOK
    <2>3. EventWire(r.wire) = "none" /\ StreamWire(r.wire) = "none" /\ r.wire # "@markPrice"
        BY <2>1, Wires
    <2>4. ~\E d : ByEvent(q, d) \/ ByStream(q, d) \/ OfPair(q, d)
        BY <1>5, <1>6, <1>7, <2>2, <2>3
    <2>5. OfUser(m, q)
        BY <2>4 DEF Known
    <2> QED BY <1>8, <2>1, <2>5
<1>11. CASE Known(m, r)
    <2>1. PICK c : r.bases = {c} /\ (ByEvent(r, c) \/ ByStream(r, c) \/ OfPair(r, c))
        BY <1>11 DEF Known
    <2>2. OwnIn(m, w, e) = {c}
        BY <1>1, <1>2, <2>1, KnownAims DEF OwnIn
    <2>3. r.wire # "user"
        BY <2>1, Wires DEF ByEvent, ByStream, OfPair, Foreign
    <2>4. /\ e \notin SpotUserEvents \cup FuturesUserEvents
          /\ \/ EventWire(r.wire) # "none" /\ EventClass(e) = EventWire(r.wire)
             \/ StreamWire(r.wire) # "none" /\ (r.wire \in Arrays \/ EventClass(e) = "none")
             \/ r.wire = "@depthN" /\ e = "depthUpdate" /\ m # "spot"
             \/ r.wire = "@rpiDepth" /\ e = "depthUpdate"
        BY <1>3, <2>3 DEF CarryOK
    <2>5. ~OfUser(m, q)
        BY <1>8, <1>9, <2>4
    <2>6. PICK d : q.bases = {d} /\ (ByEvent(q, d) \/ ByStream(q, d) \/ OfPair(q, d))
        BY <2>5 DEF Known
    <2>7. Aims(q, e) = {d}
        BY <2>6, KnownAims
    <2>8. StreamWire("@depthN") = "PARTIAL_ORDER_BOOK" /\ StreamWire("@rpiDepth") = "RPI_DIFF_DEPTH"
        BY StreamWires
    <2>9. CASE ByEvent(r, c)
        <3>1. EventWire(r.wire) = c /\ c # "none"
            BY <2>9 DEF ByEvent, Foreign
        <3>2. StreamWire(r.wire) = "none"
            BY <3>1, Wires
        <3>3. EventClass(e) = c
            BY <2>4, <2>8, <3>1, <3>2
        <3>4. d = c
            BY <1>2, <1>5, <1>6, <1>7, <2>6, <2>9, <3>2, <3>3
        <3> QED BY <2>2, <2>7, <3>4
    <2>10. CASE ByStream(r, c)
        <3>1. StreamWire(r.wire) = c /\ c # "none" /\ r.sub = (IF c = "ALL_ASSET_INDEX" THEN "ASSET_INDEX" ELSE c)
            BY <2>10 DEF ByStream, Foreign
        <3>2. EventWire(r.wire) = "none" /\ r.wire # "@markPrice"
            BY <3>1, Wires
        <3>3. CASE ByStream(q, d)
            BY <1>6, <2>2, <2>7, <3>1, <3>3
        <3>4. CASE ByEvent(q, d)
            <4>1. EventClass(e) = d /\ d # "none" /\ r.wire \notin Arrays
                BY <1>2, <1>4, <1>5, <3>4
            <4>2. \/ r.wire = "@depthN" /\ e = "depthUpdate" /\ m # "spot"
                  \/ r.wire = "@rpiDepth" /\ e = "depthUpdate"
                BY <2>4, <3>2, <4>1
            <4>3. m # "spot"
                BY <1>11, <4>2 DEF Known
            <4>4. d = "ORDER_BOOK"
                BY <4>1, <4>2, EventClasses
            <4>5. w.sub \in {"PARTIAL_ORDER_BOOK", "RPI_DIFF_DEPTH"}
                BY <1>2, <2>8, <3>1, <4>2
            <4> QED BY <2>7, <4>2, <4>3, <4>4, <4>5 DEF Overheard
        <3> QED BY <1>7, <2>6, <3>2, <3>3, <3>4
    <2>11. CASE OfPair(r, c)
        <3>1. IsArray(w.name) /\ r.wire = "@markPrice" /\ c = "PAIR_MARK_PRICE"
            BY <1>2, <2>11 DEF OfPair
        <3>2. StreamWire(r.wire) = "none"
            BY <3>1, Wires
        <3>3. OfPair(q, d)
            BY <1>5, <1>6, <2>6, <3>1, <3>2
        <3> QED BY <2>2, <2>7, <3>1, <3>3 DEF OfPair
    <2> QED BY <2>1, <2>9, <2>10, <2>11
<1> QED BY <1>2, <1>10, <1>11

\* A row that claims a class takes the messages that are for the class.
LEMMA ClaimantTakes ==
    ASSUME market \in {"spot", "um", "cm"}, NEW m, m = market, NEW w, Named(m, w), ~Crosses(m, w),
           NEW e \in EventsIn(m, w.name),
           NEW q, Known(m, q) \/ OfUser(m, q), NEW c \in OwnIn(m, w, e), c \in q.bases
    PROVE  Matches(q, w.name, e) /\ c \in Aims(q, e)
<1>1. PICK r : r = RowOf(m, w.sub)
    OBVIOUS
<1>2. /\ r.sub = w.sub /\ w.name.wire = r.wire
      /\ Known(m, r) \/ OfUser(m, r)
      /\ \A d : ByEvent(r, d) => ~IsArray(w.name)
      /\ \A d : OfPair(r, d) => IsArray(w.name)
    BY <1>1, NamedRow
<1>3. CarryOK(m, r.wire, e)
    BY <1>2, EventsCarried
<1>4. \A x \in UserEvents(m) : x \in Foreign
    BY DEF UserEvents, SpotUserEvents, FuturesUserEvents, Foreign
<1>5. CASE OfUser(m, r)
    <2>1. r.wire = "user" /\ c = e
        BY <1>1, <1>2, <1>5 DEF OfUser, OwnIn
    <2>2. e \in UserEvents(m)
        BY <1>3, <2>1, Wires DEF CarryOK
    <2>3. OfUser(m, q)
        BY <1>4, <2>1, <2>2, KnownAims DEF Known
    <2>4. ~IsArray(w.name)
        BY <1>2, <2>1 DEF IsArray
    <2> QED BY <2>1, <2>2, <2>3, <2>4 DEF OfUser, Matches, Aims
<1>6. CASE Known(m, r)
    <2>1. PICK d : r.bases = {d} /\ (ByEvent(r, d) \/ ByStream(r, d) \/ OfPair(r, d))
        BY <1>6 DEF Known
    <2>2. c = d /\ c \notin Foreign
        BY <1>1, <1>2, <2>1, KnownAims DEF OwnIn
    <2>3. ~OfUser(m, q)
        BY <1>4, <2>2 DEF OfUser
    <2>4. q.bases = {c} /\ (ByEvent(q, c) \/ ByStream(q, c) \/ OfPair(q, c))
        BY <2>3 DEF Known
    <2>5. c \in Aims(q, e)
        BY <2>4, KnownAims
    <2>6. CASE ByEvent(r, c)
        <3>1. EventWire(r.wire) = c /\ c # "none" /\ c # "PAIR_MARK_PRICE" /\ \E x : EventClass(x) = c
            BY <2>6 DEF ByEvent, Foreign
        <3>2. StreamWire(r.wire) = "none" /\ EventWire("user") = "none"
            BY <3>1, Wires
        <3>3. StreamWire("@depthN") # "none" /\ StreamWire("@rpiDepth") # "none"
            BY StreamWires
        <3>4. EventClass(e) = c
            BY <1>3, <3>1, <3>2, <3>3 DEF CarryOK
        <3>5. ByEvent(q, c)
            BY <2>4, <3>1 DEF ByStream, OfPair
        <3>6. e \in q.es
            BY <3>4, <3>5 DEF ByEvent
        <3> QED BY <1>2, <2>5, <2>6, <3>6 DEF Matches
    <2>7. CASE ByStream(r, c)
        <3>1. StreamWire(r.wire) = c /\ c # "none" /\ c # "PAIR_MARK_PRICE" /\ \A x : EventClass(x) # c
            BY <2>7 DEF ByStream, Foreign
        <3>2. ByStream(q, c)
            BY <2>4, <3>1 DEF ByEvent, OfPair
        <3>3. StreamWire(q.wire) = c /\ q.es = {} /\ ~q.array
            BY <3>2 DEF ByStream
        <3>4. q.wire = r.wire
            BY <3>1, <3>3, Wires
        <3> QED BY <1>2, <2>5, <3>3, <3>4 DEF Matches
    <2>8. CASE OfPair(r, c)
        <3>1. OfPair(q, c)
            BY <2>4, <2>8 DEF OfPair, ByEvent, ByStream
        <3> QED BY <1>2, <2>5, <2>8, <3>1 DEF OfPair, Matches
    <2> QED BY <2>1, <2>2, <2>6, <2>7, <2>8
<1> QED BY <1>2, <1>5, <1>6

\* Two names are the same only for the same sub type.
LEMMA SameNameSameSub ==
    ASSUME market \in {"spot", "um", "cm"}, NEW m, m = market, NEW v, NEW w, Named(m, v), Named(m, w),
           ~Crosses(m, v), ~Crosses(m, w), v.name = w.name
    PROVE  v.sub = w.sub
<1>1. PICK p, q : p = RowOf(m, v.sub) /\ q = RowOf(m, w.sub)
    OBVIOUS
<1>2. /\ p.sub = v.sub /\ v.name.wire = p.wire
      /\ Known(m, p) \/ OfUser(m, p)
      /\ \A c : ByEvent(p, c) => ~IsArray(v.name)
      /\ \A c : OfPair(p, c) => IsArray(v.name)
    BY <1>1, NamedRow
<1>3. /\ q.sub = w.sub /\ w.name.wire = q.wire
      /\ Known(m, q) \/ OfUser(m, q)
      /\ \A c : ByEvent(q, c) => ~IsArray(w.name)
      /\ \A c : OfPair(q, c) => IsArray(w.name)
    BY <1>1, NamedRow
<1>4. p.wire = q.wire
    BY <1>2, <1>3
<1>5. \A r, c : ByEvent(r, c) => /\ EventWire(r.wire) = c /\ c # "none" /\ StreamWire(r.wire) = "none"
                                 /\ r.sub = IF r.wire = "@kline+08:00" THEN "KLINE_UTC8" ELSE c
    BY Wires DEF ByEvent, Foreign
<1>6. \A r, c : ByStream(r, c) => /\ StreamWire(r.wire) = c /\ c # "none" /\ EventWire(r.wire) = "none"
                                  /\ r.sub = IF c = "ALL_ASSET_INDEX" THEN "ASSET_INDEX" ELSE c
    BY Wires DEF ByStream, Foreign
<1>7. \A r, c : OfPair(r, c) => /\ r.sub = "PAIR_MARK_PRICE" /\ r.wire = "@markPrice"
                                /\ StreamWire(r.wire) = "none" /\ EventWire(r.wire) # "none"
    BY Wires DEF OfPair
<1>8. \A r : OfUser(m, r) => r.sub = "USER" /\ EventWire(r.wire) = "none" /\ StreamWire(r.wire) = "none"
    BY Wires DEF OfUser
<1>9. \A r : Known(m, r) => \E c : ByEvent(r, c) \/ ByStream(r, c) \/ OfPair(r, c)
    BY DEF Known
<1>10. CASE OfUser(m, p)
    BY <1>2, <1>3, <1>4, <1>5, <1>6, <1>7, <1>8, <1>9, <1>10
<1>11. CASE \E c : ByEvent(p, c)
    BY <1>2, <1>3, <1>4, <1>5, <1>6, <1>7, <1>8, <1>9, <1>11
<1>12. CASE \E c : ByStream(p, c)
    BY <1>2, <1>3, <1>4, <1>5, <1>6, <1>7, <1>8, <1>9, <1>12
<1>13. CASE \E c : OfPair(p, c)
    BY <1>2, <1>3, <1>4, <1>5, <1>6, <1>7, <1>8, <1>9, <1>13
<1> QED BY <1>2, <1>9, <1>10, <1>11, <1>12, <1>13

\* COIN-M's rows keep the symbol.
LEMMA SymbolKept ==
    ASSUME NEW w, Named("cm", w), NEW r, r = RowOf("cm", w.sub), 1 \in DOMAIN r.slots, r.slots[1] = Sym
    PROVE  w.name.at[1] = w.args[1]
<1>1. Known("cm", r) \/ OfUser("cm", r)
    BY RowFacts DEF Named
<1>2. Known("cm", r)
    BY <1>1 DEF OfUser
<1> QED BY <1>2, SymbolNamed DEF Known, Normal

\* Every part of an accepted request is named.
LEMMA RequestNamed ==
    ASSUME market \in Markets, NEW req \in Requests[market], Accepted(req), NEW w \in Resolution(req)
    PROVE  Named(market, w)
<1>1. PICK t \in Expanded(req) :
          w = [sub |-> t[1], args |-> Tail(t), name |-> NameOf(Processor(t[1]), Tail(t))]
    BY DEF Resolution
<1>2. w.sub = t[1] /\ w.args = Tail(t) /\ w.name = NameOf(Processor(t[1]), Tail(t))
    BY <1>1
<1>3. /\ Supporting(t[1]) = Serving(market, t[1]) /\ Processor(t[1]) = RowOf(market, t[1])
    BY DEF Supporting, Serving, Processor, Processors, Rows, RowOf
<1>4. Serving(market, t[1]) # {} /\ Accepts(RowOf(market, t[1]), Tail(t))
    BY <1>3 DEF Accepted, Resolves
<1> QED BY <1>2, <1>3, <1>4 DEF Named

-----------------------------------------------------------------------------
(* The invariant *)

NamesOK == \A w \in Subscribed : Named(market, w)

\* The processor of every handler registered is in use.
ActiveOK ==
    /\ active \subseteq DOMAIN Table[market]
    /\ \A c \in handlers \ Framework : c \in DOMAIN Claimed[market] /\ Claimed[market][c] \in active

Owed == work.msg.due
Heard(m, w, e) == OwnIn(m, w, e) \cup (IF e = "depthUpdate" THEN {"ORDER_BOOK"} ELSE {})

\* What is owed and not yet given is what the rows left will give; and once a
\* first row has been asked, only an overheard message still owes anything.
Rightly ==
    /\ work.got \subseteq Heard(market, work.msg.from, work.msg.e)
    /\ work.phase = "done" => Owed \subseteq work.got
    /\ work.phase # "failed" => Owed \subseteq work.got \/ Overheard(market, work.msg.from)
    /\ work.phase = "routing" => \A c \in Owed :
          \/ c \in work.got
          \/ \E i \in work.todo : c \in handlers /\ c \in Aims(Table[market][i], work.msg.e)

MessageOK ==
    /\ work.phase \in {"idle", "routing", "done", "broken", "failed"}
    /\ work.phase # "idle" =>
          /\ Named(market, work.msg.from) /\ work.msg.e \in EventsIn(market, work.msg.from.name)
          /\ ~Crosses(market, work.msg.from) => Rightly
    /\ work.phase = "routing" =>
          /\ work = [phase |-> "routing", msg |-> work.msg, todo |-> work.todo, got |-> work.got]
          /\ work.todo \subseteq DOMAIN Table[market]
          /\ \A i \in work.todo : Matches(Table[market][i], work.msg.from.name, work.msg.e)

RInv == market \in Markets /\ NamesOK /\ ActiveOK /\ MessageOK

LEMMA InMarket == ASSUME market \in Markets PROVE market \in {"spot", "um", "cm"}
BY RoutingAssumption

\* The definitions of the model, said of a market.
LEMMA Spelled ==
    /\ \A sub : Processor(sub) = RowOf(market, sub)
    /\ \A w, e : Own(w, e) = OwnIn(market, w, e)
    /\ \A name : Events(name) = EventsIn(market, name)
    /\ \A w : Misnamed(w) = Crosses(market, w)
    /\ \A i, e : Targets(i, e) = handlers \cap Aims(Table[market][i], e)
    /\ Processors = Table[market]
BY DEF Processor, Supporting, Serving, Processors, Rows, RowOf, Own, OwnIn, Events, EventsIn,
       Targets, Aims, Misnamed, Crosses

LEMMA ClaimedRow ==
    ASSUME NEW m \in {"spot", "um", "cm"}, NEW c \in DOMAIN Claimed[m]
    PROVE  Claimed[m][c] \in DOMAIN Table[m] /\ c \in Table[m][Claimed[m][c]].bases
<1>1. m \in DOMAIN Table
    BY DEF Table
<1>2. PICK F : F = {i \in DOMAIN Table[m] : c \in Table[m][i].bases}
    OBVIOUS
<1>3. Claimed[m] = [d \in UNION {Table[m][i].bases : i \in DOMAIN Table[m]} |->
                      FirstOf({i \in DOMAIN Table[m] : d \in Table[m][i].bases})]
    BY <1>1 DEF Claimed
<1>4. Claimed[m][c] = FirstOf(F) /\ F # {}
    BY <1>2, <1>3
<1>5. F \in SUBSET Nat
    BY <1>2, TableRows
<1>6. FirstOf(F) \in F
    BY <1>4, <1>5, FirstIsIn
<1> QED BY <1>2, <1>4, <1>6

\* The handlers of a message's class are behind a row that takes it.
LEMMA OwedTaken ==
    ASSUME market \in Markets, ActiveOK, NEW w, Named(market, w), ~Crosses(market, w), NEW e \in EventsIn(market, w.name),
           NEW c \in handlers \cap OwnIn(market, w, e)
    PROVE  \E i \in Matching(w.name, e) : c \in Aims(Table[market][i], e)
<1>1. market \in {"spot", "um", "cm"}
    BY InMarket
<1>2. c \notin Framework
    <2>1. PICK r : r = RowOf(market, w.sub)
        OBVIOUS
    <2>2. r.sub = w.sub /\ w.name.wire = r.wire /\ (Known(market, r) \/ OfUser(market, r))
        BY <1>1, <2>1, NamedRow
    <2>3. CASE Known(market, r)
        BY <2>1, <2>2, <2>3, KnownAims DEF Known, OwnIn, Framework, Foreign
    <2>4. CASE OfUser(market, r)
        <3>1. c = e /\ r.wire = "user"
            BY <2>1, <2>2, <2>4 DEF OfUser, OwnIn
        <3>2. e \in UserEvents(market)
            BY <1>1, <2>2, <3>1, EventsCarried, Wires DEF CarryOK
        <3> QED BY <3>1, <3>2 DEF UserEvents, SpotUserEvents, FuturesUserEvents, Framework
    <2> QED BY <2>2, <2>3, <2>4
<1>3. PICK i : i = Claimed[market][c] /\ i \in active
    BY <1>2 DEF ActiveOK
<1>4. i \in DOMAIN Table[market] /\ c \in Table[market][i].bases
    BY <1>1, <1>2, <1>3, ClaimedRow DEF ActiveOK
<1>5. Known(market, Table[market][i]) \/ OfUser(market, Table[market][i])
    BY <1>1, <1>4, TableRows
<1>6. Matches(Table[market][i], w.name, e) /\ c \in Aims(Table[market][i], e)
    BY <1>1, <1>4, <1>5, ClaimantTakes
<1>7. i \in Matching(w.name, e)
    BY <1>3, <1>6, Spelled DEF Matching
<1> QED BY <1>6, <1>7

\* What a row that takes a message gives: to the message's own handlers, all of
\* them, or to the book.
LEMMA Given ==
    ASSUME market \in Markets, NEW w, Named(market, w), ~Crosses(market, w), NEW e \in EventsIn(market, w.name),
           NEW i \in DOMAIN Table[market], Matches(Table[market][i], w.name, e)
    PROVE  /\ Targets(i, e) \subseteq Heard(market, w, e)
           /\ Targets(i, e) = handlers \cap OwnIn(market, w, e) \/ Overheard(market, w)
<1>1. market \in {"spot", "um", "cm"}
    BY InMarket
<1>2. Known(market, Table[market][i]) \/ OfUser(market, Table[market][i])
    BY <1>1, TableRows
<1>3. \/ Aims(Table[market][i], e) = OwnIn(market, w, e)
      \/ Overheard(market, w) /\ e = "depthUpdate" /\ Aims(Table[market][i], e) = {"ORDER_BOOK"}
    BY <1>1, <1>2, TakenByItsOwn
<1> QED BY <1>3, Spelled DEF Heard

\* A message under way, or its end, after a step that changed none of it.
LEMMA Rested ==
    ASSUME MessageOK, market' = market, handlers \subseteq handlers', work' = Rest
    PROVE  MessageOK'
<1>1. CASE work.phase = "routing"
    <2>1. work' = work
        BY <1>1 DEF Rest
    <2>2. \A i, c : c \in handlers /\ c \in Aims(Table[market][i], work.msg.e)
                    => c \in handlers' /\ c \in Aims(Table[market][i], work.msg.e)
        OBVIOUS
    <2>3. Rightly => Rightly'
        BY <1>1, <2>1, <2>2 DEF Rightly, Owed
    <2> QED BY <1>1, <2>1, <2>3 DEF MessageOK, Matches, IsArray
<1>2. CASE work.phase # "routing"
    <2>1. work'.phase = "idle"
        BY <1>2 DEF Rest, Idle
    <2> QED BY <2>1 DEF MessageOK
<1> QED BY <1>1, <1>2

LEMMA Calls ==
    ASSUME RInv, NEW req \in Requests[market], Subscribe(req)
    PROVE  RInv'
<1>1. /\ Accepted(req) /\ wanted' = wanted \cup {Resolution(req)} /\ work' = Rest
      /\ market' = market /\ handlers' = handlers /\ active' = active
    BY DEF Subscribe
<1>2. NamesOK'
    <2>1. \A w \in Resolution(req) : Named(market, w)
        BY <1>1, RequestNamed DEF RInv
    <2>2. Subscribed' = Subscribed \cup Resolution(req)
        BY <1>1 DEF Subscribed
    <2> QED BY <1>1, <2>1, <2>2 DEF RInv, NamesOK
<1>3. ActiveOK'
    BY <1>1 DEF RInv, ActiveOK
<1>4. MessageOK'
    BY <1>1, Rested DEF RInv
<1> QED BY <1>1, <1>2, <1>3, <1>4 DEF RInv

LEMMA Registers ==
    ASSUME RInv, NEW c \in Classes, SetHandler(c)
    PROVE  RInv'
<1>1. /\ handlers' = handlers \cup {c} /\ work' = Rest /\ market' = market /\ wanted' = wanted
      /\ active' = IF c \in Framework THEN active ELSE active \cup {Claimed[market][c]}
    BY DEF SetHandler
<1>2. NamesOK'
    BY <1>1 DEF RInv, NamesOK, Subscribed
<1>3. ActiveOK'
    <2>1. CASE c \in Framework
        BY <1>1, <2>1 DEF RInv, ActiveOK
    <2>2. CASE c \notin Framework
        <3>1. c \in DOMAIN Claimed[market]
            BY <2>2 DEF Classes
        <3>2. Claimed[market][c] \in DOMAIN Table[market]
            BY <3>1, InMarket, ClaimedRow DEF RInv
        <3> QED BY <1>1, <2>2, <3>1, <3>2 DEF RInv, ActiveOK
    <2> QED BY <2>1, <2>2
<1>4. MessageOK'
    BY <1>1, Rested DEF RInv
<1> QED BY <1>1, <1>2, <1>3, <1>4 DEF RInv

LEMMA Receives ==
    ASSUME RInv, NEW w \in Subscribed, NEW e \in Events(w.name), Receive(w, e)
    PROVE  RInv'
<1>1. Named(market, w) /\ e \in EventsIn(market, w.name)
    BY Spelled DEF RInv, NamesOK
<1>2. market' = market /\ handlers' = handlers /\ active' = active /\ wanted' = wanted
    BY DEF Receive
<1>3. PICK todo, msg :
          /\ todo = Matching(w.name, e)
          /\ msg = [from |-> w, e |-> e, size |-> Cardinality(active), due |-> handlers \cap Own(w, e)]
    OBVIOUS
<1>4. IF todo = {} THEN work' = [phase |-> "done", msg |-> msg, got |-> {}]
                   ELSE \E i \in todo : work' = [phase |-> "routing", msg |-> msg,
                                                 todo |-> todo \ {i}, got |-> Targets(i, e)]
    BY <1>3 DEF Receive
<1>5. msg.from = w /\ msg.e = e /\ msg.due = handlers \cap OwnIn(market, w, e)
    BY <1>3, Spelled
<1>6. ~Crosses(market, w) => \A c \in msg.due : \E i \in todo : c \in Aims(Table[market][i], e)
    BY <1>1, <1>3, <1>5, OwedTaken DEF RInv
<1>7. todo \subseteq DOMAIN Table[market] /\ \A i \in todo : Matches(Table[market][i], w.name, e)
    BY <1>3, Spelled DEF RInv, ActiveOK, Matching
<1>8. MessageOK'
    <2>1. CASE todo = {}
        <3>1. work' = [phase |-> "done", msg |-> msg, got |-> {}]
            BY <1>4, <2>1
        <3>2. work'.phase = "done" /\ work'.msg = msg /\ work'.got = {}
            BY <3>1
        <3>3. ~Crosses(market, w) => msg.due = {}
            BY <1>6, <2>1
        <3>4. ~Crosses(market, w) => Rightly'
            BY <1>2, <1>5, <3>2, <3>3 DEF Rightly, Owed
        <3> QED BY <1>1, <1>2, <1>5, <3>2, <3>4 DEF MessageOK
    <2>2. CASE todo # {}
        <3>1. PICK i \in todo : work' = [phase |-> "routing", msg |-> msg,
                                         todo |-> todo \ {i}, got |-> Targets(i, e)]
            BY <1>4, <2>2
        <3>2. /\ work'.phase = "routing" /\ work'.msg = msg /\ work'.todo = todo \ {i}
              /\ work'.got = Targets(i, e)
            BY <3>1
        <3>3. ~Crosses(market, w) =>
              /\ Targets(i, e) \subseteq Heard(market, w, e)
              /\ Targets(i, e) = handlers \cap OwnIn(market, w, e) \/ Overheard(market, w)
            BY <1>1, <1>7, Given DEF RInv
        <3>4. ~Crosses(market, w) => \A c \in msg.due : c \in Targets(i, e) \/ \E j \in todo \ {i} :
                  c \in handlers /\ c \in Aims(Table[market][j], e)
            BY <1>5, <1>6, Spelled
        <3>5. work' = [phase |-> "routing", msg |-> work'.msg, todo |-> work'.todo, got |-> work'.got]
            BY <3>1, <3>2
        <3>6. ~Crosses(market, w) => Rightly'
            BY <1>2, <1>5, <3>2, <3>3, <3>4 DEF Rightly, Owed
        <3> QED BY <1>1, <1>2, <1>5, <1>7, <3>2, <3>5, <3>6 DEF MessageOK, Matches, IsArray
    <2> QED BY <2>1, <2>2
<1> QED BY <1>2, <1>8 DEF RInv, NamesOK, Subscribed, ActiveOK

LEMMA Returns ==
    ASSUME RInv, Return
    PROVE  RInv'
<1>1. /\ work.phase = "routing"
      /\ market' = market /\ handlers' = handlers /\ active' = active /\ wanted' = wanted
    BY DEF Return
<1>2. PICK w, e : w = work.msg.from /\ e = work.msg.e
    OBVIOUS
<1>3. /\ Named(market, w) /\ e \in EventsIn(market, w.name)
      /\ ~Crosses(market, w) => /\ work.got \subseteq Heard(market, w, e)
                                /\ work.msg.due \subseteq work.got \/ Overheard(market, w)
      /\ work = [phase |-> "routing", msg |-> work.msg, todo |-> work.todo, got |-> work.got]
      /\ work.todo \subseteq DOMAIN Table[market]
      /\ \A i \in work.todo : Matches(Table[market][i], w.name, e)
      /\ ~Crosses(market, w) => \A c \in work.msg.due : c \in work.got \/ \E i \in work.todo :
            c \in handlers /\ c \in Aims(Table[market][i], e)
    BY <1>1, <1>2 DEF RInv, MessageOK, Rightly, Owed
<1>4. MessageOK'
    <2>1. CASE Cardinality(active) # work.msg.size
        <3>1. work' = [phase |-> "broken", msg |-> work.msg, got |-> work.got]
            BY <2>1 DEF Return
        <3>2. work'.phase = "broken" /\ work'.msg = work.msg /\ work'.got = work.got
            BY <3>1
        <3>3. ~Crosses(market, w) => Rightly'
            BY <1>1, <1>2, <1>3, <3>2 DEF Rightly, Owed
        <3> QED BY <1>1, <1>2, <1>3, <3>2, <3>3 DEF MessageOK
    <2>2. CASE Cardinality(active) = work.msg.size /\ work.todo = {}
        <3>1. work' = [phase |-> "done", msg |-> work.msg, got |-> work.got]
            BY <2>2 DEF Return
        <3>2. work'.phase = "done" /\ work'.msg = work.msg /\ work'.got = work.got
            BY <3>1
        <3>3. ~Crosses(market, w) => Rightly'
            BY <1>1, <1>2, <1>3, <2>2, <3>2 DEF Rightly, Owed
        <3> QED BY <1>1, <1>2, <1>3, <3>2, <3>3 DEF MessageOK
    <2>3. CASE Cardinality(active) = work.msg.size /\ work.todo # {}
        <3>1. PICK i \in work.todo : work' = [work EXCEPT !.todo = @ \ {i},
                                                          !.got = @ \cup Targets(i, work.msg.e)]
            BY <2>3 DEF Return
        <3>2. work' = [phase |-> "routing", msg |-> work.msg, todo |-> work.todo \ {i},
                       got |-> work.got \cup Targets(i, e)]
            <4>1. PICK m, s, g : m = work.msg /\ s = work.todo /\ g = work.got
                OBVIOUS
            <4>2. work = [phase |-> "routing", msg |-> m, todo |-> s, got |-> g]
                BY <1>3, <4>1
            <4>3. work' = [work EXCEPT !.todo = s \ {i}, !.got = g \cup Targets(i, e)]
                BY <1>2, <3>1, <4>1
            <4>4. work' = [phase |-> "routing", msg |-> m, todo |-> s \ {i}, got |-> g \cup Targets(i, e)]
                BY <4>2, <4>3
            <4> QED BY <4>1, <4>4
        <3>3. /\ work'.phase = "routing" /\ work'.msg = work.msg /\ work'.todo = work.todo \ {i}
              /\ work'.got = work.got \cup Targets(i, e)
            BY <3>2
        <3>4. ~Crosses(market, w) => Targets(i, e) \subseteq Heard(market, w, e)
            BY <1>3, Given DEF RInv
        <3>5. ~Crosses(market, w) => \A c \in work.msg.due : c \in work'.got \/ \E j \in work.todo \ {i} :
                  c \in handlers /\ c \in Aims(Table[market][j], e)
            BY <1>3, <3>3, Spelled
        <3>6. work' = [phase |-> "routing", msg |-> work'.msg, todo |-> work'.todo, got |-> work'.got]
            BY <3>2, <3>3
        <3>7. ~Crosses(market, w) => Rightly'
            BY <1>1, <1>2, <1>3, <3>3, <3>4, <3>5 DEF Rightly, Owed
        <3> QED BY <1>1, <1>2, <1>3, <3>3, <3>6, <3>7 DEF MessageOK, Matches, IsArray
    <2> QED BY <2>1, <2>2, <2>3
<1> QED BY <1>1, <1>4 DEF RInv, NamesOK, Subscribed, ActiveOK

LEMMA Raises ==
    ASSUME RInv, Raise
    PROVE  RInv'
<1>1. /\ work.phase = "routing"
      /\ work' = [phase |-> "failed", msg |-> work.msg, got |-> work.got]
      /\ market' = market /\ handlers' = handlers /\ active' = active /\ wanted' = wanted
    BY DEF Raise
<1>2. work'.phase = "failed" /\ work'.msg = work.msg /\ work'.got = work.got
    BY <1>1
<1>3. MessageOK'
    <2>1. Rightly => Rightly'
        BY <1>1, <1>2 DEF Rightly, Owed
    <2> QED BY <1>1, <1>2, <2>1 DEF RInv, MessageOK
<1> QED BY <1>1, <1>3 DEF RInv, NamesOK, Subscribed, ActiveOK

THEOREM RoutingInvariant == Spec => []RInv
<1>1. Init => RInv
    BY DEF Init, Idle, RInv, NamesOK, Subscribed, ActiveOK, MessageOK
<1>2. RInv /\ [Next]_vars => RInv'
    <2> SUFFICES ASSUME RInv, [Next]_vars PROVE RInv'
        OBVIOUS
    <2>1. ASSUME NEW req \in Requests[market], Subscribe(req) PROVE RInv'
        BY <2>1, Calls
    <2>2. ASSUME NEW c \in Classes, SetHandler(c) PROVE RInv'
        BY <2>2, Registers
    <2>3. ASSUME NEW w \in Subscribed, NEW e \in Events(w.name), Receive(w, e) PROVE RInv'
        BY <2>3, Receives
    <2>4. CASE Return
        BY <2>4, Returns
    <2>5. CASE Raise
        BY <2>5, Raises
    <2>6. CASE UNCHANGED vars
        BY <2>6 DEF vars, RInv, NamesOK, Subscribed, ActiveOK, MessageOK, Rightly, Owed, Matches, IsArray
    <2> QED BY <2>1, <2>2, <2>3, <2>4, <2>5, <2>6 DEF Next
<1> QED BY <1>1, <1>2, PTL DEF Spec

\* A message routed without an error reached every handler its own subscription
\* promises it to; one whose routing broke misses a handler only if it is a
\* partial or RPI depth message of the futures (HandlerContext.receive).  A mark
\* price of COIN-M subscribed by the other's symbol is promised nothing.
THEOREM EveryDueHandlerReceives == Spec => []DueReceive
<1>1. RInv => DueReceive
    BY Spelled DEF RInv, MessageOK, Rightly, Owed, Overheard, DueReceive
<1> QED BY <1>1, RoutingInvariant, PTL

\* No handler hears a message of another sub type, but the local order book,
\* which hears every depthUpdate (is_message_type of the processors); and a mark
\* price of COIN-M subscribed by the other's symbol is the other's message.
THEOREM OnlyTheBookOverhears == Spec => []OnlyBookOverhears
<1>1. RInv => OnlyBookOverhears
    BY Spelled DEF RInv, MessageOK, Rightly, Heard, OnlyBookOverhears
<1> QED BY <1>1, RoutingInvariant, PTL

\* The wire names of one client tell its sub types apart, but for COIN-M's mark
\* prices of a symbol and of a pair when one was asked for by the other's symbol;
\* and COIN-M's names keep the symbol they were asked for (subscribe_param of the
\* processors).
THEOREM NamesStayExact == Spec => []NamesExact
<1>1. RInv => NamesExact
    <2> SUFFICES ASSUME RInv PROVE NamesExact
        OBVIOUS
    <2>1. market \in {"spot", "um", "cm"}
        BY InMarket DEF RInv
    <2>2. \A v, w \in Subscribed : v.name = w.name => v.sub = w.sub \/ Misnamed(v) \/ Misnamed(w)
        BY <2>1, SameNameSameSub, Spelled DEF RInv, NamesOK
    <2>3. ASSUME market = "cm", NEW w \in Subscribed,
                 1 \in DOMAIN Processor(w.sub).slots, Processor(w.sub).slots[1] = Sym
          PROVE  w.name.at[1] = w.args[1]
        <3>1. Named("cm", w) /\ Processor(w.sub) = RowOf("cm", w.sub)
            BY <2>3, Spelled DEF RInv, NamesOK
        <3> QED BY <2>3, <3>1, SymbolKept
    <2> QED BY <2>2, <2>3 DEF NamesExact
<1> QED BY <1>1, RoutingInvariant, PTL

=============================================================================
