------------------------------ MODULE Routing ------------------------------
(***************************************************************************)
(* How a subscription becomes a wire name and how a message finds its       *)
(* handlers: HandlerContext with the processors of the three markets.       *)
(*                                                                         *)
(* A processor is a row of a table: its sub type, the handler classes it    *)
(* claims, the positional arguments it takes and how it recognises its      *)
(* messages.  A row matches by the event type of a single (not array)       *)
(* payload when es is not empty, and otherwise by the stream of the name.   *)
(* One message is routed at a time: concurrent messages of one context      *)
(* share nothing but the set of active processors.                          *)
(***************************************************************************)
EXTENDS Naturals, Sequences, FiniteSets

CONSTANTS
    Markets,      \* the markets explored, a subset of {"spot", "um", "cm"}
    Requests,     \* [market -> requests]: a tuple of sets, as subscribe() takes lists
    Documented,   \* [market -> the requests the documentation shows]
    MaxCalls      \* bound: calls of subscribe() and handler() that took effect,
                  \* one more handler() being allowed while a message is routed

ASSUME RoutingAssumption ==
    /\ Markets \subseteq {"spot", "um", "cm"}
    /\ \A m \in Markets : \A req \in Requests[m] :
          Len(req) \in Nat \ {0} /\ DOMAIN req = 1..Len(req)

-----------------------------------------------------------------------------
(* Arguments.  A symbol is "plain", "scored" (written with an underscore) or *)
(* "pair" (the pair of a COIN-M symbol).                                     *)

Symbols == {"plain", "scored", "pair"}
Sym == [ok |-> Symbols, dflt |-> "required", strict |-> TRUE]
Need(S) == [ok |-> S, dflt |-> "required", strict |-> TRUE]
Opt(S, d) == [ok |-> S, dflt |-> d, strict |-> TRUE]
Lax(S, d) == [ok |-> S, dflt |-> d, strict |-> FALSE]

Intervals == Need({"1m", "1h"})
Window == Opt({"1h", "4h"}, "1h")
SpotSpeed == Opt({"1000", "100"}, "1000")
Level == Opt({"5", "20"}, "20")
Speed == Opt({"100", "250", "500"}, "omitted")

(* The default processor: a symbol, recognised by one event type.            *)
Row(sub, wire, es, slots) ==
    [sub |-> sub, bases |-> {sub}, wire |-> wire, es |-> es, slots |-> slots,
     array |-> FALSE, keep |-> FALSE]

(* Mutant: the UTC+8 klines without their suffix. *)
SpotKlinesWithoutSuffix ==
    LET row(sub) == [Row(sub, "@kline", {"kline"}, <<Sym, Intervals>>) EXCEPT !.bases = {"KLINE"}]
    IN  <<row("KLINE"), row("KLINE_UTC8")>>

SpotKlines ==
    LET row(sub, wire) == [Row(sub, wire, {"kline"}, <<Sym, Intervals>>)
                             EXCEPT !.bases = {"KLINE"}]
    IN  <<row("KLINE", "@kline"), row("KLINE_UTC8", "@kline+08:00")>>

SpotTrades ==
    << Row("TRADE", "@trade", {"trade"}, <<Sym>>),
       Row("AGG_TRADE", "@aggTrade", {"aggTrade"}, <<Sym>>),
       Row("BLOCK_TRADE", "@blockTrade", {"blockTrade"}, <<Sym>>),
       Row("REFERENCE_PRICE", "@referencePrice", {"referencePrice"}, <<Sym>>),
       Row("BOOK_TICKER", "@bookTicker", {}, <<Sym>>),
       Row("AVG_PRICE", "@avgPrice", {"avgPrice"}, <<Sym>>) >>

SpotBooks ==
    << Row("ORDER_BOOK", "@depth", {"depthUpdate"}, <<Sym, SpotSpeed>>),
       Row("PARTIAL_ORDER_BOOK", "@depthN", {}, <<Sym, Level, SpotSpeed>>) >>

SpotTickers ==
    << Row("WINDOW_TICKER", "@ticker_w", {"1hTicker", "4hTicker", "1dTicker"}, <<Sym, Window>>),
       Row("MINI_TICKER", "@miniTicker", {"24hrMiniTicker"}, <<Sym>>),
       Row("TICKER", "@ticker", {"24hrTicker"}, <<Sym>>),
       Row("ALL_MARKET_MINI_TICKERS", "!miniTicker@arr", {}, <<>>),
       Row("ALL_MARKET_WINDOW_TICKERS", "!ticker_w@arr", {}, <<Window>>) >>

(* The user processor claims one handler class per event type; both are      *)
(* written here by the event's name, and two of them stand for all.          *)
SpotUserEvents == {"executionReport", "eventStreamTerminated"}
FuturesUserEvents == {"ORDER_TRADE_UPDATE", "listenKeyExpired"}
UserRow(events) == [Row("USER", "user", events, <<>>) EXCEPT !.bases = events]

FuturesMarkPrices ==
    << Row("MARK_PRICE", "@markPrice", {"markPriceUpdate"}, <<Sym, Lax({"1s"}, "omitted")>>),
       Row("ALL_MARKET_MARK_PRICE", "!markPrice@arr", {}, <<Lax({"1s"}, "omitted")>>) >>

FuturesAggTrade == <<Row("AGG_TRADE", "@aggTrade", {"aggTrade"}, <<Sym>>)>>

FuturesKlines(contracts) ==
    << Row("KLINE", "@kline", {"kline"}, <<Sym, Intervals>>),
       Row("CONTINUOUS_KLINE", "@continuousKline", {"continuous_kline"},
           <<Sym, Need(contracts), Intervals>>) >>

FuturesTickers ==
    << Row("MINI_TICKER", "@miniTicker", {"24hrMiniTicker"}, <<Sym>>),
       Row("ALL_MARKET_MINI_TICKERS", "!miniTicker@arr", {}, <<>>),
       Row("TICKER", "@ticker", {"24hrTicker"}, <<Sym>>),
       Row("ALL_MARKET_TICKERS", "!ticker@arr", {}, <<>>) >>

FuturesLiquidations ==
    << Row("FORCE_ORDER", "@forceOrder", {"forceOrder"}, <<Sym>>),
       Row("ALL_MARKET_LIQUIDATION", "!forceOrder@arr", {}, <<>>) >>

(* Mutant: the book ticker recognised by its event type. *)
FuturesBooksByEvent ==
    << Row("BOOK_TICKER", "@bookTicker", {"bookTicker"}, <<Sym>>),
       Row("ALL_MARKET_BOOK_TICKER", "!bookTicker", {}, <<>>),
       Row("PARTIAL_ORDER_BOOK", "@depthN", {}, <<Sym, Level, Speed>>),
       Row("ORDER_BOOK", "@depth", {"depthUpdate"}, <<Sym, Speed>>) >>

FuturesBooks ==
    << Row("BOOK_TICKER", "@bookTicker", {}, <<Sym>>),
       Row("ALL_MARKET_BOOK_TICKER", "!bookTicker", {}, <<>>),
       Row("PARTIAL_ORDER_BOOK", "@depthN", {}, <<Sym, Level, Speed>>),
       Row("ORDER_BOOK", "@depth", {"depthUpdate"}, <<Sym, Speed>>) >>

ContractInfo == <<Row("CONTRACT_INFO", "!contractInfo", {}, <<>>)>>

(* CompositeIndex and the two asset index processors, which share a sub type *)
UMIndexes ==
    << Row("COMPOSITE_INDEX", "@compositeIndex", {"compositeIndex"}, <<Sym>>),
       Row("ASSET_INDEX", "@assetIndex", {"assetIndexUpdate"}, <<Sym>>),
       [Row("ASSET_INDEX", "!assetIndex@arr", {}, <<>>) EXCEPT !.bases = {"ALL_ASSET_INDEX"}] >>

UMSessions ==
    <<Row("TRADING_SESSION", "tradingSession", {"EquityUpdate", "CommodityUpdate"}, <<>>)>>

UMRpiDepth == <<Row("RPI_DIFF_DEPTH", "@rpiDepth", {}, <<Sym, Opt({"500"}, "500")>>)>>

(* COIN-M overrides subscribe_param wherever a symbol is taken: it keeps the *)
(* underscores that normalize_symbol strips.                                 *)
Kept(rows) == [i \in DOMAIN rows |-> [rows[i] EXCEPT !.keep = TRUE]]

CMPairMarkPrice ==
    <<[Row("PAIR_MARK_PRICE", "@markPrice", {}, <<Sym, Opt({"1s"}, "omitted")>>) EXCEPT !.array = TRUE]>>

CMIndexes ==
    << Row("INDEX_PRICE", "@indexPrice", {"indexPriceUpdate"}, <<Sym, Lax({"1s"}, "omitted")>>),
       Row("INDEX_PRICE_KLINE", "@indexPriceKline", {"indexPrice_kline"}, <<Sym, Intervals>>) >>

CMMarkPriceKline ==
    <<Row("MARK_PRICE_KLINE", "@markPriceKline", {"markPrice_kline"}, <<Sym, Intervals>>)>>

CMContracts == {"PERPETUAL", "CURRENT_QUARTER"}
UMContracts == CMContracts \cup {"TRADIFI_PERPETUAL"}

SharedRows(contracts) ==
    FuturesMarkPrices \o FuturesAggTrade \o FuturesKlines(contracts)
      \o FuturesTickers \o FuturesLiquidations \o FuturesBooks \o ContractInfo

SpotProcessors ==
    SpotKlines \o SpotTrades \o SpotBooks \o SpotTickers \o <<UserRow(SpotUserEvents)>>

UMProcessors ==
    SharedRows(UMContracts) \o UMIndexes \o UMSessions \o UMRpiDepth
      \o <<UserRow(FuturesUserEvents)>>

CMProcessors ==
    Kept(SharedRows(CMContracts) \o CMPairMarkPrice \o CMIndexes \o CMMarkPriceKline)
      \o <<UserRow(FuturesUserEvents)>>

-----------------------------------------------------------------------------
VARIABLES
    market,    \* the client's market, fixed at construction
    handlers,  \* the handler classes registered
    active,    \* HandlerContext._processors, as indices into Processors
    wanted,    \* what each subscribe() asked for: subscriptions with their wire names
    work       \* the message being routed by HandlerContext.receive

vars == <<market, handlers, active, wanted, work>>

Table == [spot |-> SpotProcessors, um |-> UMProcessors, cm |-> CMProcessors]
Processors == Table[market]
Rows == DOMAIN Processors
FirstOf(S) == CHOOSE i \in S : \A j \in S : i <= j

(* set_handler: the first processor of the market that claims a class.       *)
Claimed == [m \in DOMAIN Table |->
    [c \in UNION {Table[m][i].bases : i \in DOMAIN Table[m]} |->
       FirstOf({i \in DOMAIN Table[m] : c \in Table[m][i].bases})]]

(* HandlerExceptionHandlerBase and StreamErrorHandlerBase have processors of *)
(* their own, outside the market's list.                                     *)
Framework == {"HandlerException", "StreamError"}
Classes == Framework \cup DOMAIN Claimed[market]

-----------------------------------------------------------------------------
(* Subscribing *)

(* overload_subscriptions: the forms with two or three arguments are open to *)
(* a list of sub types, and only when the sub type is one, not a list.       *)
LongForms == {"KLINE", "KLINE_UTC8", "ORDER_BOOK", "PARTIAL_ORDER_BOOK", "WINDOW_TICKER"}

Admitted(req) ==
    \/ Len(req) <= 2
    \/ Len(req) = 3 /\ \E s \in LongForms : req[1] = {s}
    \/ Len(req) = 4 /\ req[1] = {"PARTIAL_ORDER_BOOK"}

(* itertools.product over the lists of the request                           *)
Expanded(req) == {t \in [DOMAIN req -> UNION {req[i] : i \in DOMAIN req}] :
                    \A i \in DOMAIN req : t[i] \in req[i]}

(* _get_processor: the first of the list that supports the sub type          *)
Supporting(sub) == {i \in Rows : Processors[i].sub = sub}
Processor(sub) == Processors[FirstOf(Supporting(sub))]

(* subscribe_param: every argument checked, missing ones defaulted           *)
Accepts(row, args) ==
    /\ Len(args) <= Len(row.slots)
    /\ \A i \in DOMAIN row.slots :
         IF i <= Len(args) THEN row.slots[i].strict => args[i] \in row.slots[i].ok
                           ELSE row.slots[i].dflt # "required"

(* normalize_symbol strips the underscore; COIN-M's rows keep the symbol     *)
Normal(row, arg) == IF arg = "scored" /\ ~row.keep THEN "plain" ELSE arg

NameOf(row, args) ==
    [wire |-> row.wire,
     at   |-> [i \in DOMAIN row.slots |->
                 IF i <= Len(args) /\ args[i] \in row.slots[i].ok
                 THEN Normal(row, args[i]) ELSE row.slots[i].dflt]]

Resolves(t) == Supporting(t[1]) # {} /\ Accepts(Processor(t[1]), Tail(t))

Idle == [phase |-> "idle"]

(* A call raises, and changes nothing, when any part of it does not resolve. *)
Accepted(req) == Admitted(req) /\ \A t \in Expanded(req) : Resolves(t)

Resolution(req) ==
    {[sub |-> t[1], args |-> Tail(t), name |-> NameOf(Processor(t[1]), Tail(t))]
       : t \in Expanded(req)}

Subscribed == UNION wanted

Rest == IF work.phase = "routing" THEN work ELSE Idle

Subscribe(req) ==
    /\ Accepted(req)
    /\ Cardinality(wanted) + Cardinality(handlers) < MaxCalls
    /\ wanted' = wanted \cup {Resolution(req)}
    /\ work' = Rest
    /\ UNCHANGED <<market, handlers, active>>

-----------------------------------------------------------------------------
(* Registering and routing *)

(* client.handler: the first processor that claims the class takes it        *)
SetHandler(c) ==
    /\ c \notin handlers
    /\ Cardinality(wanted) + Cardinality(handlers)
         < MaxCalls + (IF work.phase = "routing" THEN 1 ELSE 0)
    /\ handlers' = handlers \cup {c}
    /\ active' = IF c \in Framework THEN active ELSE active \cup {Claimed[market][c]}
    /\ work' = Rest
    /\ UNCHANGED <<market, wanted>>

(* What the venue sends on a stream: the event types of its payloads         *)
(* ("untyped" for one without), and whether the payload is an array.         *)
CommonCarries ==
    { <<"@kline", "kline">>, <<"@kline+08:00", "kline">>, <<"@trade", "trade">>,
      <<"@aggTrade", "aggTrade">>, <<"@blockTrade", "blockTrade">>,
      <<"@referencePrice", "referencePrice">>, <<"@avgPrice", "avgPrice">>,
      <<"@ticker_w", "1hTicker">>, <<"@ticker_w", "4hTicker">>,
      <<"!ticker_w@arr", "1hTicker">>, <<"@ticker", "24hrTicker">>,
      <<"!ticker@arr", "24hrTicker">>, <<"@miniTicker", "24hrMiniTicker">>,
      <<"!miniTicker@arr", "24hrMiniTicker">>, <<"@depth", "depthUpdate">>,
      <<"@rpiDepth", "depthUpdate">>, <<"@continuousKline", "continuous_kline">>,
      <<"@indexPriceKline", "indexPrice_kline">>, <<"@markPriceKline", "markPrice_kline">>,
      <<"@markPrice", "markPriceUpdate">>, <<"!markPrice@arr", "markPriceUpdate">>,
      <<"@indexPrice", "indexPriceUpdate">>, <<"@assetIndex", "assetIndexUpdate">>,
      <<"!assetIndex@arr", "assetIndexUpdate">>, <<"@forceOrder", "forceOrder">>,
      <<"!forceOrder@arr", "forceOrder">>, <<"@compositeIndex", "compositeIndex">>,
      <<"!contractInfo", "contractInfo">>, <<"tradingSession", "EquityUpdate">>,
      <<"tradingSession", "CommodityUpdate">> }

SpotCarries == {<<"@bookTicker", "untyped">>, <<"@depthN", "untyped">>} \cup {"user"} \X SpotUserEvents

FuturesCarries ==
    {<<"@bookTicker", "bookTicker">>, <<"!bookTicker", "bookTicker">>,
     <<"@depthN", "depthUpdate">>} \cup {"user"} \X FuturesUserEvents

CarriesOf == [m \in DOMAIN Table |->
    CommonCarries \cup (IF m = "spot" THEN SpotCarries ELSE FuturesCarries)]

Events(name) == {c[2] : c \in {d \in CarriesOf[market] : d[1] = name.wire}}

(* COIN-M sends a pair's mark prices as an array; to USD-M, which has no      *)
(* pairs' stream, a pair is a symbol.                                         *)
IsArray(name) ==
    \/ name.wire \in {"!markPrice@arr", "!assetIndex@arr", "!forceOrder@arr",
                      "!ticker_w@arr", "!ticker@arr", "!miniTicker@arr"}
    \/ market = "cm" /\ name.wire = "@markPrice" /\ name.at[1] = "pair"

(* is_message_type *)
Matches(row, name, e) ==
    IF row.es # {} THEN e \in row.es /\ ~IsArray(name)
                   ELSE row.wire = name.wire /\ (row.array => IsArray(name))

(* The user processor dispatches to the handlers of the event's own class;   *)
(* a processor in use always has a handler otherwise.                        *)
Targets(i, e) ==
    handlers \cap (IF Processors[i].sub = "USER" THEN {e} ELSE Processors[i].bases)

(* HandlerContext.receive: iterates the live set of active processors, in an *)
(* order Python does not promise, and suspends in the dispatch of each that  *)
(* matches and has a handler.  due is what the message's own subscriptions   *)
(* promise to the handlers registered when it arrives.                       *)
Matching(name, e) == {i \in active : Matches(Processors[i], name, e) /\ Targets(i, e) # {}}

Own(w, e) == IF w.sub = "USER" THEN {e} ELSE Processor(w.sub).bases

Receive(w, e) ==
    /\ work.phase # "routing"
    /\ LET todo == Matching(w.name, e)
           msg  == [from |-> w, e |-> e, size |-> Cardinality(active), due |-> handlers \cap Own(w, e)]
       IN  IF todo = {}
           THEN work' = [phase |-> "done", msg |-> msg, got |-> {}]
           ELSE \E i \in todo :
                  work' = [phase |-> "routing", msg |-> msg,
                           todo |-> todo \ {i}, got |-> Targets(i, e)]
    /\ UNCHANGED <<market, handlers, active, wanted>>

(* Mutant: the first processor that matches ends the routing. *)
ReturnAfterFirst ==
    /\ work.phase = "routing"
    /\ work' = [phase |-> "done", msg |-> work.msg, got |-> work.got]
    /\ UNCHANGED <<market, handlers, active, wanted>>

(* The dispatch under way returns.  Python refuses to go on when the set has *)
(* grown since the iteration began: RuntimeError, "Set changed size during   *)
(* iteration", which receive hands to the exception processor.               *)
Return ==
    /\ work.phase = "routing"
    /\ IF Cardinality(active) # work.msg.size
       THEN work' = [phase |-> "broken", msg |-> work.msg, got |-> work.got]
       ELSE IF work.todo = {}
       THEN work' = [phase |-> "done", msg |-> work.msg, got |-> work.got]
       ELSE \E i \in work.todo :
              work' = [work EXCEPT !.todo = @ \ {i},
                                   !.got = @ \cup Targets(i, work.msg.e)]
    /\ UNCHANGED <<market, handlers, active, wanted>>

(* The handler raised: gather propagates it, and the processors left are not *)
(* asked.                                                                    *)
Raise ==
    /\ work.phase = "routing"
    /\ work' = [phase |-> "failed", msg |-> work.msg, got |-> work.got]
    /\ UNCHANGED <<market, handlers, active, wanted>>

Init ==
    /\ market \in Markets
    /\ handlers = {} /\ active = {}
    /\ wanted = {}
    /\ work = Idle

Next ==
    \/ \E req \in Requests[market] : Subscribe(req)
    \/ \E c \in Classes : SetHandler(c)
    \/ \E w \in Subscribed : \E e \in Events(w.name) : Receive(w, e)
    \/ Return
    \/ Raise

Spec == Init /\ [][Next]_vars
-----------------------------------------------------------------------------

(* Every value stays in its domain, and a processor is active exactly when a *)
(* handler of a class it took is registered.                                 *)
TypeOK ==
    /\ market \in Markets
    /\ handlers \subseteq Classes
    /\ active = {Claimed[market][c] : c \in handlers \ Framework}
    /\ \A w \in Subscribed : <<w.name>> \in {<<NameOf(Processors[i], w.args)>> : i \in Supporting(w.sub)}
    /\ work.phase \in {"idle", "routing", "done", "broken", "failed"}

(* COIN-M's processors of the mark price of a symbol and of a pair share a    *)
(* wire name and take any string: one that is asked for by the other's symbol *)
(* subscribes the other's stream, whose messages it does not recognise.       *)
Misnamed(w) ==
    /\ market = "cm"
    /\ \/ w.sub = "MARK_PRICE" /\ w.args[1] = "pair"
       \/ w.sub = "PAIR_MARK_PRICE" /\ w.args[1] # "pair"

(* A message that was routed without an error reached every handler its own  *)
(* subscription promises it to; and when a handler registered meanwhile broke *)
(* the iteration, only a partial or RPI depth message of the futures, which  *)
(* the book processor also matches, can miss its handler.  A subscription    *)
(* named by the other's symbol is promised nothing.                          *)
DueReceive ==
    work.phase \in {"done", "broken"} /\ ~(work.msg.due \subseteq work.got) =>
        \/ Misnamed(work.msg.from)
        \/ /\ work.phase = "broken" /\ market # "spot"
           /\ work.msg.from.sub \in {"PARTIAL_ORDER_BOOK", "RPI_DIFF_DEPTH"}

(* A message reaches no handler of another sub type, except that the local   *)
(* order book overhears the depthUpdate events of other streams, and that a  *)
(* subscription named by the other's symbol feeds the other's handlers.      *)
OnlyBookOverhears ==
    work.phase # "idle" =>
        \/ Misnamed(work.msg.from)
        \/ work.got \subseteq Own(work.msg.from, work.msg.e)
                             \cup (IF work.msg.e = "depthUpdate" THEN {"ORDER_BOOK"} ELSE {})

(* COIN-M names the symbol it was asked for, underscore included; and two sub *)
(* types never share a name, unless one was named by the other's symbol:      *)
(* unsubscribing one would silence the other, and the records kept per sub    *)
(* type would disagree.                                                       *)
NamesExact ==
    /\ market = "cm" => \A w \in Subscribed :
          LET slots == Processor(w.sub).slots
          IN  1 \in DOMAIN slots /\ slots[1] = Sym => w.name.at[1] = w.args[1]
    /\ \A v, w \in Subscribed :
          v.name = w.name => v.sub = w.sub \/ Misnamed(v) \/ Misnamed(w)

(* The documented forms that the program refuses: the long forms of the sub   *)
(* types overload_subscriptions does not list (three futures klines, and the  *)
(* update speed of the mark price, the pair's mark price, the index price and *)
(* the RPI depth), and the asset index of all assets, which the first of its  *)
(* two processors shadows.                                                    *)
NoLongForm ==
    {"CONTINUOUS_KLINE", "INDEX_PRICE_KLINE", "MARK_PRICE_KLINE", "MARK_PRICE",
     "PAIR_MARK_PRICE", "INDEX_PRICE", "RPI_DIFF_DEPTH"}

Unreachable(req) ==
    \/ req = <<{"ASSET_INDEX"}>>
    \/ Len(req) > 2 /\ req[1] \cap NoLongForm # {}

(* From a documented form of subscribe() to the name on the wire: a new       *)
(* client accepts every documented form but the unreachable ones, which it    *)
(* all refuses; and the names are exact.                                      *)
StreamsNamed ==
    /\ wanted = {} /\ handlers = {} =>
          \A req \in Documented[market] : Accepted(req) <=> ~Unreachable(req)
    /\ NamesExact

=============================================================================
