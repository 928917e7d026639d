------------------------------ MODULE Endpoints ------------------------------
(***************************************************************************)
(* What the clients can ask for: the endpoint registries of the markets    *)
(* (spot, futures.um, futures.cm: endpoints/registry.py) and the helpers   *)
(* that weigh a request by its arguments (endpoints/weights.py).           *)
(*                                                                         *)
(* A row of a registry is a record: the method installed on the client,    *)
(* the transport, the security tier, whether it draws on the ORDERS pool,  *)
(* and its weight.  URLs and wire method names are left out.               *)
(*                                                                         *)
(* The keyword arguments of a call are a function from the names that were *)
(* given.  Values matter only as far as the helpers look at them: None, a  *)
(* false value, a number (a limit, or the length of a list), anything else.*)
(***************************************************************************)
EXTENDS Integers

Number(n) == [form |-> "number", n |-> n]
Thing == [form |-> "thing", n |-> 0]
False == [form |-> "false", n |-> 0]
None == [form |-> "None", n |-> 0]

Given(args, name) == name \in DOMAIN args

-----------------------------------------------------------------------------
(* Weights.  A weight that looks at no argument or at the presence of one   *)
(* is a record; the others are named and worked out by Weight below.        *)

Flat(n) == [by |-> "presence", name |-> "", given |-> n, else |-> n]
Scoped(name, n, m) == [by |-> "presence", name |-> name, given |-> n, else |-> m]
Helper(by) == [by |-> by, name |-> "", given |-> 0, else |-> 0]

\* spot
OrderTest == [Scoped("computeCommissionRates", 20, 1) EXCEPT !.by = "truth"]
OpenOrdersStatus == Scoped("symbol", 6, 80)
TickerPrice == Scoped("symbol", 2, 4)
TickerBook == Scoped("symbol", 2, 4)
MyTrades == Scoped("orderId", 5, 20)
MyPreventedMatches == Scoped("preventedMatchId", 2, 20)

DepthWeight(limit) ==
    IF limit <= 100 THEN 5 ELSE IF limit <= 500 THEN 25 ELSE IF limit <= 1000 THEN 50 ELSE 250

Ticker24hrWeight(args) ==
    IF Given(args, "symbol") THEN 2
    ELSE IF ~Given(args, "symbols") \/ args["symbols"] = None THEN 80
    ELSE IF args["symbols"].n <= 20 THEN 2 ELSE IF args["symbols"].n <= 100 THEN 40 ELSE 80

PerSymbolTickerWeight(args) ==
    IF ~Given(args, "symbols") \/ args["symbols"] = None THEN 4
    ELSE IF args["symbols"].n > 50 THEN 200 ELSE 4 * args["symbols"].n

ExecutionRulesWeight(args) ==
    IF Given(args, "symbol") THEN 2
    ELSE IF ~Given(args, "symbols") \/ args["symbols"] = None \/ args["symbols"].n > 20 THEN 40
    ELSE 2 * args["symbols"].n

\* futures
UmPremiumIndex == Scoped("symbol", 1, 10)
UmOpenOrders == Scoped("symbol", 1, 40)
UmOpenAlgoOrders == Scoped("symbol", 1, 40)
UmForceOrders == Scoped("symbol", 20, 50)
UmTickerPriceWs == Scoped("symbol", 1, 2)
UmTickerBookWs == Scoped("symbol", 2, 5)
UmApiTradingStatus == Scoped("symbol", 1, 10)
UmAssetIndex == Scoped("symbol", 1, 10)
CmOpenOrders == Scoped("symbol", 1, 40)
CmAllOrders == Scoped("pair", 40, 20)
CmUserTrades == Scoped("pair", 40, 20)
CmForceOrders == Scoped("symbol", 20, 50)

FuturesDepthWeight(limit) ==
    IF limit <= 50 THEN 2 ELSE IF limit <= 100 THEN 5 ELSE IF limit <= 500 THEN 10 ELSE 20

\* The weight of a call: an int, or what the helper makes of its arguments.
Weight(weight, args) ==
    CASE weight.by = "presence" ->
           IF Given(args, weight.name) THEN weight.given ELSE weight.else
      [] weight.by = "truth" ->
           IF Given(args, weight.name) /\ args[weight.name] \notin {None, False}
           THEN weight.given ELSE weight.else
      [] weight.by = "depth" ->
           DepthWeight(IF Given(args, "limit") THEN args["limit"].n ELSE 100)
      [] weight.by = "futures depth" ->
           FuturesDepthWeight(IF Given(args, "limit") THEN args["limit"].n ELSE 500)
      [] weight.by = "ticker 24hr" -> Ticker24hrWeight(args)
      [] weight.by = "per symbol" -> PerSymbolTickerWeight(args)
      [] weight.by = "execution rules" -> ExecutionRulesWeight(args)

\* A helper that compares limit with a number, or takes int() of it, raises a
\* TypeError on None.
WeightRaises(weight, args) ==
    weight.by \in {"depth", "futures depth"} /\ Given(args, "limit") /\ args["limit"] = None

-----------------------------------------------------------------------------
(* Rows.  Unless params is FALSE the arguments are passed on.               *)

Ws(names, security, weight) ==
    [name : names, transport : {"ws_api"}, security : {security}, weight : {weight},
     params : {TRUE}, is_order : {FALSE}]
Rest(names, security, weight) ==
    [name : names, transport : {"rest"}, security : {security}, weight : {weight},
     params : {TRUE}, is_order : {FALSE}]

Bare(rows) == {[r EXCEPT !.params = FALSE] : r \in rows}
Orders(rows) == {[r EXCEPT !.is_order = TRUE] : r \in rows}

SpotGeneral ==
    Bare(Ws({"ping", "get_server_time"}, "NONE", Flat(1)) \union
         Ws({"get_exchange_info"}, "NONE", Flat(20)))
    \union Ws({"get_execution_rules"}, "NONE", Helper("execution rules"))

SpotMarketData ==
    Ws({"get_orderbook"}, "NONE", Helper("depth"))
    \union Ws({"get_recent_trades", "get_historical_trades", "get_historical_block_trades"},
              "NONE", Flat(25))
    \union Ws({"get_aggregate_trades"}, "NONE", Flat(4))
    \union Ws({"get_klines", "get_average_price", "get_ui_klines", "get_reference_price",
               "get_reference_price_calculation"}, "NONE", Flat(2))
    \union Ws({"get_ticker"}, "NONE", Helper("ticker 24hr"))
    \union Ws({"get_ticker_price"}, "NONE", TickerPrice)
    \union Ws({"get_orderbook_ticker"}, "NONE", TickerBook)
    \union Ws({"get_rolling_window_ticker", "get_trading_day_ticker"}, "NONE",
              Helper("per symbol"))

SpotAccount ==
    Ws({"get_account", "get_commission", "get_allocations"}, "USER_DATA", Flat(20))
    \union Ws({"get_trades"}, "USER_DATA", MyTrades)
    \union Ws({"get_order_rate_limit", "get_my_filters"}, "USER_DATA", Flat(40))
    \union Ws({"get_prevented_matches"}, "USER_DATA", MyPreventedMatches)
    \union Ws({"get_order_amendments"}, "USER_DATA", Flat(4))
    \union Bare(Ws({"get_session_status", "get_session_subscriptions"}, "NONE", Flat(2)))

SpotOrders ==
    Orders(Ws({"create_order", "cancel_replace_order", "create_sor_order"}, "TRADE", Flat(1)))
    \union Ws({"create_test_order", "create_test_sor_order"}, "TRADE", OrderTest)
    \union Ws({"get_order"}, "USER_DATA", Flat(4))
    \union Ws({"cancel_order", "cancel_all_orders"}, "TRADE", Flat(1))
    \union Ws({"amend_order"}, "TRADE", Flat(4))
    \union Ws({"get_open_orders"}, "USER_DATA", OpenOrdersStatus)
    \union Ws({"get_all_orders"}, "USER_DATA", Flat(20))

SpotOrderLists ==
    Orders(Ws({"create_oco", "create_oto", "create_otoco", "create_opo", "create_opoco"},
              "TRADE", Flat(1)))
    \union Ws({"cancel_oco"}, "TRADE", Flat(1))
    \union Ws({"get_oco"}, "USER_DATA", Flat(4))
    \union Ws({"get_all_oco"}, "USER_DATA", Flat(20))
    \union Ws({"get_open_oco"}, "USER_DATA", Flat(6))

UmWsApi ==
    Bare(Ws({"get_session_status"}, "NONE", Flat(2)))
    \union Ws({"get_orderbook_ws"}, "NONE", Helper("futures depth"))
    \union Ws({"get_ticker_price_ws"}, "NONE", UmTickerPriceWs)
    \union Ws({"get_ticker_book_ws"}, "NONE", UmTickerBookWs)
    \union Orders(Ws({"create_order", "modify_order"}, "TRADE", Flat(0)))
    \union Ws({"cancel_order", "cancel_algo_order"}, "TRADE", Flat(1))
    \union Ws({"create_algo_order"}, "TRADE", Flat(0))
    \union Ws({"get_order"}, "USER_DATA", Flat(1))
    \union Ws({"get_account", "get_balance", "get_position"}, "USER_DATA", Flat(5))
    \union Ws({"get_position_mode"}, "USER_DATA", Flat(30))

UmMarketData ==
    Rest({"get_open_interest", "get_funding_rate"}, "NONE", Flat(1))
    \union Rest({"get_open_interest_hist", "get_funding_info"}, "NONE", Flat(0))
    \union Rest({"get_orderbook"}, "NONE", Helper("futures depth"))
    \union Rest({"get_premium_index"}, "NONE", UmPremiumIndex)

UmTrading ==
    Rest({"create_test_order", "cancel_all_orders", "cancel_batch_orders"}, "TRADE", Flat(1))
    \union Rest({"countdown_cancel_all_orders"}, "TRADE", Flat(10))
    \union Rest({"get_open_order", "get_order_modify_history"}, "USER_DATA", Flat(1))
    \union Rest({"get_open_orders"}, "USER_DATA", UmOpenOrders)
    \union Rest({"get_all_orders"}, "USER_DATA", Flat(5))
    \union Orders(Rest({"create_batch_orders", "modify_batch_orders"}, "TRADE", Flat(5)))

UmAlgoOrders ==
    Rest({"get_algo_orders"}, "USER_DATA", Flat(5))
    \union Rest({"get_open_algo_orders"}, "USER_DATA", UmOpenAlgoOrders)
    \union Rest({"cancel_all_open_algo_orders"}, "TRADE", Flat(1))
    \union Rest({"get_force_orders"}, "USER_DATA", UmForceOrders)

UmAccount ==
    Rest({"get_account_rest_v3", "get_balance_rest_v3", "get_position_risk",
          "get_adl_quantile", "get_user_trades"}, "USER_DATA", Flat(5))
    \union Rest({"get_commission"}, "USER_DATA", Flat(20))
    \union Rest({"get_income", "get_multi_assets_mode"}, "USER_DATA", Flat(30))
    \union Rest({"get_leverage_bracket"}, "USER_DATA", Flat(1))
    \union Rest({"set_leverage", "set_margin_type", "set_position_margin", "set_position_mode",
                 "get_position_margin_history", "set_multi_assets_mode"}, "TRADE", Flat(1))

UmStatus ==
    Rest({"get_account_config", "get_symbol_config"}, "USER_DATA", Flat(5))
    \union Rest({"get_api_trading_status"}, "USER_DATA", UmApiTradingStatus)
    \union Rest({"get_fee_burn_status"}, "USER_DATA", Flat(30))
    \union Rest({"set_fee_burn"}, "TRADE", Flat(1))
    \union Rest({"get_trading_schedule"}, "NONE", Flat(5))
    \union Rest({"get_symbol_adl_risk", "get_insurance_balance"}, "NONE", Flat(1))
    \union Rest({"get_constituents"}, "NONE", Flat(2))
    \union Rest({"get_rpi_depth"}, "NONE", Flat(20))
    \union Rest({"get_asset_index"}, "NONE", UmAssetIndex)

CmWsApi ==
    Bare(Ws({"get_session_status"}, "NONE", Flat(2)))
    \union Orders(Ws({"create_order"}, "TRADE", Flat(0)) \union
                  Ws({"modify_order"}, "TRADE", Flat(1)))
    \union Ws({"cancel_order"}, "TRADE", Flat(1))
    \union Ws({"get_order"}, "USER_DATA", Flat(1))
    \union Ws({"get_account", "get_balance", "get_position"}, "USER_DATA", Flat(5))

CmMarketData ==
    Rest({"get_open_interest", "get_open_interest_hist", "get_funding_rate",
          "get_funding_info", "get_constituents"}, "NONE", Flat(1))
    \union Rest({"get_orderbook"}, "NONE", Helper("futures depth"))
    \union Rest({"get_premium_index"}, "NONE", Flat(10))

CmTrading ==
    Rest({"cancel_all_orders", "cancel_batch_orders"}, "TRADE", Flat(1))
    \union Rest({"countdown_cancel_all_orders"}, "TRADE", Flat(10))
    \union Rest({"get_open_order", "get_order_modify_history"}, "USER_DATA", Flat(1))
    \union Rest({"get_open_orders"}, "USER_DATA", CmOpenOrders)
    \union Rest({"get_all_orders"}, "USER_DATA", CmAllOrders)
    \union Orders(Rest({"create_batch_orders", "modify_batch_orders"}, "TRADE", Flat(5)))
    \union Rest({"get_force_orders"}, "USER_DATA", CmForceOrders)

CmAccount ==
    Rest({"get_position_risk", "get_leverage_bracket"}, "USER_DATA", Flat(1))
    \union Rest({"get_adl_quantile"}, "USER_DATA", Flat(5))
    \union Rest({"get_user_trades"}, "USER_DATA", CmUserTrades)
    \union Rest({"get_commission", "get_income"}, "USER_DATA", Flat(20))
    \union Rest({"get_position_mode"}, "USER_DATA", Flat(30))
    \union Rest({"set_leverage", "set_margin_type", "set_position_margin",
                 "get_position_margin_history", "set_position_mode"}, "TRADE", Flat(1))

\* define_getter installs one method per row on the client of its market.
Registry ==
    [spot |-> SpotGeneral \union SpotMarketData \union SpotAccount \union SpotOrders
              \union SpotOrderLists,
     um |-> UmWsApi \union UmMarketData \union UmTrading \union UmAlgoOrders \union UmAccount
            \union UmStatus,
     cm |-> CmWsApi \union CmMarketData \union CmTrading \union CmAccount]

Markets == DOMAIN Registry

\* SecurityType.requires_api_key and requires_signature.
RequiresApiKey(security) == security # "NONE"
RequiresSignature(security) == security \in {"TRADE", "USER_DATA"}
=============================================================================
