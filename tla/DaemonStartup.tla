---------------------------- MODULE DaemonStartup ----------------------------
(***************************************************************************)
(* bmd-gatewayd before its service runs: main() of app/gatewayd/main.cpp,  *)
(* the configuration (src/production/daemon_config.cpp), the signal thread *)
(* (termination_signals.cpp), and the acquisition of the products' numeric *)
(* specifications (production_metadata.cpp), which runs one                *)
(* AsyncExchangeInfoGet (src/g4/spot_transport.cpp) per market on an       *)
(* io_context of its own.  The service is ProductionGateway.               *)
(*                                                                         *)
(* The io_context is that of BinanceTransport: what is due moves to the    *)
(* ready queue in a reactor turn, and what is in the queue is not          *)
(* cancelled any more.  Here the main thread runs it, and nobody cancels   *)
(* the request from outside.                                               *)
(***************************************************************************)
EXTENDS StageTimer, ExchangeInfo

CONSTANTS
    Configs,        \* configuration files: valid, and the symbols per market
    Documents,      \* what each market's exchangeInfo may answer
    Routable,       \* symbols a route can be made for
    MaxProducts,    \* kMaximumConfiguredProducts
    Stages          \* stages of the request: 5, all alike but the last

\* A file is read or refused by its schema, which leaves lists of symbols.
ASSUME StartupAssumption ==
    /\ MaxProducts \in Nat /\ Stages \in Nat \ {0, 1}
    /\ Configs \subseteq [valid : BOOLEAN, spot : Seq(Nat), usdm : Seq(Nat)]
    /\ \A market \in {1, 2} : Documents[market] \subseteq ExchangeDocuments

VARIABLES
    step,         \* where main() is
    config,       \* the configuration file
    keys,         \* DaemonConfig::market_keys
    get,          \* the request in progress, with its io_context
    bodies,       \* what the fetches returned, by market
    products,     \* ProductionMetadata::products
    termination,  \* a termination signal: none, pending, requested
    outcome       \* the exit status and why

startupVars ==
    <<step, config, keys, get, bodies, products, termination, outcome>>

-----------------------------------------------------------------------------
(* The configuration.                                                        *)

\* Market 1 is MARKET_SPOT, 2 is MARKET_USD_M_PERPETUAL; symbols are numbers too.
MarketKeys(market, symbols) ==
    [i \in DOMAIN symbols |-> [market |-> market, symbol |-> symbols[i]]]

MarketKeyLess(left, right) ==
    \/ left.market < right.market
    \/ left.market = right.market /\ left.symbol < right.symbol

\* How the keys can be permuted so that none is less than one before it.
Orders(listed) ==
    {p \in [DOMAIN listed -> DOMAIN listed] :
        /\ \A k \in DOMAIN listed : \E i \in DOMAIN listed : p[i] = k
        /\ \A i, j \in DOMAIN listed :
                i < j => ~MarketKeyLess(listed[p[j]], listed[p[i]])}

\* std::sort() by MarketKeyLess.
Sorted(listed) ==
    LET order == CHOOSE p \in Orders(listed) : TRUE
    IN  [i \in DOMAIN listed |-> listed[order[i]]]

\* The keys in canonical order, or none: the file cannot be read or has another
\* shape, there are too few or too many products, or two neighbours are equal.
load_daemon_config(file) ==
    LET listed == MarketKeys(1, file.spot) \o MarketKeys(2, file.usdm)
        sorted == Sorted(listed)
    IN  IF \/ ~file.valid \/ Len(listed) \notin 1 .. MaxProducts
           \/ \E i \in 1 .. Len(listed) - 1 : sorted[i] = sorted[i + 1]
        THEN <<>> ELSE sorted

-----------------------------------------------------------------------------

NoGet ==
    [stage |-> 0, timer |-> NewTimer, io |-> "none", ready |-> <<>>,
     done |-> FALSE, result |-> "none", blamed |-> 0]

StartupInit ==
    /\ step = "config" /\ config \in Configs
    /\ keys = <<>> /\ products = <<>>
    /\ get = NoGet
    /\ bodies = [m \in {1, 2} |-> [valid |-> FALSE, symbols |-> <<>>]]
    /\ termination = "none" /\ outcome = "none"

Exits(why) == step' = "exited" /\ outcome' = why

HasMarket(market) == \E i \in DOMAIN keys : keys[i].market = market

\* parse_daemon_config(), --help being left out.
LoadsConfig ==
    /\ step = "config"
    /\ keys' = load_daemon_config(config)
    /\ IF keys' = <<>> THEN Exits("ConfigError")
                       ELSE step' = "preflight" /\ UNCHANGED outcome
    /\ UNCHANGED <<config, get, bodies, products, termination>>

\* performance_baseline_preflight() and the constructor of TerminationSignals,
\* which may throw.
BlocksSignals ==
    /\ step = "preflight"
    /\ \/ step' = "fetch" /\ UNCHANGED outcome
       \/ Exits("Failed")
    /\ UNCHANGED <<config, keys, get, bodies, products, termination>>

-----------------------------------------------------------------------------
(* AsyncExchangeInfoGet.                                                     *)

\* The market whose fetch is next: Spot, then USD-M.
Market == IF step = "fetch" THEN 1 ELSE 2

AtFetch == step \in {"fetch", "fetchUsdM"}

NextFetch == IF step = "fetch" THEN "fetchUsdM" ELSE "resolve"

SkipsFetch ==
    /\ AtFetch /\ get = NoGet /\ ~HasMarket(Market)
    /\ step' = NextFetch
    /\ UNCHANGED <<config, keys, get, bodies, products, termination, outcome>>

\* A stage that nothing watches.
BeginStageUntimed(g, stage) == [g EXCEPT !.stage = stage, !.io = "waiting"]

\* arm_timeout() and the asynchronous call of a stage.
BeginStage(g, stage) ==
    [g EXCEPT !.stage = stage, !.io = "waiting",
              !.timer = ArmTimeout(@, stage)]

\* finish() by a timeout that only closes the socket and counts on the aborted
\* call to report it.
FinishQuietly(g, result, blamed) ==
    [g EXCEPT !.done = TRUE, !.timer = DisarmTimeout(@),
              !.io = IF @ = "none" THEN @ ELSE "aborted",
              !.result = IF result = "timeout" THEN @ ELSE result]

\* finish(): the first result is kept; what is outstanding is aborted.
Finish(g, result, blamed) ==
    [g EXCEPT !.done = TRUE, !.timer = DisarmTimeout(@),
              !.io = IF @ = "none" THEN @ ELSE "aborted",
              !.result = IF @ = "none" THEN result ELSE @,
              !.blamed = blamed]

\* start(), whose SNI may be refused.
StartsFetch ==
    /\ AtFetch /\ get = NoGet /\ HasMarket(Market)
    /\ \/ get' = BeginStage(NoGet, 1)
       \/ get' = Finish(NoGet, "failed", 0)
    /\ UNCHANGED <<step, config, keys, bodies, products, termination, outcome>>

fetchUnchanged == <<step, config, keys, bodies, products, termination, outcome>>

IoBecomesDue(result) ==
    /\ get.io = "waiting"
    /\ get' = [get EXCEPT !.io = result]
    /\ UNCHANGED fetchUnchanged

TimerBecomesDue ==
    /\ get.timer.wait # NoWait /\ ~get.timer.wait.due
    /\ get' = [get EXCEPT !.timer = Expires(@)]
    /\ UNCHANGED fetchUnchanged

IoDue == get.io \in {"ok", "failed", "aborted"}

\* Sockets before timers, as in BinanceTransport.
ReactorTurn ==
    /\ IoDue \/ get.timer.wait.due
    /\ get' = [get EXCEPT
                !.ready = @ \o (IF IoDue THEN <<[kind |-> "io", outcome |-> get.io,
                                                 wait |-> NoWait]>> ELSE <<>>)
                            \o (IF get.timer.wait.due
                                THEN <<[kind |-> "timer", outcome |-> "ok",
                                        wait |-> get.timer.wait]>> ELSE <<>>),
                !.io = IF IoDue THEN "none" ELSE @,
                !.timer = IF get.timer.wait.due THEN CancelTimer(@) ELSE @]
    /\ UNCHANGED fetchUnchanged

Runs(kind) == get.ready # <<>> /\ Head(get.ready).kind = kind

Taken == [get EXCEPT !.ready = Tail(@)]

\* The completion handlers: nothing once done; else the stage's timer is
\* disarmed, and an error ends the request, the last stage yields the response,
\* whose status may not be 200, and any other begins the next.
StageDone ==
    LET g == [Taken EXCEPT !.timer = DisarmTimeout(@)]
    IN  /\ Runs("io")
        /\ IF get.done THEN get' = Taken
           ELSE IF Head(get.ready).outcome # "ok"
           THEN get' = Finish(g, "failed", get.stage)
           ELSE IF get.stage < Stages THEN get' = BeginStage(g, get.stage + 1)
           ELSE \E result \in {"body", "failed"} :
                    get' = Finish(g, result, get.stage)
        /\ UNCHANGED fetchUnchanged

\* The wait handler of arm_timeout().
StageTimesOut ==
    LET wait == Head(get.ready).wait
    IN  /\ Runs("timer")
        /\ get' = IF ~get.done /\ IsCurrent(get.timer, wait.generation)
                  THEN Finish(Taken, "timeout", wait.stage) ELSE Taken
        /\ UNCHANGED fetchUnchanged

\* run() returns: the response is stored, or main() ends with a MetadataError.
\* Without a result fetch_exchange_info_https() reports an internal error.
RunReturns ==
    /\ AtFetch /\ get # NoGet
    /\ get.ready = <<>> /\ get.io = "none" /\ get.timer.wait = NoWait
    /\ CASE get.result = "body" ->
                /\ \E document \in Documents[Market] :
                        bodies' = [bodies EXCEPT ![Market] = document]
                /\ step' = NextFetch /\ get' = NoGet /\ UNCHANGED outcome
         [] get.result = "none" ->
                Exits("NoResult") /\ UNCHANGED <<get, bodies>>
         [] OTHER -> Exits("FetchFailed") /\ UNCHANGED <<get, bodies>>
    /\ UNCHANGED <<config, keys, products, termination>>

-----------------------------------------------------------------------------
(* acquire_production_metadata() once it has the documents.                  *)

\* The route of the symbol and its market's parser.
Specification(key) ==
    IF key.symbol \notin Routable THEN Failure
    ELSE IF key.market = 1 THEN parse_exchange_info(bodies[1], key.symbol)
    ELSE parse_usdm_exchange_info(bodies[2], key.symbol)

\* One key, in canonical order; the first that fails ends main().
ResolvesKey ==
    LET key == keys[Len(products) + 1]
        spec == Specification(key)
    IN  /\ step = "resolve" /\ Len(products) < Len(keys)
        /\ IF spec.ok
           THEN /\ products' = Append(products, [key |-> key,
                                                 scales |-> spec.scales])
                /\ UNCHANGED <<step, outcome>>
           ELSE Exits("MetadataError") /\ UNCHANGED products
        /\ UNCHANGED <<config, keys, get, bodies, termination>>

\* The look at the signals, then run_production_service() with the
\* specifications in the order of their keys.
EntersService ==
    /\ step = "resolve" /\ Len(products) = Len(keys)
    /\ IF termination = "requested" THEN Exits("StopRequested")
       ELSE step' = "service" /\ UNCHANGED outcome
    /\ UNCHANGED <<config, keys, get, bodies, products, termination>>

-----------------------------------------------------------------------------
(* Signals.                                                                  *)

\* SIGINT or SIGTERM, blocked since the constructor.
TerminationArrives ==
    /\ step \in {"fetch", "fetchUsdM", "resolve"} /\ termination = "none"
    /\ termination' = "pending"
    /\ UNCHANGED <<step, config, keys, get, bodies, products, outcome>>

\* TerminationSignals::loop().
WaiterSeesSignal ==
    /\ termination = "pending"
    /\ termination' = "requested"
    /\ UNCHANGED <<step, config, keys, get, bodies, products, outcome>>

\* The service has the process, or it has ended.
Over == step \in {"service", "exited"} /\ UNCHANGED startupVars

Main ==
    \/ LoadsConfig \/ BlocksSignals \/ SkipsFetch \/ StartsFetch \/ ReactorTurn
    \/ StageDone \/ StageTimesOut \/ RunReturns \/ ResolvesKey \/ EntersService

StartupNext ==
    \/ Main \/ TimerBecomesDue \/ TerminationArrives \/ WaiterSeesSignal \/ Over
    \/ \E result \in {"ok", "failed"} : IoBecomesDue(result)

\* The main thread runs and timers run out; the exchange need not answer.
StartupSpec ==
    /\ StartupInit /\ [][StartupNext]_startupVars
    /\ WF_startupVars(Main) /\ WF_startupVars(TimerBecomesDue)

-----------------------------------------------------------------------------
(* Properties.                                                               *)

\* The request always has a result when its io_context runs dry, and a timeout
\* is blamed on the stage that was running, not on one that was over.
FetchIsAnswered ==
    /\ outcome # "NoResult"
    /\ get.result = "timeout" => get.blamed = get.stage

\* The number that the first i digits of a string stand for.
Values(digits) ==
    LET value[i \in 0 .. Len(digits)] ==
            IF i = 0 THEN 0 ELSE 10 * value[i - 1] + digits[i]
    IN  value

\* 10 ^ i, for i up to n.
Powers(n) ==
    LET power[i \in 0 .. n] == IF i = 0 THEN 1 ELSE 10 * power[i - 1]
    IN  power

\* The value of a quantum in units of its last digit.
Units(quantum) ==
    LET digits == quantum.whole \o quantum.fraction
    IN  Values(digits)[Len(digits)]

\* The smallest number of decimals in which the quantum, and so every multiple of
\* it, can be written: it is a whole number of units of the last of them.
Decimals(quantum) ==
    LET n == Len(quantum.fraction)
        units == Units(quantum)
    IN  Min({d \in 0 .. n :
                \E k \in 0 .. units : units = k * Powers(n)[n - d]})

\* A tradable product as the exchange lists it: the one entry of its market's
\* document, with one filter of each type.
IsListed(product) ==
    LET entries == bodies[product.key.market].symbols
        Size(entry, type) ==
            (CHOOSE f \in ToSet(entry.filters) : f.type = type).size
    IN  \E i \in DOMAIN entries :
            /\ \A j \in DOMAIN entries :
                    entries[j].symbol = product.key.symbol <=> i = j
            /\ entries[i].status = "TRADING"
            /\ entries[i].kind = (IF product.key.market = 1 THEN "spot"
                                                            ELSE "PERPETUAL")
            /\ product.scales = <<Decimals(Size(entries[i], "PRICE_FILTER")),
                                  Decimals(Size(entries[i], "LOT_SIZE"))>>
            /\ Units(Size(entries[i], "PRICE_FILTER")) > 0

\* The service is given every configured product and no other, each once, in
\* canonical order, with the scales that its own market's document implies.
ServesWhatIsListed ==
    step = "service" =>
        /\ Len(products) = Len(config.spot) + Len(config.usdm)
        /\ {products[i].key : i \in DOMAIN products}
            = ToSet(MarketKeys(1, config.spot)) \cup ToSet(MarketKeys(2, config.usdm))
        /\ \A i \in DOMAIN products : IsListed(products[i])
        /\ \A i, j \in DOMAIN products :
                i < j => MarketKeyLess(products[i].key, products[j].key)

\* Startup ends, in the service or with an exit, whatever the exchange does.
StartupEnds == <>(step \in {"service", "exited"})

=============================================================================
