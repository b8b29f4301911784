----------------------------- MODULE MCTestSession ----------------------------
(***************************************************************************)
(* Five spec files in the shapes the repository's have: one with           *)
(* cacheBeforeEach at three levels (compoundLeverageModule.spec.ts), one   *)
(* with a cache and tests at every level (singleIndexModule.spec.ts), and  *)
(* three with a before hook and the sandbox (aaveMigrationWrapModule       *)
(* .spec.ts with the transactions that are not awaited, a few requests     *)
(* before its createSetToken; curveStakingModule.spec.ts,                  *)
(* uniswapYieldStrategy.spec.ts).  Between them they run every fixture and *)
(* deploy every module.                                                    *)
(***************************************************************************)
EXTENDS TestSession

hook(kind, script_) == [kind |-> kind, script |-> script_]
sandbox == hook("sandbox", << >>)
addModule(field, contract, uses) ==
  << deploy(field, contract, uses), call("controller", {field}) >>
suiteOf(hooks, tests, body, children) ==
  [hooks |-> hooks, tests |-> tests, body |-> body, children |-> children]

Names == {"leverage", "lever", "leverTwice", "constructor", "index", "trade",
          "aave", "wrapped", "curve", "staked", "strategy", "engage"}

leverageSetUp ==
  initializeSystem \o initializeCompound
  \o createAndEnableCEther("cEther", "compound.comptroller")
  \o createAndEnableCToken("cDai", "dai", "compound.comptroller")
  \o << call("compound.comptroller", {"cEther", "cDai"}),
        deploy("compoundLibrary", "Compound", << >>) >>
  \o addModule("compoundLeverageModule", "CompoundLeverageModule",
               << {"controller"}, {"compound.comp"}, {"compound.comptroller"},
                  {"cEther"}, {"weth"}, {"compoundLibrary"} >>)

indexSetUp ==
  initializeSystem \o initializeUniswap("weth", "wbtc", "dai")
  \o initializeBalancer("weth", "wbtc", "dai")
  \o addModule("indexModule", "SingleIndexModule",
               << {"controller"}, {"weth"}, {"uniswap.router"}, {"uniswap.router"},
                  {"balancer.exchange"} >>)
  \o createSetToken("index", {"uniswap.uni", "wbtc", "dai"},
                    {"issuanceModule", "streamingFeeModule", "indexModule"})

aaveSetUp ==
  initializeSystem \o initializeAave
  \o addModule("wrapModule", "WrapModule", << {"controller"}, {"weth"} >>)

\* With the modules whose specs start in the same two lines.
curveSetUp ==
  initializeSystem \o initializeCompound \o initializeGovernorBravo
  \o << deploy("usdt", "StandardTokenMock", << >>),
        deploy("susd", "StandardTokenMock", << >>) >>
  \o initializePool({"dai", "usdc", "usdt", "susd"}) \o initializeDAO
  \o initializeGauge("gauge", "curve.poolToken")
  \o addModule("stakingModule", "StakingModule", ofController)
  \o addModule("airdropModule", "AirdropModule", ofController)
  \o addModule("governanceModule", "GovernanceModule", ofController)
  \o addModule("debtIssuance", "DebtIssuanceModule", ofController)
  \o addModule("issuance", "IssuanceModule", ofController)
  \o addModule("tradeModule", "TradeModule", ofController)
  \o addModule("claimModule", "ClaimModule", ofController)
  \o addModule("ammModule", "AmmModule", ofController)
  \o addModule("customNav", "CustomOracleNavIssuanceModule",
               << {"controller"}, {"weth"} >>)

strategySetUp ==
  initializeSystem \o initializeUniswap("weth", "wbtc", "dai")
  \o addModule("yieldStrategy", "UniswapYieldStrategy",
               << {"controller"}, {"uniswap.router"}, {"uniswap.wethDaiPool"},
                  {"weth"}, {"dai"}, {"uniswap.uni"},
                  {"uniswap.wethDaiStakingRewards"} >>)
  \o initializePool({"dai", "usdc", "weth", "wbtc"}) \o initializeDAO
  \o initializeGaugeRewards("rewards", "uniswap.wethDaiPool",
                            "uniswap.wethDaiStakingRewards", "uniswap.uni")

Suites ==
  [leverage    |-> suiteOf(<< hook("cache", leverageSetUp) >>, 0, << >>,
                           << "lever", "constructor" >>),
   constructor |-> suiteOf(<< hook("each", << >>) >>, 2,
                           << deploy("module", "ClaimModule", ofController) >>, << >>),
   lever       |-> suiteOf(<< hook("cache", createSetToken("setToken", {"cEther", "cDai"},
                                              {"compoundLeverageModule"})
                                            \o << call("compoundLeverageModule", {"setToken"}) >>),
                              hook("each", << call("weth", {"setToken"}) >>) >>,
                           2, << call("compoundLeverageModule", {"setToken"}) >>,
                           << "leverTwice" >>),
   leverTwice  |-> suiteOf(<< hook("cache", << call("compoundLeverageModule", {"setToken"}) >>) >>,
                           2, << call("compoundLeverageModule", {"setToken"}) >>, << >>),
   index       |-> suiteOf(<< hook("cache", indexSetUp) >>, 1, << >>, << "trade" >>),
   trade       |-> suiteOf(<< hook("cache", approveAndIssueSetToken("index",
                                              << "uniswap.uni", "wbtc", "dai" >>)) >>,
                           2, << call("indexModule", {"index"}) >>, << >>),
   aave        |-> suiteOf(<< hook("before", aaveSetUp), sandbox >>, 0, << >>,
                           << "wrapped" >>),
   wrapped     |-> suiteOf(<< hook("before", createSetToken("setToken", {"dai"},
                                               {"issuanceModule", "wrapModule"})),
                              hook("each", deployAToken("aDai", "dai")
                                           \o << call("dai", {"wrapModule"}) >>) >>,
                           2, << call("wrapModule", {"setToken", "dai", "aDai"}) >>
                              \o deployETHAToken("aETH"), << >>),
   curve       |-> suiteOf(<< hook("before", curveSetUp), sandbox >>, 0, << >>,
                           << "staked" >>),
   staked      |-> suiteOf(<< hook("each", createSetToken("setToken", {"dai", "curve.poolToken"},
                                             {"issuanceModule", "stakingModule"})
                                           \o << call("stakingModule", {"setToken"}) >>) >>,
                           2, createSetToken("other", {"dai"}, {"stakingModule"}), << >>),
   strategy    |-> suiteOf(<< hook("before", strategySetUp), sandbox >>, 0, << >>,
                           << "engage" >>),
   engage      |-> suiteOf(<< hook("each", createNonControllerEnabledSetToken("setToken",
                                             {"weth", "dai"}, {"yieldStrategy"})) >>,
                           2, << call("yieldStrategy", {"setToken"}) >>, << >>)]

\* Each shape of hooks first and after another one.
SessionsRun == {<<"strategy", "aave">>, <<"curve", "index">>, <<"index", "leverage">>,
                <<"leverage", "curve">>}
==============================================================================
