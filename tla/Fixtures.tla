------------------------------- MODULE Fixtures -------------------------------
(***************************************************************************)
(* utils/fixtures/*.ts: what a fixture does to the chain, as a script of   *)
(* steps.  The addresses a fixture keeps are in its fields, which a step   *)
(* names (a field of a fixture other than SystemFixture by the fixture as  *)
(* well); amounts, prices, names and accounts are left out.                *)
(***************************************************************************)
EXTENDS Deployments, SequencesExt

Step == [does : STRING, field : STRING, contract : STRING,
         uses : Seq(SUBSET STRING)]

\* What a step does: the method of DeployHelper that deploys contract into
\* field, the addresses of each of its parameters taken from these fields;
deploy(field, contract, uses) ==
  [does |-> "deploy", field |-> field, contract |-> contract, uses |-> uses]

\* an awaited transaction sent to the contract in target, and one that is not;
call(target, arguments) ==
  [does |-> "call", field |-> "none", contract |-> "none",
   uses |-> << {target}, arguments >>]
send(target, arguments) == [call(target, arguments) EXCEPT !.does = "send"]

\* a transaction whose target creates a contract, which the target then names;
create(field, contract, target, arguments) ==
  [does |-> "create", field |-> field, contract |-> contract,
   uses |-> << {target}, arguments >>]

\* one whose target creates a contract that only its event names, and the query
\* of the latest block for that event.
emit(contract, target, arguments) ==
  [create("none", contract, target, arguments) EXCEPT !.does = "emit"]
getCreatedSetTokenAddress(field) ==
  [does |-> "getLogs", field |-> field, contract |-> "none", uses |-> << >>]

-----------------------------------------------------------------------------
\* systemFixture.ts.
Oracles == {"ETH_USD_Oracle", "USD_USD_Oracle", "BTC_USD_Oracle", "DAI_USD_Oracle"}
Components == {"weth", "usdc", "wbtc", "dai"}

initializeStandardComponents ==
  << deploy("weth", "WETH9", << >>),
     deploy("usdc", "StandardTokenMock", << >>),
     deploy("wbtc", "StandardTokenMock", << >>),
     deploy("dai", "StandardTokenMock", << >>),
     deploy("ETH_USD_Oracle", "OracleMock", << >>),
     deploy("USD_USD_Oracle", "OracleMock", << >>),
     deploy("BTC_USD_Oracle", "OracleMock", << >>),
     deploy("DAI_USD_Oracle", "OracleMock", << >>),
     call("weth", {}),
     call("weth", {"issuanceModule"}), call("usdc", {"issuanceModule"}),
     call("wbtc", {"issuanceModule"}), call("dai", {"issuanceModule"}) >>

ofController == << {"controller"} >>

initializeSystem ==
  << deploy("controller", "Controller", << >>),
     deploy("issuanceModule", "BasicIssuanceModule", ofController) >>
  \o initializeStandardComponents \o
  << deploy("integrationRegistry", "IntegrationRegistry", ofController),
     deploy("factory", "SetTokenCreator", ofController),
     deploy("priceOracle", "PriceOracle",
            << {"controller"}, {"usdc"}, Components, {"usdc"}, Oracles >>),
     deploy("integrationRegistry", "IntegrationRegistry", ofController),
     deploy("setValuer", "SetValuer", ofController),
     deploy("streamingFeeModule", "StreamingFeeModule", ofController),
     deploy("navIssuanceModule", "NavIssuanceModule", << {"controller"}, {"weth"} >>),
     call("controller",
          {"factory", "issuanceModule", "streamingFeeModule", "navIssuanceModule",
           "integrationRegistry", "priceOracle", "setValuer"}) >>

createSetToken(field, components, modules) ==
  << emit("SetToken", "factory", components \cup modules),
     getCreatedSetTokenAddress(field) >>

createNonControllerEnabledSetToken(field, components, modules) ==
  << deploy(field, "SetToken", << components, modules, {"controller"} >>) >>

\* The approvals go out in the order of the Set's positions.
approveAndIssueSetToken(setToken, components) ==
  [i \in 1..Len(components) |-> call(components[i], {"issuanceModule"})]
  \o << call("issuanceModule", {setToken}) >>

-----------------------------------------------------------------------------
\* compoundFixture.ts.
initializeCompound ==
  << deploy("compound.priceOracle", "CompoundPriceOracleMock", << >>),
     deploy("compound.priceOracleProxy", "PriceOracleProxy",
            << {"compound.priceOracle"} >>),
     deploy("compound.unitroller", "Unitroller", << >>),
     deploy("compound.comptroller", "Comptroller", << >>),
     call("compound.unitroller", {"compound.comptroller"}),
     call("compound.comptroller", {"compound.unitroller"}),
     call("compound.comptroller", {"compound.priceOracle"}),
     call("compound.comptroller", {}), call("compound.comptroller", {}),
     call("compound.comptroller", {}),
     deploy("compound.interestRateModel", "WhitePaperInterestRateModel", << >>),
     deploy("compound.comp", "Comp", << >>),
     call("compound.comp", {"compound.comptroller"}),
     deploy("compound.compoundTimelock", "CompoundTimelock", << >>),
     deploy("compound.compoundGovernorAlpha", "CompoundGovernorAlpha",
            << {"compound.compoundTimelock"}, {"compound.comp"} >>) >>

initializeGovernorBravo ==
  << deploy("compound.delegate", "CompoundGovernorBravoDelegate", << >>),
     deploy("compound.delegator", "CompoundGovernorBravoDelegator",
            << {"compound.compoundTimelock"}, {"compound.comp"},
               {"compound.delegate"} >>),
     call("compound.compoundTimelock",
          {"compound.compoundTimelock", "compound.delegator"}),
     call("compound.compoundTimelock",
          {"compound.compoundTimelock", "compound.delegator"}),
     call("compound.comp", {}),
     call("compound.compoundGovernorAlpha", {}),
     call("compound.delegator", {"compound.compoundGovernorAlpha"}) >>

enableMarket(cToken) ==
  << call("compound.comptroller", {cToken}), call("compound.priceOracle", {cToken}),
     call("compound.comptroller", {cToken}) >>

createAndEnableCTokenSwapped(cToken, underlying, comptroller) ==
  << deploy(cToken, "CERc20",
            << {comptroller}, {underlying}, {"compound.interestRateModel"} >>) >>
  \o enableMarket(cToken)

createAndEnableCToken(cToken, underlying, comptroller) ==
  << deploy(cToken, "CERc20",
            << {underlying}, {comptroller}, {"compound.interestRateModel"} >>) >>
  \o enableMarket(cToken)

createAndEnableCEther(cToken, comptroller) ==
  << deploy(cToken, "CEther", << {comptroller}, {"compound.interestRateModel"} >>) >>
  \o enableMarket(cToken)

-----------------------------------------------------------------------------
\* aaveFixture.ts.  set...Impl deploys a proxy of the contract, and the field
\* holds the proxy from there on; the last two transfers and the minting of
\* stkAaveToken are not awaited.
setImplementation(field, contract) ==
  create(field, contract, "aave.lendingPoolAddressesProvider", {field})

initializeAave ==
  << deploy("aave.lendingPoolAddressesProvider", "LendingPoolAddressesProvider", << >>),
     deploy("aave.lendingPool", "LendingPool", << >>),
     deploy("aave.coreLibrary", "CoreLibrary", << >>),
     deploy("aave.lendingPoolCore", "LendingPoolCore", << {"aave.coreLibrary"} >>),
     deploy("aave.lendingPoolConfigurator", "LendingPoolConfigurator", << >>),
     deploy("aave.lendingRateOracle", "LendingRateOracle", << >>),
     deploy("aave.lendingPoolDataProvider", "LendingPoolDataProvider", << >>),
     call("aave.lendingPoolAddressesProvider", {}),
     call("aave.lendingPoolAddressesProvider", {"aave.lendingRateOracle"}),
     setImplementation("aave.lendingPoolCore", "LendingPoolCore"),
     setImplementation("aave.lendingPoolDataProvider", "LendingPoolDataProvider"),
     setImplementation("aave.lendingPool", "LendingPool"),
     setImplementation("aave.lendingPoolConfigurator", "LendingPoolConfigurator"),
     call("aave.lendingPoolConfigurator", {}),
     deploy("aave.reserveInterestRateStrategy", "DefaultReserveInterestRateStrategy",
            << {"aave.lendingPoolCore"}, {"aave.lendingPoolAddressesProvider"} >>),
     deploy("aave.lendToken", "StandardTokenMock", << >>),
     deploy("aave.aaveToken", "AaveTokenV2Mintable", << >>),
     call("aave.aaveToken", {}),
     deploy("aave.lendToAaveMigrator", "LendToAaveMigrator",
            << {"aave.aaveToken"}, {"aave.lendToken"} >>),
     deploy("aave.assetVotingWeightPower", "AssetVotingWeightProvider",
            << {"aave.aaveToken", "aave.lendToken"} >>),
     deploy("aave.aavePropositionPower", "AavePropositionPower", << >>),
     deploy("aave.governanceParamsProvider", "GovernanceParamsProvider",
            << {"aave.aavePropositionPower"}, {"aave.assetVotingWeightPower"} >>),
     deploy("aave.aaveProtoGovernance", "AaveProtoGovernance",
            << {"aave.governanceParamsProvider"} >>),
     call("aave.lendToken", {"aave.lendToAaveMigrator"}),
     call("aave.aaveToken", {"aave.lendToAaveMigrator"}),
     call("aave.lendToAaveMigrator", {}),
     deploy("aave.executor", "Executor", << >>),
     deploy("aave.stkAaveToken", "AaveTokenV2Mintable", << >>),
     send("aave.stkAaveToken", {}),
     deploy("aave.governanceStrategy", "GovernanceStrategy",
            << {"aave.aaveToken"}, {"aave.stkAaveToken"} >>),
     deploy("aave.aaveGovernanceV2", "AaveGovernanceV2",
            << {"aave.governanceStrategy"}, {"aave.executor"} >>),
     send("aave.aaveToken", {}),
     send("aave.stkAaveToken", {}) >>

\* deployAToken and deployETHAToken: the pool names the token of the asset.
deployAToken(aToken, underlying) ==
  << create(aToken, "AToken", "aave.lendingPoolConfigurator",
            {underlying, "aave.reserveInterestRateStrategy"}) >>
deployETHAToken(aToken) ==
  << create(aToken, "AToken", "aave.lendingPoolConfigurator",
            {"aave.reserveInterestRateStrategy"}) >>

-----------------------------------------------------------------------------
\* uniswapFixture.ts.
createNewPair(pair, tokenOne, tokenTwo) ==
  << create(pair, "UniswapV2Pair", "uniswap.factory", {tokenOne, tokenTwo}) >>

createNewStakingPair(pair, rewards, tokenOne, tokenTwo) ==
  createNewPair(pair, tokenOne, tokenTwo)
  \o << deploy(rewards, "StakingRewards", << {"uniswap.uni"}, {pair} >>),
        call("uniswap.uni", {rewards}), call(rewards, {}) >>

initializeUniswap(weth, wbtc, dai) ==
  << deploy("uniswap.factory", "UniswapV2Factory", << >>),
     deploy("uniswap.router", "UniswapV2Router02", << {"uniswap.factory"}, {weth} >>),
     deploy("uniswap.uni", "Uni", << >>),
     deploy("uniswap.uniswapTimelock", "UniswapTimelock", << >>),
     deploy("uniswap.uniswapGovernorAlpha", "UniswapGovernorAlpha",
            << {"uniswap.uniswapTimelock"}, {"uniswap.uni"} >>) >>
  \o createNewStakingPair("uniswap.wethDaiPool", "uniswap.wethDaiStakingRewards", weth, dai)
  \o createNewStakingPair("uniswap.wethWbtcPool", "uniswap.wethWbtcStakingRewards", weth, wbtc)
  \o createNewPair("uniswap.uniWethPool", weth, "uniswap.uni")

-----------------------------------------------------------------------------
\* balancerFixture.ts.
createNewPool(pool, tokenOne, tokenTwo) ==
  << create(pool, "BPool", "balancer.factory", {}),
     call(tokenOne, {pool}), call(pool, {tokenOne}),
     call(tokenTwo, {pool}), call(pool, {tokenTwo}),
     call(pool, {}) >>

initializeBalancer(weth, wbtc, dai) ==
  << deploy("balancer.factory", "BFactory", << >>) >>
  \o createNewPool("balancer.wethDaiPool", weth, dai)
  \o createNewPool("balancer.wethWbtcPool", wbtc, weth)
  \o createNewPool("balancer.wbtcDaiPool", wbtc, dai)
  \o << deploy("balancer.registry", "BRegistry", << {"balancer.factory"} >>),
        deploy("balancer.exchange", "ExchangeProxy", << {weth} >>),
        call("balancer.registry", {"balancer.wethDaiPool", weth, dai}),
        call("balancer.registry", {"balancer.wethWbtcPool", weth, wbtc}),
        call("balancer.registry", {"balancer.wbtcDaiPool", wbtc, dai}),
        call("balancer.registry", {weth, dai}), call("balancer.registry", {wbtc, dai}),
        call("balancer.registry", {weth, wbtc}),
        call("balancer.exchange", {"balancer.registry"}) >>

-----------------------------------------------------------------------------
\* curveFixture.ts.
initializePool(tokens) ==
  << deploy("curve.poolToken", "CurvePoolERC20", << >>),
     deploy("curve.stableSwap", "Stableswap", << tokens, tokens, {"curve.poolToken"} >>),
     deploy("curve.deposit", "CurveDeposit",
            << tokens, tokens, {"curve.stableSwap"}, {"curve.poolToken"} >>),
     call("curve.poolToken", {"curve.stableSwap"}) >>

initializeDAOMinterFirst ==
  << deploy("curve.crvToken", "CRVToken", << >>),
     deploy("curve.minter", "Minter",
            << {"curve.crvToken"}, {"curve.gaugeController"} >>) >>

initializeDAO ==
  << deploy("curve.crvToken", "CRVToken", << >>),
     deploy("curve.gaugeController", "GaugeController",
            << {"curve.crvToken"}, {"curve.crvToken"} >>),
     call("curve.gaugeController", {}),
     deploy("curve.minter", "Minter",
            << {"curve.crvToken"}, {"curve.gaugeController"} >>),
     call("curve.crvToken", {"curve.minter"}) >>

addGauge(gauge) == << call("curve.gaugeController", {gauge}) >>

initializeGauge(gauge, lpToken) ==
  << deploy(gauge, "LiquidityGauge", << {lpToken}, {"curve.minter"} >>) >>
  \o addGauge(gauge)

initializeGaugeRewards(gauge, lpToken, rewardContract, rewardedToken) ==
  << deploy(gauge, "LiquidityGaugeReward",
            << {lpToken}, {"curve.minter"}, {rewardContract}, {rewardedToken} >>) >>
  \o addGauge(gauge)
==============================================================================
