----------------------------- MODULE Deployments -----------------------------
(***************************************************************************)
(* utils/deploys/*.ts: the methods that deploy a contract, each by what    *)
(* the addresses among its arguments have to be.  All of them are typed    *)
(* Address, a string, so that neither TypeScript nor the constructor tells *)
(* a swapped argument.  A parameter is the set of the contracts it may be, *)
(* a list of addresses included; accounts, numbers and names are left out. *)
(***************************************************************************)
EXTENDS Sequences

Token == {"WETH9", "StandardTokenMock", "Uni", "Comp", "CRVToken",
          "AaveTokenV2Mintable", "CurvePoolERC20", "UniswapV2Pair", "CEther",
          "CERc20"}

OfController == << {"Controller"} >>
OfControllerAndWeth == << {"Controller"}, {"WETH9"} >>

\* deployModules.ts.
moduleParameters ==
  [BasicIssuanceModule  |-> OfController, IssuanceModule     |-> OfController,
   DebtIssuanceModule   |-> OfController, AmmModule          |-> OfController,
   StreamingFeeModule   |-> OfController, AirdropModule      |-> OfController,
   TradeModule          |-> OfController, ClaimModule        |-> OfController,
   StakingModule        |-> OfController, GovernanceModule   |-> OfController,
   NavIssuanceModule    |-> OfControllerAndWeth,
   CustomOracleNavIssuanceModule |-> OfControllerAndWeth,
   WrapModule           |-> OfControllerAndWeth,
   SingleIndexModule    |-> << {"Controller"}, {"WETH9"}, {"UniswapV2Router02"},
                               {"UniswapV2Router02"}, {"ExchangeProxy"} >>,
   UniswapYieldStrategy |-> << {"Controller"}, {"UniswapV2Router02"},
                               {"UniswapV2Pair"}, Token, Token, {"Uni"},
                               {"StakingRewards"} >>,
   CompoundLeverageModule |-> << {"Controller"}, {"Comp"}, {"Comptroller"},
                                 {"CEther"}, {"WETH9"}, {"Compound"} >>]

\* deployCoreContracts.ts.
coreParameters ==
  [Controller          |-> << >>,
   SetTokenCreator     |-> OfController,
   SetToken            |-> << Token, DOMAIN moduleParameters, {"Controller"} >>,
   PriceOracle         |-> << {"Controller"}, Token, Token, Token, {"OracleMock"} >>,
   IntegrationRegistry |-> OfController,
   SetValuer           |-> OfController]

\* Of deployMocks.ts and deployLibraries.ts, what the fixtures use.
mockParameters == [StandardTokenMock |-> << >>, OracleMock |-> << >>]
libraryParameters == [Compound |-> << >>]

\* deployExternal.ts, by the protocol the contracts belong to.
compoundParameters ==
  [Comp                    |-> << >>, CompoundTimelock             |-> << >>,
   Comptroller             |-> << >>, Unitroller                   |-> << >>,
   CompoundPriceOracleMock |-> << >>, WhitePaperInterestRateModel  |-> << >>,
   CompoundGovernorBravoDelegate |-> << >>,
   PriceOracleProxy        |-> << {"CompoundPriceOracleMock"} >>,
   CompoundGovernorAlpha   |-> << {"CompoundTimelock"}, {"Comp"} >>,
   CompoundGovernorBravoDelegator |->
     << {"CompoundTimelock"}, {"Comp"}, {"CompoundGovernorBravoDelegate"} >>,
   CERc20                  |-> << Token, {"Comptroller", "Unitroller"},
                                  {"WhitePaperInterestRateModel"} >>,
   CEther                  |-> << {"Comptroller", "Unitroller"},
                                  {"WhitePaperInterestRateModel"} >>]

aaveParameters ==
  [LendingPoolAddressesProvider |-> << >>, LendingPool             |-> << >>,
   CoreLibrary                  |-> << >>, LendingPoolConfigurator |-> << >>,
   LendingRateOracle            |-> << >>, LendingPoolDataProvider |-> << >>,
   AaveTokenV2Mintable          |-> << >>, AavePropositionPower    |-> << >>,
   Executor                     |-> << >>,
   LendingPoolCore              |-> << {"CoreLibrary"} >>,
   DefaultReserveInterestRateStrategy |->
     << {"LendingPoolCore"}, {"LendingPoolAddressesProvider"} >>,
   LendToAaveMigrator           |-> << {"AaveTokenV2Mintable"}, {"StandardTokenMock"} >>,
   AssetVotingWeightProvider    |-> << Token >>,
   GovernanceParamsProvider     |-> << {"AavePropositionPower"},
                                       {"AssetVotingWeightProvider"} >>,
   AaveProtoGovernance          |-> << {"GovernanceParamsProvider"} >>,
   GovernanceStrategy           |-> << {"AaveTokenV2Mintable"}, {"AaveTokenV2Mintable"} >>,
   AaveGovernanceV2             |-> << {"GovernanceStrategy"}, {"Executor"} >>]

curveParameters ==
  [CurvePoolERC20       |-> << >>, CRVToken |-> << >>,
   Stableswap           |-> << Token, Token, {"CurvePoolERC20"} >>,
   CurveDeposit         |-> << Token, Token, {"Stableswap"}, {"CurvePoolERC20"} >>,
   GaugeController      |-> << {"CRVToken"}, {"CRVToken"} >>,
   LiquidityGauge       |-> << Token, {"Minter"} >>,
   LiquidityGaugeReward |-> << Token, {"Minter"}, {"StakingRewards"}, Token >>,
   Minter               |-> << {"CRVToken"}, {"GaugeController"} >>]

uniswapParameters ==
  [Uni                  |-> << >>, UniswapTimelock |-> << >>,
   UniswapV2Factory     |-> << >>,
   UniswapV2Pair        |-> << >>,
   UniswapV2Router02    |-> << {"UniswapV2Factory"}, {"WETH9"} >>,
   UniswapGovernorAlpha |-> << {"UniswapTimelock"}, {"Uni"} >>,
   StakingRewards       |-> << Token, {"UniswapV2Pair"} >>]

balancerParameters ==
  [BFactory      |-> << >>,
   ExchangeProxy |-> << {"WETH9"} >>,
   BRegistry     |-> << {"BFactory"} >>]

wethParameters == [WETH9 |-> << >>]

tables == {moduleParameters, coreParameters, mockParameters, libraryParameters,
           compoundParameters, aaveParameters, curveParameters,
           uniswapParameters, balancerParameters, wethParameters}

Contract == UNION {DOMAIN table : table \in tables}

\* What the addresses given to the method that deploys a contract must be.
parametersOf(contract) ==
  (CHOOSE table \in tables : contract \in DOMAIN table)[contract]
==============================================================================
