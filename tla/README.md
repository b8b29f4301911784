# Formal verification of Set Protocol v2

TLA+ models of the contracts under `src/contracts` and of the machinery that tests
them under `src/utils`, model-checked with TLC and, for the core, proved with TLAPS.
Every definition is a translation of Solidity or TypeScript source; `PROJECT.json`
(`map`) names the lines of each.

## 1. The system

A **SetToken** is an ERC20 token that stands for a basket of components. It
keeps the basket as *positions* and lets *modules* act on it. Everything else is
a module, a library of modules, or a registry that says which modules may act.

| part | state it keeps | operations | correct when |
|---|---|---|---|
| `SetToken` | `manager`, `modules` + `moduleStates`, `isLocked` + `locker`, `components` + `componentPositions`, `positionMultiplier`, ERC20 | privileged calls of modules, calls of the manager, `initializeModule` | only enabled, initialised modules act; a lock excludes everybody else; list and mapping agree; repricing loses no position |
| `SetTokenCreator` | none | `create` | a new SetToken starts without repeated components or modules |
| `Controller` | four lists, four mappings, `resourceId`, `fees`, `feeRecipient` | `initialize`, add, remove, edit | each list agrees with its mapping; ids and resources determine each other |
| `Position` library | none (edits the SetToken) | `editDefaultPosition`, `editExternalPosition`, `calculateAndEditDefaultPosition` | a component is listed while it has a position |
| `PreciseUnitMath`, `AddressArrayUtils` | none | fixed-point arithmetic, address lists | rounding goes the named way; a removal keeps the other entries |
| `Invoke`, `ExplicitERC20`, `ModuleBase`, `ResourceIdentifier` | none | exact transfers; guards of modules | |
| `BasicIssuanceModule` | hook per SetToken | `issue`, `redeem` | holders can always exit; rounding never favours the caller |
| `StreamingFeeModule` | `feeStates` | `accrueFee`, `updateStreamingFee`, `updateFeeRecipient`, ... | no time is charged twice; backing lost is dust |
| `TradeModule` | none | `trade` | the position follows the balance, airdrops left out |
| `DebtIssuanceModule` | settings, `moduleIssuanceHooks` + `isModuleHook` | register, unregister, `issue`, `redeem` | list and mapping agree; hooks are run before units are read |
| `CompoundLeverageModule` | `enabledAssets` and mappings; positions at Compound | `sync`, `lever`, `delever`, hooks, enable and disable assets | debt is never understated at issuance nor left behind at removal |
| `NAVIssuanceModule`, `CustomOracleNAVIssuanceModule` | settings with the list of reserve assets, `isReserveAsset` | `issue` and `redeem` at net asset value, edits of settings, `initialize`, `removeModule` | nobody's share pays for another's; list and mapping agree; the view says no only to what reverts |
| `IssuanceModule` | hook per SetToken | `issue`, `redeem` with component hooks | the parts of an issuance add up: held, staked, minted |
| `StakingModule` | `stakingContracts` and `componentPositions` per component | `stake`, `unstake`, component hooks, `removeModule` | list, units and external position agree; a contract can pay what hooks ask |
| `PriceOracle`, `SetValuer` | oracles by ordered pair, adapters, master quote asset | edit pairs, `getPrice`, `calculateSetTokenValuation` | a price is found directly, inversely or over the master quote |
| `SingleIndexModule`, `AirdropModule`, `WrapModule`, `AmmModule`, `ClaimModule`, `GovernanceModule`, `UniswapYieldStrategy` | per-Set settings and lists | see section 7 | |
| `IntegrationRegistry`, adapters, product hooks, viewers | adapters by name | lookup, encoding of calls | |
| expectations of the tests (`utils/common`) | none | the arithmetic the tests compare contracts with | they compute what the contracts compute |
| fixtures and deployers (`utils/fixtures`, `utils/deploys`) | fields with the contracts they deployed | `initialize`, `create...` | what a step uses was deployed before it, and is of the right kind |
| snapshot helpers (`utils/test/testingUtils.ts`, `utils/common/blockchainUtils.ts`) | a stack of snapshots shared by all hooks; one id per sandbox | `cacheBeforeEach`, `addSnapshotBeforeRestoreAfterEach` | every test starts on the same chain, whatever ran before |

**How they interact.** A module calls privileged functions of the SetToken
(`onlyModule`: INITIALIZED on the SetToken *and* enabled on the Controller). The
manager calls `addModule`, `removeModule`, `setManager`. `removeModule` calls the
module back before it clears its state, while the module has all its rights; modules call each other
(`CompoundLeverageModule` registers with `DebtIssuanceModule`, which calls its
hooks). `IssuanceModule` calls the hooks of the modules that hold a component's external
positions, which stake and unstake through the SetToken. `NAVIssuanceModule` asks the
Controller for the `SetValuer`, which asks the `PriceOracle`. The Controller's owner can
disable a module between any two calls, and the oracle's owner can replace a price.

The tests run on a node that mines a transaction at a time. Mocha calls the hooks of a
spec file in an order of its own; the fixtures send transactions from them and keep the
addresses in JavaScript fields, which the snapshots of the node do not restore.

**What is hard.** A transaction is atomic, so there are no data races; the
hazards are *sequences*: calls of independent parties (holders, manager, modules,
owner, keepers, the external protocol) in orders nobody tested, state kept twice,
state deleted in part, callbacks in the middle of an update, failures swallowed by
`try/catch`, and rounding that accumulates or turns a positive amount to zero. The tests
are concurrent programs: a transaction that is not awaited is mined between others, a
hook may throw half way, and a snapshot can be used once.
`PROJECT.json` lists each under `hazards` with the line where it bites.

## 2. Modules

```
PreciseUnitMath        AddressArrayUtils
      \                /        |     \
     SetTokenPositions       Controller  \
      /          \                        \
 SetToken     PositionLibrary          DebtIssuanceModule
    |          /        \                     |
    |   PositionBook   SetVault          CompoundLeverageModule
 ModuleAuthority       /  |  |  \              |
 (refined)            /   |  |   \         LeveragedSet
                     /    |  |    \
        StakingModule     |  |    SetValuer -- PriceOracle
              |           |  |        |
       IssuanceModule     |  |   NAVIssuanceModule
              |    Streaming, Basic,  |
          StakingSet  Trade    \    NavSet -- NavExpectations
                      |                          |
                   Collateral -- FeeExpectations |
                                        \        |
 Blockchain   Deployments -- Fixtures    MathUtils
         \          /
         TestSession
```

| module | source | correspondence |
|---|---|---|
| `PreciseUnitMath` | `lib/PreciseUnitMath.sol` | one operator per function; `PRECISE_UNIT` (10^18) is a constant; `sdiv` truncates as EVM division does |
| `AddressArrayUtils` | `lib/AddressArrayUtils.sol` | operators on sequences; `removeStorage` swaps the last entry into the hole |
| `SetTokenPositions` | position part of `SetToken.sol` | a record for the storage; each primitive is an operator and a `...Ok` predicate for its requires |
| `SetToken` | `SetToken.sol`, `SetTokenCreator.create` | one action per external function, two for `removeModule`, between which the module's callback runs; `enabled` is the Controller's `isModule`; invoked tokens and ERC20 in short |
| `ModuleAuthority` | abstract | what a SetToken promises about who may act; `SetToken` refines it |
| `PositionLibrary` | `lib/Position.sol` | the edits composed of primitives |
| `PositionBook` | library edits + repricing by `StreamingFeeModule` and `NAVIssuanceModule` | the positions under every kind of editor |
| `SetVault` | SetToken as ERC20 and holder of tokens | shared by the three value modules |
| `BasicIssuanceModule`, `StreamingFeeModule`, `TradeModule` | the modules of that name | one action per external function; what a function calls is part of its action |
| `Collateral` | composition | any order of the three, with transfers, airdrops and time |
| `Controller` | `Controller.sol` | one action per external function |
| `PriceOracle`, `SetValuer` | the contracts of that name | pairs with a price instead of oracle contracts; a pair without oracle has none |
| `NAVIssuanceModule` | the module of that name | one action per external function; the checks, fees, premium, multiplier and unit of a call are operators of those names |
| `NavSet` | composition | basic issuance for the first SetTokens, then NAV issuance under prices and settings that change |
| `StakingModule`, `IssuanceModule` | the modules of that name | a staking contract is external: it holds what it was sent and returns what it has |
| `StakingSet` | composition | both, with trades and fee accruals |
| `MathUtils`, `NavExpectations`, `FeeExpectations` | `mathUtils.ts`, `navIssuanceModuleUtils.ts`, `feeModuleUtils.ts` | one operator per function, with the rounding of `BigNumber` |
| `Deployments` | `utils/deploys` | the kinds of contract each parameter of a deployer stands for |
| `Fixtures` | `utils/fixtures` | each method as its sequence of requests: what it deploys, calls or sends, the field it sets, the fields it uses |
| `Blockchain` | `blockchainUtils.ts` over a node (external) | a chain of transactions, snapshots that a revert uses up |
| `TestSession` | `testingUtils.ts` under Mocha (external) | the order of hooks, tests and nested suites; each request a step |
| `DebtIssuanceModule`, `CompoundLeverageModule` | the modules of that name | registration; Compound's own behaviour is marked external: it may refuse any borrow, never lets a market with a stored balance be exited, and accrues a market's interest in any transaction there |
| `LeveragedSet` | composition | `issue` and `redeem` with module hooks and with the component hooks of equity and of debt |
| `*Proofs` | | theorems, section 6 |

In `removeModule` the SetToken calls a module whose code it does not know. `leaving` names
that module from `removeModule` to `removeModuleReturns`; in between modules take any steps
of theirs, as many as they like: the module that leaves still has its rights, and it may call
others. The manager and the owner of the Controller are taken not to be contracts a module
could call, and act between transactions only. A callback that reverts undoes the transaction:
its states are in the model although nobody sees them, which adds behaviours and hides none.
`LocksOnLeaving` are the modules whose callback takes the lock: their state is cleared all the
same, and as nobody may then call `unlock`, the SetToken is frozen for good. No `removeModule()`
of the repository calls `lock`; `LockerCanReturn` says that this is the only way to lose a lock.

A function that reverts is an action that is not enabled; its requires are its
guards. A mapping to bool is a set. Events, strings, allowances and re-entrancy
guards are left out. Ownership of the Controller does not change.

## 3. Runs

| run | instance | shows |
|---|---|---|
| `SetToken` | 3 modules, 2 accounts, 1 component, 1 external module, units -2 and 2, multipliers 0, 1, 3, 4 | module list against states; a lock and its holder; a disabled locker freezes the SetToken; a null manager is final; refinement of `ModuleAuthority`; one module may lock while it is removed |
| `PositionBook` | 2 components, 2 external modules on one of them, units of 2 or more | component list against positions; list of external modules against units; every position can be closed; no repricing loses a position |
| `Collateral` | 2 components, supply to 8, trades, rates 0 and 1, 2 ticks | full backing and exit for every holder until a fee is taken; fee is charged once; dilution only by fees and by dust; the accrual is what the tests expect |
| `Controller` | 2 sets, 1 factory, 2 modules, 2 resources, zero address | lists against mappings, ids against resources |
| `LeveragedSet` | 2 modules, 2 assets, one of which may have a default position, supply to 4, balances with interest to 2 | hooks against flags, removal unregisters, markets stay entered, nothing owed is given up, what redemption and issuance leave unshown |
| `NavSet` | 2 components of different decimals, 3 pairs of prices, 2 settings, 4 calls | nobody gains at the expense of holders; dust bound; reserve list against mapping; the expectations of the tests within named gaps; the view against `redeem` |
| `StakingSet` | 2 components, 2 staking contracts, supply to 4, trades, 1 accrual | records against list and external unit; contracts are short by dust only; removal leaves no position; staking dilutes nobody |
| `TestSession` | 5 spec files, 4 sessions of two, one hook that throws, requests that overtake | stack of snapshots against open suites; every revert finds its snapshot; every test starts alike; only what nobody awaits can hide an event; fixtures wire what they mean; the stack is emptied again |
| `LeveragedSetOutlive` | as `LeveragedSet` | **violation**: positions outlive their module (finding) |
| `LeveragedSetUnborrow` | as `LeveragedSet` | **violation**: a borrow asset is removed although it is owed (finding) |
| `LeveragedSetTwice` | as `LeveragedSet` | **violation**: a borrow asset with a default position is borrowed twice (finding) |
| `StakingSetFee` | 1 component, 1 contract, 1 accrual | **violation**: the last holders of a staked SetToken cannot redeem (finding) |

**Bounds.** Three modules are what `removeStorage` distinguishes: the one removed,
the last one, and one that must not move; the proofs cover the rest. `PRECISE_UNIT`
is 2, 4, 10 or 20 in place of 10^18. The properties depend on whether a division is exact
and on which side of one unit the result falls; a small unit makes both happen
within a few steps, while 10^18 would only make them rarer. Multipliers reach below
one half and above one, so that rounding to zero, refusal and growth all occur.
`MaxSupply`, `MaxHeld`, `MaxTime`, `MaxMultiplier`, `MaxListed` and `MaxDebt` cap
counters that the code leaves free; an operation that would pass a cap is not taken,
and every property is one that a step beyond the cap could not repair. A supply of three
with a scale of two is the least whose units do not divide evenly before an issuance, so
`LeveragedSet` goes to four. Two assets are the least with a market used for collateral
and another for debt, and one used both ways. One of them may be a component with a unit of
3, or become one when `deleverToZeroBorrowBalance` keeps a `Surplus` of 1. In `Collateral` both
rates, two ticks and a supply of eight are enough for a fee that is charged, one that is pending
while the rate changes, and units that do not divide evenly afterwards.

`NavSet` needs a scale of 20 for fees, premium and prices that differ by less than one
half; `MaxCalls` bounds issuances and redemptions to four since each rounds the
multiplier to a new value: one basic issuance to reach the least supply, then NAV calls
in either order and in either reserve asset. `StakingSet` bounds the steps that round
what is staked with `MaxRoundings`, and its dust bound is stated per such step. Two
contracts of one component and a trade that empties the component's default position are
what its lists distinguish.

In `TestSession` the five files have the shapes of hooks found in `src/test`: caches at
three levels, a cache with tests at every level, a `before` hook with the sandbox.
`MaxThrows` is one hook that throws in a session, at the first two requests of a script
or far inside it (`ThrowSteps`); after that Mocha leaves the suite, so a second one adds
another suite left early. `MaxDelay` lets five awaited requests overtake one that is not: enough
for the last transfers of `aaveFixture.ts` to be mined between the `createSetToken` of the suite
and its look for the event, behind the snapshot of the sandbox, or while a test sets up.
Two files in a session are the least in which what a file leaves behind meets another.

`PositionBook` uses units of two or more on purpose: with units of one, a repricing may
round a position to nothing (section 5).

**Fairness.** Nobody is obliged to call a contract, so no specification of contracts has
fairness and none claims liveness. `TestSession` does: `WF_vars(Run)`, because the event
loop resumes Mocha and the promises it waits for whenever they can go on, and
`WF_vars(Mine)`, because the network of `hardhat.config.ts` mines each transaction it is
sent. Neither makes a hook throw or a test fail. With it `SnapshotsReleased` says that every
snapshot put on the shared stack comes off it again. Deadlock is checked in every run but `TestSession`, where a
session that is over may stop.

## 4. Properties worth reading first

- `FrozenUnderDisabledLocker`: if the owner disables the module that holds the lock,
  nothing that needs authority changes until it is enabled again; with
  `LockerCanReturn`, that module is still able to unlock, unless it locked on its way out.
- `RepricingKeepsPositions`: the check on the smallest virtual unit looks at listed components
  and listed modules; whatever was edited before, no position of either kind or sign is lost.
- `ListMatchesPositions`: the component list, maintained by reads of rounded real units,
  tells what is held.
- `OnlyFeesDilute`: what backs a SetToken shrinks only by fees, and then by less than one
  unit of a component per SetToken.
- `NoFeeChargedTwice`: accruals and pending fee never exceed what built up over time,
  through changes of rate, removal and re-initialisation.
- `RedemptionIsSynced`, `IssuanceMissesOnlyInterest`: the hook of a redemption reads current
  balances, so that the positions show all that is owed afterwards; the hook of an issuance
  reads stored ones, and what is then not shown of an asset that is borrowed only is at most
  the interest that was due.
- `EnabledAreEntered`, `DebtIsNeverDropped`: an asset may be collateral, borrowed or both;
  its market stays entered while it is managed, and is given up only when nothing is owed.
- `FullyBacked`, `HoldersCanExit`: until the first fee is taken, whatever rate is set and pending,
  every holder can redeem a whole balance, through trades, transfers, airdrops and uneven units.
- `FairAtNav`, `NavCostsAtMostDust`: what is minted or paid at net asset value is worth no
  more than what is given, less the premium, and other components pay dust only.
- `QuantitiesAsExpected`, `PositionsAsExpected`, `AccrualAsExpected`: how far the numbers the tests expect can be from
  what the contracts compute, over every state reached instead of the tests' examples.
- `StakedShortByDust`, `ExternalUnitMatchesRecords`: a staking contract can pay what the
  hooks ask for but for one token per rounding; both hold while no fee was taken, and
  `StakingSetFee` shows why only then.
- `SnapshotsMatchSuites`: the one stack that the hooks of all files share holds the snapshots
  of the suites that are open, and no revert asks for one that was used up.
- `TestsStartAlike`: a test starts on the transactions of its own hooks, each once, although
  caches nest, hooks throw and tests leave their transactions to others' hooks.
- `OnlyUnawaitedHideEvents`: `createSetToken` reads the latest block; nothing the hooks await can
  come between, a transaction nobody awaits can, and then the hook throws (section 5).
- `CallsAreWired`: a field never names a contract of a chain that was reverted, although
  fields outlive snapshots and addresses come back.
- `RemovalUnregisters`: removal through a chain of calls, with a `try` that ignores failure,
  leaves no hook of a module that is gone.

## 5. Findings

Four statements of the code say more than the code does; each is a run with one
property that TLC violates. See `findings` in `PROJECT.json`:

- staked units are recorded as real units, which do not fall with the position multiplier:
  after a streaming fee the hooks of a redemption unstake more than its share, and the last
  holders cannot redeem (`StakingModule.sol`, `StakingSetFee`);
- external positions that outlive their module when it is removed at a supply of zero
  (`CompoundLeverageModule.sol`, `LeveragedSetOutlive`). A later issuance reads the stale units
  and calls a module that may no longer act, so it reverts until the module is back; once it is
  back, issuance borrows by units that no list of the module names;
- a borrow asset that is removed with a balance when it is also enabled as collateral
  (`CompoundLeverageModule.sol`, `LeveragedSetUnborrow`): its market stays entered, but `sync`
  no longer visits the debt;
- a borrow asset that has a default position too, as `deleverToZeroBorrowBalance` leaves one when
  the trade brings more than the balance: `DebtIssuanceModule` runs the component hooks for equity
  and again for debt, and `CompoundLeverageModule` does not look which (`LeveragedSetTwice`). An
  issuance borrows twice and hands over one half; the other stays outside any position, and what
  the positions miss is more than interest, so that `IssuanceMissesOnlyInterest` is about assets
  without a default position. A redemption repays twice, the second time with tokens of the
  default position of those who stay, or reverts.

The second and the third are why no property says that all debt is in an enabled borrow asset:
`DebtIsNeverDropped` says what the code does keep.

Not findings, but to know. In the contracts:

- `FullyBacked` holds until the first fee is taken. An accrual lowers the multiplier, and the units
  derived from it and the minted supply are rounded apart, so that units times supply may
  exceed what is held by less than one unit per SetToken. `OnlyFeesDilute` has that bound.
- A virtual unit of one survives the check of the smallest unit and may still be worth nothing
  after the next conversion; the component is then delisted with its balance. Units of two or
  more are safe in `PositionBook`.
- `Controller.initialize` copies its lists without looking for repeats; a repeated module stays
  in the list when it is removed. The run and the theorems assume distinct lists.
- The Controller sets no limit on fees; above 100% the calls that subtract them revert. Fees
  are kept when a module is removed and count again when it is back. It takes the zero address
  as a resource, which then cannot be removed; `IdsMatchResources` excepts it.
- `CompoundLeverageModule.removeModule` needs the SetToken to be enabled on the Controller, so
  that it cannot leave a SetToken that was removed there; `removeBorrowAssets` looks markets up
  in a mapping the owner may have changed.
- `isRedeemValid` compares the reserve with the quantity after fees and `redeem` with the one
  before, so that the view may accept a redemption that reverts. `PossibleRedeemIsValid` is the
  direction that holds.
- Staking zero units of a token that is no component leaves its contract listed.

In the tests:

- A hook over Mocha's time limit fails while its initializer goes on, and later pushes a
  snapshot for a suite that is closed. The model has hooks that throw, not hooks that outlive.
- A sandbox registered after the `beforeEach` that sets up, as in `setValuer.spec.ts`, does not
  undo that set-up; a cache nested in a sandbox would lose its snapshots to it, but no spec file
  has both; nested `before` hooks are not undone. `TestsStartAlike` is for the other shapes.
- `aaveFixture.ts` sends three transactions without `await`. They may be mined behind the
  snapshot of the hook, or between the creation of a SetToken and the look for its event in the
  latest block: `getCreatedSetTokenAddress` then finds no log and the hook throws. It takes
  a transfer that several awaited requests overtake; the spec files deploy and register a module or
  more in between, and rely on that.
- The pool of WETH and WBTC in `balancerFixture.ts` is created with its balances in the
  opposite order of its tokens; `uniswapFixture.ts` allows two seconds between reading the
  latest block and deploying the Uni token. Neither amounts nor time are in the model.

## 6. Proofs

`tlapm` checks every theorem below for all values of the constants, under the
assumptions named in the modules that declare them (`PRECISE_UNIT` positive, bounds and
quantities natural, units of the initial components positive, accounts without the null
address, finitely many accounts and staking contracts). The runs evaluate those assumptions on
their instances. Some theorems have a hypothesis of their own, which their runs' instances meet:

- `ListCorrect`, `ClosingCorrect` and `RepricingCorrect` of the Position library: no real unit is exactly one
  (`1 \notin DefaultUnit`), because a unit of one may be stored as a virtual unit that reads as zero;
- `SnapshotsCorrect`: in its suite a sandbox comes before the hooks that run for each test
  (`SandboxFirst`). Of the 56 spec files that use the sandbox 50 keep to it. In the other six
  (`controller`, `integrationRegistry`, `setValuer`, `snapshotGovernanceAdapter`, the integration
  test `snapshotDelegationModule`, `explicitERC20Mock`) a `beforeEach` is registered first; if
  it throws, Mocha runs the `afterEach` of a sandbox that has not saved, and the revert asks for
  the snapshot of the test before, or for none. `StackCorrect` needs no such hypothesis.

| module | theorems | about |
|---|---|---|
| `LibraryProofs` | `DivDownFloors`, `UnsignedArithmeticAgrees`, `DivDownAgrees` | fixed-point arithmetic rounds as named, and the tests' own arithmetic is the same but for the ceilings of negative numbers; lemmas on rounding, lists, sums over finite sets and the Position library for the others |
| `SetTokenProofs`, on `SetToken` | `SetTokenInvariant`, `TypeCorrect`, `ModuleListCorrect`, `LockerCorrect`, `PositionsCorrect`, `MultiplierCorrect`, `FrozenCorrect`, `LockHoldsRegistryCorrect`, `NullManagerCorrect`, `ImplementsAuthorityCorrect` | every property of the run `SetToken`, the refinement included; lists without repeats, a positive multiplier, and no change of manager or modules under a lock but by the module on its way out |
| `SetTokenProofs`, on `PositionBook` | `BookInvariant`, `BookTypeCorrect`, `ExternalListCorrect`, `ToldInvariant`, `ListCorrect`, `ClosingCorrect`, `RepricingCorrect` | positions under any editor: every property of the run `PositionBook` |
| `ControllerProofs` | `ControllerInvariant`, `TypeCorrect`, `ListsMatchCorrect`, `IdsMatchCorrect` | every property of the run `Controller`, given `DistinctInitialLists` |
| `CollateralProofs` | `FeeInvariant`, `NoFeeTwiceCorrect`, `CollateralInvariant`, `TypeCorrect`, `OnlyFeesDiluteCorrect`, `InflationCorrect`, `FullyBackedCorrect`, `HoldersCanExitCorrect`, `AccrualCorrect` | backing, exit and the streaming fee, for every scale, rate and quantity: every property of the run `Collateral` |
| `LeveragedSetProofs` | `LeveragedInvariant`, `TypeCorrect`, `HooksMatchCorrect`, `HooksKeepCorrect`, `EnteredCorrect`, `RemovalCorrect`, `NeverDroppedCorrect`, `RedemptionSyncedCorrect`, `IssuanceMissesCorrect` | every property of the run `LeveragedSet` |
| `StakingSetProofs` | `RecordsInvariant`, `RecordsCorrect`, `StakingInvariant`, `TypeCorrect`, `ExternalUnitCorrect`, `DustCorrect`, `RemovalCorrect`, `DilutionCorrect` | every property of the run `StakingSet`, for any number of contracts, holders and tokens |
| `NavSetProofs` | `SettingsInvariant`, `LimitsCorrect`, `ReserveListCorrect`, `NavInvariant`, `FairCorrect`, `NavDustCorrect`, `PossibleRedeemCorrect`, `QuantitiesCorrect`, `PositionsCorrect` | every property of the run `NavSet`: settings over removal and re-adding, what issuance and redemption take from those who stay, and how far the numbers of the tests can be off, for every scale, price, fee and quantity |
| `SessionProofs` | `SessionInvariant`, `StackCorrect`, `CacheFindsSnapshot`, `SnapshotsCorrect` | the snapshot helpers under Mocha, for spec files of any number, breadth and depth, any number of hooks that throw and any mining of what is not awaited: the shared stack matches the open suites, and no revert asks for a snapshot that was used up |

**The inductive invariants.** Each property above is seldom inductive by itself.

- `SetToken` (`IInv`): the type, the module list, the locker, the module being removed and the
  position lists. That a
  removal deletes the module from the list's set needs the list free of repetitions; that the
  locker stays initialised needs every removal to start without a lock, and the module that is
  leaving to be the only one whose state can be cleared under one; that a unit keeps
  its type needs a positive multiplier, which needs the smallest unit of the current
  positions to be the one validated. `NextPreserves` has one step per action.
- `PositionBook` (`BookInv`): type, positive multiplier, lists without repeats, and listed
  external modules are those with units. The last needs that a unit is stored as zero only if
  it is zero or the edit is refused.
- `Controller`: the type, each list against its mapping, ids against resources, and
  `Untouched` (no id is taken before `initialize`), which `initialize` needs since it assigns
  ids without looking at them.
- `Collateral`: `VaultInv` adds to the type that what is not listed has no unit, because
  issuance collects the listed components only; `FeeInv` bounds what was charged and the
  product that is pending, before it is rounded, by what built up. Each of `issue`, `redeem`,
  `trade`, transfer, airdrop and `accrueFee` has a lemma on what it does to the deficit of a
  component. For `FullyBackedCorrect`, no step but an accrual reprices (`OnlyAccrualsReprice`), what was
  charged never falls (`ChargedGrows`), and a deficit that starts at zero never grows until then.
- `LeveragedSet`: three parts kept by different steps: registration (list, flags and the
  issuance module's state), markets (enabled assets are entered, and none is left when the
  module is gone, so that it starts afresh), and amounts (interest is due only where there is
  a debt). The last two theorems rest on lemmas on the rounding of `preciseMul`,
  `preciseMulCeil` and `preciseDivCeil`.
- `PositionBook`, once more (`Told`): the real unit an editor last asked for is what the position
  reads, up to what the two divisions lose, and it is zero exactly where nothing is listed.
- `Collateral`, once more (`BalancesInv`): the supply is the sum of the balances. Sums go over
  sets of any size; the induction is one over the set of cardinalities for which the claim
  holds, because the library's induction theorems cannot be instantiated here.
- `StakingSet` (`StakingInv`): its parts are needed together. `RecordsInv`: per component, units
  are natural, the list has no repeats, and a contract with units is listed (`unstake` refuses
  more than the record). `PositionsInv`: the StakingModule is the only module with an external
  position, the multiplier is at most `PRECISE_UNIT`, and a component is listed if and only if
  it has a unit. `Matches`: the external unit is the sum of the recorded ones. `ShortByDust`:
  what is staked falls short of the records times the supply by less than one unit per action
  and contract. `LeavesNone`: without the module there is no record and no external position,
  which makes `initialize` start afresh. An action disturbs the tokens of one component; the
  lemmas `StakeKept`, `UnstakeKept`, `IssueKept`, `RedeemKept`, `TradeKept` and `AccrualKept`
  follow one component through one action, and `MovedReads` and `AmountsRead` say what the
  loop over the staking contracts leaves in each of them.
- `NavSet` (`NavInv`): `SettingsInv` has list and mapping, the limits, that a SetToken in use has
  a least supply above zero (no call divides by a supply of zero), and `Forgotten` (a SetToken
  without the module has no reserve asset on record), which `initialize` needs because it adds to
  the mapping what it is given. `VaultInv` has the types, typed oracles, and `PlainInv`: no
  external position, no negative unit, a positive multiplier, and a component listed where there
  is a unit. `Moved` says what either handler leaves: one component's balance changes, the
  multiplier is scaled by the ratio of the supplies and rounded down, and one unit is stored.
  `NavIssueMoves` and `NavRedeemMoves` establish it, and the properties follow from it. The
  valuation is a fold over the component list; `ValuationIsSum` shows that it is the sum over
  the slots of the list, which makes it a natural number.

  `QuantitiesCorrect` compares two computations through the exact product both round
  (`PremiumReads`): the module takes the premium off the asset, the tests off the value.
  `RedeemGap` then bounds what the fees, rounded twice on either side, can add: three base units.
  In `PositionsCorrect` the tests reach the ratio of the supplies over an inflation rounded up or
  a deflation rounded down (`ExpectedMultiplier`), and convert units in the opposite order
  (`ScaledBack`). Writing these proofs showed what the gaps depend on: for an asset of more than
  eighteen decimals (`baseUnits` above `PRECISE_UNIT`) one unit of the value lost by the tests
  is more than one base unit, and a quantity smaller than the fees on it, for which the module
  reverts, has no counterpart in the tests. Both properties are stated for the other cases.
- `TestSession` (`SessionInv`): why a stack that all files share never runs empty is a statement
  about the order in which Mocha walks a tree of suites. `SuitesAssumption` says that the suites
  are trees (no suite in two places, none inside itself), `HelpersAssumption` how all spec files
  place the helpers (one `cacheBeforeEach` and one sandbox per suite at most; in a sandbox and
  the suites nested there, neither).

  `ScheduleOrdered` shows of every suite at any depth that its schedule is `Ordered`: tests come
  one after the other and never return, a test's hooks go from the file down and back up, each
  `afterEach` of a sandbox has its `beforeEach` before it, and the `after` hook of a suite comes
  behind everything of that suite. `TreeInduction` is an induction over the set of suites of which
  that holds, since the induction theorems of the library cannot be instantiated here;
  `ScheduleUnfolds` shows from the same order that the recursive function `scheduleOf` is what its
  definition says; `FlattenOrder` says where each element of a flattened sequence comes from.

  The invariant has five parts. `RunnerInv`: what is queued is in that order, and each `beforeEach`
  of a helper that is queued has behind it the `afterEach` or `after` hook that undoes it (`TailOK`,
  and `SurvivorsOK` for what a throw leaves). `InitializedInv`: a hook that ran its initializer
  belongs to a suite that is open, whose `after` hook is queued, or to one that is gone. `StackInv`:
  the node has the snapshots of the stack, in increasing order. `LengthInv`: the stack is as long as there
  are open and initialized hooks, one less between the revert and the new snapshot. `LiveInv`: a
  snapshot of a sandbox that the node still has is above the whole stack and belongs to the test
  that runs, so that a sandbox's revert uses up nothing of the stack. There is one lemma per
  action. `SandboxInv` is the addition for `SnapshotsCorrect`: each `afterEach` that is queued
  has its `beforeEach` queued before it, or finds its snapshot at the node; that is what a throw
  in a hook before the sandbox breaks.

**Only model-checked.** Liveness under fairness (`SnapshotsReleased`) and `ENABLED` are out of the
prover's reach. Three invariants of `TestSession` are statements about the tables of suites and
fixtures of the repository, which the instance holds: `OnlyUnawaitedHideEvents` and `CallsAreWired`
about which field each step reads after which other, and `TestsStartAlike` about the shapes
of files as well, since it is false of some that the helpers allow (section 5). They do not hold
for every value of the constants, and TLC checks them on the tables themselves.
The properties with expected violations are false and stay with TLC. The parts of inductive invariants that are no question of their own
(`ListsDistinct`, `MultiplierPositive`, `HooksKeepIssuance`) are proved and no run repeats them.
No module declares a recursive operator; recursion is in recursive functions and folds.

## 7. Not modelled, and the plan

Parts of modelled contracts that are left out:

- `DebtIssuanceModule`: manager and protocol fees, components of other modules and the hook of
  the manager;
- `CompoundLeverageModule`: collateral balances, trades that leave a part of what they are given,
  tokens of a borrow asset sent to the SetToken from outside, edits of its default position by other
  modules, and edits of the mapping of markets;
- `NAVIssuanceModule`: `editFeeRecipient`, because the tokens of fee recipients are not tracked,
  and the optional valuer of `CustomOracleNAVIssuanceModule`;
- `PriceOracle`: adapters of oracles and `editMasterQuoteAsset`;
- tokens that take a fee on transfer: `ExplicitERC20` refuses them;
- in the tests, time, amounts and settings passed to deployers, and mocks other than tokens.

Later work, in order:

1. `DebtIssuanceModule` complete, with fees and components that have several external modules.
2. `CompoundLeverageModule` with collateral balances and trades that may leave a part.
3. `SingleIndexModule` (targets, sizes, cool-off), `AirdropModule`, `WrapModule`, `AmmModule`.
4. `ClaimModule` lists and `IntegrationRegistry`.
5. The time limit of hooks in `TestSession`.
6. Proofs: what each of these extensions adds. Every property of the passing runs about
   contracts is proved, and the helpers' use of snapshots; what is left is in section 6.

Left aside for good: adapters (they encode call data), viewers, mocks, interfaces,
`UniswapYieldStrategy` (one Set over external contracts), `GovernanceModule` (no state of its
own), and the rest of the TypeScript code: tables of addresses and keys, one-line deployers of
adapters and viewers, encoders and re-exports, which have neither state nor an order of steps.
