--------------------------- MODULE StakingSetProofs ---------------------------
(***************************************************************************)
(* Theorems about the records of StakingModule, for any components,        *)
(* contracts, units, fees and trades.                                      *)
(***************************************************************************)
EXTENDS StakingSet, LibraryProofs

\* The records of one component: a list without repetitions, and units above
\* zero at listed contracts only.
RecordOf(list, units) ==
  /\ list \in Seq(StakingContract)
  /\ units \in [StakingContract -> Nat]
  /\ IsInjective(list)
  /\ \A s \in StakingContract : units[s] > 0 => contains(list, s)

Typed ==
  /\ DOMAIN stakingContracts = Component
  /\ DOMAIN componentPositionUnits = Component
  /\ stakingContracts = [c \in Component |-> stakingContracts[c]]
  /\ componentPositionUnits = [c \in Component |-> componentPositionUnits[c]]

RecordsInv ==
  /\ Typed
  /\ \A c \in Component : RecordOf(stakingContracts[c], componentPositionUnits[c])

\* Recording a stake, and an unstake that the units on record allow.
LEMMA RecordKeeps ==
  ASSUME NEW list, NEW units, RecordOf(list, units),
         NEW s \in StakingContract, NEW unit \in Nat
  PROVE  /\ contains(list, s) => RecordOf(list, [units EXCEPT ![s] = @ + unit])
         /\ ~contains(list, s) =>
              RecordOf(Append(list, s), [units EXCEPT ![s] = unit])
         /\ unit < units[s] => RecordOf(list, [units EXCEPT ![s] = @ - unit])
         /\ unit = units[s] /\ contains(list, s) =>
              RecordOf(remove(list, s), [units EXCEPT ![s] = @ - unit])
<1> USE DEF RecordOf
<1>1. CASE contains(list, s)
  <2>1. RecordOf(list, [units EXCEPT ![s] = @ + unit])
    BY <1>1
  <2>2. ASSUME unit < units[s]
        PROVE  RecordOf(list, [units EXCEPT ![s] = @ - unit])
    <3>1. units[s] - unit \in Nat  BY <2>2
    <3>2. QED  BY <1>1, <3>1
  <2>3. ASSUME unit = units[s]
        PROVE  RecordOf(remove(list, s), [units EXCEPT ![s] = @ - unit])
    <3>1. /\ remove(list, s) \in Seq(StakingContract)
          /\ IsInjective(remove(list, s))
          /\ ToSet(remove(list, s)) = ToSet(list) \ {s}
      BY <1>1, RemoveKeepsDistinct
    <3>2. \A t : contains(remove(list, s), t) <=> contains(list, t) /\ t # s
      BY <3>1, ContainsIsMembership
    <3>3. units[s] - unit = 0  BY <2>3
    <3> HIDE DEF RecordOf
    <3> DEFINE r == [units EXCEPT ![s] = units[s] - unit]
    <3>4. r \in [StakingContract -> Nat] /\ r[s] = 0
          /\ \A t \in StakingContract \ {s} : r[t] = units[t]
      BY <3>3 DEF RecordOf
    <3> HIDE DEF r
    <3>5. ASSUME NEW t \in StakingContract, r[t] > 0
          PROVE  contains(remove(list, s), t)
      <4>1. t # s /\ units[t] > 0  BY <3>4, <3>5
      <4>2. contains(list, t)  BY <4>1 DEF RecordOf
      <4>3. QED  BY <3>2, <4>1, <4>2
    <3>6. RecordOf(remove(list, s), r)
      BY <3>1, <3>4, <3>5 DEF RecordOf
    <3>7. QED  BY <3>6 DEF r
  <2>4. QED  BY <1>1, <2>1, <2>2, <2>3
<1>2. CASE ~contains(list, s)
  <2>1. /\ Append(list, s) \in Seq(StakingContract)
        /\ IsInjective(Append(list, s))
        /\ ToSet(Append(list, s)) = ToSet(list) \cup {s}
    BY <1>2, PushKeepsDistinct
  <2>2. \A t : contains(Append(list, s), t) <=> contains(list, t) \/ t = s
    BY <2>1, ContainsIsMembership
  <2>3. units[s] = 0  BY <1>2
  <2>4. RecordOf(Append(list, s), [units EXCEPT ![s] = unit])
    BY <2>1, <2>2
  <2>5. ~(unit < units[s])  BY <2>3
  <2>6. QED  BY <1>2, <2>4, <2>5
<1>3. QED  BY <1>1, <1>2

\* No contract is listed at first.
LEMMA InitEstablishes == Init => RecordsInv
<1> SUFFICES ASSUME Init PROVE RecordsInv
  OBVIOUS
<1> DEFINE none == << >>
           zero == [s \in StakingContract |-> 0]
<1>1. none \in Seq(StakingContract) /\ IsInjective(none)
  BY DEF IsInjective
<1>2. RecordOf(none, zero)  BY <1>1 DEF RecordOf
<1> HIDE DEF none, zero
<1>3. /\ stakingContracts = [c \in Component |-> none]
      /\ componentPositionUnits = [c \in Component |-> zero]
  BY DEF Init, StakingInit, none, zero
<1>4. QED  BY <1>2, <1>3 DEF RecordsInv, Typed

\* A stake changes the records of one component.
LEMMA StakeKeeps ==
  ASSUME RecordsInv, NEW c \in Component, NEW s \in StakingContract,
         NEW unit \in Nat, recordStake(c, s, unit)
  PROVE  RecordsInv'
<1> DEFINE list == stakingContracts[c]
           units == componentPositionUnits[c]
<1>1. RecordOf(list, units)  BY DEF RecordsInv
<1>2. RecordOf(stakingContracts'[c], componentPositionUnits'[c])
  <2>1. CASE contains(list, s)
    <3>1. /\ stakingContracts'[c] = list
          /\ componentPositionUnits'[c] = [units EXCEPT ![s] = @ + unit]
      BY <2>1 DEF recordStake, hasStakingPosition, RecordsInv, Typed
    <3>2. RecordOf(list, [units EXCEPT ![s] = @ + unit])
      BY <1>1, <2>1, RecordKeeps
    <3>3. QED  BY <3>1, <3>2
  <2>2. CASE ~contains(list, s)
    <3>1. /\ stakingContracts'[c] = Append(list, s)
          /\ componentPositionUnits'[c] = [units EXCEPT ![s] = unit]
      BY <2>2 DEF recordStake, hasStakingPosition, RecordsInv, Typed
    <3>2. RecordOf(Append(list, s), [units EXCEPT ![s] = unit])
      BY <1>1, <2>2, RecordKeeps
    <3>3. QED  BY <3>1, <3>2
  <2>3. QED  BY <2>1, <2>2
<1>3. /\ Typed'
      /\ \A d \in Component \ {c} :
           /\ stakingContracts'[d] = stakingContracts[d]
           /\ componentPositionUnits'[d] = componentPositionUnits[d]
  BY DEF recordStake, RecordsInv, Typed
<1>4. QED  BY <1>2, <1>3 DEF RecordsInv

\* So does an unstake of what is on record.
LEMMA UnstakeKeeps ==
  ASSUME RecordsInv, NEW c \in Component, NEW s \in StakingContract,
         NEW unit \in Nat, componentPositionUnits[c][s] >= unit,
         recordUnstake(c, s, unit)
  PROVE  RecordsInv'
<1> DEFINE list == stakingContracts[c]
           units == componentPositionUnits[c]
<1>1. RecordOf(list, units) /\ units[s] \in Nat  BY DEF RecordsInv, RecordOf
<1>2. componentPositionUnits'[c] = [units EXCEPT ![s] = @ - unit]
  BY DEF recordUnstake, RecordsInv, Typed
<1>3. RecordOf(stakingContracts'[c], componentPositionUnits'[c])
  <2>1. CASE unit < units[s]
    <3>1. stakingContracts'[c] = list
      BY <1>1, <2>1 DEF recordUnstake, RecordsInv, Typed
    <3>2. RecordOf(list, [units EXCEPT ![s] = @ - unit])
      BY <1>1, <2>1, RecordKeeps
    <3>3. QED  BY <1>2, <3>1, <3>2
  <2>2. CASE unit = units[s]
    <3>1. stakingContracts'[c] = remove(list, s) /\ contains(list, s)
      BY <1>1, <2>2 DEF recordUnstake, hasStakingPosition, RecordsInv, Typed
    <3>2. RecordOf(remove(list, s), [units EXCEPT ![s] = @ - unit])
      BY <1>1, <2>2, <3>1, RecordKeeps
    <3>3. QED  BY <1>2, <3>1, <3>2
  <2>3. QED  BY <1>1, <2>1, <2>2
<1>4. /\ Typed'
      /\ \A d \in Component \ {c} :
           /\ stakingContracts'[d] = stakingContracts[d]
           /\ componentPositionUnits'[d] = componentPositionUnits[d]
  BY DEF recordUnstake, RecordsInv, Typed
<1>5. QED  BY <1>3, <1>4 DEF RecordsInv

\* No other call touches the records.
LEMMA NextPreserves == RecordsInv /\ [Next]_vars => RecordsInv'
<1> SUFFICES ASSUME RecordsInv, [Next]_vars PROVE RecordsInv'
  OBVIOUS
<1> DEFINE same == UNCHANGED <<stakingContracts, componentPositionUnits>>
<1>1. CASE same  BY <1>1 DEF RecordsInv, Typed
<1>2. CASE UNCHANGED vars  BY <1>1, <1>2 DEF vars, stakingVars
<1>3. ASSUME NEW c \in Component, NEW s \in StakingContract,
             NEW u \in StakedUnits, stake(c, s, u)
      PROVE  RecordsInv'
  BY <1>3, StakeKeeps, StakingSetAssumption DEF stake
<1>4. ASSUME NEW c \in Component, NEW s \in StakingContract,
             NEW u \in StakedUnits, unstake(c, s, u)
      PROVE  RecordsInv'
  BY <1>4, UnstakeKeeps, StakingSetAssumption DEF unstake
<1>5. ASSUME NEW a \in Account, NEW q \in Quantity, issue(a, q) \/ redeem(a, q)
      PROVE  RecordsInv'
  BY <1>1, <1>5 DEF issue, redeem
<1>6. CASE initialize \/ removeModule \/ addModule
  BY <1>1, <1>6 DEF initialize, removeModule, addModule
<1>7. CASE UNCHANGED stakingVars  BY <1>1, <1>7 DEF stakingVars
<1>8. QED
  BY <1>2, <1>3, <1>4, <1>5, <1>6, <1>7 DEF Next, RoundingStep, StakingStep

-----------------------------------------------------------------------------

\* The records of StakingModule are sound in every state.
THEOREM RecordsInvariant == Spec => []RecordsInv
BY InitEstablishes, NextPreserves, PTL DEF Spec

\* A list without repetitions has no two equal entries.
LEMMA DistinctHasNoDuplicate ==
  ASSUME NEW S, NEW list \in Seq(S), IsInjective(list)
  PROVE  ~hasDuplicate(list)
<1>1. DOMAIN list \subseteq Int  OBVIOUS
<1>2. QED  BY <1>1 DEF hasDuplicate, IsInjective

\* The hooks of StakingModule call every contract with units on record, and none
\* twice, however positions were staked, unstaked, traded and repriced.
THEOREM RecordsCorrect == Spec => []StakingContractsMatchRecords
<1>1. RecordsInv => StakingContractsMatchRecords
  BY DistinctHasNoDuplicate
  DEF RecordsInv, RecordOf, StakingContractsMatchRecords, hasStakingPosition
<1>2. QED  BY <1>1, RecordsInvariant, PTL

-----------------------------------------------------------------------------
(* The instances of TradeModule and StreamingFeeModule use the Position library as
   this specification does. *)

\* Units are stored and read by TradeModule's instance as by our own.
LEMMA TradeUnits ==
  ASSUME NEW p, NEW c, NEW u
  PROVE  /\ Trade!getDefaultPositionRealUnit(p, c) = getDefaultPositionRealUnit(p, c)
         /\ Trade!_convertRealToVirtualUnit(p, u) = _convertRealToVirtualUnit(p, u)
         /\ Trade!convertOk(p, u) <=> convertOk(p, u)
<1>1. Trade!getDefaultPositionRealUnit(p, c) = getDefaultPositionRealUnit(p, c)
  BY DEF Trade!getDefaultPositionRealUnit, Trade!_convertVirtualToRealUnit,
     Trade!conservativePreciseMul, Trade!divDown, Trade!sdiv, Trade!abs,
     getDefaultPositionRealUnit, _convertVirtualToRealUnit,
     conservativePreciseMul, divDown, sdiv, abs
<1>2. Trade!_convertRealToVirtualUnit(p, u) = _convertRealToVirtualUnit(p, u)
  BY DEF Trade!_convertRealToVirtualUnit, Trade!conservativePreciseDiv,
     Trade!divDown, Trade!sdiv, Trade!abs, _convertRealToVirtualUnit,
     conservativePreciseDiv, divDown, sdiv, abs
<1>3. QED  BY <1>1, <1>2 DEF Trade!convertOk, convertOk

\* So are components listed and delisted,
LEMMA TradeLists ==
  ASSUME NEW p, NEW c, NEW u
  PROVE  /\ Trade!addComponent(p, c) = addComponent(p, c)
         /\ Trade!removeComponent(p, c) = removeComponent(p, c)
         /\ Trade!listsComponent(p, c, u) <=> listsComponent(p, c, u)
         /\ Trade!delistsComponent(p, c, u) <=> delistsComponent(p, c, u)
         /\ Trade!isComponent(p, c) <=> isComponent(p, c)
<1>1. ASSUME NEW A PROVE Trade!removeStorage(A, c) = removeStorage(A, c)
  BY DEF Trade!removeStorage, removeStorage, Trade!indexOf, indexOf
<1>2. QED
  BY <1>1, TradeUnits
  DEF Trade!addComponent, addComponent, Trade!removeComponent, removeComponent,
      Trade!listsComponent, listsComponent, Trade!delistsComponent, delistsComponent,
      Trade!hasDefaultPosition, hasDefaultPosition,
      Trade!hasExternalPosition, hasExternalPosition,
      Trade!isComponent, isComponent, Trade!contains, contains

\* default positions edited
LEMMA TradeEdits ==
  ASSUME NEW p, NEW c, NEW u
  PROVE  /\ Trade!editDefaultPosition(p, c, u) = editDefaultPosition(p, c, u)
         /\ Trade!editDefaultPositionOk(p, c, u) <=> editDefaultPositionOk(p, c, u)
<1>1. ASSUME NEW q
      PROVE  Trade!editDefaultPositionUnit(q, c, u) = editDefaultPositionUnit(q, c, u)
  BY TradeUnits DEF Trade!editDefaultPositionUnit, editDefaultPositionUnit
<1>2. Trade!editDefaultPosition(p, c, u) = editDefaultPosition(p, c, u)
  BY <1>1, TradeLists DEF Trade!editDefaultPosition, editDefaultPosition
<1>3. QED
  BY <1>2, TradeLists, TradeUnits
  DEF Trade!editDefaultPositionOk, editDefaultPositionOk,
      Trade!addComponentOk, addComponentOk, Trade!removeComponentOk, removeComponentOk

\* and recalculated.
LEMMA TradeRecalculates ==
  ASSUME NEW p, NEW c, NEW supply, NEW pre, NEW post
  PROVE  /\ Trade!calculateAndEditDefaultPosition(p, c, supply, pre, post)
              = calculateAndEditDefaultPosition(p, c, supply, pre, post)
         /\ Trade!calculateAndEditDefaultPositionOk(p, c, supply, pre, post)
              <=> calculateAndEditDefaultPositionOk(p, c, supply, pre, post)
<1>1. Trade!editedUnit(p, c, supply, pre, post) = editedUnit(p, c, supply, pre, post)
  BY TradeUnits
  DEF Trade!editedUnit, editedUnit, Trade!calculateDefaultEditPositionUnit,
      calculateDefaultEditPositionUnit, Trade!preciseDiv, preciseDiv,
      Trade!preciseMul, preciseMul
<1>2. ASSUME NEW r
      PROVE  Trade!calculateDefaultEditPositionUnitOk(supply, pre, post, r)
               <=> calculateDefaultEditPositionUnitOk(supply, pre, post, r)
  BY DEF Trade!calculateDefaultEditPositionUnitOk, calculateDefaultEditPositionUnitOk,
         Trade!preciseMul, preciseMul
<1>3. QED
  BY <1>1, <1>2, TradeEdits, TradeUnits
  DEF Trade!calculateAndEditDefaultPosition, calculateAndEditDefaultPosition,
      Trade!calculateAndEditDefaultPositionOk, calculateAndEditDefaultPositionOk

\* StreamingFeeModule's instance reprices as our own operators do.
LEMMA FeeUnits ==
  ASSUME NEW p, NEW n
  PROVE  /\ Fee!_validateNewMultiplier(p, n) <=> _validateNewMultiplier(p, n)
         /\ Fee!editPositionMultiplier(p, n) = editPositionMultiplier(p, n)
         /\ Fee!newMultiplier(n) = preciseMulSigned(positions.positionMultiplier, PRECISE_UNIT - n)
<1>1. ASSUME NEW u PROVE Fee!conservativePreciseMul(u, n) = conservativePreciseMul(u, n)
  BY DEF Fee!conservativePreciseMul, Fee!divDown, Fee!sdiv, Fee!abs,
         conservativePreciseMul, divDown, sdiv, abs
<1>2. Fee!positionUnits(p) = positionUnits(p)
  <2>1. ASSUME NEW u PROVE Fee!abs(u) = abs(u)  BY DEF Fee!abs, abs
  <2>2. ASSUME NEW A PROVE Fee!ToSet(A) = ToSet(A)  BY DEF Fee!ToSet, ToSet
  <2>3. QED  BY <2>1, <2>2 DEF Fee!positionUnits, positionUnits
<1>3. Fee!_validateNewMultiplier(p, n) <=> _validateNewMultiplier(p, n)
  <2>2. ASSUME NEW A PROVE Fee!ToSet(A) = ToSet(A)  BY DEF Fee!ToSet, ToSet
  <2>3. QED
   BY <1>1, <1>2, <2>2 DEF Fee!_validateNewMultiplier, _validateNewMultiplier
<1>4. QED
  BY <1>3 DEF Fee!editPositionMultiplier, editPositionMultiplier,
     Fee!newMultiplier, Fee!preciseMulSigned, preciseMulSigned, Fee!sdiv, Fee!abs, sdiv, abs

-----------------------------------------------------------------------------
(* The vault.  Units are read from a record of positions. *)

stakedUnit(p, c) == getExternalPositionRealUnit(p, c, STK)

recorded(u, c) == sumOver(u[c], StakingContract)

\* What the record p promises of c beyond t tokens, as in totalDeficit.
shortOf(p, supply, t, c) ==
  supply * (getDefaultPositionRealUnit(p, c) + stakedUnit(p, c)) - t * PRECISE_UNIT

\* No module but this one has external positions, and fees only lower the scale.
PositionsInv(p) ==
  /\ BookInv(p) /\ Listed(p)
  /\ \A c \in Component, m \in PositionModule : m # STK => p.externalUnit[c][m] = 0
  /\ p.positionMultiplier <= PRECISE_UNIT

\* The three properties of the specification, over what they read.
Matches(p, u) ==
  \A c \in Component :
    /\ stakedUnit(p, c) <= recorded(u, c)
    /\ p.positionMultiplier = PRECISE_UNIT => stakedUnit(p, c) = recorded(u, c)

ShortByDust(p, supply, u, t, n) ==
  p.positionMultiplier = PRECISE_UNIT =>
    \A c \in Component, s \in StakingContract :
      supply * u[c][s] - t[c][s] * PRECISE_UNIT <= n * (PRECISE_UNIT - 1)

LeavesNone(p, u, state) ==
  p.positionMultiplier = PRECISE_UNIT /\ state # "INITIALIZED" =>
    \A c \in Component :
      /\ \A s \in StakingContract : u[c][s] = 0
      /\ p.externalPositionModules[c] = << >>

\* The inductive invariant.  What a fee step needs of the clock is the last part.
StakingInv ==
  /\ TypeOK /\ RecordsInv /\ PositionsInv(positions)
  /\ Matches(positions, componentPositionUnits)
  /\ ShortByDust(positions, totalSupply, componentPositionUnits, staked, roundings)
  /\ LeavesNone(positions, componentPositionUnits, stakingState)
  /\ feeStates.lastStreamingFeeTimestamp <= blockTimestamp

\* The properties are parts of it.
LEMMA PartsAreProperties ==
  /\ Matches(positions, componentPositionUnits) <=> ExternalUnitMatchesRecords
  /\ ShortByDust(positions, totalSupply, componentPositionUnits, staked, roundings)
       <=> StakedShortByDust
  /\ LeavesNone(positions, componentPositionUnits, stakingState)
       <=> RemovalLeavesNoPosition
BY DEF Matches, ExternalUnitMatchesRecords, stakedUnit, externalUnit, unscaled,
   recorded, overContracts, sumOver, ShortByDust, StakedShortByDust, LeavesNone,
   RemovalLeavesNoPosition

\* The deficit of a component, before a step and after it.
LEMMA DeficitIsShort ==
  ASSUME NEW c \in Component
  PROVE  /\ totalDeficit(c)
              = shortOf(positions, totalSupply, held[c] + recorded(staked, c), c)
         /\ totalDeficit(c)'
              = shortOf(positions', totalSupply', held'[c] + recorded(staked', c), c)
<1>1. /\ overContracts(staked[c]) = recorded(staked, c)
      /\ overContracts(staked[c])' = recorded(staked', c)
  <2>1. \A f : overContracts(f) = sumOver(f, StakingContract)
    BY DEF overContracts, sumOver
  <2>2. QED  BY <2>1 DEF recorded
<1>2. /\ realUnit(c)' = getDefaultPositionRealUnit(positions', c)
      /\ externalUnit(c)' = stakedUnit(positions', c)
  BY DEF realUnit, externalUnit, stakedUnit
<1>3. totalDeficit(c)' = totalSupply' * (realUnit(c)' + externalUnit(c)')
        - (held'[c] + overContracts(staked[c])') * PRECISE_UNIT
  BY DEF totalDeficit
<1>4. QED
  BY <1>1, <1>2, <1>3 DEF totalDeficit, shortOf, realUnit, externalUnit, stakedUnit

\* What a call that keeps the multiplier leaves: the invariant but for its records
\* and fee, and no component further from its backing.
Kept ==
  /\ PositionsInv(positions')
  /\ totalSupply' \in Nat /\ balances' \in [Account -> Nat]
  /\ held' \in [Component -> Nat] /\ staked' \in PerContract
  /\ Matches(positions', componentPositionUnits')
  /\ ShortByDust(positions', totalSupply', componentPositionUnits', staked', roundings')
  /\ LeavesNone(positions', componentPositionUnits', stakingState')
  /\ positions'.positionMultiplier = positions.positionMultiplier =>
       \A c \in Component :
         totalDeficit(c)' <= IF totalDeficit(c) > 0 THEN totalDeficit(c) ELSE 0

\* What one component looks like in such a state.
LEMMA ComponentReads ==
  ASSUME StakingInv, NEW c \in Component
  PROVE  LET r == getDefaultPositionRealUnit(positions, c)
             x == stakedUnit(positions, c)
         IN  /\ r \in Nat /\ x \in Int
             /\ held[c] \in Nat /\ recorded(staked, c) \in Nat
             /\ recorded(componentPositionUnits, c) \in Nat
             /\ \A s \in StakingContract :
                  /\ staked[c][s] \in Nat /\ componentPositionUnits[c][s] \in Nat
                  /\ componentPositionUnits[c][s] <= recorded(componentPositionUnits, c)
             /\ getTotalComponentRealUnits(positions, c) = r + x
             /\ STK \notin hookModules(c) => hookModules(c) = {} /\ x = 0
             /\ hookModules(c) \subseteq {STK}
             /\ c \notin components => r = 0 /\ hookModules(c) = {}
<1> DEFINE r == getDefaultPositionRealUnit(positions, c)
           x == stakedUnit(positions, c)
<1>1. BookInv(positions) /\ Listed(positions) /\ STK \in PositionModule
  BY StakingAssumption DEF StakingInv, PositionsInv
<1>2. \A m \in PositionModule : m # STK => positions.externalUnit[c][m] = 0
  BY DEF StakingInv, PositionsInv
<1>3. /\ r \in Nat /\ x \in Int
      /\ positions.externalUnit[c][STK] = 0 => x = 0
  BY <1>1, UnitsRead DEF stakedUnit
<1>4. /\ getTotalComponentRealUnits(positions, c) = r + x
      /\ ToSet(positions.externalPositionModules[c])
           = IF positions.externalUnit[c][STK] = 0 THEN {} ELSE {STK}
  BY <1>1, <1>2, TotalOfOne DEF stakedUnit
<1>5. /\ held[c] \in Nat /\ staked[c] \in [StakingContract -> Nat]
      /\ componentPositionUnits[c] \in [StakingContract -> Nat]
  BY DEF StakingInv, TypeOK, VaultTypeOK, StakingTypeOK, PerContract
<1>6. \A f \in [StakingContract -> Nat] :
        /\ sumOver(f, StakingContract) \in Nat
        /\ \A s \in StakingContract : f[s] <= sumOver(f, StakingContract)
  <2> TAKE f \in [StakingContract -> Nat]
  <2>1. IsFiniteSet(StakingContract) /\ \A s \in StakingContract : f[s] \in Nat
    BY StakingAssumption
  <2>2. QED  BY <2>1, SumOfNaturals
<1>7. ASSUME c \notin components PROVE r = 0 /\ hookModules(c) = {}
  <2>1. ~isComponent(positions, c)
    BY <1>7, ContainsIsMembership DEF isComponent, components
  <2>2. r = 0 /\ positions.externalPositionModules[c] = << >>
    BY <1>1, <2>1 DEF Listed
  <2>3. QED  BY <2>2 DEF hookModules, ToSet
<1>8. QED
  BY <1>3, <1>4, <1>5, <1>6, <1>7 DEF hookModules, recorded

-----------------------------------------------------------------------------
(* The calls of the manager. *)

\* unit of c moved from the default position to the external one: neither reads as
\* more than that, and at a scale of one the external unit as just that.
ShiftedTo(p, c, unit, e) ==
  /\ PositionsInv(e)
  /\ e.positionMultiplier = p.positionMultiplier
  /\ \A d \in Component \ {c} :
       /\ getDefaultPositionRealUnit(e, d) = getDefaultPositionRealUnit(p, d)
       /\ stakedUnit(e, d) = stakedUnit(p, d)
  /\ getDefaultPositionRealUnit(e, c) <= getDefaultPositionRealUnit(p, c) - unit
  /\ stakedUnit(e, c) <= stakedUnit(p, c) + unit
  /\ p.positionMultiplier = PRECISE_UNIT =>
       stakedUnit(e, c) = stakedUnit(p, c) + unit

\* The two edits of a stake or an unstake do that.
LEMMA ShiftedReads ==
  ASSUME PositionsInv(positions), NEW c \in Component, NEW unit \in Int,
         shiftedOk(c, unit)
  PROVE  ShiftedTo(positions, c, unit, shifted(c, unit))
<1> DEFINE p == positions
           default == getDefaultPositionRealUnit(p, c) - unit
           external == stakedUnit(p, c) + unit
           q == editDefaultPosition(p, c, default)
           e == editExternalPosition(q, c, STK, external, FALSE)
<1>1. /\ BookInv(p) /\ Listed(p) /\ STK \in PositionModule
      /\ \A d \in Component, m \in PositionModule :
           m # STK => p.externalUnit[d][m] = 0
      /\ p.positionMultiplier <= PRECISE_UNIT
  BY StakingAssumption DEF PositionsInv
<1>2. /\ default >= 0 /\ editDefaultPositionOk(p, c, default)
      /\ editExternalPositionOk(q, c, STK, external, FALSE)
      /\ shifted(c, unit) = e
  BY DEF shiftedOk, shifted, stakedUnit
<1>3. default \in Nat /\ external \in Int
  BY <1>1, <1>2, UnitsRead DEF stakedUnit
<1> HIDE DEF p, default, external
<1>4. DefaultSet(p, c, default, q)  BY <1>1, <1>2, <1>3, DefaultEditReads
<1> HIDE DEF q
<1>5. BookInv(q) /\ Listed(q)  BY <1>4 DEF DefaultSet
<1>6. ExternalSet(q, c, STK, external, e)
  BY <1>1, <1>2, <1>3, <1>5, ExternalEditReads
<1> HIDE DEF e
<1>7. /\ BookInv(e) /\ Listed(e)
      /\ e.positionMultiplier = p.positionMultiplier
      /\ \A d \in Component, m \in PositionModule :
           d # c \/ m # STK => e.externalUnit[d][m] = p.externalUnit[d][m]
      /\ \A d \in Component \ {c} : e.virtualUnit[d] = p.virtualUnit[d]
      /\ e.virtualUnit = q.virtualUnit
      /\ q.positionMultiplier = p.positionMultiplier
      /\ stakedUnit(e, c) <= external
      /\ p.positionMultiplier = PRECISE_UNIT => stakedUnit(e, c) = external
  BY <1>4, <1>6 DEF DefaultSet, ExternalSet, stakedUnit
<1>8. getDefaultPositionRealUnit(e, c) <= default
  BY <1>4, <1>7
  DEF DefaultSet, getDefaultPositionRealUnit, _convertVirtualToRealUnit
<1>9. \A d \in Component \ {c} :
        /\ getDefaultPositionRealUnit(e, d) = getDefaultPositionRealUnit(p, d)
        /\ stakedUnit(e, d) = stakedUnit(p, d)
  BY <1>1, <1>7 DEF stakedUnit, getDefaultPositionRealUnit,
     getExternalPositionRealUnit, _convertVirtualToRealUnit
<1>10. PositionsInv(e)  BY <1>1, <1>7 DEF PositionsInv
<1>11. ShiftedTo(p, c, unit, e)
  BY <1>7, <1>8, <1>9, <1>10 DEF ShiftedTo, default, external
<1>12. QED  BY <1>2, <1>11 DEF p

\* Fewer units on the same tokens are no deeper a deficit.
LEMMA DeficitFalls ==
  ASSUME NEW S \in Nat, NEW a \in Int, NEW b \in Int, NEW t \in Int, a <= b
  PROVE  /\ S * a - t * PRECISE_UNIT <= S * b - t * PRECISE_UNIT
         /\ S * a - t * PRECISE_UNIT \in Int /\ S * b - t * PRECISE_UNIT \in Int
<1>1. S * a <= S * b  OBVIOUS
<1>2. t * PRECISE_UNIT \in Int  BY PreciseUnitAssumption
<1>3. S * a \in Int /\ S * b \in Int  OBVIOUS
<1>4. QED  BY <1>1, <1>2, <1>3

\* A stake of unit, or an unstake of -unit, and the tokens that move for it.
LEMMA MovingKept ==
  ASSUME StakingInv, NEW c \in Component, NEW s \in StakingContract,
         NEW unit \in Int, NEW amount \in Int,
         shiftedOk(c, unit), positions' = shifted(c, unit),
         componentPositionUnits' \in PerContract,
         componentPositionUnits' = [componentPositionUnits EXCEPT ![c][s] = @ + unit],
         staked' = [staked EXCEPT ![c][s] = @ + amount], staked[c][s] + amount >= 0,
         held' = [held EXCEPT ![c] = @ - amount], held[c] - amount >= 0,
         totalSupply' = totalSupply, balances' = balances,
         stakingState' = "INITIALIZED", roundings' \in Nat, roundings <= roundings',
         totalSupply * unit - amount * PRECISE_UNIT
           <= (roundings' - roundings) * (PRECISE_UNIT - 1)
  PROVE  Kept
<1> DEFINE p == positions
           S == totalSupply
           n == roundings
           u == componentPositionUnits
           P == PRECISE_UNIT
           k == positions.positionMultiplier
           e == positions'
<1>1. /\ P \in Nat \ {0} /\ S \in Nat /\ n \in Nat /\ k \in Int
      /\ IsFiniteSet(StakingContract)
      /\ PositionsInv(p) /\ u \in PerContract /\ staked \in PerContract
      /\ held \in [Component -> Nat] /\ balances \in [Account -> Nat]
      /\ Matches(p, u) /\ ShortByDust(p, S, u, staked, n)
  <2>1. /\ PositionsInv(p) /\ Matches(p, u) /\ ShortByDust(p, S, u, staked, n)
        /\ TypeOK /\ P \in Nat \ {0} /\ IsFiniteSet(StakingContract)
    BY PreciseUnitAssumption, StakingAssumption DEF StakingInv
  <2>2. /\ S \in Nat /\ n \in Nat /\ u \in PerContract /\ staked \in PerContract
        /\ held \in [Component -> Nat] /\ balances \in [Account -> Nat]
        /\ p \in PositionState
    BY <2>1 DEF TypeOK, VaultTypeOK, StakingTypeOK
  <2>3. k \in Int  BY <2>2 DEF PositionState
  <2>4. QED  BY <2>1, <2>2, <2>3
<1>2. ShiftedTo(p, c, unit, e)  BY <1>1, ShiftedReads
<1>3. /\ held' \in [Component -> Nat] /\ staked' \in PerContract
      /\ \A d \in Component \ {c} : /\ held'[d] = held[d]
                                    /\ staked'[d] = staked[d] /\ u'[d] = u[d]
      /\ held'[c] = held[c] - amount
  BY <1>1 DEF PerContract
<1>4. /\ adds(u[c], u'[c], s, unit) /\ adds(staked[c], staked'[c], s, amount)
      /\ u[c] \in [StakingContract -> Int] /\ staked[c] \in [StakingContract -> Int]
  BY <1>1 DEF adds, PerContract
<1>5. /\ recorded(u, c) \in Int /\ recorded(u', c) = recorded(u, c) + unit
      /\ recorded(staked, c) \in Int
      /\ recorded(staked', c) = recorded(staked, c) + amount
      /\ \A d \in Component \ {c} :
           recorded(u', d) = recorded(u, d) /\ recorded(staked', d) = recorded(staked, d)
  <2>1. /\ recorded(u, c) \in Int /\ recorded(u', c) = recorded(u, c) + unit
    <3> DEFINE f == u[c]
               g == u'[c]
    <3>1. adds(f, g, s, unit) /\ f \in [StakingContract -> Int]  BY <1>4
    <3> HIDE DEF f, g
    <3>2. /\ sumOver(f, StakingContract) \in Int
          /\ sumOver(g, StakingContract) = sumOver(f, StakingContract) + unit
      BY <1>1, <3>1, AddingMovesSum
    <3>3. QED  BY <3>2 DEF recorded, f, g
  <2>2. /\ recorded(staked, c) \in Int
        /\ recorded(staked', c) = recorded(staked, c) + amount
    <3> DEFINE f == staked[c]
               g == staked'[c]
    <3>1. adds(f, g, s, amount) /\ f \in [StakingContract -> Int]  BY <1>4
    <3> HIDE DEF f, g
    <3>2. /\ sumOver(f, StakingContract) \in Int
          /\ sumOver(g, StakingContract) = sumOver(f, StakingContract) + amount
      BY <1>1, <3>1, AddingMovesSum
    <3>3. QED  BY <3>2 DEF recorded, f, g
  <2>3. \A d \in Component \ {c} :
          recorded(u', d) = recorded(u, d) /\ recorded(staked', d) = recorded(staked, d)
    BY <1>3 DEF recorded
  <2>4. QED  BY <2>1, <2>2, <2>3
<1>6. \A t \in StakingContract : t # s => u'[c][t] = u[c][t] /\ staked'[c][t] = staked[c][t]
  BY <1>4 DEF adds
<1>7. u'[c][s] = u[c][s] + unit /\ staked'[c][s] = staked[c][s] + amount
  BY <1>4 DEF adds
<1>8. \A d \in Component :
        /\ getDefaultPositionRealUnit(p, d) \in Int /\ stakedUnit(p, d) \in Int
        /\ getDefaultPositionRealUnit(e, d) \in Int /\ stakedUnit(e, d) \in Int
  <2>1. BookInv(p) /\ Listed(p) /\ BookInv(e) /\ Listed(e) /\ STK \in PositionModule
    BY <1>1, <1>2, StakingAssumption DEF ShiftedTo, PositionsInv
  <2>2. QED  BY <2>1, UnitsRead DEF stakedUnit
<1> HIDE DEF p, S, n, u, P, k, e
<1>9. Matches(e, u')
  BY <1>1, <1>2, <1>5, <1>8 DEF Matches, ShiftedTo, P
<1>10. ShortByDust(e, S, u', staked', roundings')
  <2> SUFFICES ASSUME p.positionMultiplier = P,
                      NEW d \in Component, NEW t \in StakingContract
               PROVE  S * u'[d][t] - staked'[d][t] * P <= roundings' * (P - 1)
    BY <1>2 DEF ShortByDust, ShiftedTo, P
  <2> DEFINE v == u[d][t]
             w == staked[d][t]
  <2>1. S * v - w * P <= n * (P - 1)  BY <1>1 DEF ShortByDust, P
  <2>2. v \in Nat /\ w \in Nat  BY <1>1 DEF PerContract
  <2>3. n * (P - 1) <= roundings' * (P - 1)
        /\ (roundings' - n) * (P - 1) = roundings' * (P - 1) - n * (P - 1)
        /\ n * (P - 1) \in Int /\ roundings' * (P - 1) \in Int
    BY <1>1 DEF n
  <2>4. CASE d = c /\ t = s
    <3> HIDE DEF v, w
    <3>1. u'[d][t] = v + unit /\ staked'[d][t] = w + amount
      BY <1>7, <2>4 DEF v, w
    <3>2. S * (v + unit) = S * v + S * unit /\ (w + amount) * P = w * P + amount * P
      BY <1>1, <2>2
    <3>3. /\ S * v \in Int /\ S * unit \in Int /\ w * P \in Int /\ amount * P \in Int
      BY <1>1, <2>2
    <3>4. S * unit - amount * P <= (roundings' - n) * (P - 1)
      BY DEF S, P, n
    <3>5. QED  BY <2>1, <2>3, <3>1, <3>2, <3>3, <3>4
  <2>5. CASE d # c \/ t # s
    <3>1. u'[d][t] = v /\ staked'[d][t] = w  BY <1>3, <1>6, <2>5
    <3> HIDE DEF v, w
    <3>2. S * v \in Int /\ w * P \in Int  BY <1>1, <2>2
    <3>3. QED  BY <2>1, <2>3, <3>1, <3>2
  <2>6. QED  BY <2>4, <2>5
<1>11. ASSUME NEW d \in Component
       PROVE  totalDeficit(d)' <= IF totalDeficit(d) > 0 THEN totalDeficit(d) ELSE 0
  <2> DEFINE t == held[d] + recorded(staked, d)
             t1 == held'[d] + recorded(staked', d)
  <2>1. t1 = t /\ t \in Int
    <3>1. CASE d = c
      <4>1. held[c] \in Int  BY <1>1
      <4>2. QED  BY <1>3, <1>5, <3>1, <4>1
    <3>2. CASE d # c
      <4>1. held[d] \in Int  BY <1>1
      <4>2. recorded(staked, d) \in Int
        <5>1. \A a \in StakingContract : staked[d][a] \in Int
          BY <1>1 DEF PerContract
        <5>2. QED  BY <1>1, <5>1, SumType DEF recorded
      <4>3. held'[d] = held[d] /\ recorded(staked', d) = recorded(staked, d)
        BY <1>3, <1>5, <3>2
      <4>4. QED  BY <4>1, <4>2, <4>3
    <3>3. QED  BY <3>1, <3>2
  <2>2. /\ totalDeficit(d) = shortOf(p, S, t, d)
        /\ totalDeficit(d)' = shortOf(e, S, t, d)
    BY <2>1, DeficitIsShort DEF p, S, e
  <2> HIDE DEF t, t1
  <2> DEFINE r == getDefaultPositionRealUnit(p, d)
             x == stakedUnit(p, d)
             r1 == getDefaultPositionRealUnit(e, d)
             x1 == stakedUnit(e, d)
  <2>3. r \in Int /\ x \in Int /\ r1 \in Int /\ x1 \in Int  BY <1>8
  <2>4. r1 + x1 <= r + x
    <3>1. CASE d = c
      <4>1. r1 <= r - unit /\ x1 <= x + unit  BY <1>2, <3>1 DEF ShiftedTo
      <4> HIDE DEF r, x, r1, x1
      <4>2. QED  BY <2>3, <4>1
    <3>2. CASE d # c
      <4>1. r1 = r /\ x1 = x  BY <1>2, <3>2 DEF ShiftedTo
      <4>2. QED  BY <2>3, <4>1
    <3>3. QED  BY <3>1, <3>2
  <2> DEFINE a == r1 + x1
             b == r + x
  <2>5. a \in Int /\ b \in Int /\ a <= b  BY <2>3, <2>4
  <2>6. /\ shortOf(e, S, t, d) = S * a - t * PRECISE_UNIT
        /\ shortOf(p, S, t, d) = S * b - t * PRECISE_UNIT
    BY DEF shortOf
  <2> HIDE DEF a, b
  <2>7. /\ S * a - t * PRECISE_UNIT <= S * b - t * PRECISE_UNIT
        /\ S * a - t * PRECISE_UNIT \in Int /\ S * b - t * PRECISE_UNIT \in Int
    BY <1>1, <2>1, <2>5, DeficitFalls
  <2>8. QED  BY <2>2, <2>6, <2>7
<1>12. LeavesNone(e, u', stakingState')  BY DEF LeavesNone
<1>13. PositionsInv(e)  BY <1>2 DEF ShiftedTo
<1>14. QED
  BY <1>1, <1>3, <1>9, <1>10, <1>11, <1>12, <1>13 DEF Kept, e, u, S

\* A stake rounds down once.
LEMMA StakeKept ==
  ASSUME StakingInv, NEW c \in Component, NEW s \in StakingContract,
         NEW unit \in StakedUnits, stake(c, s, unit), roundings' = roundings + 1
  PROVE  Kept
<1> DEFINE S == totalSupply
           P == PRECISE_UNIT
           amount == getDefaultTotalNotional(S, unit)
<1>1. /\ P \in Nat \ {0} /\ S \in Nat /\ unit \in Nat /\ roundings \in Nat
      /\ held[c] \in Nat /\ staked[c][s] \in Nat
      /\ RecordsInv /\ componentPositionUnits \in PerContract
  BY PreciseUnitAssumption, StakingSetAssumption
  DEF StakingInv, TypeOK, VaultTypeOK, StakingTypeOK, PerContract
<1>2. /\ shiftedOk(c, unit) /\ positions' = shifted(c, unit) /\ amount <= held[c]
      /\ held' = [held EXCEPT ![c] = @ - amount]
      /\ staked' = [staked EXCEPT ![c][s] = @ + amount]
      /\ totalSupply' = totalSupply /\ balances' = balances
      /\ stakingState' = "INITIALIZED" /\ recordStake(c, s, unit)
  BY DEF stake
<1>3. amount \in Nat /\ S * unit - amount * P <= P - 1
  <2>1. S * unit \in Nat  BY <1>1
  <2> DEFINE v == S * unit
  <2> HIDE DEF v
  <2>2. v \in Nat  BY <2>1 DEF v
  <2>3. v \div P \in Nat /\ v < (v \div P) * P + P  BY <1>1, <2>2, NatDivBounds
  <2>4. amount = v \div P  BY DEF getDefaultTotalNotional, preciseMul, v
  <2>5. v - (v \div P) * P <= P - 1  BY <1>1, <2>2, <2>3
  <2>6. QED  BY <2>3, <2>4, <2>5 DEF v
<1>4. componentPositionUnits' = [componentPositionUnits EXCEPT ![c][s] = @ + unit]
  <2>1. ~hasStakingPosition(c, s) => componentPositionUnits[c][s] = 0
    BY <1>1 DEF RecordsInv, RecordOf, hasStakingPosition
  <2>2. CASE hasStakingPosition(c, s)  BY <1>2, <2>2 DEF recordStake
  <2>3. CASE ~hasStakingPosition(c, s)
    <3>1. componentPositionUnits[c][s] + unit = unit  BY <1>1, <2>1, <2>3
    <3>2. componentPositionUnits' = [componentPositionUnits EXCEPT ![c][s] = unit]
      BY <1>2, <2>3 DEF recordStake
    <3>3. QED  BY <3>1, <3>2
  <2>4. QED  BY <2>2, <2>3
<1>5. componentPositionUnits' \in PerContract
  BY <1>1, <1>4 DEF PerContract
<1> HIDE DEF amount
<1>6. /\ amount \in Int /\ unit \in Int
      /\ staked[c][s] + amount >= 0 /\ held[c] - amount >= 0
      /\ roundings' \in Nat /\ roundings <= roundings'
      /\ S * unit - amount * P <= (roundings' - roundings) * (P - 1)
  BY <1>1, <1>2, <1>3
<1>7. QED  BY <1>2, <1>4, <1>5, <1>6, MovingKept

\* An unstake returns no more tokens than the units it takes off the record.
LEMMA UnstakeKept ==
  ASSUME StakingInv, NEW c \in Component, NEW s \in StakingContract,
         NEW unit \in StakedUnits, unstake(c, s, unit), roundings' = roundings
  PROVE  Kept
<1> DEFINE S == totalSupply
           P == PRECISE_UNIT
           amount == getDefaultTotalNotional(S, unit)
           back == -unit
           less == -amount
<1>1. /\ P \in Nat \ {0} /\ S \in Nat /\ unit \in Nat /\ roundings \in Nat
      /\ held[c] \in Nat /\ staked[c][s] \in Nat
      /\ held \in [Component -> Nat] /\ staked \in PerContract
      /\ componentPositionUnits \in PerContract
  BY PreciseUnitAssumption, StakingSetAssumption
  DEF StakingInv, TypeOK, VaultTypeOK, StakingTypeOK, PerContract
<1>2. amount \in Nat /\ amount * P <= S * unit
  BY <1>1, PreciseMulBound DEF getDefaultTotalNotional
<1> HIDE DEF amount
<1>3. /\ shiftedOk(c, back) /\ positions' = shifted(c, back)
      /\ amount <= staked[c][s] /\ unit <= componentPositionUnits[c][s]
      /\ held' = [held EXCEPT ![c] = @ + amount]
      /\ staked' = [staked EXCEPT ![c][s] = @ - amount]
      /\ totalSupply' = totalSupply /\ balances' = balances
      /\ stakingState' = "INITIALIZED"
      /\ componentPositionUnits' = [componentPositionUnits EXCEPT ![c][s] = @ - unit]
  BY <1>1 DEF unstake, recordUnstake, amount, PerContract
<1>4. componentPositionUnits' \in PerContract
  BY <1>1, <1>3 DEF PerContract
<1>5. /\ held' = [held EXCEPT ![c] = @ - less]
      /\ staked' = [staked EXCEPT ![c][s] = @ + less]
      /\ componentPositionUnits' = [componentPositionUnits EXCEPT ![c][s] = @ + back]
  <2>1. /\ held[c] + amount = held[c] - less
        /\ staked[c][s] - amount = staked[c][s] + less
        /\ componentPositionUnits[c][s] - unit = componentPositionUnits[c][s] + back
    BY <1>1, <1>2 DEF PerContract
  <2>2. QED  BY <1>1, <1>3, <2>1 DEF PerContract
<1>6. /\ less \in Int /\ back \in Int
      /\ staked[c][s] + less >= 0 /\ held[c] - less >= 0
      /\ roundings' \in Nat /\ roundings <= roundings'
  BY <1>1, <1>2, <1>3
<1>7. S * back - less * P <= (roundings' - roundings) * (P - 1)
  <2>1. S * back = -(S * unit) /\ less * P = -(amount * P)
        /\ S * unit \in Int /\ amount * P \in Int
    BY <1>1, <1>2
  <2>2. (roundings' - roundings) * (P - 1) = 0  BY <1>1
  <2>3. QED  BY <1>2, <2>1, <2>2
<1> HIDE DEF less, back
<1>8. QED  BY <1>3, <1>4, <1>5, <1>6, <1>7, MovingKept

-----------------------------------------------------------------------------
(* Issuance and redemption. *)

\* What the hooks move of a component: its units on record, rounded down.
LEMMA MovedReads ==
  ASSUME StakingInv, NEW c \in Component, NEW q \in Nat
  PROVE  LET f == moved(c, q)
         IN  /\ f \in [StakingContract -> Nat]
             /\ overContracts(f) = sumOver(f, StakingContract)
             /\ sumOver(f, StakingContract) \in Nat
             /\ ~(c \in components /\ STK \in hookModules(c)) =>
                  /\ sumOver(f, StakingContract) = 0
                  /\ \A s \in StakingContract : f[s] = 0
             /\ \A s \in StakingContract :
                  /\ f[s] * PRECISE_UNIT <= q * componentPositionUnits[c][s]
                  /\ unscaled =>
                       q * componentPositionUnits[c][s] - f[s] * PRECISE_UNIT
                         <= PRECISE_UNIT - 1
<1> DEFINE f == moved(c, q)
           u == componentPositionUnits[c]
           P == PRECISE_UNIT
           called == c \in components /\ STK \in hookModules(c)
<1>1. /\ P \in Nat \ {0} /\ IsFiniteSet(StakingContract)
      /\ u \in [StakingContract -> Nat] /\ RecordsInv
      /\ Matches(positions, componentPositionUnits)
  BY PreciseUnitAssumption, StakingAssumption
  DEF StakingInv, TypeOK, StakingTypeOK, PerContract
<1>2. /\ called => f = hookNotional(c, q)
      /\ ~called => f = [s \in StakingContract |-> 0]
  BY DEF moved
<1>3. ASSUME NEW s \in StakingContract, called
      PROVE  f[s] = preciseMul(q, u[s])
  <2>1. ~hasStakingPosition(c, s) => u[s] = 0
    BY <1>1 DEF RecordsInv, RecordOf, hasStakingPosition
  <2>2. preciseMul(q, 0) = 0  BY <1>1 DEF preciseMul
  <2>3. QED
    BY <1>2, <1>3, <2>1, <2>2 DEF hookNotional, getDefaultTotalNotional
<1>4. ASSUME NEW s \in StakingContract, unscaled, ~called PROVE u[s] = 0
  <2>1. stakedUnit(positions, c) = 0 /\ recorded(componentPositionUnits, c) \in Nat
        /\ u[s] <= recorded(componentPositionUnits, c)
    BY <1>4, ComponentReads
  <2>2. recorded(componentPositionUnits, c) = 0
    BY <1>1, <1>4, <2>1 DEF Matches, unscaled
  <2>3. QED  BY <1>1, <2>1, <2>2
<1>5. f \in [StakingContract -> Nat]
  <2>1. CASE ~called  BY <1>2, <2>1
  <2>2. CASE called
    <3>1. \A s \in StakingContract : f[s] \in Nat
      <4> TAKE s \in StakingContract
      <4>1. u[s] \in Nat  BY <1>1
      <4>2. QED  BY <1>3, <2>2, <4>1, PreciseMulBound
    <3>2. f = [s \in StakingContract |-> f[s]]  BY <1>2, <2>2 DEF hookNotional
    <3>3. QED  BY <3>1, <3>2
  <2>3. QED  BY <2>1, <2>2
<1>6. overContracts(f) = sumOver(f, StakingContract)  BY DEF overContracts, sumOver
<1>7. /\ sumOver(f, StakingContract) \in Nat
      /\ ~called => /\ sumOver(f, StakingContract) = 0
                    /\ \A s \in StakingContract : f[s] = 0
  <2> HIDE DEF f
  <2>1. \A s \in StakingContract : f[s] \in Nat  BY <1>5
  <2>2. ~called => \A s \in StakingContract : f[s] = 0  BY <1>2
  <2>3. QED  BY <1>1, <2>1, <2>2, SumOfNaturals, SumOfZeros
<1>8. ASSUME NEW s \in StakingContract
      PROVE  /\ f[s] * P <= q * u[s]
             /\ unscaled => q * u[s] - f[s] * P <= P - 1
  <2>1. u[s] \in Nat /\ q * u[s] \in Nat  BY <1>1
  <2>2. CASE called
    <3> DEFINE v == q * u[s]
    <3>1. v \in Nat /\ f[s] = v \div P  BY <1>3, <2>1, <2>2 DEF preciseMul
    <3> HIDE DEF v, f
    <3>2. v \div P \in Nat /\ (v \div P) * P <= v /\ v < (v \div P) * P + P
      BY <1>1, <3>1, NatDivBounds
    <3>3. v - (v \div P) * P <= P - 1 /\ (v \div P) * P <= v
      BY <1>1, <3>1, <3>2
    <3>4. QED  BY <3>1, <3>3 DEF v
  <2>3. CASE ~called
    <3>1. f[s] = 0 /\ (unscaled => u[s] = 0)  BY <1>4, <1>7, <2>3
    <3> HIDE DEF f, u
    <3>2. QED  BY <1>1, <2>1, <3>1
  <2>4. QED  BY <2>2, <2>3
<1>9. QED  BY <1>5, <1>6, <1>7, <1>8

\* What is asked for and paid, of every component: the share of both its units.
LEMMA AmountsRead ==
  ASSUME StakingInv, unitsSupported, NEW c \in Component, NEW q \in Nat
  PROVE  LET b == getDefaultPositionRealUnit(positions, c) + stakedUnit(positions, c)
         IN  /\ b \in Nat
             /\ requiredForIssue(c, q) = preciseMulCeil(b, q)
             /\ paidOnRedeem(c, q) = preciseMul(b, q)
             /\ requiredForIssue(c, q) \in Nat /\ paidOnRedeem(c, q) \in Nat
             /\ c \notin components => paidOnRedeem(c, q) = 0
<1> DEFINE r == getDefaultPositionRealUnit(positions, c)
           x == stakedUnit(positions, c)
           b == r + x
<1>1. /\ r \in Nat /\ x \in Int
      /\ getTotalComponentRealUnits(positions, c) = b
      /\ c \notin components => r = 0 /\ x = 0
  BY ComponentReads
<1>2. c \in components => b >= 0  BY <1>1 DEF unitsSupported
<1> HIDE DEF r, x
<1>3. b \in Nat /\ (c \notin components => b = 0)  BY <1>1, <1>2
<1> HIDE DEF b
<1>4. preciseMulCeil(0, q) = 0 /\ preciseMul(0, q) = 0
  BY PreciseUnitAssumption DEF preciseMulCeil, preciseMul
<1>5. /\ requiredForIssue(c, q) = preciseMulCeil(b, q)
      /\ paidOnRedeem(c, q) = preciseMul(b, q)
      /\ c \notin components => paidOnRedeem(c, q) = 0
  BY <1>1, <1>3, <1>4 DEF requiredForIssue, paidOnRedeem
<1>6. preciseMulCeil(b, q) \in Nat /\ preciseMul(b, q) \in Nat
  BY <1>3, PreciseMulCeilBound, PreciseMulBound
<1>7. QED  BY <1>3, <1>5, <1>6 DEF b, r, x

\* A change of supply that moves f of every component to the contracts.
LEMMA SupplyKept ==
  ASSUME StakingInv, NEW q \in Int,
         NEW f \in [Component -> [StakingContract -> Int]],
         totalSupply' = totalSupply + q, totalSupply' \in Nat,
         balances' \in [Account -> Nat],
         held' \in [Component -> Nat], staked' \in PerContract,
         \A c \in Component, s \in StakingContract :
           staked'[c][s] = staked[c][s] + f[c][s],
         UNCHANGED <<positions, stakingState, componentPositionUnits>>,
         roundings' \in Nat, roundings <= roundings',
         unscaled => \A c \in Component, s \in StakingContract :
           q * componentPositionUnits[c][s] - f[c][s] * PRECISE_UNIT
             <= (roundings' - roundings) * (PRECISE_UNIT - 1),
         \A c \in Component :
           /\ totalDeficit(c) \in Int /\ totalDeficit(c)' \in Int
           /\ totalDeficit(c)' <= totalDeficit(c)
  PROVE  Kept
<1> DEFINE S == totalSupply
           n == roundings
           u == componentPositionUnits
           P == PRECISE_UNIT
<1>1. /\ P \in Nat \ {0} /\ S \in Nat /\ n \in Nat
      /\ PositionsInv(positions) /\ u \in PerContract /\ staked \in PerContract
      /\ Matches(positions, u) /\ ShortByDust(positions, S, u, staked, n)
      /\ LeavesNone(positions, u, stakingState)
  BY PreciseUnitAssumption
  DEF StakingInv, TypeOK, VaultTypeOK, StakingTypeOK
<1>2. positions' = positions /\ stakingState' = stakingState /\ u' = u
  OBVIOUS
<1>3. PositionsInv(positions') /\ Matches(positions', u') /\ LeavesNone(positions', u', stakingState')
  BY <1>1, <1>2
<1>4. ShortByDust(positions', totalSupply', u', staked', roundings')
  <2> SUFFICES ASSUME unscaled, NEW d \in Component, NEW t \in StakingContract
               PROVE  totalSupply' * u[d][t] - staked'[d][t] * P <= roundings' * (P - 1)
    BY <1>2 DEF ShortByDust, unscaled
  <2> DEFINE v == u[d][t]
             w == staked[d][t]
             amount == f[d][t]
  <2>1. S * v - w * P <= n * (P - 1)  BY <1>1 DEF ShortByDust, unscaled
  <2>2. v \in Nat /\ w \in Nat /\ amount \in Int  BY <1>1 DEF PerContract
  <2>3. q * v - amount * P <= (roundings' - n) * (P - 1)
        /\ totalSupply' = S + q /\ staked'[d][t] = w + amount
    OBVIOUS
  <2> HIDE DEF v, w, amount, u, S, n, P
  <2>4. n \in Nat /\ n <= roundings'  BY <1>1 DEF n
  <2>5. (roundings' - n) * (P - 1) = roundings' * (P - 1) - n * (P - 1)
        /\ n * (P - 1) \in Int /\ roundings' * (P - 1) \in Int
    BY <1>1, <2>4
  <2>6. (S + q) * v = S * v + q * v /\ (w + amount) * P = w * P + amount * P
        /\ S * v \in Int /\ q * v \in Int /\ w * P \in Int /\ amount * P \in Int
    BY <1>1, <2>2
  <2>7. (S + q) * v - (w + amount) * P <= roundings' * (P - 1)
    BY <2>1, <2>3, <2>5, <2>6
  <2>8. QED  BY <2>3, <2>7 DEF v, u
<1>5. \A c \in Component :
        totalDeficit(c)' <= IF totalDeficit(c) > 0 THEN totalDeficit(c) ELSE 0
  OBVIOUS
<1>6. QED  BY <1>3, <1>4, <1>5 DEF Kept

\* An issuance takes in what both units call for, and the hooks stake no more than
\* what is then held.
LEMMA IssueKept ==
  ASSUME StakingInv, NEW a \in Account, NEW q \in Quantity, issue(a, q),
         roundings' = roundings + 1
  PROVE  Kept
<1> DEFINE S == totalSupply
           P == PRECISE_UNIT
           f == [c \in Component |-> moved(c, q)]
<1>1. /\ P \in Nat \ {0} /\ S \in Nat /\ q \in Nat /\ roundings \in Nat
      /\ IsFiniteSet(StakingContract)
      /\ held \in [Component -> Nat] /\ staked \in PerContract
      /\ balances \in [Account -> Nat]
  BY PreciseUnitAssumption, StakingSetAssumption, StakingAssumption
  DEF StakingInv, TypeOK, VaultTypeOK, StakingTypeOK
<1>2. /\ unitsSupported
      /\ \A c \in components : STK \in hookModules(c) =>
           componentIssueHookOk(c, q, held[c] + requiredForIssue(c, q))
      /\ held' = [c \in Component |-> held[c] + requiredForIssue(c, q)
                                        - overContracts(moved(c, q))]
      /\ staked' = [c \in Component |->
                      [s \in StakingContract |-> staked[c][s] + moved(c, q)[s]]]
      /\ totalSupply' = S + q /\ balances' = [balances EXCEPT ![a] = @ + q]
      /\ UNCHANGED <<positions, stakingState, componentPositionUnits>>
  BY DEF issue, _mint
<1>3. totalSupply' \in Nat /\ balances' \in [Account -> Nat]
  BY <1>1, <1>2
<1>4. f \in [Component -> [StakingContract -> Int]]
  <2>1. \A c \in Component : moved(c, q) \in [StakingContract -> Nat]
    BY <1>1, MovedReads
  <2>2. \A c \in Component : moved(c, q) \in [StakingContract -> Int]
    BY <2>1
  <2>3. QED  BY <2>2
<1>5. ASSUME NEW c \in Component
      PROVE  /\ held'[c] \in Nat
             /\ \A s \in StakingContract :
                  /\ f[c][s] \in Nat /\ staked'[c][s] \in Nat
                  /\ staked'[c][s] = staked[c][s] + f[c][s]
             /\ totalDeficit(c) \in Int /\ totalDeficit(c)' \in Int
             /\ totalDeficit(c)' <= totalDeficit(c)
  <2> DEFINE g == moved(c, q)
             M == sumOver(g, StakingContract)
             req == requiredForIssue(c, q)
             b == getDefaultPositionRealUnit(positions, c) + stakedUnit(positions, c)
             t == held[c] + recorded(staked, c)
  <2>1. /\ g \in [StakingContract -> Nat] /\ overContracts(g) = M /\ M \in Nat
        /\ ~(c \in components /\ STK \in hookModules(c)) => M = 0
    BY <1>1, MovedReads
  <2>2. b \in Nat /\ req = preciseMulCeil(b, q) /\ req \in Nat
    BY <1>1, <1>2, AmountsRead
  <2>3. held[c] \in Nat /\ staked[c] \in [StakingContract -> Nat]
    BY <1>1 DEF PerContract
  <2>4. held'[c] = held[c] + req - M  BY <1>2, <2>1
  <2>5. held[c] + req - M \in Nat
    <3>1. CASE c \in components /\ STK \in hookModules(c)
      <4>1. componentIssueHookOk(c, q, held[c] + req)  BY <1>2, <3>1
      <4>2. overContracts(hookNotional(c, q)) <= held[c] + req
        BY <4>1 DEF componentIssueHookOk
      <4>3. g = hookNotional(c, q)  BY <3>1 DEF moved
      <4>4. M <= held[c] + req  BY <2>1, <4>2, <4>3
      <4> HIDE DEF M, req, g
      <4>5. QED  BY <2>1, <2>2, <2>3, <4>4
    <3>2. CASE ~(c \in components /\ STK \in hookModules(c))
      <4>1. M = 0  BY <2>1, <3>2
      <4> HIDE DEF M, req, g
      <4>2. QED  BY <2>2, <2>3, <4>1
    <3>3. QED  BY <3>1, <3>2
  <2>6. \A s \in StakingContract :
          /\ g[s] \in Nat /\ f[c][s] = g[s] /\ staked[c][s] \in Nat
          /\ staked'[c][s] = staked[c][s] + g[s]
    BY <1>2, <2>1, <2>3
  <2>7. recorded(staked', c) = recorded(staked, c) + M /\ recorded(staked, c) \in Int
    <3> DEFINE v == staked[c]
               w == staked'[c]
    <3>1. \A s \in StakingContract : v[s] \in Int /\ g[s] \in Int /\ w[s] = v[s] + g[s]
      BY <2>6
    <3> HIDE DEF v, w, g
    <3>2. /\ sumOver(v, StakingContract) \in Int
          /\ sumOver(w, StakingContract)
               = sumOver(v, StakingContract) + sumOver(g, StakingContract)
      BY <1>1, <3>1, SumsAdd
    <3>3. QED  BY <3>2 DEF recorded, v, w
  <2>8. recorded(staked, c) \in Nat  BY ComponentReads
  <2>9. /\ totalDeficit(c) = S * b - t * P
        /\ totalDeficit(c)' = (S + q) * b - (held'[c] + recorded(staked', c)) * P
    BY <1>2, DeficitIsShort DEF shortOf
  <2> HIDE DEF b, M, req, g
  <2>10. t \in Nat /\ held'[c] + recorded(staked', c) = t + req
    BY <2>1, <2>2, <2>3, <2>4, <2>7, <2>8
  <2> HIDE DEF t
  <2>11. (S + q) * b - (t + req) * P <= S * b - t * P
    BY <1>1, <2>2, <2>10, DepositCovers
  <2>12. (S + q) * b - (t + req) * P \in Int /\ S * b - t * P \in Int
    <3>1. (S + q) * b \in Int /\ S * b \in Int  BY <1>1, <2>2
    <3>2. (t + req) * P \in Int /\ t * P \in Int  BY <1>1, <2>2, <2>10
    <3>3. QED  BY <3>1, <3>2
  <2>13. QED
    BY <2>4, <2>5, <2>6, <2>9, <2>10, <2>11, <2>12
<1>6. held' \in [Component -> Nat] /\ staked' \in PerContract
  <2>1. /\ held' = [c \in Component |-> held'[c]]
        /\ staked' = [c \in Component |-> [s \in StakingContract |-> staked'[c][s]]]
    BY <1>2
  <2>2. QED  BY <1>5, <2>1 DEF PerContract
<1>7. unscaled => \A c \in Component, s \in StakingContract :
        q * componentPositionUnits[c][s] - f[c][s] * P
          <= (roundings' - roundings) * (P - 1)
  <2>1. (roundings' - roundings) * (P - 1) = P - 1  BY <1>1
  <2>2. QED  BY <1>1, <2>1, MovedReads
<1>8. /\ q \in Int /\ roundings' \in Nat /\ roundings <= roundings'
      /\ \A c \in Component, s \in StakingContract :
           staked'[c][s] = staked[c][s] + f[c][s]
      /\ \A c \in Component :
           /\ totalDeficit(c) \in Int /\ totalDeficit(c)' \in Int
           /\ totalDeficit(c)' <= totalDeficit(c)
  BY <1>1, <1>5
<1>9. totalSupply' = totalSupply + q
      /\ UNCHANGED <<positions, stakingState, componentPositionUnits>>
  BY <1>2
<1> HIDE DEF f
<1>10. QED  BY <1>3, <1>4, <1>6, <1>7, <1>8, <1>9, SupplyKept

\* A redemption pays no more than both units call for, from what is held once the
\* hooks have unstaked.
LEMMA RedeemKept ==
  ASSUME StakingInv, NEW a \in Account, NEW q \in Quantity, redeem(a, q),
         roundings' = roundings
  PROVE  Kept
<1> DEFINE S == totalSupply
           P == PRECISE_UNIT
           f == [c \in Component |-> [s \in StakingContract |-> -moved(c, q)[s]]]
           back == -q
<1>1. /\ P \in Nat \ {0} /\ S \in Nat /\ q \in Nat /\ roundings \in Nat
      /\ IsFiniteSet(StakingContract)
      /\ held \in [Component -> Nat] /\ staked \in PerContract
      /\ componentPositionUnits \in PerContract
      /\ balances \in [Account -> Nat]
  BY PreciseUnitAssumption, StakingSetAssumption, StakingAssumption
  DEF StakingInv, TypeOK, VaultTypeOK, StakingTypeOK
<1>2. /\ unitsSupported
      /\ \A c \in components :
           /\ STK \in hookModules(c) => componentRedeemHookOk(c, q)
           /\ paidOnRedeem(c, q) <= held[c] + overContracts(moved(c, q))
      /\ held' = [c \in Component |-> held[c] + overContracts(moved(c, q))
                                        - paidOnRedeem(c, q)]
      /\ staked' = [c \in Component |->
                      [s \in StakingContract |-> staked[c][s] - moved(c, q)[s]]]
      /\ balances[a] >= q /\ S >= q
      /\ totalSupply' = S - q /\ balances' = [balances EXCEPT ![a] = @ - q]
      /\ UNCHANGED <<positions, stakingState, componentPositionUnits>>
  BY DEF redeem, canRedeem, _burn
<1>3. totalSupply' \in Nat /\ balances' \in [Account -> Nat]
      /\ back \in Int /\ totalSupply' = totalSupply + back
  BY <1>1, <1>2
<1>4. f \in [Component -> [StakingContract -> Int]]
  <2>1. \A c \in Component : moved(c, q) \in [StakingContract -> Nat]
    BY <1>1, MovedReads
  <2>2. \A c \in Component, s \in StakingContract : -moved(c, q)[s] \in Int
    BY <2>1
  <2>3. QED  BY <2>2
<1>5. ASSUME NEW c \in Component
      PROVE  /\ held'[c] \in Nat
             /\ \A s \in StakingContract :
                  /\ staked'[c][s] \in Nat
                  /\ staked'[c][s] = staked[c][s] + f[c][s]
             /\ totalDeficit(c) \in Int /\ totalDeficit(c)' \in Int
             /\ totalDeficit(c)' <= totalDeficit(c)
  <2> DEFINE g == moved(c, q)
             M == sumOver(g, StakingContract)
             paid == paidOnRedeem(c, q)
             b == getDefaultPositionRealUnit(positions, c) + stakedUnit(positions, c)
             t == held[c] + recorded(staked, c)
  <2>1. /\ g \in [StakingContract -> Nat] /\ overContracts(g) = M /\ M \in Nat
        /\ ~(c \in components /\ STK \in hookModules(c)) =>
             \A s \in StakingContract : g[s] = 0
    BY <1>1, MovedReads
  <2>2. b \in Nat /\ paid = preciseMul(b, q) /\ paid \in Nat
        /\ (c \notin components => paid = 0)
    BY <1>1, <1>2, AmountsRead
  <2>3. held[c] \in Nat /\ staked[c] \in [StakingContract -> Nat]
    BY <1>1 DEF PerContract
  <2>4. held'[c] = held[c] + M - paid  BY <1>2, <2>1
  <2>5. held[c] + M - paid \in Nat
    <3>1. CASE c \in components
      <4>1. paid <= held[c] + M  BY <1>2, <2>1, <3>1
      <4> HIDE DEF M, paid, g
      <4>2. QED  BY <2>1, <2>2, <2>3, <4>1
    <3>2. CASE c \notin components
      <4>1. paid = 0  BY <2>2, <3>2
      <4> HIDE DEF M, paid, g
      <4>2. QED  BY <2>1, <2>3, <4>1
    <3>3. QED  BY <3>1, <3>2
  <2>6. \A s \in StakingContract :
          /\ g[s] \in Nat /\ f[c][s] = -g[s] /\ staked[c][s] \in Nat
          /\ staked'[c][s] = staked[c][s] - g[s]
    BY <1>2, <2>1, <2>3
  <2>7. ASSUME NEW s \in StakingContract PROVE g[s] <= staked[c][s]
    <3>1. CASE c \in components /\ STK \in hookModules(c)
      <4>1. hookNotional(c, q)[s] <= staked[c][s]
        BY <1>2, <3>1 DEF componentRedeemHookOk
      <4>2. QED  BY <3>1, <4>1 DEF moved
    <3>2. CASE ~(c \in components /\ STK \in hookModules(c))
      <4>1. g[s] = 0  BY <2>1, <3>2
      <4> HIDE DEF g
      <4>2. QED  BY <2>6, <4>1
    <3>3. QED  BY <3>1, <3>2
  <2>8. \A s \in StakingContract :
          staked'[c][s] \in Nat /\ staked'[c][s] = staked[c][s] + f[c][s]
    <3> TAKE s \in StakingContract
    <3> DEFINE v == staked[c][s]
               w == g[s]
    <3>1. v \in Nat /\ w \in Nat /\ w <= v
          /\ staked'[c][s] = v - w /\ f[c][s] = -w
      BY <2>6, <2>7
    <3> HIDE DEF v, w, f, g
    <3>2. v - w \in Nat /\ v - w = v + (-w)  BY <3>1
    <3>3. QED  BY <3>1, <3>2 DEF v
  <2>9. /\ recorded(staked, c) = recorded(staked', c) + M
        /\ recorded(staked', c) \in Int
    <3> DEFINE v == staked[c]
               w == staked'[c]
    <3>1. \A s \in StakingContract : w[s] \in Int /\ g[s] \in Int /\ v[s] = w[s] + g[s]
      <4> TAKE s \in StakingContract
      <4>1. w[s] = v[s] - g[s] /\ g[s] \in Nat /\ v[s] \in Nat  BY <2>6
      <4> HIDE DEF v, w, g
      <4>2. QED  BY <4>1
    <3> HIDE DEF v, w, g
    <3>2. /\ sumOver(w, StakingContract) \in Int
          /\ sumOver(v, StakingContract)
               = sumOver(w, StakingContract) + sumOver(g, StakingContract)
      BY <1>1, <3>1, SumsAdd
    <3>3. QED  BY <3>2 DEF recorded, v, w
  <2>10. recorded(staked, c) \in Nat  BY ComponentReads
  <2>11. /\ totalDeficit(c) = S * b - t * P
         /\ totalDeficit(c)' = (S - q) * b - (held'[c] + recorded(staked', c)) * P
    BY <1>2, DeficitIsShort DEF shortOf
  <2> HIDE DEF b, M, paid, g
  <2>12. t \in Nat /\ held'[c] + recorded(staked', c) = t - paid
    BY <2>1, <2>2, <2>3, <2>4, <2>9, <2>10
  <2> HIDE DEF t
  <2>13. (S - q) * b - (t - paid) * P <= S * b - t * P
    BY <1>1, <2>2, <2>12, PaymentCovers
  <2>14. (S - q) * b - (t - paid) * P \in Int /\ S * b - t * P \in Int
    <3>1. (S - q) * b \in Int /\ S * b \in Int  BY <1>1, <2>2
    <3>2. (t - paid) * P \in Int /\ t * P \in Int  BY <1>1, <2>2, <2>12
    <3>3. QED  BY <3>1, <3>2
  <2>15. QED
    BY <2>4, <2>5, <2>8, <2>11, <2>12, <2>13, <2>14
<1>6. held' \in [Component -> Nat] /\ staked' \in PerContract
  <2>1. /\ held' = [c \in Component |-> held'[c]]
        /\ staked' = [c \in Component |-> [s \in StakingContract |-> staked'[c][s]]]
    BY <1>2
  <2>2. QED  BY <1>5, <2>1 DEF PerContract
<1>7. \A c \in Component, s \in StakingContract :
        back * componentPositionUnits[c][s] - f[c][s] * P
          <= (roundings' - roundings) * (P - 1)
  <2> TAKE c \in Component, s \in StakingContract
  <2> DEFINE v == componentPositionUnits[c][s]
             w == moved(c, q)[s]
  <2>1. v \in Nat /\ w \in Nat /\ w * P <= q * v /\ f[c][s] = -w
    BY <1>1, MovedReads DEF PerContract
  <2> HIDE DEF v, w, f
  <2>2. (roundings' - roundings) * (P - 1) = 0  BY <1>1
  <2>3. back * v = -(q * v) /\ (-w) * P = -(w * P) /\ q * v \in Int /\ w * P \in Int
    BY <1>1, <2>1
  <2>4. back * v - (-w) * P <= 0  BY <2>1, <2>3
  <2>5. QED  BY <2>1, <2>2, <2>4 DEF v
<1>8. /\ roundings' \in Nat /\ roundings <= roundings'
      /\ \A c \in Component, s \in StakingContract :
           staked'[c][s] = staked[c][s] + f[c][s]
      /\ \A c \in Component :
           /\ totalDeficit(c) \in Int /\ totalDeficit(c)' \in Int
           /\ totalDeficit(c)' <= totalDeficit(c)
  BY <1>1, <1>5
<1>9. UNCHANGED <<positions, stakingState, componentPositionUnits>>
  BY <1>2
<1> HIDE DEF f, back
<1>10. QED  BY <1>3, <1>4, <1>6, <1>7, <1>8, <1>9, SupplyKept

-----------------------------------------------------------------------------
(* Trades. *)

\* A recalculation after a balance went from pre to post: the unit of c follows the
\* balance, and nothing else is touched.
Recalculated(p, c, supply, pre, post, e) ==
  /\ PositionsInv(e)
  /\ e.positionMultiplier = p.positionMultiplier
  /\ e.externalPositionModules = p.externalPositionModules
  /\ \A d \in Component : stakedUnit(e, d) = stakedUnit(p, d)
  /\ \A d \in Component \ {c} :
       getDefaultPositionRealUnit(e, d) = getDefaultPositionRealUnit(p, d)
  /\ supply * getDefaultPositionRealUnit(e, c) - post * PRECISE_UNIT
       <= supply * getDefaultPositionRealUnit(p, c) - pre * PRECISE_UNIT

\* A balance that was sold out was backed no better than its position: what is
\* left of it is no reason to fall short.
LEMMA RecalculationReads ==
  ASSUME NEW p, PositionsInv(p), NEW c \in Component, NEW supply \in Nat,
         NEW pre \in Nat, NEW post \in Nat,
         calculateAndEditDefaultPositionOk(p, c, supply, pre, post),
         post = 0 => pre * PRECISE_UNIT <= supply * getDefaultPositionRealUnit(p, c)
  PROVE  Recalculated(p, c, supply, pre, post,
                      calculateAndEditDefaultPosition(p, c, supply, pre, post))
<1> DEFINE P == PRECISE_UNIT
           r == getDefaultPositionRealUnit(p, c)
           u == editedUnit(p, c, supply, pre, post)
           e == editDefaultPosition(p, c, u)
           r1 == getDefaultPositionRealUnit(e, c)
<1>1. /\ BookInv(p) /\ Listed(p) /\ P \in Nat \ {0} /\ STK \in PositionModule
      /\ \A d \in Component, m \in PositionModule :
           m # STK => p.externalUnit[d][m] = 0
      /\ p.positionMultiplier <= PRECISE_UNIT
  BY PreciseUnitAssumption, StakingAssumption DEF PositionsInv
<1>2. r \in Nat  BY <1>1, UnitsRead
<1>3. /\ u \in Nat
      /\ supply * u <= IF post = 0 THEN 0 ELSE post * P - pre * P + supply * r
  BY <1>2, EditedUnitCovers
<1>4. editDefaultPositionOk(p, c, u) /\ calculateAndEditDefaultPosition(p, c, supply, pre, post) = e
  BY DEF calculateAndEditDefaultPositionOk, calculateAndEditDefaultPosition
<1> HIDE DEF u
<1>5. DefaultSet(p, c, u, e)  BY <1>1, <1>3, <1>4, DefaultEditReads
<1> HIDE DEF e
<1>6. /\ BookInv(e) /\ Listed(e)
      /\ e.positionMultiplier = p.positionMultiplier
      /\ e.externalPositionModules = p.externalPositionModules
      /\ e.externalUnit = p.externalUnit
      /\ \A d \in Component \ {c} : e.virtualUnit[d] = p.virtualUnit[d]
      /\ r1 <= u
  BY <1>5 DEF DefaultSet
<1>7. PositionsInv(e)  BY <1>1, <1>6 DEF PositionsInv
<1>8. /\ \A d \in Component : stakedUnit(e, d) = stakedUnit(p, d)
      /\ \A d \in Component \ {c} :
           getDefaultPositionRealUnit(e, d) = getDefaultPositionRealUnit(p, d)
  BY <1>6 DEF stakedUnit, getDefaultPositionRealUnit,
     getExternalPositionRealUnit, _convertVirtualToRealUnit
<1>9. r1 \in Nat  BY <1>6, UnitsRead
<1>10. supply * r1 - post * P <= supply * r - pre * P
  <2> HIDE DEF r, r1, P
  <2>1. supply * r1 <= supply * u  BY <1>3, <1>6, <1>9
  <2>2. /\ supply * r1 \in Int /\ supply * u \in Int /\ supply * r \in Int
        /\ post * P \in Int /\ pre * P \in Int
    BY <1>1, <1>2, <1>3, <1>9
  <2>3. CASE post = 0
    <3>1. post * P = 0  BY <1>1, <2>3
    <3>2. pre * P <= supply * r  BY <2>3 DEF P, r
    <3>3. QED  BY <1>3, <2>1, <2>2, <2>3, <3>1, <3>2
  <2>4. CASE post # 0
    <3>1. supply * u <= post * P - pre * P + supply * r  BY <1>3, <2>4
    <3>2. QED  BY <2>1, <2>2, <3>1
  <2>5. QED  BY <2>3, <2>4
<1>11. QED  BY <1>4, <1>6, <1>7, <1>8, <1>10 DEF Recalculated

\* A trade takes no more than the send position covers, and what it brings in
\* covers the new unit of the receive position.
LEMMA TradeKept ==
  ASSUME StakingInv, NEW x \in Exchanged, NEW unit \in TradeQuantity,
         NEW received \in TradeQuantity, Trade!trade(x[1], x[2], unit, 0, received),
         UNCHANGED <<stakingVars, roundings>>
  PROVE  Kept
<1> DEFINE send == x[1]
           receive == x[2]
           S == totalSupply
           P == PRECISE_UNIT
           totalSend == preciseMul(S, unit)
           traded == [held EXCEPT ![send] = @ - totalSend, ![receive] = @ + received]
           gain == traded[receive] - held[receive]
           after == [traded EXCEPT ![receive] = @ - preciseMul(gain, tradeFee)]
           p == positions
           p1 == calculateAndEditDefaultPosition(p, send, S, held[send], after[send])
           p2 == calculateAndEditDefaultPosition(p1, receive, S, held[receive],
                                                 after[receive])
<1>1. /\ send \in Component /\ receive \in Component
      /\ unit \in Nat /\ received \in Nat /\ P \in Nat \ {0}
      /\ tradeFee \in Nat /\ STK \in PositionModule
  BY StakingSetAssumption, StakingAssumption, PreciseUnitAssumption
<1>2. /\ S \in Nat /\ held \in [Component -> Nat] /\ PositionsInv(p)
      /\ balances \in [Account -> Nat] /\ staked \in PerContract /\ roundings \in Nat
      /\ Matches(p, componentPositionUnits)
      /\ ShortByDust(p, S, componentPositionUnits, staked, roundings)
      /\ LeavesNone(p, componentPositionUnits, stakingState)
  BY DEF StakingInv, TypeOK, VaultTypeOK, StakingTypeOK
<1>3. /\ Trade!preciseMul(S, unit) = totalSend
      /\ Trade!preciseMul(gain, tradeFee) = preciseMul(gain, tradeFee)
  BY DEF Trade!preciseMul, preciseMul
<1>4. /\ gain >= 0 /\ held' = after
      /\ hasSufficientDefaultUnits(p, send, unit)
      /\ totalSend <= held[send]
      /\ after[send] <= held[send] /\ after[receive] >= held[receive]
      /\ Trade!_updateSetTokenPositionsOk(send, receive, after[send], after[receive])
      /\ positions' = Trade!updatedPositions(send, receive, after[send], after[receive])
      /\ totalSupply' = S /\ balances' = balances
  BY <1>3, TradeUnits
  DEF Trade!trade, Trade!exchanged, Trade!getDefaultTotalNotional,
      Trade!hasSufficientDefaultUnits, hasSufficientDefaultUnits
<1>5. /\ calculateAndEditDefaultPositionOk(p, send, S, held[send], after[send])
      /\ calculateAndEditDefaultPositionOk(p1, receive, S, held[receive], after[receive])
      /\ positions' = p2
  BY <1>4, TradeRecalculates DEF Trade!_updateSetTokenPositionsOk, Trade!updatedPositions
<1> HIDE DEF send, receive, p1, p2
<1>6. /\ held' \in [Component -> Nat]
      /\ \A c \in Component \ {send, receive} : held'[c] = held[c]
      /\ send # receive => held'[send] = held[send] - totalSend
  <2>1. totalSend \in Nat  BY <1>1, <1>2, PreciseMulBound
  <2>2. /\ gain >= 0 /\ after[receive] >= held[receive] /\ held' = after
        /\ totalSend <= held[send]
    BY <1>4
  <2>3. /\ held[send] \in Nat /\ held[receive] \in Nat
    BY <1>1, <1>2
  <2> HIDE DEF totalSend
  <2>4. /\ traded \in [Component -> Int]
        /\ \A c \in Component \ {send, receive} : traded[c] = held[c]
        /\ send # receive => traded[send] = held[send] - totalSend
    BY <1>1, <1>2, <2>1
  <2> HIDE DEF traded
  <2>5. gain \in Nat  BY <1>1, <2>2, <2>3, <2>4
  <2>6. preciseMul(gain, tradeFee) \in Nat  BY <1>1, <2>5, PreciseMulBound
  <2> HIDE DEF gain
  <2>7. /\ after \in [Component -> Int]
        /\ \A c \in Component : c # receive => after[c] = traded[c]
    BY <1>1, <2>4, <2>6
  <2> HIDE DEF after
  <2>8. after[receive] >= 0  BY <2>2, <2>3, <1>1, <2>7
  <2>9. send # receive => after[send] = held[send] - totalSend
    BY <1>1, <2>4, <2>7
  <2>10. \A c \in Component \ {send, receive} : after[c] = held[c]
    BY <2>4, <2>7
  <2>11. \A c \in Component : after[c] \in Nat
    <3> SUFFICES ASSUME NEW c \in Component PROVE after[c] >= 0
      BY <2>7
    <3>1. CASE c = receive  BY <2>8, <3>1
    <3>2. CASE c = send /\ c # receive  BY <2>1, <2>2, <2>3, <2>9, <3>2
    <3>3. CASE c # send /\ c # receive  BY <1>2, <2>10, <3>3
    <3>4. QED  BY <3>1, <3>2, <3>3
  <2>12. QED  BY <2>2, <2>7, <2>9, <2>10, <2>11
<1> HIDE DEF after
<1>7. /\ after[send] \in Nat /\ after[receive] \in Nat
      /\ held[send] \in Nat /\ held[receive] \in Nat
  BY <1>1, <1>2, <1>4, <1>6
<1>8. after[send] = 0 => held[send] * P <= S * getDefaultPositionRealUnit(p, send)
  <2> DEFINE r == getDefaultPositionRealUnit(p, send)
  <2>1. r \in Nat /\ unit <= r
    <3>1. BookInv(p) /\ Listed(p)  BY <1>2 DEF PositionsInv
    <3>2. QED  BY <1>1, <1>4, <3>1, UnitsRead DEF hasSufficientDefaultUnits
  <2>2. totalSend \in Nat /\ totalSend * P <= S * unit
    BY <1>1, <1>2, PreciseMulBound
  <2> HIDE DEF r, totalSend
  <2>3. S * unit <= S * r /\ S * unit \in Int /\ S * r \in Int /\ 0 <= S * r
    BY <1>1, <1>2, <2>1
  <2>4. totalSend * P \in Int /\ totalSend * P <= S * r
    BY <1>1, <2>2, <2>3
  <2>5. ASSUME after[send] = 0, send = receive PROVE held[send] = 0
    BY <1>4, <1>7, <2>5
  <2>6. ASSUME after[send] = 0, send # receive PROVE held[send] = totalSend
    BY <1>4, <1>6, <1>7, <2>2, <2>6
  <2>7. CASE send = receive
    <3>1. 0 * P = 0  BY <1>1
    <3>2. QED  BY <2>3, <2>5, <2>7, <3>1 DEF r
  <2>8. CASE send # receive  BY <2>4, <2>6, <2>8 DEF r
  <2>9. QED  BY <2>7, <2>8
<1>9. Recalculated(p, send, S, held[send], after[send], p1)
  <2>1. calculateAndEditDefaultPositionOk(p, send, S, held[send], after[send])
    BY <1>5
  <2>2. QED  BY <1>1, <1>2, <1>7, <1>8, <2>1, RecalculationReads DEF p1
<1>10. Recalculated(p1, receive, S, held[receive], after[receive], p2)
  <2>1. calculateAndEditDefaultPositionOk(p1, receive, S, held[receive], after[receive])
    BY <1>5
  <2>2. PositionsInv(p1)  BY <1>9 DEF Recalculated
  <2>3. after[receive] = 0 =>
          held[receive] * P <= S * getDefaultPositionRealUnit(p1, receive)
    <3> DEFINE r == getDefaultPositionRealUnit(p1, receive)
    <3>1. r \in Nat  BY <1>1, <2>2, UnitsRead DEF PositionsInv
    <3> HIDE DEF r
    <3>2. S * r >= 0 /\ 0 * P = 0  BY <1>1, <1>2, <3>1
    <3>3. after[receive] = 0 => held[receive] = 0  BY <1>4, <1>7
    <3>4. QED  BY <3>2, <3>3 DEF r
  <2>4. QED  BY <1>1, <1>2, <1>7, <2>1, <2>2, <2>3, RecalculationReads DEF p2
<1>11. /\ PositionsInv(p2) /\ p2.positionMultiplier = p.positionMultiplier
       /\ p2.externalPositionModules = p.externalPositionModules
       /\ \A d \in Component : stakedUnit(p2, d) = stakedUnit(p, d)
  BY <1>9, <1>10 DEF Recalculated
<1>12. ASSUME NEW q, PositionsInv(q), NEW d \in Component
       PROVE  getDefaultPositionRealUnit(q, d) \in Nat /\ stakedUnit(q, d) \in Int
  BY <1>1, <1>12, UnitsRead DEF PositionsInv, stakedUnit
<1>13. ASSUME NEW d \in Component
       PROVE  /\ totalDeficit(d) \in Int /\ totalDeficit(d)' \in Int
              /\ totalDeficit(d)' <= totalDeficit(d)
  <2> DEFINE r == getDefaultPositionRealUnit(p, d)
             r1 == getDefaultPositionRealUnit(p1, d)
             r2 == getDefaultPositionRealUnit(p2, d)
             y == stakedUnit(p, d)
             k == recorded(staked, d)
             h == held[d]
             h1 == after[d]
  <2>1. /\ r \in Nat /\ r1 \in Nat /\ r2 \in Nat /\ y \in Int /\ k \in Nat
        /\ h \in Nat /\ h1 \in Nat /\ stakedUnit(p2, d) = y
    BY <1>2, <1>4, <1>6, <1>9, <1>11, <1>12, ComponentReads DEF Recalculated
  <2>2. S * r2 - h1 * P <= S * r - h * P
    <3>1. d # send => r1 = r  BY <1>9 DEF Recalculated
    <3>2. d # receive => r2 = r1  BY <1>10 DEF Recalculated
    <3>3. d = send => S * r1 - h1 * P <= S * r - h * P
      BY <1>9 DEF Recalculated
    <3>4. d = receive => S * r2 - h1 * P <= S * r1 - h * P
      BY <1>10 DEF Recalculated
    <3>5. d # send /\ d # receive => h1 = h  BY <1>4, <1>6
    <3>6. d = send /\ d = receive => h1 = h
      <4>1. d = send /\ d = receive => h1 <= h /\ h1 >= h  BY <1>4
      <4> HIDE DEF h, h1
      <4>2. QED  BY <2>1, <4>1
    <3> HIDE DEF r, r1, r2, h, h1, S, P, p
    <3>7. S \in Nat /\ P \in Nat  BY <1>1, <1>2
    <3>8. /\ S * r2 \in Int /\ S * r1 \in Int /\ S * r \in Int
          /\ h1 * P \in Int /\ h * P \in Int
      BY <2>1, <3>7
    <3>9. CASE d # send /\ d # receive  BY <3>1, <3>2, <3>5, <3>8, <3>9
    <3>10. CASE d = send /\ d # receive  BY <3>2, <3>3, <3>8, <3>10
    <3>11. CASE d # send /\ d = receive  BY <3>1, <3>4, <3>8, <3>11
    <3>12. CASE d = send /\ d = receive  BY <3>3, <3>4, <3>6, <3>8, <3>12
    <3>13. QED  BY <3>9, <3>10, <3>11, <3>12
  <2>3. /\ totalDeficit(d) = S * (r + y) - (h + k) * P
        /\ totalDeficit(d)' = S * (r2 + y) - (h1 + k) * P
    BY <1>4, <1>5, <2>1, DeficitIsShort DEF shortOf, stakingVars, recorded
  <2> HIDE DEF r, r1, r2, y, k, h, h1, S, P, p
  <2>4. S \in Nat /\ P \in Nat  BY <1>1, <1>2
  <2>5. /\ S * (r + y) = S * r + S * y /\ S * (r2 + y) = S * r2 + S * y
        /\ (h + k) * P = h * P + k * P /\ (h1 + k) * P = h1 * P + k * P
        /\ S * r \in Int /\ S * r2 \in Int /\ S * y \in Int
        /\ h * P \in Int /\ h1 * P \in Int /\ k * P \in Int
    BY <2>1, <2>4
  <2>6. QED  BY <2>2, <2>3, <2>5
<1>14. /\ positions' = p2 /\ totalSupply' = S /\ balances' = balances
       /\ staked' = staked /\ componentPositionUnits' = componentPositionUnits
       /\ stakingState' = stakingState /\ roundings' = roundings
       /\ held' \in [Component -> Nat]
  BY <1>4, <1>5, <1>6 DEF stakingVars
<1>15. /\ PositionsInv(positions') /\ totalSupply' \in Nat
       /\ balances' \in [Account -> Nat] /\ staked' \in PerContract
  BY <1>2, <1>11, <1>14
<1>16. Matches(positions', componentPositionUnits')
  BY <1>2, <1>11, <1>14 DEF Matches
<1>17. ShortByDust(positions', totalSupply', componentPositionUnits', staked', roundings')
  BY <1>2, <1>11, <1>14 DEF ShortByDust
<1>18. LeavesNone(positions', componentPositionUnits', stakingState')
  BY <1>2, <1>11, <1>14 DEF LeavesNone
<1>19. \A d \in Component :
         totalDeficit(d)' <= IF totalDeficit(d) > 0 THEN totalDeficit(d) ELSE 0
  BY <1>13
<1>20. QED  BY <1>14, <1>15, <1>16, <1>17, <1>18, <1>19 DEF Kept

-----------------------------------------------------------------------------
(* Fees, and the module on the SetToken. *)

\* Steps that leave the vault and the records.
LEMMA StillKept ==
  ASSUME StakingInv,
         UNCHANGED <<vault, stakingContracts, componentPositionUnits, staked, roundings>>,
         LeavesNone(positions, componentPositionUnits, stakingState')
  PROVE  Kept
<1>1. /\ positions' = positions /\ totalSupply' = totalSupply
      /\ balances' = balances /\ held' = held /\ staked' = staked
      /\ componentPositionUnits' = componentPositionUnits /\ roundings' = roundings
  BY DEF vault
<1>2. /\ PositionsInv(positions') /\ totalSupply' \in Nat
      /\ balances' \in [Account -> Nat] /\ held' \in [Component -> Nat]
      /\ staked' \in PerContract
      /\ Matches(positions', componentPositionUnits')
      /\ ShortByDust(positions', totalSupply', componentPositionUnits', staked', roundings')
      /\ LeavesNone(positions', componentPositionUnits', stakingState')
  BY <1>1 DEF StakingInv, TypeOK, VaultTypeOK, StakingTypeOK
<1>3. ASSUME NEW c \in Component
      PROVE  totalDeficit(c)' <= IF totalDeficit(c) > 0 THEN totalDeficit(c) ELSE 0
  <2>1. totalDeficit(c)' = totalDeficit(c)
    BY <1>1, DeficitIsShort DEF recorded
  <2>2. totalDeficit(c) \in Int
    <3> DEFINE S == totalSupply
               b == getDefaultPositionRealUnit(positions, c) + stakedUnit(positions, c)
               t == held[c] + recorded(staked, c)
    <3>1. S \in Nat /\ b \in Int /\ t \in Int
      BY ComponentReads DEF StakingInv, TypeOK, VaultTypeOK
    <3>2. totalDeficit(c) = S * b - t * PRECISE_UNIT
      BY DeficitIsShort DEF shortOf
    <3> HIDE DEF S, b, t
    <3>3. S * b \in Int /\ t * PRECISE_UNIT \in Int  BY <3>1, PreciseUnitAssumption
    <3>4. QED  BY <3>2, <3>3
  <2>3. QED  BY <2>1, <2>2
<1>4. QED  BY <1>2, <1>3 DEF Kept

\* What a fee step leaves of its own state.
FeeKept ==
  Fee!FeeTypeOK' /\ feeStates'.lastStreamingFeeTimestamp <= blockTimestamp'

\* An accrual lowers the multiplier, or mints nothing and leaves it.
LEMMA AccrualKept ==
  ASSUME StakingInv, Fee!accrueFee, UNCHANGED <<stakingVars, roundings>>
  PROVE  Kept /\ FeeKept
<1> DEFINE p == positions
           S == totalSupply
           P == PRECISE_UNIT
           m == positions.positionMultiplier
           fee == Fee!_calculateStreamingFee
           minted == (fee * S) \div (P - fee)
           n == preciseMulSigned(m, P - fee)
           e == editPositionMultiplier(p, n)
<1>1. /\ P \in Nat \ {0} /\ S \in Nat /\ m \in Nat \ {0} /\ m <= P
      /\ BookInv(p) /\ Listed(p) /\ p \in PositionState
      /\ \A d \in Component, k \in PositionModule : k # STK => p.externalUnit[d][k] = 0
      /\ balances \in [Account -> Nat] /\ held \in [Component -> Nat]
      /\ staked \in PerContract
      /\ Fee!FeeTypeOK /\ feeStates.lastStreamingFeeTimestamp <= blockTimestamp
      /\ Matches(p, componentPositionUnits)
      /\ LeavesNone(p, componentPositionUnits, stakingState)
      /\ protocolRecipient \in Account /\ protocolFee \in 0 .. P
      /\ ONE_YEAR_IN_SECONDS \in Nat \ {0}
  BY PreciseUnitAssumption, StakingSetAssumption
  DEF StakingInv, TypeOK, VaultTypeOK, StakingTypeOK, PositionsInv, BookInv, PositionState
<1>2. /\ Fee!_accrue /\ held' = held
      /\ feeStates' = [feeStates EXCEPT !.lastStreamingFeeTimestamp = blockTimestamp]
      /\ moduleState' = moduleState /\ blockTimestamp' = blockTimestamp
      /\ staked' = staked /\ componentPositionUnits' = componentPositionUnits
      /\ stakingState' = stakingState /\ stakingContracts' = stakingContracts
      /\ roundings' = roundings
  BY DEF Fee!accrueFee, stakingVars
<1>3. FeeKept
  BY <1>1, <1>2 DEF FeeKept, Fee!FeeTypeOK, Fee!FeeState
<1>4. CASE ~(feeStates.streamingFeePercentage > 0)
  <2>1. UNCHANGED <<positions, totalSupply, balances>>
    BY <1>2, <1>4 DEF Fee!_accrue
  <2>2. UNCHANGED vault  BY <1>2, <2>1 DEF vault
  <2>3. LeavesNone(positions, componentPositionUnits, stakingState')
    BY <1>1, <1>2
  <2>4. Kept  BY <1>2, <2>2, <2>3, StillKept
  <2>5. QED  BY <1>3, <2>4
<1>5. CASE feeStates.streamingFeePercentage > 0
  <2>1. fee \in Nat
    <3> DEFINE time == blockTimestamp - feeStates.lastStreamingFeeTimestamp
               rate == feeStates.streamingFeePercentage
    <3>1. time \in Nat /\ rate \in Nat
      BY <1>1 DEF Fee!FeeTypeOK, Fee!FeeState
    <3> HIDE DEF time, rate
    <3>2. time * rate \in Nat  BY <3>1
    <3> DEFINE x == time * rate
    <3> HIDE DEF x
    <3>3. x \div ONE_YEAR_IN_SECONDS \in Nat  BY <1>1, <3>2, NatDivBounds DEF x
    <3>4. QED  BY <3>3 DEF Fee!_calculateStreamingFee, x, time, rate
  <2>2. /\ fee < P
        /\ Fee!_mintManagerAndProtocolFee(minted)
        /\ _validateNewMultiplier(p, n) /\ positions' = e
    <3>1. Fee!_calculateStreamingFeeInflation(fee) = minted
      BY DEF Fee!_calculateStreamingFeeInflation
    <3>2. Fee!newMultiplier(fee) = n  BY FeeUnits
    <3>3. QED  BY <1>2, <1>5, <3>1, <3>2, FeeUnits DEF Fee!_accrue
  <2> HIDE DEF fee
  <2>3. /\ minted \in Nat /\ n \in Nat
        /\ fee = 0 => minted = 0 /\ n = m
        /\ fee # 0 => n < m
    BY <1>1, <2>1, <2>2, InflationBounds
  <2> HIDE DEF minted
  <2> DEFINE part == preciseMul(minted, protocolFee)
             paid == [balances EXCEPT ![feeStates.feeRecipient] = @ + (minted - part)]
  <2>4. part \in Nat /\ part <= minted  BY <1>1, <2>3, ShareBound
  <2>5. /\ totalSupply' = S + minted
        /\ balances' = [paid EXCEPT ![protocolRecipient] = @ + part]
    BY <2>2 DEF Fee!_mintManagerAndProtocolFee, Fee!preciseMul, preciseMul
  <2> HIDE DEF part
  <2>6. paid \in [Account -> Nat]
    <3>1. feeStates.feeRecipient \in Account
      BY <1>1 DEF Fee!FeeTypeOK, Fee!FeeState
    <3>2. minted - part \in Nat  BY <2>3, <2>4
    <3>3. QED  BY <1>1, <3>1, <3>2
  <2> HIDE DEF paid
  <2>7. totalSupply' \in Nat /\ balances' \in [Account -> Nat]
    BY <1>1, <2>3, <2>4, <2>5, <2>6
  <2>8. CASE fee = 0
    <3>1. minted = 0 /\ n = m  BY <2>3, <2>8
    <3> HIDE DEF n
    <3>2. e = p
      BY <1>1, <3>1 DEF editPositionMultiplier, PositionState
    <3>3. part = 0  BY <2>4, <3>1
    <3>4. paid = balances
      <4>1. \A y \in Nat : y + (0 - 0) = y  OBVIOUS
      <4>2. feeStates.feeRecipient \in Account
        BY <1>1 DEF Fee!FeeTypeOK, Fee!FeeState
      <4>3. QED  BY <1>1, <3>1, <3>3, <4>1, <4>2 DEF paid
    <3>5. balances' = balances /\ totalSupply' = totalSupply
      BY <1>1, <2>5, <3>1, <3>3, <3>4
    <3>6. UNCHANGED vault  BY <1>2, <2>2, <3>2, <3>5 DEF vault
    <3>7. LeavesNone(positions, componentPositionUnits, stakingState')
      BY <1>1, <1>2
    <3>8. Kept  BY <1>2, <3>6, <3>7, StillKept
    <3>9. QED  BY <1>3, <3>8
  <2>9. CASE fee # 0
    <3>1. n < m  BY <2>3, <2>9
    <3> HIDE DEF n
    <3>2. n \in Int /\ n <= p.positionMultiplier  BY <1>1, <2>3, <3>1
    <3>3. /\ BookInv(e) /\ Listed(e)
          /\ \A c \in Component, k \in PositionModule :
               \/ getExternalPositionRealUnit(e, c, k)
                    <= getExternalPositionRealUnit(p, c, k)
               \/ getExternalPositionRealUnit(e, c, k) <= 0
      BY <1>1, <2>2, <3>2, RepricingReads
    <3>4. e.positionMultiplier = n /\ e.externalUnit = p.externalUnit
      BY <1>1 DEF editPositionMultiplier, PositionState
    <3> HIDE DEF e
    <3>5. n # P /\ n <= P /\ n # m  BY <1>1, <2>3, <3>1
    <3>6. PositionsInv(e)  BY <1>1, <3>3, <3>4, <3>5 DEF PositionsInv
    <3>7. Matches(e, componentPositionUnits)
      <4> SUFFICES ASSUME NEW c \in Component
                   PROVE  stakedUnit(e, c) <= recorded(componentPositionUnits, c)
        BY <3>4, <3>5 DEF Matches
      <4>1. \/ stakedUnit(e, c) <= stakedUnit(p, c) \/ stakedUnit(e, c) <= 0
        BY <3>3, StakingAssumption DEF stakedUnit
      <4>2. /\ stakedUnit(p, c) \in Int /\ recorded(componentPositionUnits, c) \in Nat
        BY ComponentReads
      <4>3. stakedUnit(p, c) <= recorded(componentPositionUnits, c)
        BY <1>1 DEF Matches
      <4>4. stakedUnit(e, c) \in Int
        BY <3>3, StakingAssumption, UnitsRead DEF stakedUnit
      <4>5. QED  BY <4>1, <4>2, <4>3, <4>4
    <3>8. positions' = e /\ positions'.positionMultiplier # P
          /\ positions'.positionMultiplier # positions.positionMultiplier
      BY <2>2, <3>4, <3>5
    <3>9. /\ PositionsInv(positions') /\ Matches(positions', componentPositionUnits')
          /\ staked' \in PerContract /\ held' \in [Component -> Nat]
      BY <1>1, <1>2, <3>6, <3>7, <3>8
    <3>10. /\ ShortByDust(positions', totalSupply', componentPositionUnits', staked', roundings')
           /\ LeavesNone(positions', componentPositionUnits', stakingState')
      BY <3>8 DEF ShortByDust, LeavesNone
    <3>11. Kept  BY <2>7, <3>8, <3>9, <3>10 DEF Kept
    <3>12. QED  BY <1>3, <3>11
  <2>10. QED  BY <2>8, <2>9
<1>6. QED  BY <1>4, <1>5

\* The other fee steps.
LEMMA FeeStepKept ==
  ASSUME StakingInv, FeeStep, UNCHANGED <<stakingVars, roundings>>
  PROVE  Kept /\ FeeKept
<1>1. /\ Fee!FeeTypeOK /\ feeStates.lastStreamingFeeTimestamp <= blockTimestamp
      /\ LeavesNone(positions, componentPositionUnits, stakingState)
      /\ PRECISE_UNIT \in Nat
  BY PreciseUnitAssumption DEF StakingInv, TypeOK
<1>2. CASE Fee!accrueFee  BY <1>2, AccrualKept
<1>3. ASSUME UNCHANGED vault PROVE Kept
  BY <1>1, <1>3, StillKept DEF stakingVars
<1>4. CASE Fee!tick
  <2>1. UNCHANGED vault
    BY <1>4 DEF Fee!tick, Fee!vault, vault
  <2>2. /\ blockTimestamp' = blockTimestamp + 1
        /\ moduleState' = moduleState /\ feeStates' = feeStates
    BY <1>4 DEF Fee!tick
  <2>3. FeeKept  BY <1>1, <2>2 DEF FeeKept, Fee!FeeTypeOK, Fee!FeeState
  <2>4. QED  BY <1>3, <2>1, <2>3
<1>5. ASSUME NEW a \in Account, NEW f \in FeePercentages, Fee!initialize(a, f, f)
      PROVE  Kept /\ FeeKept
  <2>1. UNCHANGED vault
    BY <1>5 DEF Fee!initialize, Fee!vault, vault
  <2>2. f \in Nat  BY StakingSetAssumption
  <2>3. f \in 0 .. PRECISE_UNIT - 1  BY <1>1, <1>5, <2>2 DEF Fee!initialize
  <2>4. /\ blockTimestamp' = blockTimestamp /\ moduleState' = "INITIALIZED"
        /\ feeStates' = [feeRecipient              |-> a,
                         maxStreamingFeePercentage |-> f,
                         streamingFeePercentage    |-> f,
                         lastStreamingFeeTimestamp |-> blockTimestamp]
    BY <1>5 DEF Fee!initialize
  <2>5. FeeKept  BY <1>1, <2>2, <2>3, <2>4 DEF FeeKept, Fee!FeeTypeOK, Fee!FeeState
  <2>6. QED  BY <1>3, <2>1, <2>5
<1>6. QED  BY <1>2, <1>4, <1>5 DEF FeeStep

\* Removing the module while no listed component has a contract leaves no position
\* behind: an unlisted one has no external position, hence nothing on record.
LEMMA RemoveKept ==
  ASSUME StakingInv, removeModule
  PROVE  LeavesNone(positions, componentPositionUnits, "NONE")
<1> SUFFICES ASSUME unscaled, NEW c \in Component
             PROVE  /\ \A s \in StakingContract : componentPositionUnits[c][s] = 0
                    /\ positions.externalPositionModules[c] = << >>
  BY DEF LeavesNone, unscaled
<1> DEFINE p == positions
           u == componentPositionUnits[c]
           list == p.externalPositionModules[c]
<1>1. /\ BookInv(p) /\ Listed(p) /\ STK \in PositionModule
      /\ \A m \in PositionModule : m # STK => p.externalUnit[c][m] = 0
      /\ IsFiniteSet(StakingContract) /\ RecordsInv
      /\ u \in [StakingContract -> Nat]
      /\ stakedUnit(p, c) = recorded(componentPositionUnits, c)
  BY StakingAssumption
  DEF StakingInv, PositionsInv, TypeOK, StakingTypeOK, PerContract, Matches, unscaled
<1>2. list \in Seq(PositionModule)
  BY <1>1 DEF BookInv, PositionState
<1>3. stakedUnit(p, c) = p.externalUnit[c][STK]
  BY <1>1, UnitsRead DEF stakedUnit, unscaled
<1>4. ToSet(list) = IF p.externalUnit[c][STK] = 0 THEN {} ELSE {STK}
  BY <1>1, TotalOfOne
<1>5. CASE c \in components
  <2>1. stakingContracts[c] = << >>  BY <1>5 DEF removeModule
  <2>2. \A s \in StakingContract : ~contains(stakingContracts[c], s)
    BY <2>1 DEF contains
  <2>3. \A s \in StakingContract : u[s] = 0
    BY <1>1, <2>2 DEF RecordsInv, RecordOf
  <2>4. recorded(componentPositionUnits, c) = 0
    <3> HIDE DEF u
    <3>1. sumOver(u, StakingContract) = 0  BY <1>1, <2>3, SumOfZeros
    <3>2. QED  BY <3>1 DEF recorded, u
  <2>5. ToSet(list) = {}  BY <1>1, <1>3, <1>4, <2>4
  <2>6. list = << >>
    <3> HIDE DEF list
    <3>1. \A i \in 1 .. Len(list) : list[i] \in ToSet(list)
      BY <1>2 DEF ToSet
    <3>2. Len(list) = 0  BY <1>2, <2>5, <3>1
    <3>3. QED  BY <1>2, <3>2
  <2>7. QED  BY <2>3, <2>6
<1>6. CASE c \notin components
  <2>1. list = << >>
    BY <1>1, <1>6, ContainsIsMembership DEF Listed, isComponent, components
  <2>2. hookModules(c) = {}  BY <2>1 DEF hookModules, ToSet
  <2>3. stakedUnit(p, c) = 0  BY <2>2, ComponentReads
  <2>4. \A s \in StakingContract :
          u[s] \in Nat /\ u[s] <= recorded(componentPositionUnits, c)
    BY ComponentReads
  <2>5. \A s \in StakingContract : u[s] = 0
    BY <1>1, <2>3, <2>4
  <2>6. QED  BY <2>1, <2>5
<1>7. QED  BY <1>5, <1>6

\* The steps of the module's registration.
LEMMA ModuleStepKept ==
  ASSUME StakingInv, initialize \/ removeModule \/ addModule,
         roundings' = roundings
  PROVE  Kept
<1>1. LeavesNone(positions, componentPositionUnits, stakingState')
  <2>1. CASE initialize
    <3>1. stakingState' = "INITIALIZED"  BY <2>1 DEF initialize
    <3>2. QED  BY <3>1 DEF LeavesNone
  <2>2. CASE removeModule
    <3>1. stakingState' = "NONE"  BY <2>2 DEF removeModule
    <3>2. QED  BY <2>2, <3>1, RemoveKept
  <2>3. CASE addModule
    <3>1. stakingState = "NONE" /\ LeavesNone(positions, componentPositionUnits, stakingState)
      BY <2>3 DEF addModule, StakingInv
    <3>2. QED  BY <3>1 DEF LeavesNone
  <2>4. QED  BY <2>1, <2>2, <2>3
<1>2. UNCHANGED <<vault, stakingContracts, componentPositionUnits, staked>>
  BY DEF initialize, removeModule, addModule
<1>3. QED  BY <1>1, <1>2, StillKept

-----------------------------------------------------------------------------
(* The inductive invariant. *)

\* A new SetToken satisfies it.
LEMMA InitIsKept == Init => StakingInv
<1> SUFFICES ASSUME Init PROVE StakingInv
  OBVIOUS
<1> DEFINE s == SetToSeq(DOMAIN InitialUnits)
           U == [i \in DOMAIN s |-> InitialUnits[s[i]]]
           p == newPositions(s, U)
           P == PRECISE_UNIT
           none == << >>
           zero == [k \in StakingContract |-> 0]
<1>1. /\ P \in Nat \ {0} /\ STK \in PositionModule /\ IsFiniteSet(StakingContract)
      /\ protocolRecipient \in Account /\ MaxRoundings \in Nat
  BY PreciseUnitAssumption, StakingAssumption, StakingSetAssumption
<1>2. /\ s \in Seq(Component) /\ IsInjective(s)
      /\ \A i \in DOMAIN s : s[i] \in DOMAIN InitialUnits
  BY EnumerationIsDistinct, StakingSetAssumption
<1>3. /\ positions = p /\ totalSupply = 0 /\ balances = [a \in Account |-> 0]
      /\ held = [c \in Component |-> 0]
      /\ stakingState = "PENDING" /\ stakingContracts = [c \in Component |-> none]
      /\ componentPositionUnits = [c \in Component |-> zero]
      /\ staked = [c \in Component |-> zero]
      /\ moduleState = "PENDING" /\ feeStates = Fee!NoFeeState(protocolRecipient)
      /\ blockTimestamp = 0 /\ roundings = 0
  BY DEF Init, VaultInit, StakingInit, Fee!FeeInit
<1> HIDE DEF s
<1>4. \A i \in DOMAIN s : U[i] \in Nat
  BY <1>2, StakingSetAssumption
<1>5. \A c \in Component : contains(s, c) => U[indexOf(s, c)] \in Nat
  <2> SUFFICES ASSUME NEW c \in Component, contains(s, c)
               PROVE  U[indexOf(s, c)] \in Nat
    OBVIOUS
  <2>1. indexOf(s, c) \in 1 .. Len(s)  BY <1>2, IndexOfFinds
  <2>2. indexOf(s, c) \in DOMAIN s  BY <1>2, <2>1
  <2> HIDE DEF U
  <2>3. QED  BY <1>4, <2>2
<1> HIDE DEF U
<1>6. BookInv(p)
  <2>1. \A c \in Component : contains(s, c) => U[indexOf(s, c)] \in Int
    BY <1>5
  <2>2. QED  BY <1>2, <2>1, NewKeepsBook
<1>7. /\ p.components = s
      /\ \A c \in Component :
           /\ p.virtualUnit[c] = IF contains(s, c) THEN U[indexOf(s, c)] ELSE 0
           /\ p.externalPositionModules[c] = none
           /\ \A m \in PositionModule : p.externalUnit[c][m] = 0
      /\ p.positionMultiplier = P
  BY DEF newPositions
<1> HIDE DEF p, none
<1>8. Listed(p)
  <2> SUFFICES ASSUME NEW c \in Component
               PROVE  /\ p.virtualUnit[c] >= 0
                      /\ isComponent(p, c) \/ /\ getDefaultPositionRealUnit(p, c) = 0
                                              /\ p.externalPositionModules[c] = << >>
    BY DEF Listed
  <2>1. CASE contains(s, c)
    <3>1. p.virtualUnit[c] \in Nat  BY <1>5, <1>7, <2>1
    <3>2. QED  BY <1>7, <2>1, <3>1 DEF isComponent
  <2>2. CASE ~contains(s, c)
    <3>1. p.virtualUnit[c] = 0 /\ p.externalPositionModules[c] = << >>
      BY <1>7, <2>2 DEF none
    <3>2. getDefaultPositionRealUnit(p, c) = 0
      BY <1>1, <1>7, <3>1, UnitReads
      DEF getDefaultPositionRealUnit, _convertVirtualToRealUnit
    <3>3. QED  BY <3>1, <3>2
  <2>3. QED  BY <2>1, <2>2
<1>9. PositionsInv(p)
  BY <1>1, <1>6, <1>7, <1>8 DEF PositionsInv
<1>10. \A c \in Component : stakedUnit(p, c) = 0
  BY <1>1, <1>6, <1>7, UnitsRead DEF stakedUnit
<1>11. \A c \in Component : recorded(componentPositionUnits, c) = 0
  <2>1. \A k \in StakingContract : zero[k] = 0  OBVIOUS
  <2> HIDE DEF zero
  <2>2. sumOver(zero, StakingContract) = 0  BY <1>1, <2>1, SumOfZeros
  <2>3. QED  BY <1>3, <2>2 DEF recorded
<1>12. Matches(positions, componentPositionUnits)
  <2> SUFFICES ASSUME NEW c \in Component
               PROVE  /\ stakedUnit(positions, c) <= recorded(componentPositionUnits, c)
                      /\ stakedUnit(positions, c) = recorded(componentPositionUnits, c)
    BY DEF Matches
  <2>1. stakedUnit(positions, c) = 0 /\ recorded(componentPositionUnits, c) = 0
    BY <1>3, <1>10, <1>11
  <2>2. QED  BY <2>1
<1>13. ShortByDust(positions, totalSupply, componentPositionUnits, staked, roundings)
  <2> SUFFICES ASSUME NEW c \in Component, NEW k \in StakingContract
               PROVE  totalSupply * componentPositionUnits[c][k] - staked[c][k] * P
                        <= roundings * (P - 1)
    BY DEF ShortByDust
  <2>1. /\ componentPositionUnits[c][k] = 0 /\ staked[c][k] = 0
        /\ totalSupply = 0 /\ roundings = 0
    BY <1>3
  <2>2. 0 * 0 - 0 * P <= 0 * (P - 1)  BY <1>1
  <2>3. QED  BY <2>1, <2>2
<1>14. LeavesNone(positions, componentPositionUnits, stakingState)
  BY <1>3, <1>7 DEF LeavesNone, none
<1>15. TypeOK
  <2>1. VaultTypeOK
    BY <1>3, <1>6 DEF VaultTypeOK, BookInv
  <2>2. StakingTypeOK
    BY <1>3 DEF StakingTypeOK, PerContract, none
  <2>3. Fee!FeeTypeOK
    BY <1>1, <1>3 DEF Fee!FeeTypeOK, Fee!FeeState, Fee!NoFeeState
  <2>4. QED  BY <1>1, <1>3, <2>1, <2>2, <2>3 DEF TypeOK
<1>16. feeStates.lastStreamingFeeTimestamp <= blockTimestamp
  BY <1>3 DEF Fee!NoFeeState
<1>17. RecordsInv  BY InitEstablishes
<1>18. QED
  BY <1>3, <1>9, <1>12, <1>13, <1>14, <1>15, <1>16, <1>17 DEF StakingInv

\* Every step keeps it.
LEMMA StepKept ==
  ASSUME StakingInv, Next
  PROVE  /\ Kept /\ FeeKept
         /\ roundings' \in 0 .. MaxRoundings
         /\ stakingState' \in {"NONE", "PENDING", "INITIALIZED"}
<1>1. /\ Fee!FeeTypeOK /\ feeStates.lastStreamingFeeTimestamp <= blockTimestamp
      /\ roundings \in 0 .. MaxRoundings
      /\ stakingState \in {"NONE", "PENDING", "INITIALIZED"}
      /\ MaxRoundings \in Nat
  BY StakingSetAssumption DEF StakingInv, TypeOK, StakingTypeOK
<1>2. ASSUME UNCHANGED feeVars PROVE FeeKept
  <2>1. moduleState' = moduleState /\ feeStates' = feeStates /\ blockTimestamp' = blockTimestamp
    BY <1>2 DEF feeVars
  <2>2. QED  BY <1>1, <2>1 DEF FeeKept, Fee!FeeTypeOK
<1>3. ASSUME RoundingStep, roundings < MaxRoundings, roundings' = roundings + 1,
             UNCHANGED feeVars
      PROVE  /\ Kept /\ FeeKept
             /\ roundings' \in 0 .. MaxRoundings
             /\ stakingState' \in {"NONE", "PENDING", "INITIALIZED"}
  <2>1. roundings' \in 0 .. MaxRoundings  BY <1>1, <1>3
  <2>2. ASSUME NEW a \in Account, NEW q \in Quantity, issue(a, q)
        PROVE  Kept /\ stakingState' = stakingState
    BY <1>3, <2>2, IssueKept DEF issue
  <2>3. ASSUME NEW c \in Component, NEW s \in StakingContract, NEW u \in StakedUnits,
               stake(c, s, u)
        PROVE  Kept /\ stakingState' = stakingState
    BY <1>3, <2>3, StakeKept DEF stake
  <2>4. Kept /\ stakingState' = stakingState
    BY <1>3, <2>2, <2>3 DEF RoundingStep
  <2>5. QED  BY <1>1, <1>2, <1>3, <2>1, <2>4
<1>4. ASSUME StakingStep, UNCHANGED <<feeVars, roundings>>
      PROVE  /\ Kept /\ FeeKept
             /\ roundings' \in 0 .. MaxRoundings
             /\ stakingState' \in {"NONE", "PENDING", "INITIALIZED"}
  <2>1. roundings' = roundings /\ UNCHANGED feeVars  BY <1>4
  <2>2. ASSUME NEW a \in Account, NEW q \in Quantity, redeem(a, q)
        PROVE  Kept /\ stakingState' = stakingState
    BY <2>1, <2>2, RedeemKept DEF redeem
  <2>3. ASSUME NEW c \in Component, NEW s \in StakingContract, NEW u \in StakedUnits,
               unstake(c, s, u)
        PROVE  Kept /\ stakingState' = stakingState
    BY <2>1, <2>3, UnstakeKept DEF unstake
  <2>4. ASSUME initialize \/ removeModule \/ addModule
        PROVE  Kept /\ stakingState' \in {"NONE", "PENDING", "INITIALIZED"}
    BY <2>1, <2>4, ModuleStepKept DEF initialize, removeModule, addModule
  <2>5. Kept /\ stakingState' \in {"NONE", "PENDING", "INITIALIZED"}
    BY <1>1, <1>4, <2>2, <2>3, <2>4 DEF StakingStep
  <2>6. QED  BY <1>1, <1>2, <2>1, <2>5
<1>5. ASSUME TradeStep, UNCHANGED <<stakingVars, feeVars, roundings>>
      PROVE  /\ Kept /\ FeeKept
             /\ roundings' \in 0 .. MaxRoundings
             /\ stakingState' \in {"NONE", "PENDING", "INITIALIZED"}
  <2>1. /\ UNCHANGED <<stakingVars, roundings>> /\ UNCHANGED feeVars
        /\ stakingState' = stakingState /\ roundings' = roundings
    BY <1>5 DEF stakingVars
  <2>2. Kept  BY <1>5, <2>1, TradeKept DEF TradeStep
  <2>3. QED  BY <1>1, <1>2, <2>1, <2>2
<1>6. ASSUME FeeStep, UNCHANGED <<stakingVars, roundings>>
      PROVE  /\ Kept /\ FeeKept
             /\ roundings' \in 0 .. MaxRoundings
             /\ stakingState' \in {"NONE", "PENDING", "INITIALIZED"}
  <2>1. Kept /\ FeeKept  BY <1>6, FeeStepKept
  <2>2. stakingState' = stakingState /\ roundings' = roundings
    BY <1>6 DEF stakingVars
  <2>3. QED  BY <1>1, <2>1, <2>2
<1>7. QED  BY <1>3, <1>4, <1>5, <1>6 DEF Next

\* With the records of the next state it holds again.
LEMMA StakingInvPreserved == StakingInv /\ [Next]_vars => StakingInv'
<1>1. ASSUME StakingInv, Next PROVE StakingInv'
  <2>1. Kept /\ FeeKept /\ roundings' \in 0 .. MaxRoundings
        /\ stakingState' \in {"NONE", "PENDING", "INITIALIZED"}
    BY <1>1, StepKept
  <2>2. RecordsInv'
    BY <1>1, NextPreserves DEF StakingInv
  <2>3. TypeOK'
    <3>1. VaultTypeOK'
      BY <2>1 DEF Kept, VaultTypeOK, PositionsInv, BookInv
    <3>2. StakingTypeOK'
      <4>1. stakingContracts' \in [Component -> Seq(StakingContract)]
            /\ componentPositionUnits' \in PerContract
        BY <2>2 DEF RecordsInv, RecordOf, Typed, PerContract
      <4>2. QED  BY <2>1, <4>1 DEF Kept, StakingTypeOK
    <3>3. QED  BY <2>1, <3>1, <3>2 DEF FeeKept, TypeOK
  <2>4. /\ PositionsInv(positions)'
        /\ Matches(positions, componentPositionUnits)'
        /\ ShortByDust(positions, totalSupply, componentPositionUnits, staked, roundings)'
        /\ LeavesNone(positions, componentPositionUnits, stakingState)'
    BY <2>1 DEF Kept
  <2>5. QED  BY <2>1, <2>2, <2>3, <2>4 DEF FeeKept, StakingInv
<1>2. ASSUME StakingInv, UNCHANGED vars PROVE StakingInv'
  BY <1>2
  DEF StakingInv, vars, vault, stakingVars, feeVars, TypeOK, VaultTypeOK, StakingTypeOK,
      Fee!FeeTypeOK, RecordsInv, Typed
<1>3. QED  BY <1>1, <1>2

\* What is on record, staked, held and promised stays consistent: the part of it the
\* properties state depends on all of it.
THEOREM StakingInvariant == Spec => []StakingInv
BY InitIsKept, StakingInvPreserved, PTL DEF Spec

\* The types: neither the SetToken's balance nor that at a staking contract is ever
\* negative, whatever the hooks move.
THEOREM TypeCorrect == Spec => []TypeOK
<1>1. StakingInv => TypeOK  BY DEF StakingInv
<1>2. QED  BY <1>1, StakingInvariant, PTL

\* The SetToken never shows more units staked than the module has on record, and
\* exactly those while no fee was taken.
THEOREM ExternalUnitCorrect == Spec => []ExternalUnitMatchesRecords
<1>1. StakingInv => ExternalUnitMatchesRecords
  BY PartsAreProperties DEF StakingInv
<1>2. QED  BY <1>1, StakingInvariant, PTL

\* A contract is short of what its position calls for by less than one token for
\* every stake and issuance.
THEOREM DustCorrect == Spec => []StakedShortByDust
<1>1. StakingInv => StakedShortByDust  BY PartsAreProperties DEF StakingInv
<1>2. QED  BY <1>1, StakingInvariant, PTL

\* Removing the module leaves no position behind.
THEOREM RemovalCorrect == Spec => []RemovalLeavesNoPosition
<1>1. StakingInv => RemovalLeavesNoPosition  BY PartsAreProperties DEF StakingInv
<1>2. QED  BY <1>1, StakingInvariant, PTL

\* Of all steps only a fee accrual may take a component further from its backing.
THEOREM DilutionCorrect == Spec => StakingNeverDilutes
<1> DEFINE Step ==
      positions'.positionMultiplier = positions.positionMultiplier =>
        \A c \in Component :
          totalDeficit(c)' <= IF totalDeficit(c) > 0 THEN totalDeficit(c) ELSE 0
<1>1. StakingInv /\ [Next]_vars => [Step]_vars
  BY StepKept DEF Kept
<1>2. [][Step]_vars => StakingNeverDilutes  BY PTL DEF StakingNeverDilutes
<1>3. QED  BY <1>1, <1>2, StakingInvariant, PTL DEF Spec
==============================================================================
