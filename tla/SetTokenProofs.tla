---------------------------- MODULE SetTokenProofs ---------------------------
(***************************************************************************)
(* Theorems about SetToken for any modules, accounts, components, units    *)
(* and multipliers.  The inductive invariant is the conjunction of the     *)
(* type, four invariants and what holds while a module's removeModule()    *)
(* runs: none of them is inductive by itself (a removal needs the list to  *)
(* be free of repetitions, a unit conversion needs a positive multiplier   *)
(* to have a type, and the end of a removal looks at nothing, so all it    *)
(* relies on was true when it began and was kept by every module since).   *)
(*                                                                         *)
(* The second half is about PositionBook, the positions of a SetToken      *)
(* under the edits of the Position library and every kind of repricing.    *)
(* BookInv is inductive for any units; Told, behind the theorems on the    *)
(* component list, for real units other than one.                          *)
(***************************************************************************)
EXTENDS SetToken, PositionBook, LibraryProofs

\* While a removal is under way its module is initialised and somebody is the
\* manager; a lock taken meanwhile has a holder in authority, and the module
\* itself holds it only if that is how it leaves.
RemovalInv ==
  leaving # NullAddress =>
    /\ leaving \in Module /\ moduleStates[leaving] = "INITIALIZED"
    /\ manager # NullAddress
    /\ isLocked => /\ locker \in enabled
                   /\ moduleStates[locker] = "INITIALIZED"
                   /\ locker = leaving => leaving \in LocksOnLeaving

IInv == /\ TypeOK
        /\ RemovalInv
        /\ ModuleListMatchesStates
        /\ LockerCanReturn
        /\ ListsDistinct
        /\ MultiplierPositive

\* The part of IInv about a position record.
PositionInv(p) ==
  /\ p \in PositionState
  /\ IsInjective(p.components)
  /\ \A c \in Component : IsInjective(p.externalPositionModules[c])
  /\ p.positionMultiplier > 0

\* A conversion to virtual units yields an integer under a legal multiplier.
LEMMA VirtualUnitType ==
  ASSUME NEW p, p.positionMultiplier \in Int, p.positionMultiplier > 0,
         NEW u \in Int
  PROVE  _convertRealToVirtualUnit(p, u) \in Int
<1>1. PRECISE_UNIT \in Nat \ {0}  BY PreciseUnitAssumption
<1>2. u * PRECISE_UNIT \in Int  BY <1>1
<1>3. p.positionMultiplier \in Nat \ {0}  OBVIOUS
<1>4. conservativePreciseDiv(u, p.positionMultiplier)
        = (u * PRECISE_UNIT) \div p.positionMultiplier
  BY <1>2, <1>3, DivDownFloors DEF conservativePreciseDiv
<1>5. QED  BY <1>2, <1>3, <1>4, DivBounds DEF _convertRealToVirtualUnit

\* Every storage primitive keeps the lists free of repetitions.
LEMMA PositionEditKeeps ==
  ASSUME PositionInv(positions), PositionEdit
  PROVE  PositionInv(positions')
<1> DEFINE p == positions
<1> USE DEF PositionInv, PositionState
<1>1. RealUnit \subseteq Int  BY SetTokenAssumption
<1>2. PICK c \in Component :
        \/ addComponentOk(p, c) /\ positions' = addComponent(p, c)
        \/ removeComponentOk(p, c) /\ positions' = removeComponent(p, c)
        \/ \E u \in RealUnit : positions' = editDefaultPositionUnit(p, c, u)
        \/ \E pm \in PositionModule :
             \/ /\ addExternalPositionModuleOk(p, c, pm)
                /\ positions' = addExternalPositionModule(p, c, pm)
             \/ /\ removeExternalPositionModuleOk(p, c, pm)
                /\ positions' = removeExternalPositionModule(p, c, pm)
             \/ \E u \in RealUnit :
                  positions' = editExternalPositionUnit(p, c, pm, u)
             \/ \E d \in BOOLEAN :
                  positions' = editExternalPositionData(p, c, pm, d)
  BY DEF PositionEdit
<1>3. CASE addComponentOk(p, c) /\ positions' = addComponent(p, c)
  <2>1. /\ Append(p.components, c) \in Seq(Component)
        /\ IsInjective(Append(p.components, c))
    BY <1>3, PushKeepsDistinct DEF addComponentOk, isComponent
  <2>2. QED  BY <1>3, <2>1 DEF addComponent
<1>4. CASE removeComponentOk(p, c) /\ positions' = removeComponent(p, c)
  <2>1. /\ removeStorage(p.components, c) \in Seq(Component)
        /\ IsInjective(removeStorage(p.components, c))
    BY <1>4, RemoveStorageKeepsDistinct DEF removeComponentOk, isComponent
  <2>2. QED  BY <1>4, <2>1 DEF removeComponent
<1>5. ASSUME NEW u \in RealUnit, positions' = editDefaultPositionUnit(p, c, u)
      PROVE  PositionInv(positions')
  <2>1. _convertRealToVirtualUnit(p, u) \in Int  BY <1>1, VirtualUnitType
  <2>2. QED  BY <1>5, <2>1 DEF editDefaultPositionUnit
<1>6. ASSUME NEW pm \in PositionModule,
             addExternalPositionModuleOk(p, c, pm),
             positions' = addExternalPositionModule(p, c, pm)
      PROVE  PositionInv(positions')
  <2> DEFINE L == Append(p.externalPositionModules[c], pm)
  <2>1. L \in Seq(PositionModule) /\ IsInjective(L)
    <3>1. ~contains(p.externalPositionModules[c], pm)
      BY <1>6 DEF addExternalPositionModuleOk, isExternalPositionModule
    <3>2. QED  BY <3>1, PushKeepsDistinct
  <2> HIDE DEF L
  <2>2. positions' = [p EXCEPT !.externalPositionModules[c] = L]
    BY <1>6 DEF addExternalPositionModule, L
  <2>3. QED  BY <2>1, <2>2
<1>7. ASSUME NEW pm \in PositionModule,
             removeExternalPositionModuleOk(p, c, pm),
             positions' = removeExternalPositionModule(p, c, pm)
      PROVE  PositionInv(positions')
  <2> DEFINE L == removeStorage(p.externalPositionModules[c], pm)
  <2>1. L \in Seq(PositionModule) /\ IsInjective(L)
    <3>1. contains(p.externalPositionModules[c], pm)
      BY <1>7 DEF removeExternalPositionModuleOk, isExternalPositionModule
    <3>2. QED  BY <3>1, RemoveStorageKeepsDistinct
  <2> HIDE DEF L
  <2>2. positions' = [p EXCEPT !.externalPositionModules[c] = L,
                               !.externalUnit[c][pm] = 0,
                               !.externalData[c][pm] = FALSE]
    BY <1>7 DEF removeExternalPositionModule, L
  <2> DEFINE U == [p.externalUnit EXCEPT ![c][pm] = 0]
             D == [p.externalData EXCEPT ![c][pm] = FALSE]
  <2>3. /\ U \in [Component -> [PositionModule -> Int]]
        /\ D \in [Component -> [PositionModule -> BOOLEAN]]
    OBVIOUS
  <2>4. positions' = [p EXCEPT !.externalPositionModules[c] = L,
                               !.externalUnit = U, !.externalData = D]
    BY <2>2
  <2> HIDE DEF U, D
  <2>5. QED  BY <2>1, <2>3, <2>4
<1>8. ASSUME NEW pm \in PositionModule, NEW u \in RealUnit,
             positions' = editExternalPositionUnit(p, c, pm, u)
      PROVE  PositionInv(positions')
  <2>1. _convertRealToVirtualUnit(p, u) \in Int  BY <1>1, VirtualUnitType
  <2>2. QED  BY <1>8, <2>1 DEF editExternalPositionUnit
<1>9. ASSUME NEW pm \in PositionModule, NEW d \in BOOLEAN,
             positions' = editExternalPositionData(p, c, pm, d)
      PROVE  PositionInv(positions')
  BY <1>9 DEF editExternalPositionData
<1>10. QED  BY <1>2, <1>3, <1>4, <1>5, <1>6, <1>7, <1>8, <1>9

\* A multiplier that passes the validation is positive: some position has a
\* positive absolute unit whose product with it is positive.
LEMMA ValidMultiplierPositive ==
  ASSUME NEW p \in PositionState, NEW n \in Int, _validateNewMultiplier(p, n)
  PROVE  n > 0
<1>1. PICK u \in positionUnits(p) : conservativePreciseMul(u, n) > 0
  BY DEF _validateNewMultiplier
<1>2. u \in Int /\ u > 0
  <2>1. \A c \in ToSet(p.components) : c \in Component
    BY DEF PositionState, ToSet
  <2>2. \A c \in Component : \A m \in ToSet(p.externalPositionModules[c]) :
          m \in PositionModule
    BY DEF PositionState, ToSet
  <2>3. \A c \in Component : p.virtualUnit[c] \in Int
    BY DEF PositionState
  <2>4. \A c \in Component, m \in PositionModule : p.externalUnit[c][m] \in Int
    BY DEF PositionState
  <2>5. CASE u \in {v \in {p.virtualUnit[c] : c \in ToSet(p.components)} : v > 0}
    BY <2>1, <2>3, <2>5
  <2>6. CASE \E v \in UNION {{p.externalUnit[c][m] :
                          m \in ToSet(p.externalPositionModules[c])} :
                            c \in ToSet(p.components)} : v # 0 /\ u = abs(v)
    BY <2>1, <2>2, <2>4, <2>6 DEF abs
  <2>7. QED  BY <2>5, <2>6 DEF positionUnits
<1>3. QED  BY <1>1, <1>2, PositiveProduct

-----------------------------------------------------------------------------

\* The constructor establishes the invariant: SetTokenCreator refuses a
\* repeated component, and the multiplier starts at one whole unit.
LEMMA InitEstablishes == Init => IInv
<1> SUFFICES ASSUME Init PROVE IInv
  OBVIOUS
<1> USE DEF Init
<1>1. PICK n \in 1 .. MaxListed : \E _components \in [1 .. n -> Component],
                                  _units \in [1 .. n -> RealUnit] :
         /\ ~hasDuplicate(_components)
         /\ positions = newPositions(_components, _units)
  OBVIOUS
<1>2. PICK _components \in [1 .. n -> Component],
           _units \in [1 .. n -> RealUnit] :
         /\ ~hasDuplicate(_components)
         /\ positions = newPositions(_components, _units)
  BY <1>1
<1>3. n \in Nat /\ RealUnit \subseteq Int /\ NullAddress \notin Module
  BY SetTokenAssumption
<1>4. PRECISE_UNIT \in Nat \ {0}  BY PreciseUnitAssumption
<1>5. _components \in Seq(Component)  BY <1>3
<1>6. IsInjective(_components)
  <2>1. \A i, j \in 1 .. n : i < j => _components[i] # _components[j]
    BY <1>2 DEF hasDuplicate
  <2>2. QED  BY <1>3, <2>1 DEF IsInjective
<1>7. PositionInv(positions)
  <2> DEFINE V == [c \in Component |->
                     IF contains(_components, c)
                     THEN _units[indexOf(_components, c)] ELSE 0]
  <2>1. V \in [Component -> Int]
    <3>1. ASSUME NEW c \in Component, contains(_components, c)
          PROVE  _units[indexOf(_components, c)] \in Int
      <4>1. indexOf(_components, c) \in 1 .. Len(_components)
        BY <1>5, <1>6, <3>1, IndexOfFinds
      <4>2. Len(_components) = n  BY <1>3, <1>5
      <4>3. QED  BY <1>2, <1>3, <4>1, <4>2
    <3>2. QED  BY <3>1
  <2> HIDE DEF V
  <2>2. positions = [components |-> _components,
                     virtualUnit |-> V,
                     externalPositionModules |-> [c \in Component |-> << >>],
                     externalUnit |->
                       [c \in Component |-> [m \in PositionModule |-> 0]],
                     externalData |->
                       [c \in Component |-> [m \in PositionModule |-> FALSE]],
                     positionMultiplier |-> PRECISE_UNIT]
    BY <1>2 DEF newPositions, V
  <2>3. IsInjective(<< >>)  BY DEF IsInjective
  <2>4. QED
    BY <1>4, <1>5, <1>6, <2>1, <2>2, <2>3 DEF PositionInv, PositionState
<1>8. TypeOK
  <2>1. moduleStates \in [Module -> ModuleState]  BY DEF ModuleState
  <2>2. positions \in PositionState  BY <1>7 DEF PositionInv
  <2>3. enabled \in SUBSET Module  OBVIOUS
  <2>4. modules \in Seq(Module)  OBVIOUS
  <2>5. QED  BY <2>1, <2>2, <2>3, <2>4 DEF TypeOK
<1>r. RemovalInv  BY DEF RemovalInv
<1>9. ModuleListMatchesStates
  BY DEF ModuleListMatchesStates, IsInjective, ToSet
<1>10. LockerCanReturn /\ ListsDistinct /\ MultiplierPositive
  BY <1>7 DEF LockerCanReturn, ListsDistinct, MultiplierPositive, PositionInv
<1>11. QED  BY <1>8, <1>9, <1>10, <1>r DEF IInv

\* Every transaction keeps the invariant.
LEMMA NextPreserves == IInv /\ [Next]_vars => IInv'
<1> SUFFICES ASSUME IInv, [Next]_vars PROVE IInv'
  OBVIOUS
<1> USE DEF IInv
<1>1. PositionInv(positions)
  BY DEF TypeOK, ListsDistinct, MultiplierPositive, PositionInv
<1>2. ASSUME PositionInv(positions')
      PROVE  (ListsDistinct /\ MultiplierPositive)'
            /\ positions' \in PositionState
  BY <1>2 DEF ListsDistinct, MultiplierPositive, PositionInv
<1>3. /\ Multiplier \subseteq Int /\ NullAddress \notin Module
      /\ \A q \in 1 .. MaxSupply : q \in Nat
      /\ \A q \in 1 .. MaxHeld : q \in Nat
  BY SetTokenAssumption
<1>5. CASE UNCHANGED vars
  BY <1>5 DEF vars, TypeOK, ModuleListMatchesStates, LockerCanReturn,
              ListsDistinct, MultiplierPositive, RemovalInv
<1> USE DEF registry, RemovalInv
<1>6. ASSUME NEW m \in Module, NEW c \in Component, NEW q \in 1 .. MaxHeld,
             invoke(m, c, q)
      PROVE  IInv'
  <2>1. held' \in [Component -> Nat]  BY <1>3, <1>6 DEF invoke, TypeOK
  <2>2. QED
    BY <1>6, <2>1 DEF invoke, TypeOK, ModuleListMatchesStates,
         LockerCanReturn, ListsDistinct, MultiplierPositive
<1>7. ASSUME NEW m \in Module, editPosition(m)  PROVE IInv'
  <2>1. PositionInv(positions')
    BY <1>1, <1>7, PositionEditKeeps DEF editPosition
  <2>2. QED
    BY <1>2, <1>7, <2>1 DEF editPosition, TypeOK, ModuleListMatchesStates,
         LockerCanReturn
<1>8. ASSUME NEW m \in Module, NEW newMultiplier \in Multiplier,
             editMultiplier(m, newMultiplier)
      PROVE  IInv'
  <2>1. newMultiplier > 0
    BY <1>1, <1>3, <1>8, ValidMultiplierPositive
    DEF editMultiplier, PositionInv
  <2>2. PositionInv(positions')
    BY <1>1, <1>3, <1>8, <2>1
    DEF editMultiplier, editPositionMultiplier, PositionInv, PositionState
  <2>3. QED
    BY <1>2, <1>8, <2>2 DEF editMultiplier, TypeOK, ModuleListMatchesStates,
         LockerCanReturn
<1>9. ASSUME NEW m \in Module, NEW a \in Account, NEW q \in 1 .. MaxSupply,
             mint(m, a, q) \/ burn(m, a, q)
      PROVE  IInv'
  <2>1. balances \in [Account -> Nat] /\ q \in Nat  BY <1>3 DEF TypeOK
  <2>2. CASE mint(m, a, q)
    <3>1. balances' = [balances EXCEPT ![a] = @ + q]  BY <2>2 DEF mint
    <3>2. QED  BY <2>1, <2>2, <3>1 DEF mint, TypeOK, ModuleListMatchesStates,
                 LockerCanReturn, ListsDistinct, MultiplierPositive
  <2>3. CASE burn(m, a, q)
    <3>1. /\ balances' = [balances EXCEPT ![a] = @ - q]
          /\ q <= balances[a]
      BY <2>3 DEF burn
    <3>2. balances' \in [Account -> Nat]  BY <2>1, <3>1
    <3>3. QED  BY <2>3, <3>2 DEF burn, TypeOK, ModuleListMatchesStates,
                 LockerCanReturn, ListsDistinct, MultiplierPositive
  <2>4. QED  BY <1>9, <2>2, <2>3
<1>10. ASSUME NEW m \in Module, lock(m) \/ unlock(m)  PROVE IInv'
  BY <1>10 DEF lock, unlock, _validateOnlyModule, TypeOK,
       ModuleListMatchesStates, LockerCanReturn, ListsDistinct,
       MultiplierPositive
<1>11. ASSUME NEW m \in Module, initializeModule(m)  PROVE IInv'
  <2>1. ~contains(modules, m)
    BY <1>11 DEF initializeModule, ModuleListMatchesStates, ToSet, contains
  <2>2. /\ modules' \in Seq(Module) /\ IsInjective(modules')
        /\ ToSet(modules') = ToSet(modules) \cup {m}
    BY <1>11, <2>1, PushKeepsDistinct
    DEF initializeModule, ModuleListMatchesStates, TypeOK
  <2>3. ModuleListMatchesStates'
    BY <1>11, <2>2 DEF initializeModule, ModuleListMatchesStates, TypeOK
  <2>4. QED
    BY <1>11, <2>2, <2>3 DEF initializeModule, TypeOK, ModuleState,
         LockerCanReturn, ListsDistinct, MultiplierPositive
<1>12. ASSUME NEW a \in Account, NEW m \in Module, addModule(a, m),
              leaving = NullAddress
       PROVE  IInv'
  <2>1. ModuleListMatchesStates'
    BY <1>12 DEF addModule, ModuleListMatchesStates, TypeOK
  <2>2. QED
    BY <1>12, <2>1 DEF addModule, TypeOK, ModuleState,
         LockerCanReturn, ListsDistinct, MultiplierPositive
<1>13. ASSUME NEW a \in Account, NEW m \in Module, removeModule(a, m)
       PROVE  IInv'
  <2>1. a # NullAddress  BY SetTokenAssumption
  <2>2. QED
    BY <1>13, <2>1 DEF removeModule, _validateOnlyManager, TypeOK,
         ModuleListMatchesStates, LockerCanReturn, ListsDistinct,
         MultiplierPositive
<1>r. ASSUME NEW m \in Module, removeModuleReturns(m)  PROVE IInv'
  <2>1. contains(modules, m)
    BY <1>r, <1>3
    DEF removeModuleReturns, ModuleListMatchesStates, ToSet, contains
  <2>2. /\ modules' \in Seq(Module) /\ IsInjective(modules')
        /\ ToSet(modules') = ToSet(modules) \ {m}
    BY <1>r, <2>1, RemoveStorageKeepsDistinct
    DEF removeModuleReturns, ModuleListMatchesStates, TypeOK
  <2>3. ModuleListMatchesStates'
    BY <1>r, <2>2 DEF removeModuleReturns, ModuleListMatchesStates, TypeOK
  <2>4. LockerCanReturn'
    BY <1>r, <1>3 DEF removeModuleReturns, LockerCanReturn, TypeOK
  <2>5. QED
    BY <1>r, <2>2, <2>3, <2>4 DEF removeModuleReturns, TypeOK, ModuleState,
         ListsDistinct, MultiplierPositive
<1>14. ASSUME NEW a \in Account, NEW m \in Module, removePendingModule(a, m),
              leaving = NullAddress
       PROVE  IInv'
  <2>1. ModuleListMatchesStates'
    BY <1>14 DEF removePendingModule, ModuleListMatchesStates, TypeOK
  <2>2. QED
    BY <1>14, <2>1 DEF removePendingModule, TypeOK, ModuleState,
         LockerCanReturn, ListsDistinct, MultiplierPositive
<1>15. ASSUME NEW a \in Account, NEW _manager \in Account \cup {NullAddress},
              setManager(a, _manager), leaving = NullAddress
       PROVE  IInv'
  BY <1>15 DEF setManager, TypeOK, ModuleListMatchesStates, LockerCanReturn,
       ListsDistinct, MultiplierPositive
<1>16. ASSUME NEW m \in Module,
              controllerAddModule(m) \/ controllerRemoveModule(m),
              leaving = NullAddress
       PROVE  IInv'
  BY <1>16 DEF controllerAddModule, controllerRemoveModule, TypeOK,
       ModuleListMatchesStates, LockerCanReturn, ListsDistinct,
       MultiplierPositive
<1>17. ASSUME NEW c \in Component, receiveTokens(c)  PROVE IInv'
  BY <1>17 DEF receiveTokens, TypeOK, ModuleListMatchesStates,
       LockerCanReturn, ListsDistinct, MultiplierPositive
<1>18. QED
  BY <1>5, <1>6, <1>7, <1>8, <1>9, <1>10, <1>11, <1>12, <1>13, <1>14, <1>15,
     <1>16, <1>17, <1>r DEF Next, ModuleNext, ManagerNext, OwnerNext

\* The registry of a SetToken is consistent and its position lists are free
\* of repetitions in every reachable state.
THEOREM SetTokenInvariant == Spec => []IInv
BY InitEstablishes, NextPreserves, PTL DEF Spec

\* The state of a SetToken always has its declared type.
THEOREM TypeCorrect == Spec => []TypeOK
BY SetTokenInvariant, PTL DEF IInv

\* getModules and the mapping behind onlyModule never disagree.
THEOREM ModuleListCorrect == Spec => []ModuleListMatchesStates
BY SetTokenInvariant, PTL DEF IInv

\* The holder of a lock is always a module that is still initialised, or one
\* that took the lock in its own removal.
THEOREM LockerCorrect == Spec => []LockerCanReturn
BY SetTokenInvariant, PTL DEF IInv

\* components and externalPositionModules never repeat an address, so that
\* removing one removes it.
THEOREM PositionsCorrect == Spec => []ListsDistinct
BY SetTokenInvariant, PTL DEF IInv

\* The multiplier never reaches zero, whatever modules ask for.
THEOREM MultiplierCorrect == Spec => []MultiplierPositive
BY SetTokenInvariant, PTL DEF IInv

\* No privileged call and no manager call gets through while the lock is held
\* by a module without authority.
THEOREM FrozenCorrect == Spec => FrozenUnderDisabledLocker
<1> DEFINE Powerless ==
             isLocked /\ (\/ locker \notin enabled
                          \/ moduleStates[locker] # "INITIALIZED")
           Same == UNCHANGED <<positions, balances, manager, modules, isLocked,
                               locker>>
           Frozen == Powerless =>
             Same /\ \A c \in Component : held'[c] >= held[c]
<1>1. ASSUME IInv, [Next]_vars PROVE Frozen \/ UNCHANGED vars
  <2> SUFFICES ASSUME Next, Powerless PROVE Frozen
    BY <1>1
  <2>1. held \in [Component -> Nat]  BY <1>1 DEF IInv, TypeOK
  <2>2. \A m \in Module : ~Privileged(m)
    BY DEF Privileged, _validateOnlyModule, _validateWhenLockedOnlyLocker
  <2>same. Same /\ held' = held => Frozen
    <3>1. \A c \in Component : held[c] >= held[c]  BY <2>1
    <3>2. QED  BY <3>1
  <2>3. CASE ModuleNext
    <3>1. leaving = NullAddress  BY <1>1 DEF IInv, RemovalInv
    <3>2. NullAddress \notin Module  BY SetTokenAssumption
    <3>3. FALSE
      BY <2>2, <2>3, <3>1, <3>2 DEF ModuleNext, invoke, editPosition,
         editMultiplier, mint, burn, lock, unlock, initializeModule,
         removeModuleReturns, _validateOnlyModule
    <3>4. QED  BY <3>3
  <2>4. CASE ManagerNext
    <3>1. Same /\ held' = held
      BY <2>4 DEF ManagerNext, addModule, removeModule, removePendingModule,
           setManager
    <3>2. QED  BY <2>same, <3>1
  <2>5. CASE OwnerNext
    <3>1. Same /\ held' = held
      BY <2>5 DEF OwnerNext, controllerAddModule, controllerRemoveModule,
           registry
    <3>2. QED  BY <2>same, <3>1
  <2>6. ASSUME NEW c \in Component, receiveTokens(c)  PROVE Frozen
    BY <2>1, <2>6 DEF receiveTokens, registry
  <2>7. QED  BY <2>3, <2>4, <2>5, <2>6 DEF Next
<1>2. IInv /\ [Next]_vars => [Frozen]_vars  BY <1>1
<1>3. QED  BY <1>2, SetTokenInvariant, PTL DEF Spec, FrozenUnderDisabledLocker

\* Neither the manager nor the initialised modules change under a lock, but for
\* the module whose removal was under way when the lock was taken.
THEOREM LockHoldsRegistryCorrect == Spec => LockHoldsRegistry
<1> DEFINE Held == isLocked =>
             /\ manager' = manager
             /\ modules' # modules =>
                  leaving \in ToSet(modules) \ ToSet(modules')
<1>1. ASSUME IInv, Next PROVE Held
  <2> SUFFICES ASSUME isLocked PROVE Held
    OBVIOUS
  <2>1. ASSUME NEW m \in Module, removeModuleReturns(m)  PROVE Held
    <3>1. m \in ToSet(modules) /\ leaving = m /\ manager' = manager
      BY <1>1, <2>1, SetTokenAssumption
      DEF removeModuleReturns, IInv, RemovalInv, ModuleListMatchesStates
    <3>2. contains(modules, m)  BY <3>1 DEF contains, ToSet
    <3>3. ToSet(modules') = ToSet(modules) \ {m}
      BY <1>1, <2>1, <3>2, RemoveStorageKeepsDistinct
      DEF removeModuleReturns, IInv, TypeOK, ModuleListMatchesStates
    <3>4. QED  BY <3>1, <3>3
  <2>2. \/ UNCHANGED <<manager, modules>>
        \/ \E m \in Module : removeModuleReturns(m)
    BY <1>1 DEF Next, ModuleNext, ManagerNext, OwnerNext, invoke, editPosition,
         editMultiplier, mint, burn, lock, unlock, initializeModule, addModule,
         removeModule, removePendingModule, setManager, controllerAddModule,
         controllerRemoveModule, receiveTokens, registry
  <2>3. QED  BY <2>1, <2>2
<1>2. IInv /\ [Next]_vars => [Held]_vars  BY <1>1
<1>3. QED  BY <1>2, SetTokenInvariant, PTL DEF Spec, LockHoldsRegistry

\* Once the manager is the null address no manager function succeeds again.
THEOREM NullManagerCorrect == Spec => NullManagerIsFinal
<1> DEFINE Final ==
      manager = NullAddress =>
        /\ manager' = NullAddress
        /\ \A m \in Module : moduleStates'[m] # moduleStates[m] =>
             moduleStates[m] = "PENDING" /\ moduleStates'[m] = "INITIALIZED"
<1>1. ASSUME IInv, Next PROVE Final
  <2> SUFFICES ASSUME manager = NullAddress PROVE Final
    OBVIOUS
  <2>1. NullAddress \notin Account /\ NullAddress \notin Module
    BY SetTokenAssumption
  <2>2. ~ManagerNext
    BY <2>1 DEF ManagerNext, addModule, removeModule, removePendingModule,
         setManager, _validateOnlyManager
  <2>3. \A m \in Module : initializeModule(m) => Final
    BY <1>1 DEF initializeModule, IInv, TypeOK
  <2>4. \A m \in Module : ~removeModuleReturns(m)
    BY <1>1, <2>1 DEF removeModuleReturns, IInv, RemovalInv
  <2>5. \/ UNCHANGED <<manager, moduleStates>>
        \/ \E m \in Module : initializeModule(m)
    BY <1>1, <2>2, <2>4 DEF Next, ModuleNext, OwnerNext, invoke, editPosition,
         editMultiplier, mint, burn, lock, unlock, controllerAddModule,
         controllerRemoveModule, receiveTokens, registry
  <2>6. QED  BY <2>3, <2>5
<1>2. IInv /\ [Next]_vars => [Final]_vars  BY <1>1
<1>3. QED  BY <1>2, SetTokenInvariant, PTL DEF Spec, NullManagerIsFinal

\* Every step of the SetToken is a step of ModuleAuthority or leaves its
\* variables alone: authority is only ever gained and lost the way that
\* specification says.
THEOREM ImplementsAuthorityCorrect == Spec => ImplementsAuthority
<1> USE DEF Authority!vars
<1>1. Init => Authority!Init
  <2> SUFFICES ASSUME Init PROVE Authority!Init
    OBVIOUS
  <2>1. enabled \in SUBSET Module  BY DEF Init
  <2>2. {m \in Module : moduleStates[m] # "NONE"} \subseteq enabled
    BY DEF Init
  <2>3. ToSet(modules) = {}  BY DEF Init, ToSet
  <2>4. isLocked = FALSE /\ leaving = NullAddress  BY DEF Init
  <2>5. QED  BY <2>1, <2>2, <2>3, <2>4 DEF Authority!Init
<1>2. IInv /\ IInv' /\ [Next]_vars => [Authority!Next]_(Authority!vars)
  <2> SUFFICES ASSUME IInv, IInv', [Next]_vars
               PROVE  Authority!Next \/ UNCHANGED Authority!vars
    OBVIOUS
  <2> DEFINE Admitted == {m \in Module : moduleStates[m] # "NONE"}
             Active == {m \in Module : moduleStates[m] = "INITIALIZED"}
             Exclusive == IF isLocked THEN locker ELSE NullAddress
  <2>1. ToSet(modules) = Active /\ ToSet(modules') = Active'
    BY DEF IInv, ModuleListMatchesStates
  <2>2. NullAddress \notin Module  BY SetTokenAssumption
  <2>3. moduleStates \in [Module -> ModuleState] /\ enabled \subseteq Module
    BY DEF IInv, TypeOK
  <2>4. ASSUME NEW m \in Module, Privileged(m)
        PROVE  Authority!InAuthority(m)
    BY <2>1, <2>4 DEF Privileged, _validateOnlyModule,
         _validateWhenLockedOnlyLocker, Authority!InAuthority
  <2>5. CASE UNCHANGED vars
    BY <2>5 DEF vars
  <2>6. ASSUME NEW m \in Module, Privileged(m),
               UNCHANGED <<registry, enabled>>
        PROVE  Authority!Next
    <3>1. Authority!Administer(m)
      BY <2>4, <2>6 DEF Authority!Administer, registry
    <3>2. QED  BY <3>1 DEF Authority!Next
  <2>7. ASSUME NEW m \in Module, lock(m)  PROVE Authority!Next
    <3>1. Authority!Exclude(m)
      BY <2>1, <2>2, <2>7 DEF lock, _validateOnlyModule, Authority!Exclude,
           Authority!InAuthority
    <3>2. QED  BY <3>1 DEF Authority!Next
  <2>8. ASSUME NEW m \in Module, unlock(m)  PROVE Authority!Next
    <3>1. Authority!Readmit(m)
      BY <2>1, <2>2, <2>8 DEF unlock, _validateOnlyModule, Authority!Readmit,
           Authority!InAuthority
    <3>2. QED  BY <3>1 DEF Authority!Next
  <2>9. ASSUME NEW m \in Module, initializeModule(m)  PROVE Authority!Next
    <3>1. /\ Active' = Active \cup {m} /\ Admitted' = Admitted
          /\ m \in Admitted \ Active /\ ~isLocked
      BY <2>3, <2>9 DEF initializeModule, ModuleState
    <3>2. Authority!Activate(m)
      BY <2>1, <2>9, <3>1 DEF initializeModule, Authority!Activate
    <3>3. QED  BY <3>2 DEF Authority!Next
  <2>10. ASSUME NEW m \in Module, NEW a \in Account, addModule(a, m),
                leaving = NullAddress
         PROVE  Authority!Next
    <3>1. /\ Active' = Active /\ Admitted' = Admitted \cup {m}
          /\ m \in enabled \ Admitted
      BY <2>3, <2>10 DEF addModule, ModuleState
    <3>2. Authority!Admit(m)
      BY <2>1, <2>10, <3>1 DEF addModule, Authority!Admit
    <3>3. QED  BY <3>2 DEF Authority!Next
  <2>11. ASSUME NEW m \in Module, NEW a \in Account,
                removePendingModule(a, m), leaving = NullAddress
         PROVE  Authority!Next
    <3>1. /\ Active' = Active /\ Admitted' = Admitted \ {m}
          /\ m \in Admitted \ Active /\ ~isLocked
      BY <2>3, <2>11 DEF removePendingModule, ModuleState
    <3>2. Authority!Reject(m)
      BY <2>1, <2>11, <3>1 DEF removePendingModule, Authority!Reject
    <3>3. QED  BY <3>2 DEF Authority!Next
  <2>d. ASSUME NEW m \in Module, NEW a \in Account,
               removeModule(a, m), leaving = NullAddress
        PROVE  Authority!Next
    <3>1. Authority!Dismiss(m)
      BY <2>1, <2>d DEF removeModule, Authority!Dismiss
    <3>2. QED  BY <3>1 DEF Authority!Next
  <2>r. ASSUME NEW m \in Module, removeModuleReturns(m)  PROVE Authority!Next
    <3>1. Active' = Active \ {m} /\ Admitted' = Admitted \ {m}
      BY <2>3, <2>r DEF removeModuleReturns, ModuleState
    <3>2. Authority!Depart(m)
      BY <2>1, <2>r, <3>1 DEF removeModuleReturns, Authority!Depart
    <3>3. QED  BY <3>2 DEF Authority!Next
  <2>12. ASSUME NEW a \in Account, NEW _manager, setManager(a, _manager)
         PROVE  UNCHANGED Authority!vars
    BY <2>12 DEF setManager
  <2>13. ASSUME OwnerNext, leaving = NullAddress  PROVE Authority!Next
    <3>1. UNCHANGED <<registry, positions, balances>> /\ enabled' \in SUBSET Module
      BY <2>3, <2>13 DEF OwnerNext, controllerAddModule, controllerRemoveModule
    <3>2. Authority!Govern  BY <2>13, <3>1 DEF registry, Authority!Govern
    <3>3. QED  BY <3>2 DEF Authority!Next
  <2>14. CASE ModuleNext
    <3>1. PICK m \in Module :
            \/ Privileged(m) /\ UNCHANGED <<registry, enabled>>
            \/ lock(m) \/ unlock(m) \/ initializeModule(m)
            \/ removeModuleReturns(m)
      BY <2>14 DEF ModuleNext, invoke, editPosition, editMultiplier, mint, burn
    <3>2. QED  BY <2>6, <2>7, <2>8, <2>9, <2>r, <3>1
  <2>15. ASSUME ManagerNext, leaving = NullAddress
         PROVE  Authority!Next \/ UNCHANGED Authority!vars
    BY <2>10, <2>11, <2>12, <2>15, <2>d DEF ManagerNext
  <2>t. ASSUME NEW c \in Component, receiveTokens(c)
        PROVE  UNCHANGED Authority!vars
    BY <2>t DEF receiveTokens, registry
  <2>16. QED  BY <2>5, <2>13, <2>14, <2>15, <2>t DEF Next
<1>3. QED
  BY <1>1, <1>2, SetTokenInvariant, PTL
  DEF Spec, ImplementsAuthority, Authority!Spec

-----------------------------------------------------------------------------
\* PositionBook.  The first call finds what SetTokenCreator left.
LEMMA BookEstablished == BookInit => BookInv(book)
<1> SUFFICES ASSUME NEW c \in Component, NEW u \in DefaultUnit \ {0},
                    book = newPositions(<<c>>, <<u>>)
             PROVE  BookInv(book)
  BY DEF BookInit
<1>1. u \in Int  BY PositionBookAssumption
<1>2. <<c>> \in Seq(Component) /\ IsInjective(<<c>>)
  BY DEF IsInjective
<1>3. \A d \in Component : contains(<<c>>, d) => <<u>>[indexOf(<<c>>, d)] \in Int
  <2>1. SUFFICES ASSUME NEW d \in Component, contains(<<c>>, d)
                 PROVE  <<u>>[indexOf(<<c>>, d)] \in Int
    OBVIOUS
  <2>2. indexOf(<<c>>, d) \in 1 .. Len(<<c>>)  BY <1>2, <2>1, IndexOfFinds
  <2>3. indexOf(<<c>>, d) = 1  BY <2>2
  <2>4. QED  BY <1>1, <2>3
<1>4. QED  BY <1>2, <1>3, NewKeepsBook

\* Every call of the library and every repricing keeps the invariant.
LEMMA BookKept == BookInv(book) /\ [BookNext]_bookVars => BookInv(book')
<1> SUFFICES ASSUME BookInv(book), [BookNext]_bookVars PROVE BookInv(book')
  OBVIOUS
<1> DEFINE k == book.positionMultiplier
<1>1. /\ k \in Nat /\ PRECISE_UNIT \in Nat \ {0}
      /\ DefaultUnit \subseteq Nat /\ ExternalUnit \subseteq Int
      /\ \A c \in Component : ModulesOf[c] \subseteq PositionModule
  BY PreciseUnitAssumption, PositionBookAssumption DEF BookInv, PositionState
<1>2. ASSUME NEW x \in Nat, NEW y \in Nat \ {0} PROVE sdiv(x, y) \in Int
  BY <1>2 DEF sdiv, abs
<1>3. CASE UNCHANGED bookVars  BY <1>3 DEF bookVars
<1>4. ASSUME NEW c \in Component, NEW u \in DefaultUnit, editDefault(c, u)
      PROVE  BookInv(book')
  BY <1>1, <1>4, DefaultEditKeepsBook DEF editDefault
<1>5. ASSUME NEW c \in Component, NEW data \in BOOLEAN, NEW m \in ModulesOf[c],
             NEW u \in ExternalUnit, editExternal(c, m, u, data)
      PROVE  BookInv(book')
  <2>1. m \in PositionModule /\ u \in Int  BY <1>1
  <2>2. CASE u = 0
    <3>1. data = FALSE  BY <1>5, <2>2 DEF editExternal, editExternalPositionOk
    <3>2. QED  BY <1>5, <2>1, <2>2, <3>1, ClosingKeepsBook DEF editExternal
  <2>3. CASE u # 0
    <3>1. convertOk(book, u)
      BY <1>5, <2>3 DEF editExternal, editExternalPositionOk
    <3>2. QED  BY <1>5, <2>1, <2>3, <3>1, OpeningKeepsBook DEF editExternal
  <2>4. QED  BY <2>2, <2>3
<1>6. ASSUME NEW f \in FeePercentage, _editPositionMultiplier(f)
      PROVE  BookInv(book')
  <2> DEFINE n == preciseMulSigned(k, PRECISE_UNIT - f)
  <2>1. PRECISE_UNIT - f \in Nat  BY <1>1, PositionBookAssumption
  <2>2. k * (PRECISE_UNIT - f) \in Nat  BY <1>1, <2>1
  <2>3. n \in Int  BY <1>1, <1>2, <2>2 DEF preciseMulSigned
  <2>4. QED
    BY <1>6, <2>3, RepricingKeepsBook DEF _editPositionMultiplier, reprice
<1>7. ASSUME NEW c \in Component, NEW s \in Supply, NEW t \in Supply,
             NEW u \in DefaultUnit, handleNavStateUpdates(c, s, t, u)
      PROVE  BookInv(book')
  <2> DEFINE n == navMultiplier(s, t)
             repriced == editPositionMultiplier(book, n)
  <2>1. s \in Nat /\ t \in Nat \ {0}  BY PositionBookAssumption
  <2>2. k * s \in Nat  BY <1>1, <2>1
  <2>3. n \in Int  BY <1>2, <2>1, <2>2 DEF navMultiplier
  <2>4. BookInv(repriced)
    BY <1>7, <2>3, RepricingKeepsBook DEF handleNavStateUpdates
  <2> HIDE DEF repriced
  <2>5. editDefaultPositionOk(repriced, c, u)
        /\ book' = editDefaultPosition(repriced, c, u)
    BY <1>7 DEF handleNavStateUpdates, repriced
  <2>6. QED  BY <1>1, <2>4, <2>5, DefaultEditKeepsBook
<1>8. QED  BY <1>3, <1>4, <1>5, <1>6, <1>7 DEF BookNext

\* The inductive invariant of the positions of a SetToken.
THEOREM BookInvariant == BookSpec => []BookInv(book)
<1>1. BookInv(book) /\ [BookNext]_bookVars => BookInv(book)'
  BY BookKept
<1>2. QED  BY <1>1, BookEstablished, PTL DEF BookSpec

\* The positions keep their type through every edit and repricing.
THEOREM BookTypeCorrect == BookSpec => []BookTypeOK
<1>1. BookInv(book) => BookTypeOK  BY DEF BookInv, BookTypeOK
<1>2. QED  BY <1>1, BookInvariant, PTL

\* A module is listed on a component exactly while its unit there is not zero,
\* whatever is rounded, and no data outlives the position.
THEOREM ExternalListCorrect == BookSpec => []ExternalListMatchesUnits
<1>1. BookInv(book) => ExternalListMatchesUnits
  BY DEF BookInv, ExternalListMatchesUnits
<1>2. QED  BY <1>1, BookInvariant, PTL

\* One component at a scale of one: its unit reads as itself.
LEMMA InitTells == BookInit => Told(book)
<1> SUFFICES ASSUME NEW c \in Component, NEW u \in DefaultUnit \ {0},
                    book = newPositions(<<c>>, <<u>>)
             PROVE  Told(book)
  BY DEF BookInit
<1>1. u \in Nat /\ u > 0  BY PositionBookAssumption
<1>2. \A d : contains(<<c>>, d) <=> d = c
  BY DEF contains
<1>3. indexOf(<<c>>, c) = 1
  <2>1. <<c>> \in Seq(Component) /\ IsInjective(<<c>>) /\ contains(<<c>>, c)
    BY <1>2 DEF IsInjective
  <2>2. indexOf(<<c>>, c) \in 1 .. Len(<<c>>)  BY <2>1, IndexOfFinds
  <2>3. QED  BY <2>2
<1>4. /\ book.components = <<c>>
      /\ \A d \in Component :
           /\ book.virtualUnit[d] = IF contains(<<c>>, d)
                 THEN <<u>>[indexOf(<<c>>, d)] ELSE 0
           /\ book.externalPositionModules[d] = << >>
      /\ book.positionMultiplier = PRECISE_UNIT
  BY DEF newPositions
<1>5. \A d \in Component : book.virtualUnit[d] = IF d = c THEN u ELSE 0
  <2>1. <<u>>[1] = u  OBVIOUS
  <2>2. ASSUME NEW d \in Component
        PROVE  book.virtualUnit[d] = IF d = c THEN u ELSE 0
    <3>1. CASE d = c  BY <1>2, <1>3, <1>4, <2>1, <3>1
    <3>2. CASE d # c  BY <1>2, <1>4, <3>2
    <3>3. QED  BY <3>1, <3>2
  <2>3. QED  BY <2>2
<1>6. getDefaultPositionRealUnit(book, c) > 0
  <2> DEFINE P == PRECISE_UNIT
             n == u * P
  <2>1. P \in Nat \ {0} /\ n \in Nat  BY <1>1, PreciseUnitAssumption
  <2>2. getDefaultPositionRealUnit(book, c) = conservativePreciseMul(u, P)
    BY <1>4, <1>5 DEF getDefaultPositionRealUnit, _convertVirtualToRealUnit
  <2>3. n < n + P  BY <2>1
  <2>4. conservativePreciseMul(u, P) = n \div P
    <3> HIDE DEF P
    <3>1. QED  BY <1>1, <2>1, UnitReads DEF P, n
  <2> HIDE DEF P
  <2>5. n \div P = u
    <3>1. u * P <= n /\ n < u * P + P /\ n \in Int  BY <2>1, <2>3
    <3> HIDE DEF n
    <3>2. QED  BY <1>1, <2>1, <3>1, DivUnique
  <2>6. QED  BY <1>1, <2>2, <2>4, <2>5
<1>7. ASSUME NEW d \in Component
      PROVE  /\ book.virtualUnit[d] >= 0
             /\ book.virtualUnit[d] > 0
                  => getDefaultPositionRealUnit(book, d) > 0
             /\ isComponent(book, d) <=>
                  \/ book.virtualUnit[d] > 0
                  \/ book.externalPositionModules[d] # << >>
  <2>1. /\ book.externalPositionModules[d] = << >>
        /\ isComponent(book, d) <=> d = c
    BY <1>2, <1>4 DEF isComponent
  <2>2. book.virtualUnit[d] = IF d = c THEN u ELSE 0  BY <1>5
  <2>3. CASE d = c  BY <1>1, <1>6, <2>1, <2>2, <2>3
  <2>4. CASE d # c  BY <2>1, <2>2, <2>4
  <2>5. QED  BY <2>3, <2>4
<1>8. QED  BY <1>7 DEF Told

\* Every call of the library and every repricing keeps the list telling.
LEMMA StepTells ==
  ASSUME 1 \notin DefaultUnit, BookInv(book), Told(book), [BookNext]_bookVars
  PROVE  Told(book')
<1> DEFINE k == book.positionMultiplier
<1>1. /\ k \in Nat /\ PRECISE_UNIT \in Nat \ {0}
      /\ \A u \in DefaultUnit : u \in Nat /\ u # 1
      /\ ExternalUnit \subseteq Int
      /\ \A c \in Component : ModulesOf[c] \subseteq PositionModule
  BY PreciseUnitAssumption, PositionBookAssumption DEF BookInv, PositionState
<1>2. ASSUME NEW x \in Nat, NEW y \in Nat \ {0} PROVE sdiv(x, y) \in Int
  BY <1>2 DEF sdiv, abs
<1>3. CASE UNCHANGED bookVars  BY <1>3 DEF bookVars
<1>4. ASSUME NEW c \in Component, NEW u \in DefaultUnit, editDefault(c, u)
      PROVE  Told(book')
  <2>1. u \in Nat /\ u # 1 /\ editDefaultPositionOk(book, c, u)
        /\ book' = editDefaultPosition(book, c, u)
    BY <1>1, <1>4 DEF editDefault
  <2>2. Survives(book, u)
    BY <2>1, CoarseSurvives DEF editDefaultPositionOk, BookInv, PositionState
  <2>3. QED  BY <2>1, <2>2, DefaultEditTells
<1>5. ASSUME NEW c \in Component, NEW data \in BOOLEAN, NEW m \in ModulesOf[c],
             NEW u \in ExternalUnit, editExternal(c, m, u, data)
      PROVE  Told(book')
  <2>1. m \in PositionModule /\ u \in Int  BY <1>1
  <2>2. CASE u = 0
    <3>1. data = FALSE  BY <1>5, <2>2 DEF editExternal, editExternalPositionOk
    <3>2. QED  BY <1>5, <2>1, <2>2, <3>1, ClosingTells DEF editExternal
  <2>3. CASE u # 0
    BY <1>5, <2>1, <2>3, OpeningTells DEF editExternal
  <2>4. QED  BY <2>2, <2>3
<1>6. ASSUME NEW f \in FeePercentage, _editPositionMultiplier(f)
      PROVE  Told(book')
  <2> DEFINE n == preciseMulSigned(k, PRECISE_UNIT - f)
  <2>1. PRECISE_UNIT - f \in Nat  BY <1>1, PositionBookAssumption
  <2>2. k * (PRECISE_UNIT - f) \in Nat  BY <1>1, <2>1
  <2>3. n \in Int  BY <1>1, <1>2, <2>2 DEF preciseMulSigned
  <2>4. QED
    BY <1>6, <2>3, RepricingTells DEF _editPositionMultiplier, reprice
<1>7. ASSUME NEW c \in Component, NEW s \in Supply, NEW t \in Supply,
             NEW u \in DefaultUnit, handleNavStateUpdates(c, s, t, u)
      PROVE  Told(book')
  <2> DEFINE n == navMultiplier(s, t)
             repriced == editPositionMultiplier(book, n)
  <2>1. s \in Nat /\ t \in Nat \ {0}  BY PositionBookAssumption
  <2>2. k * s \in Nat  BY <1>1, <2>1
  <2>3. n \in Int  BY <1>2, <2>1, <2>2 DEF navMultiplier
  <2>4. BookInv(repriced) /\ Told(repriced)
    BY <1>7, <2>3, RepricingKeepsBook, RepricingTells DEF handleNavStateUpdates
  <2> HIDE DEF repriced
  <2>5. editDefaultPositionOk(repriced, c, u)
        /\ book' = editDefaultPosition(repriced, c, u)
    BY <1>7 DEF handleNavStateUpdates, repriced
  <2>6. Survives(repriced, u)
    BY <1>1, <2>4, <2>5, CoarseSurvives
    DEF editDefaultPositionOk, BookInv, PositionState
  <2>7. QED  BY <1>1, <2>4, <2>5, <2>6, DefaultEditTells
<1>8. QED  BY <1>3, <1>4, <1>5, <1>6, <1>7 DEF BookNext

\* The component list tells what is held and every unit is worth something, for
\* default units that are not the smallest there is: a unit of one may be stored
\* as a virtual unit that reads as zero.
THEOREM ToldInvariant ==
  ASSUME 1 \notin DefaultUnit
  PROVE  BookSpec => [](BookInv(book) /\ Told(book))
<1>1. BookInv(book) /\ Told(book) /\ [BookNext]_bookVars
        => (BookInv(book) /\ Told(book))'
  BY BookKept, StepTells
<1>2. QED  BY <1>1, BookEstablished, InitTells, PTL DEF BookSpec

\* A component is listed exactly while the SetToken has a position in it.
THEOREM ListCorrect ==
  ASSUME 1 \notin DefaultUnit
  PROVE  BookSpec => []ListMatchesPositions
<1>1. Told(book) => ListMatchesPositions  BY DEF Told, ListMatchesPositions
<1>2. QED  BY <1>1, ToldInvariant, PTL

\* Every position can be closed: no require of the library stands in the way.
THEOREM ClosingCorrect ==
  ASSUME 1 \notin DefaultUnit
  PROVE  BookSpec => []PositionsCanBeClosed
<1>1. BookInv(book) /\ Told(book) => PositionsCanBeClosed
  <2> SUFFICES ASSUME BookInv(book), Told(book), NEW c \in Component
               PROVE  /\ editDefaultPositionOk(book, c, 0)
                      /\ \A m \in PositionModule :
                           editExternalPositionOk(book, c, m, 0, FALSE)
    BY DEF PositionsCanBeClosed
  <2> DEFINE p == book
             k == p.positionMultiplier
             r == getDefaultPositionRealUnit(p, c)
  <2>1. /\ k \in Nat \ {0} /\ p.virtualUnit[c] \in Nat
        /\ r \in Nat /\ (r = 0 <=> p.virtualUnit[c] = 0)
    <3>1. k \in Nat \ {0} /\ p.virtualUnit[c] \in Nat
      BY DEF BookInv, PositionState, Told
    <3>2. QED  BY <3>1, DefaultReads
  <2>2. isComponent(p, c) <=>
          p.virtualUnit[c] > 0 \/ p.externalPositionModules[c] # << >>
    BY DEF Told
  <2>3. editDefaultPositionOk(p, c, 0)
    <3>1. convertOk(p, 0)  BY <2>1 DEF convertOk
    <3>2. ~listsComponent(p, c, 0)  BY DEF listsComponent
    <3>3. delistsComponent(p, c, 0) => isComponent(p, c)
      BY <2>1, <2>2 DEF delistsComponent, hasDefaultPosition
    <3>4. QED
      BY <3>1, <3>2, <3>3 DEF editDefaultPositionOk, removeComponentOk
  <2>4. ASSUME NEW m \in PositionModule
        PROVE  editExternalPositionOk(p, c, m, 0, FALSE)
    <3> DEFINE u == p.externalUnit[c][m]
               x == getExternalPositionRealUnit(p, c, m)
               old == p.externalPositionModules[c]
    <3>1. x # 0 => u # 0
      <4> SUFFICES ASSUME u = 0 PROVE x = 0
        OBVIOUS
      <4>1. x = conservativePreciseMul(0, k)
        BY DEF getExternalPositionRealUnit, _convertVirtualToRealUnit
      <4>2. QED  BY <2>1, <4>1, UnitReads
    <3>2. x # 0 => contains(old, m)
      BY <3>1 DEF BookInv, isExternalPositionModule
    <3>3. old \in Seq(PositionModule)  BY DEF BookInv, PositionState
    <3> HIDE DEF x, old, p
    <3>4. x # 0 => old # << >>  BY <3>2, <3>3 DEF contains
    <3>5. x # 0 /\ Len(old) = 1 => old[1] = m  BY <3>2, <3>3 DEF contains
    <3>6. QED
      BY <2>2, <3>2, <3>4, <3>5
      DEF editExternalPositionOk, isLastPosition, removeComponentOk,
          removeExternalPositionModuleOk, isExternalPositionModule, x, old
  <2>5. QED  BY <2>3, <2>4
<1>2. QED  BY <1>1, ToldInvariant, PTL

\* A debt reads as one at any multiplier: it is rounded away from zero.
LEMMA DebtReads ==
  ASSUME NEW v \in Int, v < 0, NEW n \in Nat \ {0}
  PROVE  conservativePreciseMul(v, n) < 0
<1> DEFINE a == v * n
           q == a \div PRECISE_UNIT
<1>1. PRECISE_UNIT \in Nat \ {0}  BY PreciseUnitAssumption
<1>2. a \in Int /\ a < 0  OBVIOUS
<1>3. conservativePreciseMul(v, n) = q
  BY <1>1, <1>2, DivDownFloors DEF conservativePreciseMul
<1> HIDE DEF a
<1>4. q \in Int /\ q * PRECISE_UNIT <= a  BY <1>1, <1>2, DivBounds
<1> HIDE DEF q
<1>5. q < 0
  <2>1. q >= 0 => q * PRECISE_UNIT >= 0  BY <1>1, <1>4
  <2>2. QED  BY <1>1, <1>2, <1>4, <2>1
<1>6. QED  BY <1>3, <1>5

\* A unit whose absolute value passes the guard at the new multiplier reads on
\* the same side at both.
LEMMA GuardedUnitKeepsSide ==
  ASSUME NEW v \in Int, NEW k \in Nat \ {0}, NEW n \in Nat \ {0},
         v # 0 => conservativePreciseMul(abs(v), n) > 0
  PROVE  SameSide(conservativePreciseMul(v, k), conservativePreciseMul(v, n))
<1>1. CASE v = 0
  <2>1. conservativePreciseMul(v, k) = 0  BY <1>1, UnitReads
  <2>2. QED  BY <2>1 DEF SameSide
<1>2. CASE v > 0
  <2>1. conservativePreciseMul(v, n) > 0  BY <1>2 DEF abs
  <2>2. v \in Nat  BY <1>2
  <2>3. conservativePreciseMul(v, k) \in Nat  BY <2>2, UnitReads
  <2>4. QED  BY <2>1, <2>3 DEF SameSide
<1>3. CASE v < 0
  <2> DEFINE x == conservativePreciseMul(v, k)
             y == conservativePreciseMul(v, n)
  <2>1. x < 0 /\ y < 0  BY <1>3, DebtReads
  <2>2. x \in Int
    <3>1. PRECISE_UNIT \in Nat \ {0} /\ v * k \in Int
      BY PreciseUnitAssumption
    <3>2. x = (v * k) \div PRECISE_UNIT
      BY <3>1, DivDownFloors DEF conservativePreciseMul
    <3>3. QED  BY <3>1, <3>2, DivBounds
  <2> HIDE DEF x, y
  <2>3. SameSide(x, y)  BY <2>1, <2>2 DEF SameSide
  <2>4. QED  BY <2>3 DEF x, y
<1>4. QED  BY <1>1, <1>2, <1>3

\* What the guard on a new multiplier looks at is every position there is,
\* because every one is listed and so is its component.
LEMMA RepricingKeepsSides ==
  ASSUME NEW p, BookInv(p), Told(p), NEW n \in Int,
         _validateNewMultiplier(p, n), NEW c \in Component
  PROVE  /\ n > 0
         /\ SameSide(conservativePreciseMul(p.virtualUnit[c], p.positionMultiplier),
                     conservativePreciseMul(p.virtualUnit[c], n))
         /\ \A m \in PositionModule :
              SameSide(
                conservativePreciseMul(p.externalUnit[c][m], p.positionMultiplier),
                conservativePreciseMul(p.externalUnit[c][m], n))
<1>1. p \in PositionState  BY DEF BookInv
<1>2. p.positionMultiplier \in Nat \ {0}  BY <1>1 DEF BookInv, PositionState
<1>3. n \in Nat \ {0}
  <2>1. n > 0  BY <1>1, ValidMultiplierPositive
  <2>2. QED  BY <2>1
<1>4. \A u \in positionUnits(p) : conservativePreciseMul(u, n) > 0
  BY DEF _validateNewMultiplier
<1>5. SameSide(conservativePreciseMul(p.virtualUnit[c], p.positionMultiplier),
               conservativePreciseMul(p.virtualUnit[c], n))
  <2> DEFINE v == p.virtualUnit[c]
  <2>1. v \in Int /\ v >= 0  BY <1>1 DEF PositionState, Told
  <2>2. v # 0 => conservativePreciseMul(abs(v), n) > 0
    <3>1. SUFFICES ASSUME v > 0 PROVE conservativePreciseMul(abs(v), n) > 0
      BY <2>1
    <3>2. c \in ToSet(p.components)
      BY <3>1, ContainsIsMembership DEF Told, isComponent
    <3>3. v \in positionUnits(p)  BY <3>1, <3>2 DEF positionUnits
    <3>4. abs(v) = v  BY <2>1 DEF abs
    <3>5. QED  BY <1>4, <3>3, <3>4
  <2> HIDE DEF v
  <2>3. SameSide(conservativePreciseMul(v, p.positionMultiplier),
                 conservativePreciseMul(v, n))
    BY <1>2, <1>3, <2>1, <2>2, GuardedUnitKeepsSide
  <2>4. QED  BY <2>3 DEF v
<1>6. ASSUME NEW m \in PositionModule
      PROVE  SameSide(
               conservativePreciseMul(p.externalUnit[c][m], p.positionMultiplier),
               conservativePreciseMul(p.externalUnit[c][m], n))
  <2> DEFINE v == p.externalUnit[c][m]
  <2>1. v \in Int  BY <1>1 DEF PositionState
  <2>2. v # 0 => conservativePreciseMul(abs(v), n) > 0
    <3>1. SUFFICES ASSUME v # 0 PROVE conservativePreciseMul(abs(v), n) > 0
      OBVIOUS
    <3>2. contains(p.externalPositionModules[c], m)
      BY <3>1 DEF BookInv, isExternalPositionModule
    <3>3. m \in ToSet(p.externalPositionModules[c])
      BY <3>2, ContainsIsMembership
    <3>4. p.externalPositionModules[c] # << >>  BY <3>2 DEF contains
    <3>5. c \in ToSet(p.components)
      BY <3>4, ContainsIsMembership DEF Told, isComponent
    <3>6. abs(v) \in positionUnits(p)  BY <3>1, <3>3, <3>5 DEF positionUnits
    <3>7. QED  BY <1>4, <3>6
  <2> HIDE DEF v
  <2>3. SameSide(conservativePreciseMul(v, p.positionMultiplier),
                 conservativePreciseMul(v, n))
    BY <1>2, <1>3, <2>1, <2>2, GuardedUnitKeepsSide
  <2>4. QED  BY <2>3 DEF v
<1>7. QED  BY <1>3, <1>5, <1>6

\* A default edit leaves the external units and the multiplier alone, and an
\* external one the multiplier.
LEMMA EditsKeepMultiplier ==
  ASSUME NEW p \in PositionState, NEW c \in Component
  PROVE  /\ \A u : LET e == editDefaultPosition(p, c, u)
                   IN  /\ e.positionMultiplier = p.positionMultiplier
                       /\ e.externalUnit = p.externalUnit
         /\ \A m, u, data :
              editExternalPosition(p, c, m, u, data).positionMultiplier
                = p.positionMultiplier
<1>1. ASSUME NEW u
      PROVE  LET e == editDefaultPosition(p, c, u)
             IN  /\ e.positionMultiplier = p.positionMultiplier
                 /\ e.externalUnit = p.externalUnit
  BY DEF editDefaultPosition, editDefaultPositionUnit, addComponent,
         removeComponent, PositionState
<1>2. ASSUME NEW m, NEW u, NEW data
      PROVE  editExternalPosition(p, c, m, u, data).positionMultiplier
               = p.positionMultiplier
  BY DEF editExternalPosition, editExternalPositionData,
         editExternalPositionUnit, openExternalPosition, closeExternalPosition,
         addComponent, removeComponent, addExternalPositionModule,
         removeExternalPositionModule, PositionState
<1>3. QED  BY <1>1, <1>2

\* No repricing makes a position vanish or change sides, whether the streaming
\* fee or an issuance at net asset value asks for it.
THEOREM RepricingCorrect ==
  ASSUME 1 \notin DefaultUnit
  PROVE  BookSpec => RepricingKeepsPositions
<1> DEFINE Keeps(c) ==
             /\ book'.virtualUnit[c] = book.virtualUnit[c] =>
                  SameSide(getDefaultPositionRealUnit(book, c),
                           getDefaultPositionRealUnit(book', c))
             /\ \A m \in PositionModule :
                  SameSide(getExternalPositionRealUnit(book, c, m),
                           getExternalPositionRealUnit(book', c, m))
           Repriced == book'.positionMultiplier # book.positionMultiplier
           k == book.positionMultiplier
<1>1. ASSUME BookInv(book), Told(book), BookNext, Repriced,
             NEW d \in Component
      PROVE  Keeps(d)
  <2>1. /\ book \in PositionState /\ k \in Nat /\ PRECISE_UNIT \in Nat \ {0}
    BY <1>1, PreciseUnitAssumption DEF BookInv, PositionState
  <2>2. ASSUME NEW x \in Nat, NEW y \in Nat \ {0} PROVE sdiv(x, y) \in Int
    BY <2>2 DEF sdiv, abs
  <2>3. ASSUME NEW n \in Int, _validateNewMultiplier(book, n),
               book'.positionMultiplier = n,
               book'.externalUnit = book.externalUnit
        PROVE  Keeps(d)
    BY <1>1, <2>3, RepricingKeepsSides
    DEF getDefaultPositionRealUnit, getExternalPositionRealUnit,
        _convertVirtualToRealUnit
  <2> HIDE DEF Keeps
  <2>4. ASSUME NEW f \in FeePercentage, _editPositionMultiplier(f)
        PROVE  Keeps(d)
    <3> DEFINE n == preciseMulSigned(k, PRECISE_UNIT - f)
    <3>1. PRECISE_UNIT - f \in Nat  BY <2>1, PositionBookAssumption
    <3>2. k * (PRECISE_UNIT - f) \in Nat  BY <2>1, <3>1
    <3>3. n \in Int  BY <2>1, <2>2, <3>2 DEF preciseMulSigned
    <3>4. /\ _validateNewMultiplier(book, n)
          /\ book' = editPositionMultiplier(book, n)
      BY <2>4 DEF _editPositionMultiplier, reprice
    <3> HIDE DEF n
    <3>5. book'.positionMultiplier = n /\ book'.externalUnit = book.externalUnit
      BY <2>1, <3>4 DEF editPositionMultiplier, PositionState
    <3>6. QED  BY <2>3, <3>3, <3>4, <3>5
  <2>5. ASSUME NEW c \in Component, NEW s \in Supply, NEW t \in Supply,
               NEW u \in DefaultUnit, handleNavStateUpdates(c, s, t, u)
        PROVE  Keeps(d)
    <3> DEFINE n == navMultiplier(s, t)
               repriced == editPositionMultiplier(book, n)
    <3>1. s \in Nat /\ t \in Nat \ {0}  BY PositionBookAssumption
    <3>2. k * s \in Nat  BY <2>1, <3>1
    <3>3. n \in Int  BY <2>2, <3>1, <3>2 DEF navMultiplier
    <3>4. /\ _validateNewMultiplier(book, n)
          /\ book' = editDefaultPosition(repriced, c, u)
      BY <2>5 DEF handleNavStateUpdates
    <3> HIDE DEF n
    <3>5. /\ repriced \in PositionState /\ repriced.positionMultiplier = n
          /\ repriced.externalUnit = book.externalUnit
      BY <2>1, <3>3 DEF editPositionMultiplier, PositionState
    <3> HIDE DEF repriced
    <3>6. book'.positionMultiplier = n /\ book'.externalUnit = book.externalUnit
      BY <3>4, <3>5, EditsKeepMultiplier
    <3>7. QED  BY <2>3, <3>3, <3>4, <3>6
  <2>6. ASSUME NEW c \in Component, NEW u \in DefaultUnit, editDefault(c, u)
        PROVE  FALSE
    BY <1>1, <2>1, <2>6, EditsKeepMultiplier DEF editDefault
  <2>7. ASSUME NEW c \in Component, NEW data \in BOOLEAN, NEW m \in ModulesOf[c],
               NEW u \in ExternalUnit, editExternal(c, m, u, data)
        PROVE  FALSE
    BY <1>1, <2>1, <2>7, EditsKeepMultiplier DEF editExternal
  <2>8. QED  BY <1>1, <2>4, <2>5, <2>6, <2>7 DEF BookNext
<1>2. BookInv(book) /\ Told(book) /\ [BookNext]_bookVars
        => [Repriced => \A c \in Component : Keeps(c)]_bookVars
  BY <1>1
<1>3. QED  BY <1>2, ToldInvariant, PTL DEF BookSpec, RepricingKeepsPositions
==============================================================================
