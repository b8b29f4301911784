------------------------------ MODULE SetToken -------------------------------
(***************************************************************************)
(* contracts/protocol/SetToken.sol: the manager, the life cycle of the     *)
(* modules, the lock, and the privileged functions that a module calls.    *)
(* A transaction is atomic, so an external function is one action; its     *)
(* first parameter is msg.sender.  Only removeModule takes two actions:    *)
(* between them runs the module's own removeModule(), in which it is still *)
(* INITIALIZED, and it and every module it calls may do what modules do.   *)
(* The Controller appears as the set of modules it enables, which its      *)
(* owner changes at any time.                                              *)
(***************************************************************************)
EXTENDS SetTokenPositions

CONSTANTS
  Module,        \* contracts that may become modules of the SetToken
  Account,       \* externally owned accounts
  NullAddress,   \* address(0)
  LocksOnLeaving, \* modules whose removeModule() takes the lock
  MaxListed,     \* bound: components given to the constructor
  RealUnit,      \* bound: real units a module may ask for
  Multiplier,    \* bound: multipliers a module may ask for
  MaxSupply,     \* bound: SetTokens one account may be minted
  MaxHeld        \* bound: tokens of a component the SetToken may receive

ASSUME SetTokenAssumption ==
  /\ NullAddress \notin Module \cup Account
  /\ LocksOnLeaving \subseteq Module
  /\ RealUnit \subseteq Int /\ Multiplier \subseteq Int
  /\ MaxListed \in Nat \ {0} /\ MaxSupply \in Nat /\ MaxHeld \in Nat

ModuleState == {"NONE", "PENDING", "INITIALIZED"}

VARIABLES
  manager, locker, isLocked, modules, moduleStates,
  leaving,       \* the module whose removeModule() runs, or NullAddress
  positions,     \* components, componentPositions, positionMultiplier
  balances,      \* ERC20 balances of the SetToken itself
  enabled,       \* modules enabled on the Controller
  held           \* component tokens owned by the SetToken

registry == <<manager, locker, isLocked, modules, moduleStates, leaving>>
vars == <<manager, locker, isLocked, modules, moduleStates, leaving, positions,
          balances, enabled, held>>

\* Manager, modules, locker, positions, supply and held tokens keep their types.
TypeOK ==
  /\ manager \in Account \cup {NullAddress}
  /\ locker \in Module \cup {NullAddress}
  /\ isLocked \in BOOLEAN
  /\ modules \in Seq(Module)
  /\ moduleStates \in [Module -> ModuleState]
  /\ leaving \in Module \cup {NullAddress}
  /\ positions \in PositionState
  /\ balances \in [Account -> Nat]
  /\ enabled \in SUBSET Module
  /\ held \in [Component -> Nat]

\* SetTokenCreator.create validates the arguments, then the constructor runs.
Init ==
  /\ \E n \in 1 .. MaxListed : \E _components \in [1 .. n -> Component],
                                  _units \in [1 .. n -> RealUnit] :
       /\ ~hasDuplicate(_components)
       /\ \A i \in 1 .. n : _units[i] > 0
       /\ positions = newPositions(_components, _units)
  /\ \E _modules \in SUBSET Module :
       /\ _modules # {}
       /\ moduleStates = [m \in Module |->
                            IF m \in _modules THEN "PENDING" ELSE "NONE"]
       /\ enabled \in {E \in SUBSET Module : _modules \subseteq E}
  /\ manager \in Account
  /\ locker = NullAddress /\ isLocked = FALSE /\ modules = << >>
  /\ leaving = NullAddress
  /\ balances = [a \in Account |-> 0]
  /\ held = [c \in Component |-> 0]

-----------------------------------------------------------------------------
(* Modifiers. *)

\* Mutant of _validateOnlyModule: the Controller is not asked.
validateModuleState(m) == moduleStates[m] = "INITIALIZED"

_validateOnlyModule(m) == moduleStates[m] = "INITIALIZED" /\ m \in enabled

\* Mutant of _validateOnlyManager: a SetToken without manager obeys anyone.
validateManagerOrNobody(a) == manager \in {a, NullAddress}

_validateOnlyManager(a) == a = manager

_validateWhenLockedOnlyLocker(m) == isLocked => m = locker

Privileged(m) == _validateOnlyModule(m) /\ _validateWhenLockedOnlyLocker(m)

-----------------------------------------------------------------------------
(* Privileged functions of a module. *)

\* functionCallWithValue to a component that transfers q tokens away.
invoke(m, c, q) ==
  /\ Privileged(m)
  /\ q <= held[c]
  /\ held' = [held EXCEPT ![c] = @ - q]
  /\ UNCHANGED <<registry, positions, balances, enabled>>

\* The storage primitive a position function runs.
PositionEdit ==
  \E c \in Component :
    \/ addComponentOk(positions, c) /\ positions' = addComponent(positions, c)
    \/ removeComponentOk(positions, c)
       /\ positions' = removeComponent(positions, c)
    \/ \E u \in RealUnit :
         /\ convertOk(positions, u)
         /\ positions' = editDefaultPositionUnit(positions, c, u)
    \/ \E pm \in PositionModule :
         \/ /\ addExternalPositionModuleOk(positions, c, pm)
            /\ positions' = addExternalPositionModule(positions, c, pm)
         \/ /\ removeExternalPositionModuleOk(positions, c, pm)
            /\ positions' = removeExternalPositionModule(positions, c, pm)
         \/ \E u \in RealUnit :
              /\ convertOk(positions, u)
              /\ positions' = editExternalPositionUnit(positions, c, pm, u)
         \/ \E d \in BOOLEAN :
              positions' = editExternalPositionData(positions, c, pm, d)

editPosition(m) ==
  /\ Privileged(m)
  /\ PositionEdit
  /\ UNCHANGED <<registry, balances, enabled, held>>

editMultiplier(m, newMultiplier) ==
  /\ Privileged(m)
  /\ _validateNewMultiplier(positions, newMultiplier)
  /\ positions' = editPositionMultiplier(positions, newMultiplier)
  /\ UNCHANGED <<registry, balances, enabled, held>>

mint(m, a, q) ==
  /\ Privileged(m)
  /\ balances[a] + q <= MaxSupply
  /\ balances' = [balances EXCEPT ![a] = @ + q]
  /\ UNCHANGED <<registry, positions, enabled, held>>

burn(m, a, q) ==
  /\ Privileged(m)
  /\ q <= balances[a]
  /\ balances' = [balances EXCEPT ![a] = @ - q]
  /\ UNCHANGED <<registry, positions, enabled, held>>

lock(m) ==
  /\ _validateOnlyModule(m)
  /\ ~isLocked
  /\ leaving = m => m \in LocksOnLeaving
  /\ locker' = m /\ isLocked' = TRUE
  /\ UNCHANGED <<manager, modules, moduleStates, leaving, positions, balances,
                 enabled, held>>

\* Mutant of unlock: any module may unlock.
unlockByAnyModule(m) ==
  /\ _validateOnlyModule(m)
  /\ isLocked
  /\ locker' = NullAddress /\ isLocked' = FALSE
  /\ UNCHANGED <<manager, modules, moduleStates, leaving, positions, balances,
                 enabled, held>>

unlock(m) ==
  /\ _validateOnlyModule(m)
  /\ isLocked /\ locker = m
  /\ locker' = NullAddress /\ isLocked' = FALSE
  /\ UNCHANGED <<manager, modules, moduleStates, leaving, positions, balances,
                 enabled, held>>

-----------------------------------------------------------------------------
(* Functions of the manager, and of a pending module. *)

addModule(a, m) ==
  /\ _validateOnlyManager(a)
  /\ moduleStates[m] = "NONE" /\ m \in enabled
  /\ moduleStates' = [moduleStates EXCEPT ![m] = "PENDING"]
  /\ UNCHANGED <<manager, locker, isLocked, modules, leaving, positions,
                 balances, enabled, held>>

\* Mutant of removeModule: the lock is not checked.
removeModuleWhileLocked(a, m) ==
  /\ _validateOnlyManager(a)
  /\ moduleStates[m] = "INITIALIZED"
  /\ leaving' = m
  /\ UNCHANGED <<manager, locker, isLocked, modules, moduleStates, positions,
                 balances, enabled, held>>

\* Up to the call of m.removeModule().
removeModule(a, m) ==
  /\ _validateOnlyManager(a)
  /\ ~isLocked /\ moduleStates[m] = "INITIALIZED"
  /\ leaving' = m
  /\ UNCHANGED <<manager, locker, isLocked, modules, moduleStates, positions,
                 balances, enabled, held>>

\* What follows the call, whatever the module did in it; neither the lock nor
\* the module's state is looked at again.  A call that reverts undoes the
\* transaction: the SetToken goes on from where removeModule was called.
removeModuleReturns(m) ==
  /\ leaving = m
  /\ moduleStates' = [moduleStates EXCEPT ![m] = "NONE"]
  /\ modules' = removeStorage(modules, m)
  /\ leaving' = NullAddress
  /\ UNCHANGED <<manager, locker, isLocked, positions, balances, enabled, held>>

removePendingModule(a, m) ==
  /\ _validateOnlyManager(a)
  /\ ~isLocked /\ moduleStates[m] = "PENDING"
  /\ moduleStates' = [moduleStates EXCEPT ![m] = "NONE"]
  /\ UNCHANGED <<manager, locker, isLocked, modules, leaving, positions,
                 balances, enabled, held>>

\* Mutant of initializeModule: a module may initialise again.
initializeModuleAgain(m) ==
  /\ ~isLocked /\ moduleStates[m] # "NONE"
  /\ moduleStates' = [moduleStates EXCEPT ![m] = "INITIALIZED"]
  /\ modules' = Append(modules, m)
  /\ UNCHANGED <<manager, locker, isLocked, leaving, positions, balances,
                 enabled, held>>

initializeModule(m) ==
  /\ ~isLocked /\ moduleStates[m] = "PENDING"
  /\ moduleStates' = [moduleStates EXCEPT ![m] = "INITIALIZED"]
  /\ modules' = Append(modules, m)
  /\ UNCHANGED <<manager, locker, isLocked, leaving, positions, balances,
                 enabled, held>>

setManager(a, _manager) ==
  /\ _validateOnlyManager(a)
  /\ ~isLocked
  /\ manager' = _manager
  /\ UNCHANGED <<locker, isLocked, modules, moduleStates, leaving, positions,
                 balances, enabled, held>>

-----------------------------------------------------------------------------
(* The environment: the Controller's owner, and holders of the components. *)

controllerAddModule(m) ==
  /\ m \notin enabled /\ enabled' = enabled \cup {m}
  /\ UNCHANGED <<registry, positions, balances, held>>

controllerRemoveModule(m) ==
  /\ m \in enabled /\ enabled' = enabled \ {m}
  /\ UNCHANGED <<registry, positions, balances, held>>

receiveTokens(c) ==
  /\ held[c] < MaxHeld
  /\ held' = [held EXCEPT ![c] = @ + 1]
  /\ UNCHANGED <<registry, positions, balances, enabled>>

ModuleNext ==
  \E m \in Module :
    \/ \E c \in Component, q \in 1 .. MaxHeld : invoke(m, c, q)
    \/ editPosition(m)
    \/ \E newMultiplier \in Multiplier : editMultiplier(m, newMultiplier)
    \/ \E a \in Account, q \in 1 .. MaxSupply : mint(m, a, q) \/ burn(m, a, q)
    \/ lock(m) \/ unlock(m)
    \/ initializeModule(m)
    \/ removeModuleReturns(m)

ManagerNext ==
  \E a \in Account :
    \/ \E m \in Module : \/ addModule(a, m) \/ removeModule(a, m)
                         \/ removePendingModule(a, m)
    \/ \E _manager \in Account \cup {NullAddress} : setManager(a, _manager)

OwnerNext ==
  \E m \in Module : controllerAddModule(m) \/ controllerRemoveModule(m)

\* The manager and the owner of the Controller are not contracts that a module
\* could call: they act between transactions only.
Next == \/ ModuleNext
        \/ \E c \in Component : receiveTokens(c)
        \/ leaving = NullAddress /\ (ManagerNext \/ OwnerNext)

Spec == Init /\ [][Next]_vars

-----------------------------------------------------------------------------
(* Correctness. *)

\* The list getModules returns and the mapping the modifiers read agree: each
\* INITIALIZED module is listed once, and nothing else is.  Adding, pending
\* removal, initialisation and removal each touch one or both of them.
ModuleListMatchesStates ==
  /\ IsInjective(modules)
  /\ ToSet(modules) = {m \in Module : moduleStates[m] = "INITIALIZED"}

\* A lock names a module that is still INITIALIZED, so that somebody is left
\* who may call unlock(), unless that module took the lock while it was being
\* removed: removeModule() does not look again.  An unlocked SetToken names
\* nobody.
LockerCanReturn ==
  IF isLocked
  THEN /\ locker \in Module
       /\ moduleStates[locker] # "INITIALIZED" => locker \in LocksOnLeaving
  ELSE locker = NullAddress

\* components and every externalPositionModules array hold an address once;
\* getPositions and the issuance loops would count it twice otherwise.
ListsDistinct ==
  /\ IsInjective(positions.components)
  /\ \A c \in Component : IsInjective(positions.externalPositionModules[c])

\* No call drives the multiplier to zero or below: every unit conversion
\* would revert or flip sign from then on.
MultiplierPositive == positions.positionMultiplier > 0

\* While the lock is held by a module that the Controller has disabled, or
\* that was removed with it, nobody can move the SetToken: no position, supply
\* or manager change, no token leaves, and no module is initialised or removed.
FrozenUnderDisabledLocker ==
  [][isLocked /\ (\/ locker \notin enabled
                   \/ moduleStates[locker] # "INITIALIZED") =>
       /\ UNCHANGED <<positions, balances, manager, modules, isLocked, locker>>
       /\ \A c \in Component : held'[c] >= held[c]]_vars

\* Modules rely on the manager and on each other: neither the manager nor the
\* list of initialised modules changes under a lock, whoever holds it, but for
\* the module that is already on its way out.
LockHoldsRegistry ==
  [][isLocked =>
       /\ manager' = manager
       /\ modules' # modules => leaving \in ToSet(modules) \ ToSet(modules')]_vars

\* A SetToken whose manager is the null address is wound down: nobody regains
\* control of it and no module is added or removed; only modules that were
\* already pending may still initialise.
NullManagerIsFinal ==
  [][manager = NullAddress =>
       /\ manager' = NullAddress
       /\ \A m \in Module : moduleStates'[m] # moduleStates[m] =>
            moduleStates[m] = "PENDING" /\ moduleStates'[m] = "INITIALIZED"]_vars

-----------------------------------------------------------------------------
(* The SetToken implements ModuleAuthority: a module is admitted when its
   state is not NONE, active when it is listed, and exclusive when it holds
   the lock; the ledger is the positions and the supply. *)

Authority == INSTANCE ModuleAuthority WITH
  Nobody    <- NullAddress,
  approved  <- enabled,
  admitted  <- {m \in Module : moduleStates[m] # "NONE"},
  dismissed <- leaving,
  active    <- ToSet(modules),
  exclusive <- IF isLocked THEN locker ELSE NullAddress,
  ledger    <- <<positions, balances>>

\* Every step of SetToken.sol is a step the two-stage approval, the Controller
\* veto and the exclusive lock allow, or changes nothing of them.
ImplementsAuthority == Authority!Spec
==============================================================================
