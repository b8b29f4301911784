------------------------- MODULE DebtIssuanceModule --------------------------
(***************************************************************************)
(* contracts/protocol/modules/DebtIssuanceModule.sol, its life cycle on    *)
(* one SetToken and the registration of modules that must be called before *)
(* every issuance and redemption.  The two modules of the SetToken are DIM *)
(* and CLM (CompoundLeverageModule); issue and redeem, which call into     *)
(* CLM, are in LeveragedSet.                                               *)
(***************************************************************************)
EXTENDS PreciseUnitMath, AddressArrayUtils

DIM == "DebtIssuanceModule"
CLM == "CompoundLeverageModule"

Modules == {DIM, CLM}

VARIABLES
  moduleStates,     \* on the SetToken
  enabled,          \* modules enabled on the Controller
  isSet,            \* the Controller knows the SetToken
  hooks,            \* moduleIssuanceHooks of the SetToken's settings
  isModuleHook      \* the mapping beside it, as the set of hooks

authority == <<moduleStates, enabled, isSet>>
registration == <<hooks, isModuleHook>>

IssuanceTypeOK ==
  /\ moduleStates \in [Modules -> {"NONE", "PENDING", "INITIALIZED"}]
  /\ enabled \in SUBSET Modules
  /\ isSet \in BOOLEAN
  /\ hooks \in Seq(Modules) /\ isModuleHook \in SUBSET Modules

IssuanceInit ==
  /\ moduleStates = [m \in Modules |-> "PENDING"]
  /\ enabled = Modules /\ isSet = TRUE
  /\ hooks = << >> /\ isModuleHook = {}

\* onlyModule: m may call another module, or a privileged function.
onlyModule(m) == moduleStates[m] = "INITIALIZED" /\ m \in enabled

\* isSetValidAndInitialized, asked by module m.
isSetValidAndInitialized(m) == isSet /\ moduleStates[m] = "INITIALIZED"

registerOk(m, states) ==
  /\ states[m] = "INITIALIZED" /\ m \in enabled
  /\ isSet /\ states[DIM] = "INITIALIZED"
  /\ m \notin isModuleHook

registerToIssuanceModule(m) ==
  /\ hooks' = Append(hooks, m)
  /\ isModuleHook' = isModuleHook \cup {m}

\* Mutant of unregisterOk: the require of registration, copied.
unregisterIfNotRegistered(m) ==
  /\ onlyModule(m)
  /\ isSetValidAndInitialized(DIM)
  /\ m \notin isModuleHook

unregisterOk(m) ==
  /\ onlyModule(m)
  /\ isSetValidAndInitialized(DIM)
  /\ m \in isModuleHook

\* Mutant of unregisterFromIssuanceModule: the mapping is not cleared.
unregisterFromList(m) ==
  /\ hooks' = removeStorage(hooks, m)
  /\ UNCHANGED isModuleHook

unregisterFromIssuanceModule(m) ==
  /\ hooks' = removeStorage(hooks, m)
  /\ isModuleHook' = isModuleHook \ {m}

\* The settings are overwritten, but a mapping inside a struct is not.
initializeIssuance ==
  /\ isSet /\ moduleStates[DIM] = "PENDING"
  /\ hooks' = << >>
  /\ moduleStates' = [moduleStates EXCEPT ![DIM] = "INITIALIZED"]
  /\ UNCHANGED <<isModuleHook, enabled, isSet>>

removeIssuance ==
  /\ moduleStates[DIM] = "INITIALIZED"
  /\ hooks = << >>
  /\ moduleStates' = [moduleStates EXCEPT ![DIM] = "NONE"]
  /\ UNCHANGED <<hooks, isModuleHook, enabled, isSet>>

-----------------------------------------------------------------------------
(* What the manager and the Controller's owner do to either module. *)

addModule(m) ==
  /\ moduleStates[m] = "NONE" /\ m \in enabled
  /\ moduleStates' = [moduleStates EXCEPT ![m] = "PENDING"]
  /\ UNCHANGED <<enabled, isSet, registration>>

removePendingModule(m) ==
  /\ moduleStates[m] = "PENDING"
  /\ moduleStates' = [moduleStates EXCEPT ![m] = "NONE"]
  /\ UNCHANGED <<enabled, isSet, registration>>

controllerAddModule(m) ==
  /\ m \notin enabled /\ enabled' = enabled \cup {m}
  /\ UNCHANGED <<moduleStates, isSet, registration>>

controllerRemoveModule(m) ==
  /\ m \in enabled /\ enabled' = enabled \ {m}
  /\ UNCHANGED <<moduleStates, isSet, registration>>

\* No factory adds a SetToken again.
controllerRemoveSet ==
  /\ isSet /\ isSet' = FALSE
  /\ UNCHANGED <<moduleStates, enabled, registration>>
==============================================================================
