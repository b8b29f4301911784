----------------------------- MODULE Controller ------------------------------
(***************************************************************************)
(* contracts/protocol/Controller.sol: the registry of the protocol.  Each  *)
(* registry is kept twice, as an address[] that is read as a whole and as  *)
(* a mapping that every onlyModule and isSet check reads; a mapping to     *)
(* bool is the set of addresses it maps to true.  The owner calls every    *)
(* function but addSet, which a factory calls.                             *)
(***************************************************************************)
EXTENDS AddressArrayUtils

CONSTANTS
  SetAddress, FactoryAddress, ModuleAddress, ResourceAddress,
  ZeroAddress,     \* address(0), a legal argument of most functions
  Account,         \* possible fee recipients
  Id,              \* resource ids
  FeeType,
  FeePercentage,   \* bound: fees asked for
  InitialList      \* bound: lists the owner may give to initialize

ASSUME ControllerAssumption ==
  /\ ZeroAddress \notin Account
  /\ ZeroAddress \notin SetAddress \cup FactoryAddress
  /\ 0 \in FeePercentage /\ FeePercentage \subseteq Nat
  /\ \A l \in InitialList : l \in Seq(FactoryAddress \cup ModuleAddress
                                        \cup ResourceAddress)

VARIABLES
  sets, factories, modules, resources,
  isSet, isFactory, isModule, isResource,
  resourceId, fees, feeRecipient, isInitialized

lists == <<sets, factories, modules, resources>>
mappings == <<isSet, isFactory, isModule, isResource>>
vars == <<sets, factories, modules, resources, isSet, isFactory, isModule,
          isResource, resourceId, fees, feeRecipient, isInitialized>>

\* The lists, mappings, resource ids and fees keep their types.
TypeOK ==
  /\ sets \in Seq(SetAddress) /\ factories \in Seq(FactoryAddress)
  /\ modules \in Seq(ModuleAddress) /\ resources \in Seq(ResourceAddress)
  /\ isSet \in SUBSET SetAddress /\ isFactory \in SUBSET FactoryAddress
  /\ isModule \in SUBSET ModuleAddress /\ isResource \in SUBSET ResourceAddress
  /\ resourceId \in [Id -> ResourceAddress \cup {ZeroAddress}]
  /\ fees \in [ModuleAddress -> [FeeType -> FeePercentage]]
  /\ feeRecipient \in Account \cup {ZeroAddress}
  /\ isInitialized \in BOOLEAN

Init ==
  /\ sets = << >> /\ factories = << >> /\ modules = << >> /\ resources = << >>
  /\ isSet = {} /\ isFactory = {} /\ isModule = {} /\ isResource = {}
  /\ resourceId = [id \in Id |-> ZeroAddress]
  /\ fees = [m \in ModuleAddress |-> [t \in FeeType |-> 0]]
  /\ feeRecipient \in Account \cup {ZeroAddress}
  /\ isInitialized = FALSE

-----------------------------------------------------------------------------

\* The lists are stored as given: nothing looks for a duplicate in them.
\* Two resources of one id revert, since the first took the id.
initialize(_factories, _modules, _resources, _resourceIds) ==
  /\ ~isInitialized
  /\ Len(_resources) = Len(_resourceIds)
  /\ ZeroAddress \notin ToSet(_factories) \cup ToSet(_modules) \cup ToSet(_resources)
  /\ ~hasDuplicate(_resourceIds)
  /\ factories' = _factories /\ isFactory' = ToSet(_factories)
  /\ modules' = _modules /\ isModule' = ToSet(_modules)
  /\ resources' = _resources /\ isResource' = ToSet(_resources)
  /\ resourceId' = [id \in Id |-> IF contains(_resourceIds, id)
                                  THEN _resources[indexOf(_resourceIds, id)]
                                  ELSE resourceId[id]]
  /\ isInitialized' = TRUE
  /\ UNCHANGED <<sets, isSet, fees, feeRecipient>>

addSet(factory, s) ==
  /\ isInitialized /\ factory \in isFactory
  /\ s \notin isSet
  /\ isSet' = isSet \cup {s} /\ sets' = Append(sets, s)
  /\ UNCHANGED <<factories, modules, resources, isFactory, isModule, isResource,
                 resourceId, fees, feeRecipient, isInitialized>>

removeSet(s) ==
  /\ isInitialized
  /\ s \in isSet /\ contains(sets, s)
  /\ sets' = remove(sets, s) /\ isSet' = isSet \ {s}
  /\ UNCHANGED <<factories, modules, resources, isFactory, isModule, isResource,
                 resourceId, fees, feeRecipient, isInitialized>>

addFactory(f) ==
  /\ isInitialized
  /\ f \notin isFactory
  /\ isFactory' = isFactory \cup {f} /\ factories' = Append(factories, f)
  /\ UNCHANGED <<sets, modules, resources, isSet, isModule, isResource,
                 resourceId, fees, feeRecipient, isInitialized>>

\* Mutant of removeFactory: the mapping is not cleared.
removeFactoryFromList(f) ==
  /\ isInitialized
  /\ f \in isFactory /\ contains(factories, f)
  /\ factories' = remove(factories, f)
  /\ UNCHANGED <<sets, modules, resources, mappings, resourceId, fees,
                 feeRecipient, isInitialized>>

removeFactory(f) ==
  /\ isInitialized
  /\ f \in isFactory /\ contains(factories, f)
  /\ factories' = remove(factories, f) /\ isFactory' = isFactory \ {f}
  /\ UNCHANGED <<sets, modules, resources, isSet, isModule, isResource,
                 resourceId, fees, feeRecipient, isInitialized>>

addModule(m) ==
  /\ isInitialized
  /\ m \notin isModule
  /\ isModule' = isModule \cup {m} /\ modules' = Append(modules, m)
  /\ UNCHANGED <<sets, factories, resources, isSet, isFactory, isResource,
                 resourceId, fees, feeRecipient, isInitialized>>

\* The fees of the module stay behind.
removeModule(m) ==
  /\ isInitialized
  /\ m \in isModule /\ contains(modules, m)
  /\ modules' = remove(modules, m) /\ isModule' = isModule \ {m}
  /\ UNCHANGED <<sets, factories, resources, isSet, isFactory, isResource,
                 resourceId, fees, feeRecipient, isInitialized>>

addResource(r, id) ==
  /\ isInitialized
  /\ r \notin isResource /\ resourceId[id] = ZeroAddress
  /\ isResource' = isResource \cup {r} /\ resources' = Append(resources, r)
  /\ resourceId' = [resourceId EXCEPT ![id] = r]
  /\ UNCHANGED <<sets, factories, modules, isSet, isFactory, isModule,
                 fees, feeRecipient, isInitialized>>

\* Mutant of removeResource: the id is not deleted.
removeResourceKeepingId(id) ==
  /\ isInitialized
  /\ resourceId[id] # ZeroAddress /\ contains(resources, resourceId[id])
  /\ resources' = remove(resources, resourceId[id])
  /\ isResource' = isResource \ {resourceId[id]}
  /\ UNCHANGED <<sets, factories, modules, isSet, isFactory, isModule,
                 resourceId, fees, feeRecipient, isInitialized>>

removeResource(id) ==
  /\ isInitialized
  /\ resourceId[id] # ZeroAddress /\ contains(resources, resourceId[id])
  /\ resources' = remove(resources, resourceId[id])
  /\ isResource' = isResource \ {resourceId[id]}
  /\ resourceId' = [resourceId EXCEPT ![id] = ZeroAddress]
  /\ UNCHANGED <<sets, factories, modules, isSet, isFactory, isModule,
                 fees, feeRecipient, isInitialized>>

\* A fee of zero is a fee that does not exist.
addFee(m, t, fee) ==
  /\ isInitialized
  /\ m \in isModule /\ fees[m][t] = 0
  /\ fees' = [fees EXCEPT ![m][t] = fee]
  /\ UNCHANGED <<lists, mappings, resourceId, feeRecipient, isInitialized>>

editFee(m, t, fee) ==
  /\ isInitialized
  /\ m \in isModule /\ fees[m][t] # 0
  /\ fees' = [fees EXCEPT ![m][t] = fee]
  /\ UNCHANGED <<lists, mappings, resourceId, feeRecipient, isInitialized>>

editFeeRecipient(a) ==
  /\ isInitialized
  /\ a # ZeroAddress
  /\ feeRecipient' = a
  /\ UNCHANGED <<lists, mappings, resourceId, fees, isInitialized>>

RegistryNext ==
  \/ \E s \in SetAddress : removeSet(s) \/ \E f \in FactoryAddress : addSet(f, s)
  \/ \E f \in FactoryAddress : addFactory(f) \/ removeFactory(f)
  \/ \E m \in ModuleAddress : addModule(m) \/ removeModule(m)

ResourceNext ==
  \E id \in Id : removeResource(id) \/ \E r \in ResourceAddress : addResource(r, id)

FeeNext ==
  \/ \E m \in ModuleAddress, t \in FeeType, fee \in FeePercentage :
       addFee(m, t, fee) \/ editFee(m, t, fee)
  \/ \E a \in Account \cup {ZeroAddress} : editFeeRecipient(a)

\* Id lists of initialize: every arrangement of at most two ids.
IdList == UNION {[1 .. n -> Id] : n \in 0 .. 2}

InitialNext ==
  \E _factories \in InitialList \cap Seq(FactoryAddress),
     _modules \in InitialList \cap Seq(ModuleAddress),
     _resources \in InitialList \cap Seq(ResourceAddress),
     _resourceIds \in IdList :
       initialize(_factories, _modules, _resources, _resourceIds)

Next == InitialNext \/ RegistryNext \/ ResourceNext \/ FeeNext

Spec == Init /\ [][Next]_vars

-----------------------------------------------------------------------------

\* Every list holds exactly the addresses its mapping accepts, each once, so
\* that getModules and isModule can be used for one another.  It needs lists
\* without duplicates in initialize.
ListsMatchMappings ==
  /\ IsInjective(sets) /\ ToSet(sets) = isSet
  /\ IsInjective(factories) /\ ToSet(factories) = isFactory
  /\ IsInjective(modules) /\ ToSet(modules) = isModule
  /\ IsInjective(resources) /\ ToSet(resources) = isResource

\* Ids and enabled resources determine each other: no id leads to a resource
\* that was disabled, and no resource but address(0) is enabled out of reach
\* of removeResource.  It needs resources without duplicates in initialize.
IdsMatchResources ==
  /\ \A id \in Id : resourceId[id] # ZeroAddress => resourceId[id] \in isResource
  /\ \A id1, id2 \in Id :
       resourceId[id1] = resourceId[id2] /\ resourceId[id1] # ZeroAddress
         => id1 = id2
  /\ \A r \in isResource \ {ZeroAddress} : \E id \in Id : resourceId[id] = r
==============================================================================
