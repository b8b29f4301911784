-------------------------- MODULE ControllerProofs ---------------------------
(***************************************************************************)
(* Theorems about the registries of the Controller, for any addresses and  *)
(* ids.  They hold when initialize is given lists that repeat no address,  *)
(* which the code does not check: DistinctInitialLists is the assumption.  *)
(* It cannot be dropped: of an address listed twice, remove would leave    *)
(* one entry in the list and clear the mapping.                            *)
(***************************************************************************)
EXTENDS Controller, LibraryProofs

DistinctInitialLists == \A l \in InitialList : IsInjective(l)

\* No id is taken before initialize, which trusts that it finds none.
Untouched == ~isInitialized => \A id \in Id : resourceId[id] = ZeroAddress

IInv == TypeOK /\ ListsMatchMappings /\ IdsMatchResources /\ Untouched

\* A list and the set of its addresses in the mapping beside it.
Registry(S, list, set) ==
  list \in Seq(S) /\ set \in SUBSET S /\ IsInjective(list) /\ ToSet(list) = set

\* push and the mapping's TRUE keep a registry, for an address not yet in it.
LEMMA AddKeepsRegistry ==
  ASSUME NEW S, NEW list, NEW set, NEW a \in S,
         Registry(S, list, set), a \notin set
  PROVE  Registry(S, Append(list, a), set \cup {a})
BY PushKeepsDistinct, ContainsIsMembership DEF Registry

\* remove and the mapping's FALSE keep a registry.
LEMMA RemoveKeepsRegistry ==
  ASSUME NEW S, NEW list, NEW set, NEW a \in set, Registry(S, list, set)
  PROVE  Registry(S, remove(list, a), set \ {a})
BY RemoveKeepsDistinct, ContainsIsMembership DEF Registry

\* A list of initialize is a registry of its own elements.
LEMMA InitialListIsRegistry ==
  ASSUME NEW S, NEW list \in Seq(S), IsInjective(list)
  PROVE  Registry(S, list, ToSet(list))
BY DEF Registry, ToSet

\* The four registries in the state.
Registries ==
  /\ Registry(SetAddress, sets, isSet)
  /\ Registry(FactoryAddress, factories, isFactory)
  /\ Registry(ModuleAddress, modules, isModule)
  /\ Registry(ResourceAddress, resources, isResource)

\* The part of the type that is not about the registries.
RestTypeOK ==
  /\ resourceId \in [Id -> ResourceAddress \cup {ZeroAddress}]
  /\ fees \in [ModuleAddress -> [FeeType -> FeePercentage]]
  /\ feeRecipient \in Account \cup {ZeroAddress}
  /\ isInitialized \in BOOLEAN

\* The invariant, stated by the four registries.
LEMMA InvariantByRegistries ==
  TypeOK /\ ListsMatchMappings <=> Registries /\ RestTypeOK
BY DEF TypeOK, ListsMatchMappings, Registries, RestTypeOK, Registry

\* A Controller that was not initialised has empty lists.
LEMMA InitEstablishes == Init => IInv
<1> SUFFICES ASSUME Init PROVE IInv
  OBVIOUS
<1>1. Registries
  BY DEF Init, Registries, Registry, IsInjective, ToSet
<1>2. RestTypeOK  BY ControllerAssumption DEF Init, RestTypeOK
<1>3. IdsMatchResources /\ Untouched
  BY DEF Init, IdsMatchResources, Untouched
<1>4. QED  BY <1>1, <1>2, <1>3, InvariantByRegistries DEF IInv

\* initialize gives each of its ids one of its resources, the ids being
\* different and none of them taken before.
LEMMA InitializeAssigns ==
  ASSUME IInv,
         NEW _factories, NEW _modules, NEW _resources \in Seq(ResourceAddress),
         NEW _resourceIds \in Seq(Id), IsInjective(_resources),
         initialize(_factories, _modules, _resources, _resourceIds)
  PROVE  /\ resourceId' \in [Id -> ResourceAddress \cup {ZeroAddress}]
         /\ IdsMatchResources'
<1> DEFINE n == Len(_resources)
<1>1. n \in Nat /\ DOMAIN _resources = 1 .. n /\ DOMAIN _resourceIds = 1 .. n
  BY DEF initialize
<1>2. IsInjective(_resourceIds)
  BY <1>1 DEF initialize, hasDuplicate, IsInjective
<1>3. \A id \in Id : resourceId[id] = ZeroAddress
  BY DEF IInv, Untouched, initialize
<1>4. resourceId' = [id \in Id |-> IF contains(_resourceIds, id)
                                   THEN _resources[indexOf(_resourceIds, id)]
                                   ELSE ZeroAddress]
  BY <1>3 DEF initialize
<1>5. \A id \in Id : contains(_resourceIds, id) =>
        /\ indexOf(_resourceIds, id) \in 1 .. n
        /\ _resourceIds[indexOf(_resourceIds, id)] = id
  BY <1>1, <1>2, IndexOfFinds
<1>6. \A i \in 1 .. n : _resources[i] \in ResourceAddress  BY <1>1
<1>7. isResource' = ToSet(_resources)  BY DEF initialize
<1>8. \A i \in 1 .. n : _resources[i] \in isResource'
  BY <1>1, <1>7 DEF ToSet
<1>9. \A i, j \in 1 .. n : _resources[i] = _resources[j] => i = j
  BY <1>1 DEF IsInjective
<1>10. resourceId' \in [Id -> ResourceAddress \cup {ZeroAddress}]
  BY <1>4, <1>5, <1>6
<1>11. \A id \in Id : resourceId'[id] # ZeroAddress =>
         /\ contains(_resourceIds, id)
         /\ resourceId'[id] = _resources[indexOf(_resourceIds, id)]
  BY <1>4
<1>12. \A id \in Id : resourceId'[id] # ZeroAddress => resourceId'[id] \in isResource'
  BY <1>5, <1>8, <1>11
<1>13. \A id1, id2 \in Id :
         resourceId'[id1] = resourceId'[id2] /\ resourceId'[id1] # ZeroAddress
           => id1 = id2
  BY <1>5, <1>9, <1>11
<1>14. ASSUME NEW r \in isResource' PROVE \E id \in Id : resourceId'[id] = r
  <2>1. PICK i \in 1 .. n : _resources[i] = r  BY <1>1, <1>7, <1>14 DEF ToSet
  <2> DEFINE id == _resourceIds[i]
  <2>2. id \in Id /\ contains(_resourceIds, id)  BY <1>1, <2>1 DEF contains
  <2>3. indexOf(_resourceIds, id) = i
    BY <1>1, <1>2, <1>5, <2>2 DEF IsInjective
  <2>4. resourceId'[id] = r  BY <1>4, <2>1, <2>2, <2>3
  <2>5. QED  BY <2>2, <2>4
<1>15. QED  BY <1>10, <1>12, <1>13, <1>14 DEF IdsMatchResources

\* Every step keeps the invariant; only initialize needs the assumption.
LEMMA NextPreserves ==
  ASSUME DistinctInitialLists, IInv, [Next]_vars
  PROVE  IInv'
<1>1. Registries /\ RestTypeOK /\ IdsMatchResources /\ Untouched
  BY InvariantByRegistries DEF IInv
<1> SUFFICES Registries' /\ RestTypeOK' /\ IdsMatchResources' /\ Untouched'
  BY InvariantByRegistries, PTL DEF IInv
<1>2. CASE UNCHANGED vars
  BY <1>1, <1>2 DEF vars, Registries, RestTypeOK, IdsMatchResources, Untouched
<1>3. CASE InitialNext
  <2>1. PICK _factories \in InitialList \cap Seq(FactoryAddress),
             _modules \in InitialList \cap Seq(ModuleAddress),
             _resources \in InitialList \cap Seq(ResourceAddress),
             _resourceIds \in IdList :
          initialize(_factories, _modules, _resources, _resourceIds)
    BY <1>3 DEF InitialNext
  <2>2. /\ IsInjective(_factories) /\ IsInjective(_modules)
        /\ IsInjective(_resources)
    BY DEF DistinctInitialLists
  <2>3. _resourceIds \in Seq(Id)
    <3>1. PICK n \in 0 .. 2 : _resourceIds \in [1 .. n -> Id]  BY DEF IdList
    <3>2. n \in Nat /\ \A i \in 1 .. n : _resourceIds[i] \in Id  BY <3>1
    <3>3. _resourceIds = [i \in 1 .. n |-> _resourceIds[i]]  BY <3>1
    <3>4. [i \in 1 .. n |-> _resourceIds[i]] \in Seq(Id)  BY <3>2
    <3>5. QED  BY <3>3, <3>4
  <2>4. Registries'
    BY <1>1, <2>1, <2>2, InitialListIsRegistry DEF initialize, Registries
  <2>5. resourceId' \in [Id -> ResourceAddress \cup {ZeroAddress}] /\ IdsMatchResources'
    BY <2>1, <2>2, <2>3, InitializeAssigns
  <2>6. RestTypeOK' /\ Untouched'
    BY <1>1, <2>1, <2>5 DEF initialize, RestTypeOK, Untouched
  <2>7. QED  BY <2>4, <2>5, <2>6
<1>4. CASE RegistryNext
  <2>1. RestTypeOK' /\ IdsMatchResources' /\ Untouched'
    BY <1>1, <1>4 DEF RegistryNext, addSet, removeSet, addFactory, removeFactory,
         addModule, removeModule, RestTypeOK, IdsMatchResources, Untouched
  <2>2. ASSUME NEW s \in SetAddress, removeSet(s) PROVE Registries'
    BY <1>1, <2>2, RemoveKeepsRegistry DEF removeSet, Registries
  <2>3. ASSUME NEW s \in SetAddress, NEW f \in FactoryAddress, addSet(f, s)
        PROVE  Registries'
    BY <1>1, <2>3, AddKeepsRegistry DEF addSet, Registries
  <2>4. ASSUME NEW f \in FactoryAddress, addFactory(f) PROVE Registries'
    BY <1>1, <2>4, AddKeepsRegistry DEF addFactory, Registries
  <2>5. ASSUME NEW f \in FactoryAddress, removeFactory(f) PROVE Registries'
    BY <1>1, <2>5, RemoveKeepsRegistry DEF removeFactory, Registries
  <2>6. ASSUME NEW m \in ModuleAddress, addModule(m) PROVE Registries'
    BY <1>1, <2>6, AddKeepsRegistry DEF addModule, Registries
  <2>7. ASSUME NEW m \in ModuleAddress, removeModule(m) PROVE Registries'
    BY <1>1, <2>7, RemoveKeepsRegistry DEF removeModule, Registries
  <2>8. QED
    BY <1>4, <2>1, <2>2, <2>3, <2>4, <2>5, <2>6, <2>7 DEF RegistryNext
<1>5. CASE ResourceNext
  <2>1. ASSUME NEW id \in Id, NEW r \in ResourceAddress, addResource(r, id)
        PROVE  Registries' /\ RestTypeOK' /\ IdsMatchResources' /\ Untouched'
    <3>1. Registries'
      BY <1>1, <2>1, AddKeepsRegistry DEF addResource, Registries
    <3>2. RestTypeOK' /\ Untouched'
      BY <1>1, <2>1 DEF addResource, RestTypeOK, Untouched
    <3>3. IdsMatchResources'
      BY <1>1, <2>1 DEF addResource, RestTypeOK, IdsMatchResources
    <3>4. QED  BY <3>1, <3>2, <3>3
  <2>2. ASSUME NEW id \in Id, removeResource(id)
        PROVE  Registries' /\ RestTypeOK' /\ IdsMatchResources' /\ Untouched'
    <3>1. resourceId[id] \in isResource
      BY <1>1, <2>2 DEF removeResource, IdsMatchResources
    <3>2. Registries'
      BY <1>1, <2>2, <3>1, RemoveKeepsRegistry DEF removeResource, Registries
    <3>3. RestTypeOK' /\ Untouched'
      BY <1>1, <2>2 DEF removeResource, RestTypeOK, Untouched
    <3>4. IdsMatchResources'
      BY <1>1, <2>2 DEF removeResource, RestTypeOK, IdsMatchResources
    <3>5. QED  BY <3>2, <3>3, <3>4
  <2>3. QED  BY <1>5, <2>1, <2>2 DEF ResourceNext
<1>6. CASE FeeNext
  <2>1. UNCHANGED <<lists, mappings, resourceId, isInitialized>>
    BY <1>6 DEF FeeNext, addFee, editFee, editFeeRecipient
  <2>2. /\ fees' \in [ModuleAddress -> [FeeType -> FeePercentage]]
        /\ feeRecipient' \in Account \cup {ZeroAddress}
    BY <1>1, <1>6 DEF FeeNext, addFee, editFee, editFeeRecipient, RestTypeOK
  <2>3. QED
    BY <1>1, <2>1, <2>2 DEF lists, mappings, Registries, RestTypeOK,
         IdsMatchResources, Untouched
<1>7. QED  BY <1>2, <1>3, <1>4, <1>5, <1>6 DEF Next

\* Given distinct initial lists, the registries are sound in every state.
THEOREM ControllerInvariant ==
  ASSUME DistinctInitialLists
  PROVE  Spec => []IInv
<1>1. IInv /\ [Next]_vars => IInv'  BY NextPreserves
<1>2. QED  BY <1>1, InitEstablishes, PTL DEF Spec

\* Given distinct initial lists, the lists, mappings, ids and fees keep their
\* types; the Controller sets no limit to a fee.
THEOREM TypeCorrect ==
  ASSUME DistinctInitialLists
  PROVE  Spec => []TypeOK
BY ControllerInvariant, PTL DEF IInv

\* Given distinct initial lists, what getSets, getFactories, getModules and
\* getResources return is what isSet, isFactory, isModule, isResource accept.
THEOREM ListsMatchCorrect ==
  ASSUME DistinctInitialLists
  PROVE  Spec => []ListsMatchMappings
BY ControllerInvariant, PTL DEF IInv

\* Given distinct initial lists, resource ids and enabled resources determine
\* each other, so that a resource that is removed is unreachable by any id.
THEOREM IdsMatchCorrect ==
  ASSUME DistinctInitialLists
  PROVE  Spec => []IdsMatchResources
BY ControllerInvariant, PTL DEF IInv
==============================================================================
