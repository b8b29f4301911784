-------------------------- MODULE SetTokenPositions --------------------------
(***************************************************************************)
(* The position storage of a SetToken (contracts/protocol/SetToken.sol) as *)
(* a record, and the storage primitives and getters over it as operators.  *)
(* A require that can fail is a predicate named ...Ok; the caller makes it *)
(* a guard, since a revert undoes the whole transaction.                   *)
(*                                                                         *)
(*   components               the address[] of listed components           *)
(*   virtualUnit              default position unit, before the multiplier *)
(*   externalPositionModules  per component, the modules with a position   *)
(*   externalUnit             their virtual units (negative for debt)      *)
(*   externalData             whether their data is non-empty              *)
(*   positionMultiplier       real unit = virtual unit * multiplier        *)
(***************************************************************************)
EXTENDS PreciseUnitMath, AddressArrayUtils

CONSTANTS Component, PositionModule

PositionState ==
  [components              : Seq(Component),
   virtualUnit             : [Component -> Int],
   externalPositionModules : [Component -> Seq(PositionModule)],
   externalUnit            : [Component -> [PositionModule -> Int]],
   externalData            : [Component -> [PositionModule -> BOOLEAN]],
   positionMultiplier      : Int]

\* What the constructor stores: the components and their units as given.
newPositions(_components, _units) ==
  [components              |-> _components,
   virtualUnit             |-> [c \in Component |->
                                  IF contains(_components, c)
                                  THEN _units[indexOf(_components, c)] ELSE 0],
   externalPositionModules |-> [c \in Component |-> << >>],
   externalUnit            |-> [c \in Component |-> [m \in PositionModule |-> 0]],
   externalData            |-> [c \in Component |-> [m \in PositionModule |-> FALSE]],
   positionMultiplier      |-> PRECISE_UNIT]

-----------------------------------------------------------------------------
(* Units: stored virtual, shown real. *)

_convertRealToVirtualUnit(p, realUnit) ==
  conservativePreciseDiv(realUnit, p.positionMultiplier)

\* The conversion reverts on a positive unit it would store as zero, and on
\* a zero multiplier.
convertOk(p, realUnit) ==
  /\ p.positionMultiplier # 0
  /\ ~(realUnit > 0 /\ _convertRealToVirtualUnit(p, realUnit) = 0)

_convertVirtualToRealUnit(p, virtualUnit) ==
  conservativePreciseMul(virtualUnit, p.positionMultiplier)

getDefaultPositionRealUnit(p, c) ==
  _convertVirtualToRealUnit(p, p.virtualUnit[c])

getExternalPositionRealUnit(p, c, m) ==
  _convertVirtualToRealUnit(p, p.externalUnit[c][m])

getTotalComponentRealUnits(p, c) ==
  FoldLeft(LAMBDA total, m : total + getExternalPositionRealUnit(p, c, m),
           getDefaultPositionRealUnit(p, c), p.externalPositionModules[c])

isComponent(p, c) == contains(p.components, c)

isExternalPositionModule(p, c, m) == contains(p.externalPositionModules[c], m)

-----------------------------------------------------------------------------
(* Storage primitives, one per privileged function. *)

addComponentOk(p, c) == ~isComponent(p, c)
addComponent(p, c) == [p EXCEPT !.components = Append(@, c)]

removeComponentOk(p, c) == isComponent(p, c)
removeComponent(p, c) == [p EXCEPT !.components = removeStorage(@, c)]

editDefaultPositionUnit(p, c, realUnit) ==
  [p EXCEPT !.virtualUnit[c] = _convertRealToVirtualUnit(p, realUnit)]

addExternalPositionModuleOk(p, c, m) == ~isExternalPositionModule(p, c, m)
addExternalPositionModule(p, c, m) ==
  [p EXCEPT !.externalPositionModules[c] = Append(@, m)]

removeExternalPositionModuleOk(p, c, m) == isExternalPositionModule(p, c, m)
\* Mutant of removeExternalPositionModule: the position is not deleted.
removeExternalPositionModuleFromList(p, c, m) ==
  [p EXCEPT !.externalPositionModules[c] = removeStorage(@, m)]

removeExternalPositionModule(p, c, m) ==
  [p EXCEPT !.externalPositionModules[c] = removeStorage(@, m),
            !.externalUnit[c][m] = 0,
            !.externalData[c][m] = FALSE]

editExternalPositionUnit(p, c, m, realUnit) ==
  [p EXCEPT !.externalUnit[c][m] = _convertRealToVirtualUnit(p, realUnit)]

editExternalPositionData(p, c, m, data) ==
  [p EXCEPT !.externalData[c][m] = data]

\* Mutant of positionUnits: external positions are not looked at.
defaultPositionUnits(p) ==
  {u \in {p.virtualUnit[c] : c \in ToSet(p.components)} : u > 0}

\* Absolute virtual units of every non-zero position of a listed component.
positionUnits(p) ==
  {u \in {p.virtualUnit[c] : c \in ToSet(p.components)} : u > 0}
  \cup {abs(u) : u \in {v \in UNION {{p.externalUnit[c][m] :
                          m \in ToSet(p.externalPositionModules[c])} :
                            c \in ToSet(p.components)} : v # 0}}

\* The minimum over no position is uint256(-1), which toInt256 rejects, and
\* toUint256 rejects a negative default unit.  The least unit is positive
\* under the new multiplier when every unit is.
_validateNewMultiplier(p, newMultiplier) ==
  /\ \A c \in ToSet(p.components) : p.virtualUnit[c] >= 0
  /\ positionUnits(p) # {}
  /\ \A u \in positionUnits(p) : conservativePreciseMul(u, newMultiplier) > 0

editPositionMultiplier(p, newMultiplier) ==
  [p EXCEPT !.positionMultiplier = newMultiplier]
==============================================================================
