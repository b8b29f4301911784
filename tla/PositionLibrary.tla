--------------------------- MODULE PositionLibrary ---------------------------
(***************************************************************************)
(* contracts/protocol/lib/Position.sol: the functions modules use to read  *)
(* and edit positions, each composed of the storage primitives of the      *)
(* SetToken.  The ...Ok predicate of an edit is the conjunction of the     *)
(* requires met on the path taken.                                         *)
(***************************************************************************)
EXTENDS SetTokenPositions

hasDefaultPosition(p, c) == getDefaultPositionRealUnit(p, c) > 0

hasExternalPosition(p, c) == p.externalPositionModules[c] # << >>

hasSufficientDefaultUnits(p, c, unit) ==
  getDefaultPositionRealUnit(p, c) >= unit

hasSufficientExternalUnits(p, c, m, unit) ==
  getExternalPositionRealUnit(p, c, m) >= unit

-----------------------------------------------------------------------------

\* The default position appears, and nothing else listed the component.
listsComponent(p, c, newUnit) ==
  ~hasDefaultPosition(p, c) /\ newUnit > 0 /\ ~hasExternalPosition(p, c)

\* Mutant of delistsComponent: external positions are forgotten.
delistsWithDefault(p, c, newUnit) == hasDefaultPosition(p, c) /\ newUnit = 0

\* The default position disappears, and nothing else needs the component.
delistsComponent(p, c, newUnit) ==
  hasDefaultPosition(p, c) /\ newUnit = 0 /\ ~hasExternalPosition(p, c)

editDefaultPositionOk(p, c, newUnit) ==
  /\ listsComponent(p, c, newUnit) => addComponentOk(p, c)
  /\ delistsComponent(p, c, newUnit) => removeComponentOk(p, c)
  /\ convertOk(p, newUnit)

editDefaultPosition(p, c, newUnit) ==
  LET q == IF listsComponent(p, c, newUnit) THEN addComponent(p, c)
           ELSE IF delistsComponent(p, c, newUnit) THEN removeComponent(p, c)
           ELSE p
  IN  editDefaultPositionUnit(q, c, newUnit)

\* Mutant of isLastPosition: the default position is forgotten.
isLastExternal(p, c) == Len(p.externalPositionModules[c]) = 1

\* The last thing that kept the component listed is this external position.
isLastPosition(p, c) ==
  /\ getDefaultPositionRealUnit(p, c) = 0
  /\ Len(p.externalPositionModules[c]) = 1

editExternalPositionOk(p, c, m, newUnit, data) ==
  IF newUnit # 0
  THEN /\ ~isComponent(p, c) => addExternalPositionModuleOk(p, c, m)
       /\ convertOk(p, newUnit)
  ELSE /\ ~data
       /\ getExternalPositionRealUnit(p, c, m) # 0 =>
            /\ isLastPosition(p, c) =>
                 /\ p.externalPositionModules[c][1] = m
                 /\ removeComponentOk(p, c)
            /\ removeExternalPositionModuleOk(p, c, m)

openExternalPosition(p, c, m) ==
  LET q == IF isComponent(p, c) THEN p ELSE addComponent(p, c)
  IN  IF isExternalPositionModule(q, c, m) THEN q
      ELSE addExternalPositionModule(q, c, m)

closeExternalPosition(p, c, m) ==
  removeExternalPositionModule(
    IF isLastPosition(p, c) THEN removeComponent(p, c) ELSE p, c, m)

editExternalPosition(p, c, m, newUnit, data) ==
  IF newUnit # 0
  THEN editExternalPositionData(
         editExternalPositionUnit(openExternalPosition(p, c, m), c, m, newUnit),
         c, m, data)
  ELSE IF getExternalPositionRealUnit(p, c, m) # 0
       THEN closeExternalPosition(p, c, m)
       ELSE p

-----------------------------------------------------------------------------
(* Unit accounting against the balance of the SetToken. *)

getDefaultTotalNotional(supply, unit) == preciseMul(supply, unit)

getDefaultPositionUnit(supply, notional) == preciseDiv(notional, supply)

getDefaultTrackedBalance(p, supply, c) ==
  preciseMul(supply, getDefaultPositionRealUnit(p, c))

\* Tokens above what the positions account for are an airdrop, which the new
\* unit leaves out; both subtractions are SafeMath.
calculateDefaultEditPositionUnitOk(supply, preTotal, postTotal, preUnit) ==
  LET tracked == preciseMul(preUnit, supply)
  IN  tracked <= preTotal /\ preTotal - tracked <= postTotal /\ supply # 0

calculateDefaultEditPositionUnit(supply, preTotal, postTotal, preUnit) ==
  preciseDiv(postTotal - (preTotal - preciseMul(preUnit, supply)), supply)

\* The unit calculateAndEditDefaultPosition stores for a balance.
editedUnit(p, c, supply, preBalance, balance) ==
  IF balance > 0
  THEN calculateDefaultEditPositionUnit(supply, preBalance, balance,
                                        getDefaultPositionRealUnit(p, c))
  ELSE 0

calculateAndEditDefaultPositionOk(p, c, supply, preBalance, balance) ==
  /\ getDefaultPositionRealUnit(p, c) >= 0
  /\ balance > 0 =>
       calculateDefaultEditPositionUnitOk(supply, preBalance, balance,
                                          getDefaultPositionRealUnit(p, c))
  /\ editDefaultPositionOk(p, c, editedUnit(p, c, supply, preBalance, balance))

calculateAndEditDefaultPosition(p, c, supply, preBalance, balance) ==
  editDefaultPosition(p, c, editedUnit(p, c, supply, preBalance, balance))
==============================================================================
