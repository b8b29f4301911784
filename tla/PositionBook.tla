---------------------------- MODULE PositionBook -----------------------------
(***************************************************************************)
(* The positions of one SetToken as its modules drive them: through the    *)
(* Position library and the multiplier, never through single primitives.   *)
(* Whether the component list still tells what the SetToken holds is       *)
(* decided by conversions between virtual and real units that round.       *)
(***************************************************************************)
EXTENDS PositionLibrary

CONSTANTS
  ModulesOf,       \* bound: the modules that act on a component
  DefaultUnit,     \* bound: real units asked for a default position
  ExternalUnit,    \* bound: real units asked for an external position
  FeePercentage,   \* bound: inflation of one streaming fee accrual
  Supply,          \* bound: total supplies of NAV issuance and redemption
  MaxMultiplier    \* bound: multiplier reached by NAV redemption

ASSUME PositionBookAssumption ==
  /\ ModulesOf \in [Component -> SUBSET PositionModule]
  /\ DefaultUnit \subseteq Nat /\ ExternalUnit \subseteq Int
  /\ FeePercentage \subseteq 0 .. PRECISE_UNIT
  /\ Supply \subseteq Nat \ {0} /\ MaxMultiplier \in Nat

VARIABLE book

bookVars == <<book>>

\* The positions keep their type through every edit of the library.
BookTypeOK == book \in PositionState

BookInit ==
  \E c \in Component, u \in DefaultUnit \ {0} :
    book = newPositions(<<c>>, <<u>>)

editDefault(c, newUnit) ==
  /\ editDefaultPositionOk(book, c, newUnit)
  /\ book' = editDefaultPosition(book, c, newUnit)

\* Modules pass data only with a unit that is not zero.
editExternal(c, m, newUnit, data) ==
  /\ editExternalPositionOk(book, c, m, newUnit, data)
  /\ book' = editExternalPosition(book, c, m, newUnit, data)

reprice(newMultiplier) ==
  /\ _validateNewMultiplier(book, newMultiplier)
  /\ book' = editPositionMultiplier(book, newMultiplier)

\* StreamingFeeModule lowers the multiplier by the inflation.
_editPositionMultiplier(inflationFee) ==
  reprice(preciseMulSigned(book.positionMultiplier,
                           PRECISE_UNIT - inflationFee))

\* NAVIssuanceModule scales it by the ratio of the supplies, either way, and
\* then stores the new unit of the reserve asset.
navMultiplier(previousSupply, newSupply) ==
  sdiv(book.positionMultiplier * previousSupply, newSupply)

handleNavStateUpdates(c, previousSupply, newSupply, newUnit) ==
  LET newMultiplier == navMultiplier(previousSupply, newSupply)
      repriced == editPositionMultiplier(book, newMultiplier)
  IN  /\ newMultiplier <= MaxMultiplier
      /\ _validateNewMultiplier(book, newMultiplier)
      /\ editDefaultPositionOk(repriced, c, newUnit)
      /\ book' = editDefaultPosition(repriced, c, newUnit)

BookNext ==
  \/ \E c \in Component : \E u \in DefaultUnit : editDefault(c, u)
  \/ \E c \in Component, data \in BOOLEAN : \E m \in ModulesOf[c] :
       \E u \in ExternalUnit : editExternal(c, m, u, data)
  \/ \E f \in FeePercentage : _editPositionMultiplier(f)
  \/ \E c \in Component, s, t \in Supply : \E u \in DefaultUnit :
       handleNavStateUpdates(c, s, t, u)

BookSpec == BookInit /\ [][BookNext]_bookVars

-----------------------------------------------------------------------------

\* A component is listed exactly while it has a default or an external
\* position: getPositions neither loses a position nor visits an empty entry.
ListMatchesPositions ==
  \A c \in Component :
    isComponent(book, c) <=>
      \/ book.virtualUnit[c] > 0
      \/ book.externalPositionModules[c] # << >>

\* A module is listed on a component exactly while its position there is not
\* zero, and data is kept for listed modules only.
ExternalListMatchesUnits ==
  \A c \in Component, m \in PositionModule :
    /\ isExternalPositionModule(book, c, m)
         <=> book.externalUnit[c][m] # 0
    /\ book.externalData[c][m] => isExternalPositionModule(book, c, m)

\* Any position can be closed: setting a unit to zero passes every require
\* of the library and of the SetToken, so no position locks a module in.
PositionsCanBeClosed ==
  \A c \in Component :
    /\ editDefaultPositionOk(book, c, 0)
    /\ \A m \in PositionModule :
         editExternalPositionOk(book, c, m, 0, FALSE)

\* What is held stays held and what is owed stays owed.
SameSide(old, new) == (old > 0 => new > 0) /\ (old < 0 => new < 0)

\* Repricing makes no position vanish: one that read as held still does, and
\* one that read as owed still does, except a unit the same call replaces.
\* The guard on the multiplier looks at listed components and listed modules
\* only, so it protects the others just when the library keeps them listed.
RepricingKeepsPositions ==
  [][book'.positionMultiplier # book.positionMultiplier =>
       \A c \in Component :
         /\ book'.virtualUnit[c] = book.virtualUnit[c] =>
              SameSide(getDefaultPositionRealUnit(book, c),
                       getDefaultPositionRealUnit(book', c))
         /\ \A m \in PositionModule :
              SameSide(getExternalPositionRealUnit(book, c, m),
                       getExternalPositionRealUnit(book', c, m))]_bookVars
==============================================================================
