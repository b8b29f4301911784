------------------------------- MODULE NavSet --------------------------------
(***************************************************************************)
(* A SetToken issued at its net asset value: BasicIssuanceModule for the   *)
(* first SetTokens, NAVIssuanceModule beside it, prices that move between  *)
(* calls, and the manager's settings.  The expectations of the test        *)
(* utilities are computed in every state reached.                          *)
(*                                                                         *)
(* calls counts issuances and redemptions, which are bounded: each of them *)
(* rounds the multiplier to a value of its own.                            *)
(***************************************************************************)
EXTENDS NAVIssuanceModule

CONSTANTS
  InitialUnits,     \* units of the components given to SetTokenCreator
  BasicQuantity,    \* bound: SetTokens issued or redeemed for components
  ReserveQuantity,  \* bound: reserve asset paid for SetTokens
  RedeemQuantity,   \* bound: SetTokens redeemed at net asset value
  Quotes,           \* bound: pairs and prices the oracles may give
  Settings,         \* bound: settings the manager may choose
  MaxCalls          \* bound: issuances and redemptions

\* SetTokenCreator refuses units of zero; oracles read unsigned numbers, and
\* initialize is given unsigned numbers and a list of addresses.
ASSUME NavSetAssumption ==
  /\ IsFiniteSet(DOMAIN InitialUnits) /\ DOMAIN InitialUnits \subseteq Component
  /\ \A c \in DOMAIN InitialUnits : InitialUnits[c] \in Nat \ {0}
  /\ BasicQuantity \subseteq Nat /\ ReserveQuantity \subseteq Nat
  /\ RedeemQuantity \subseteq Nat
  /\ Quotes \subseteq Asset \X Asset \X Nat
  /\ Settings \subseteq [managerFees          : [{"issue", "redeem"} -> Nat],
                         maxManagerFee        : Nat,
                         premiumPercentage    : Nat,
                         maxPremiumPercentage : Nat,
                         minSetTokenSupply    : Nat,
                         reserveAssets        : Seq(Component)]

VARIABLE calls

Basic == INSTANCE BasicIssuanceModule
Expected == INSTANCE NavExpectations

vars == <<vault, oracles, navVars, calls>>

Init ==
  /\ LET s == SetToSeq(DOMAIN InitialUnits)
     IN  VaultInit(s, [i \in DOMAIN s |-> InitialUnits[s[i]]])
  /\ OracleInit
  /\ NavInit
  /\ calls = 0

UseBasic ==
  /\ \E a \in Account, q \in BasicQuantity : Basic!issue(a, q) \/ Basic!redeem(a, q)
  /\ UNCHANGED <<oracles, navVars>>

UseNav ==
  \/ \E a \in Account, c \in Component, q \in ReserveQuantity : issue(a, c, q)
  \/ \E a \in Account, c \in Component, q \in RedeemQuantity : redeem(a, c, q)

Manage ==
  \/ \E c \in Component : addReserveAsset(c) \/ removeReserveAsset(c)
  \/ \E s \in Settings : \/ editPremium(s.premiumPercentage)
                         \/ \E a \in {"issue", "redeem"} :
                              editManagerFee(s.managerFees[a], a)
                         \/ initialize(s)
  \/ removeModule
  \/ addModule

ManageOracles ==
  /\ \E quote \in Quotes :
       \/ addPair(quote[1], quote[2], quote[3])
       \/ editPair(quote[1], quote[2], quote[3])
       \/ removePair(quote[1], quote[2])
  /\ UNCHANGED <<vault, navVars>>

Next ==
  \/ /\ UseBasic \/ UseNav
     /\ calls < MaxCalls /\ calls' = calls + 1
  \/ /\ Manage \/ ManageOracles
     /\ UNCHANGED calls

Spec == Init /\ [][Next]_vars

-----------------------------------------------------------------------------

\* The list getReserveAssets returns and the mapping that admits a reserve
\* asset agree, over settings, removal of the module and another
\* initialisation.
ReserveListMatchesMapping ==
  /\ ~hasDuplicate(navIssuanceSettings.reserveAssets)
  /\ \A c \in Component :
       isReserveAsset[c] <=> contains(navIssuanceSettings.reserveAssets, c)

\* The step is an issuance or redemption at net asset value, in asset c.
NavStepIn(c) == held'[c] # held[c] /\ positions' # positions

\* Issuing at net asset value mints at most what the reserve asset received is
\* worth less the premium, up to one unit of the total value; redeeming pays at
\* most what the SetTokens were worth less the premium.  Neither takes value
\* from those who stay, and the premium is theirs.
FairAtNav ==
  [][\A c \in Component : NavStepIn(c) =>
       LET V == calculateSetTokenValuation(c)
           minted == totalSupply' - totalSupply
           paid == held[c] - held'[c]
           premium == navIssuanceSettings.premiumPercentage
           worth == preciseDiv(-paid - preciseMul(-paid, premium), baseUnits[c])
       IN  IF minted >= 0
           THEN minted * totalSupply * V
                  <= PRECISE_UNIT * (worth * totalSupply + minted)
           ELSE paid * PRECISE_UNIT * PRECISE_UNIT * PRECISE_UNIT
                  <= -minted * V * baseUnits[c] * (PRECISE_UNIT - premium)]_vars

\* A NAV issuance or redemption never leaves the reserve asset worse backed,
\* and costs every other component less than one unit per SetToken although
\* its units are rounded by a multiplier made for the whole SetToken.
NavCostsAtMostDust ==
  [][\A r \in Component : NavStepIn(r) =>
       \A c \in Component :
         deficit(c)' <= deficit(c) + IF c = r THEN 0 ELSE totalSupply]_vars

-----------------------------------------------------------------------------
(* The expectations of navIssuanceModuleUtils.ts against the module. *)

CanUse(c) ==
  /\ navState = "INITIALIZED" /\ isReserveAsset[c] /\ isPriced(c)
  /\ totalSupply >= navIssuanceSettings.minSetTokenSupply

within(a, b, gap) == a - b <= gap /\ b - a <= gap

fee(action) == navIssuanceSettings.managerFees[action]

\* The net quantity the tests expect, in which the protocol's share of the
\* manager's fee does not appear, is within one base unit of the module's; when
\* they are equal, and the fees do not exceed the quantity (which reverts), the
\* tests expect exactly the SetTokens the module mints.
issueAsExpected(c, q) ==
  LET net == netFlow("issue", q)
      direct == protocolDirect["issue"]
      expectedNet == Expected!getExpectedPostFeeQuantity(q, fee("issue"), direct)
  IN  /\ within(net, expectedNet, 1)
      /\ net >= 0 /\ net = expectedNet /\ mintDenominator(c, net) > 0 =>
           _getSetTokenMintQuantity(c, net)
             = Expected!getExpectedSetTokenIssueQuantity(
                 calculateSetTokenValuation(c), totalSupply, baseUnits[c], q,
                 fee("issue"), direct, navIssuanceSettings.premiumPercentage)

\* The reserve the tests expect a redeemer to get is within three base units
\* of what the module pays, if it pays, for assets of at most eighteen decimals.
redeemAsExpected(c, q) ==
  LET net == netFlow("redeem", _getRedeemReserveQuantity(c, q))
  IN  baseUnits[c] <= PRECISE_UNIT /\ net >= 0 =>
        within(net,
               Expected!getExpectedReserveRedeemQuantity(
                 q, calculateSetTokenValuation(c), baseUnits[c], fee("redeem"),
                 protocolDirect["redeem"], navIssuanceSettings.premiumPercentage), 3)

\* What a call would mint or pay is what the tests expect of it, up to those
\* gaps, whatever prices, fees and earlier calls led to.
QuantitiesAsExpected ==
  \A c \in Component : CanUse(c) =>
    /\ \A q \in ReserveQuantity : issueAsExpected(c, q)
    /\ \A q \in RedeemQuantity : redeemAsExpected(c, q)

\* The multiplier of the module is never below the one expected over a rounded
\* inflation or deflation, and above it by at most the multiplier itself in
\* precise units, rounded up.
multiplierAsExpected ==
  LET m == positions.positionMultiplier
      expected ==
        IF totalSupply' >= totalSupply
        THEN Expected!getExpectedIssuePositionMultiplier(m, totalSupply, totalSupply')
        ELSE Expected!getExpectedRedeemPositionMultiplier(m, totalSupply, totalSupply')
      actual == positions'.positionMultiplier
  IN  expected <= actual /\ actual <= expected + m \div PRECISE_UNIT + 1

\* The reserve unit the tests expect is within the rounding of one conversion,
\* in either order, and after a redemption (of assets of at most eighteen
\* decimals) of two base units spread over the new supply.  What came in is
\* taken after fees, so that the fees of the expectation are zero here;
\* QuantitiesAsExpected is about those.
unitAsExpected(c) ==
  LET m == positions'.positionMultiplier
      rounding == m \div PRECISE_UNIT + PRECISE_UNIT \div m + 2
      spread == (2 * PRECISE_UNIT) \div totalSupply' + 1
  IN  IF totalSupply' >= totalSupply
      THEN within(realUnit(c)',
                  Expected!getExpectedIssuePositionUnit(
                    realUnit(c), held'[c] - held[c], totalSupply, totalSupply',
                    m, 0, 0),
                  rounding)
      ELSE baseUnits[c] <= PRECISE_UNIT =>
             within(realUnit(c)',
                    Expected!getExpectedRedeemPositionUnit(
                      realUnit(c), totalSupply - totalSupply',
                      calculateSetTokenValuation(c), baseUnits[c], totalSupply,
                      totalSupply', m, navIssuanceSettings.premiumPercentage),
                    rounding + spread)

\* An issuance or redemption leaves the multiplier and the reserve unit that the
\* tests expect, up to those gaps.
PositionsAsExpected ==
  [][\A c \in Component : NavStepIn(c) => multiplierAsExpected /\ unitAsExpected(c)]_vars

\* isRedeemValid, the view a holder asks first, never refuses a redemption that
\* redeem carries out.  (It may accept one that redeem refuses: it compares the
\* reserve with the quantity after fees, redeem with the one before.)
PossibleRedeemIsValid ==
  [][\A c \in Component : NavStepIn(c) /\ totalSupply' < totalSupply =>
       isRedeemValid(c, totalSupply - totalSupply')]_vars
==============================================================================
