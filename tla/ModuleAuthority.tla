--------------------------- MODULE ModuleAuthority ---------------------------
(***************************************************************************)
(* What a SetToken promises about authority, without lists, positions or   *)
(* accounts.  A module gains authority in two steps that different parties *)
(* take, and loses it when its dismissal is complete, until which it may   *)
(* settle its affairs; at most one module at a time makes itself the       *)
(* exclusive holder; and whatever the SetToken owns or owes (its ledger)   *)
(* changes only by the act of a module in authority.                       *)
(***************************************************************************)
CONSTANTS Module, Nobody   \* Nobody is not a Module

VARIABLES
  approved,    \* modules the protocol approves at this moment
  admitted,    \* modules the manager has let in
  active,      \* those of them that have taken up their authority
  dismissed,   \* the one of those that is about to leave, or Nobody
  exclusive,   \* the module that excludes all others, or Nobody
  ledger       \* what the modules administer

vars == <<approved, admitted, active, dismissed, exclusive, ledger>>

Init == /\ approved \in SUBSET Module
        /\ admitted \in SUBSET approved
        /\ active = {} /\ dismissed = Nobody /\ exclusive = Nobody

InAuthority(m) == m \in active \cap approved /\ exclusive \in {m, Nobody}

Govern == /\ dismissed = Nobody
          /\ approved' \in SUBSET Module
          /\ UNCHANGED <<admitted, active, dismissed, exclusive, ledger>>

Admit(m) == /\ dismissed = Nobody
            /\ m \in approved \ admitted
            /\ admitted' = admitted \cup {m}
            /\ UNCHANGED <<approved, active, dismissed, exclusive, ledger>>

Activate(m) == /\ exclusive = Nobody
               /\ m \in admitted \ active
               /\ active' = active \cup {m}
               /\ UNCHANGED <<approved, admitted, dismissed, exclusive, ledger>>

\* A module that has not taken up its authority can be turned away at once.
Reject(m) == /\ dismissed = Nobody /\ exclusive = Nobody
             /\ m \in admitted \ active
             /\ admitted' = admitted \ {m}
             /\ UNCHANGED <<approved, active, dismissed, exclusive, ledger>>

\* Nobody is dismissed against an exclusive holder ...
Dismiss(m) == /\ dismissed = Nobody /\ exclusive = Nobody
              /\ m \in active
              /\ dismissed' = m
              /\ UNCHANGED <<approved, admitted, active, exclusive, ledger>>

\* ... but who becomes one before it leaves goes as the exclusive holder.
Depart(m) == /\ dismissed = m
             /\ admitted' = admitted \ {m}
             /\ active' = active \ {m}
             /\ dismissed' = Nobody
             /\ UNCHANGED <<approved, exclusive, ledger>>

Exclude(m) == /\ exclusive = Nobody
              /\ InAuthority(m)
              /\ exclusive' = m
              /\ UNCHANGED <<approved, admitted, active, dismissed, ledger>>

Readmit(m) == /\ exclusive = m
              /\ InAuthority(m)
              /\ exclusive' = Nobody
              /\ UNCHANGED <<approved, admitted, active, dismissed, ledger>>

Administer(m) == /\ InAuthority(m)
                 /\ UNCHANGED <<approved, admitted, active, dismissed,
                                exclusive>>

Next == \/ Govern
        \/ \E m \in Module : \/ Admit(m) \/ Activate(m) \/ Reject(m)
                             \/ Dismiss(m) \/ Depart(m)
                             \/ Exclude(m) \/ Readmit(m) \/ Administer(m)

Spec == Init /\ [][Next]_vars
==============================================================================
