-------------------------- MODULE AddressArrayUtils --------------------------
(***************************************************************************)
(* contracts/lib/AddressArrayUtils.sol: an address[] is a sequence.  An    *)
(* operation that reverts when the address is missing is guarded by        *)
(* contains at its callers.                                                *)
(***************************************************************************)
EXTENDS Integers, Sequences, SequencesExt

contains(A, a) == \E i \in DOMAIN A : A[i] = a

\* The first position of a in A; defined when contains(A, a).
indexOf(A, a) ==
  CHOOSE i \in DOMAIN A : A[i] = a /\ \A j \in DOMAIN A : j < i => A[j] # a

hasDuplicate(A) == \E i, j \in DOMAIN A : i < j /\ A[i] = A[j]

\* Memory version, which shifts the tail: the order of the others is kept.
remove(A, a) ==
  [j \in 1 .. Len(A) - 1 |-> IF j < indexOf(A, a) THEN A[j] ELSE A[j + 1]]

\* Storage version: the last element takes the freed slot, then pop().
removeStorage(A, a) ==
  [j \in 1 .. Len(A) - 1 |-> IF j = indexOf(A, a) THEN A[Len(A)] ELSE A[j]]

extend(A, B) == A \o B
==============================================================================
