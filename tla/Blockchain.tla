------------------------------ MODULE Blockchain ------------------------------
(***************************************************************************)
(* The Hardhat node the tests run on, and utils/common/blockchainUtils.ts, *)
(* the class that saves and restores its state.  A transaction that        *)
(* creates a contract gives it its own height for an address, so that an   *)
(* address comes back once the node was reverted below it: a contract's    *)
(* address depends on its creator and the creator's nonce alone.           *)
(***************************************************************************)
EXTENDS Naturals, Sequences

VARIABLES
  chain,      \* the transactions mined
  snapshots,  \* the height each of the node's snapshots was taken at, by its id
  lastId      \* the last id the node gave; it never gives one twice

chainVars == <<chain, snapshots, lastId>>

assign(f, x, value) == [y \in {x} \cup DOMAIN f |-> IF y = x THEN value ELSE f[y]]

ChainInit == chain = << >> /\ snapshots = << >> /\ lastId = 0

mine(transaction) ==
  chain' = Append(chain, transaction) /\ UNCHANGED <<snapshots, lastId>>

\* saveSnapshotAsync: evm_snapshot, whose id it returns and keeps.
savedId == lastId + 1
saveSnapshotAsync ==
  /\ lastId' = savedId
  /\ snapshots' = assign(snapshots, savedId, Len(chain))
  /\ UNCHANGED chain

\* revertAsync and revertByIdAsync: evm_revert uses the snapshot up and every
\* later one; for one that is gone it answers false, which the class drops.
revertByIdAsync(id) ==
  /\ UNCHANGED lastId
  /\ IF id \in DOMAIN snapshots
       THEN /\ chain' = SubSeq(chain, 1, snapshots[id])
            /\ snapshots' = [i \in {j \in DOMAIN snapshots : j < id} |-> snapshots[i]]
       ELSE UNCHANGED <<chain, snapshots>>
==============================================================================
