----------------------------- MODULE PunkVault -----------------------------
(***************************************************************************)
(* The vault (contracts/src/PunkVault.sol): where unsold Punks are locked   *)
(* for ever, and the ERC-721 of the 111 Proofs, one per collected trait.    *)
(* Only the return auction module calls these operations.  Nothing here     *)
(* ever moves a Punk out, so there is no such action.                       *)
(***************************************************************************)
EXTENDS Integers

CONSTANTS
    Punks,
    Traits,     \* Proof token ids are the trait ids
    Accounts,   \* recipients of Proofs
    NoProof     \* stands for a Proof that is not minted

VARIABLES
    isLocked,           \* the Punks locked here
    lockedPunkCount,
    proofMeta,          \* proofMeta[t]: the Proof of trait t, or NoProof
    proofsMintedCount

vars == <<isLocked, lockedPunkCount, proofMeta, proofsMintedCount>>

Proof == [punk : Punks, recipient : Accounts, sequence : Nat]

TypeOK ==
    /\ isLocked \subseteq Punks
    /\ lockedPunkCount \in Nat
    /\ proofMeta \in [Traits -> Proof \cup {NoProof}]
    /\ proofsMintedCount \in Nat

Init ==
    /\ isLocked = {}
    /\ lockedPunkCount = 0
    /\ proofMeta = [t \in Traits |-> NoProof]
    /\ proofsMintedCount = 0

\* Mutant: only one Punk is ever received.
ReceivePunk_Once(p) ==
    /\ isLocked = {}
    /\ isLocked' = {p}
    /\ lockedPunkCount' = 1

\* The Punk has been transferred here before the call.
ReceivePunk(p) ==
    /\ p \notin isLocked
    /\ isLocked' = isLocked \cup {p}
    /\ lockedPunkCount' = lockedPunkCount + 1

\* One Proof per trait, for ever: a second mint of a trait reverts.
MintProofs(p, t, recipient, sequence) ==
    /\ recipient \in Accounts
    /\ proofMeta[t] = NoProof
    /\ proofMeta' = [proofMeta EXCEPT
            ![t] = [punk |-> p, recipient |-> recipient, sequence |-> sequence]]
    /\ proofsMintedCount' = proofsMintedCount + 1

NoMint == UNCHANGED <<proofMeta, proofsMintedCount>>
=============================================================================
