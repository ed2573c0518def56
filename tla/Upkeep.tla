-------------------------------- MODULE Upkeep --------------------------------
(***************************************************************************)
(* The buy-and-burn queue with everybody who touches it: depositors, the   *)
(* admin, other executors, and the keeper of app/lib/keeper/targets.ts.    *)
(* The keeper takes a block number, reads the queue and the next           *)
(* executable block one by one (each may have moved on, a failed read      *)
(* counts as "not actionable"), and sends executeStep if both allow it.    *)
(* The allowlist of Patron stands for the raw-admin carve-outs.            *)
(***************************************************************************)
EXTENDS BuybackBurner

CONSTANTS
    Sellers,            \* allowlist candidates
    PartialFills,       \* amounts at which the pool may stop a swap
    Unread

VARIABLES
    allowedSellers,     \* Patron's allowlist
    pc,                 \* the keeper: "idle", "reading" or "sent"
    online,             \* no read of this round fails
    since,              \* its block number until it is used, as blocks since the last step
    hasQueued,          \* Unread, or what the reads said
    offCooldown

keeperVars == <<pc, online, since, hasQueued, offCooldown>>
vars == <<adminVars, burnerVars, allowedSellers, keeperVars>>

KeeperInit ==
    /\ pc = "idle" /\ online = FALSE /\ since = 0
    /\ hasQueued = Unread /\ offCooldown = Unread

Init == AdminInit /\ BurnerInit /\ allowedSellers = {} /\ KeeperInit

-----------------------------------------------------------------------------
(* The admin and the chain.                                                *)

HandOver(caller, newAdmin) ==
    transferAdmin(caller, newAdmin) /\ UNCHANGED <<burnerVars, allowedSellers, keeperVars>>

Year == TimePasses /\ UNCHANGED <<burnerVars, allowedSellers, keeperVars>>

SetParameter(caller) ==
    /\ \/ \E n \in Cooldowns : setMinBlocksBetweenSteps(caller, n)
       \/ \E n \in MaxSteps : setMaxStepWei(caller, n)
    /\ UNCHANGED <<adminVars, allowedSellers, keeperVars>>

\* Patron's onlyAdminEvenIfLocked
SetAllowedSeller(caller, seller) ==
    /\ caller = admin
    /\ \/ allowedSellers' = allowedSellers \cup {seller}
       \/ allowedSellers' = allowedSellers \ {seller}
    /\ UNCHANGED <<adminVars, burnerVars, keeperVars>>

Deposit ==
    /\ \/ \E amount \in Deposits : receiveEth(amount)
       \/ \E amount \in ForcedAmounts : ForceEth(amount)
    /\ UNCHANGED <<adminVars, allowedSellers, keeperVars>>

Mined == NextBlock /\ UNCHANGED <<adminVars, allowedSellers, keeperVars>>

\* The pool fills all of the swap or stops somewhere before.
Fills == {SwapAmount} \cup PartialFills

ExecuteAny == \E ethSpent \in Fills, accepts \in BOOLEAN : executeStep(ethSpent, accepts)

\* Somebody else's step: the keeper's block now lies before the last step.
OtherExecutes ==
    /\ ExecuteAny
    /\ since' = 0
    /\ UNCHANGED <<adminVars, allowedSellers, pc, online, hasQueued, offCooldown>>

-----------------------------------------------------------------------------
(* The keeper.                                                             *)

KeeperStarts(rpcWorks) ==
    /\ pc = "idle" /\ pc' = "reading"
    /\ online' = rpcWorks
    /\ since' = age
    /\ UNCHANGED <<adminVars, burnerVars, allowedSellers, hasQueued, offCooldown>>

ReadQueue(ok) ==
    /\ pc = "reading" /\ hasQueued = Unread
    /\ online => ok
    /\ hasQueued' = (ok /\ remainingEth > 0)
    /\ UNCHANGED <<adminVars, burnerVars, allowedSellers, pc, online, since, offCooldown>>

ReadNextBlock(ok) ==
    /\ pc = "reading" /\ offCooldown = Unread
    /\ online => ok
    /\ offCooldown' = (ok /\ since >= minBlocksBetweenSteps)
    /\ since' = 0
    /\ UNCHANGED <<adminVars, burnerVars, allowedSellers, pc, online, hasQueued>>

Evaluated ==
    /\ pc = "reading" /\ hasQueued # Unread /\ offCooldown # Unread
    /\ pc' = IF hasQueued /\ offCooldown THEN "sent" ELSE "idle"
    /\ hasQueued' = Unread /\ offCooldown' = Unread /\ online' = FALSE
    /\ UNCHANGED <<adminVars, burnerVars, allowedSellers, since>>

\* The transaction executes, or reverts when it came too late.
KeeperExecutes ==
    /\ pc = "sent" /\ pc' = "idle"
    /\ \/ ExecuteAny
       \/ ~Executable /\ UNCHANGED burnerVars
    /\ UNCHANGED <<adminVars, allowedSellers, online, since, hasQueued, offCooldown>>

KeeperReads == \E ok \in BOOLEAN : ReadQueue(ok) \/ ReadNextBlock(ok)

-----------------------------------------------------------------------------

Next ==
    \/ \E caller \in Accounts :
          \/ \E newAdmin \in Accounts \cup {NoOne} : HandOver(caller, newAdmin)
          \/ SetParameter(caller)
          \/ \E seller \in Sellers : SetAllowedSeller(caller, seller)
    \/ Year \/ Deposit \/ Mined \/ OtherExecutes
    \/ \E rpcWorks \in BOOLEAN : KeeperStarts(rpcWorks)
    \/ KeeperReads \/ Evaluated \/ KeeperExecutes

Spec == Init /\ [][Next]_vars

\* Blocks are mined, the keeper's rounds end, and a round whose reads all
\* succeed comes again and again.
Fairness ==
    /\ WF_vars(Mined)
    /\ WF_vars(\E ok \in BOOLEAN : ReadQueue(ok))
    /\ WF_vars(\E ok \in BOOLEAN : ReadNextBlock(ok))
    /\ WF_vars(Evaluated) /\ WF_vars(KeeperExecutes)
    /\ SF_vars(KeeperStarts(TRUE))

FairSpec == Spec /\ Fairness

-----------------------------------------------------------------------------
(* Properties.                                                             *)

\* remainingEth is exactly the ETH the burner holds, but for what was forced
\* in, through partial fills, pro-rated and refused rewards
\* (BuybackBurner.sol:281-324).
QueueIsBacked == balance = remainingEth + forced

\* The locks are one-way (ProtocolAdmin.sol:54-55): once the role has lapsed no
\* parameter behind checkAdmin moves and the role can only be burned, and once it
\* is burned the carve-outs are shut as well.
Shrinks ==
    /\ IsLocked =>
          /\ IsLocked'
          /\ admin' \in {admin, NoOne}
          /\ UNCHANGED <<minBlocksBetweenSteps, maxStepWei>>
    /\ adminBurned => adminBurned' /\ UNCHANGED allowedSellers
PowerOnlyShrinks == [][Shrinks]_vars

\* Queued ETH goes on being burned: neither partial fills, nor competing
\* executors, nor failed reads, nor an admin who keeps changing the cooldown
\* stops the queue for good (targets.ts:402-421).
Burns == remainingEth' < remainingEth
QueueKeepsBurning == []<>(remainingEth = 0) \/ []<><<Burns>>_vars

=============================================================================
