---------------------------- MODULE BuybackBurner ----------------------------
(***************************************************************************)
(* contracts/src/BuybackBurner.sol: ETH queued in remainingEth is swapped  *)
(* for the token and burned, at most maxStepWei per step and one step per  *)
(* minBlocksBetweenSteps blocks, by anybody, for a 0.5% reward.            *)
(*                                                                         *)
(* The pool may fill part of a swap (the price limit stops it), the        *)
(* caller may refuse the reward, and ETH may be forced in past receive().  *)
(* A pool without any liquidity is left out: a swap spends something.  So  *)
(* are minOut, whose revert changes nothing, and the token amounts.        *)
(***************************************************************************)
EXTENDS ProtocolAdmin

CONSTANTS
    ExecRewardCap,      \* EXEC_REWARD_CAP
    Cooldowns,          \* values of minBlocksBetweenSteps that are tried
    MaxSteps,           \* values of maxStepWei that are tried
    Deposits,           \* amounts sent to receive()
    ForcedAmounts,      \* amounts forced in
    MaxEth,             \* bound: no more is sent in above this balance
    MaxForced           \* bound: no more than this is forced in

ASSUME BurnerAssumption ==
    /\ ExecRewardCap \in Nat
    /\ Cooldowns \subseteq Nat \ {0} /\ \E n \in Cooldowns : \A c \in Cooldowns : c <= n
    /\ MaxSteps \subseteq Nat \ {0}
    /\ Deposits \subseteq Nat /\ ForcedAmounts \subseteq Nat

VARIABLES
    remainingEth,
    balance,            \* the contract's ETH
    forced,             \* history: what was forced in
    age,                \* blocks since lastStepBlock, counted up to LongestCooldown
    minBlocksBetweenSteps,
    maxStepWei

burnerVars == <<remainingEth, balance, forced, age, minBlocksBetweenSteps, maxStepWei>>

LongestCooldown == CHOOSE n \in Cooldowns : \A c \in Cooldowns : c <= n

Smaller(a, b) == IF a < b THEN a ELSE b

BurnerInit ==
    /\ remainingEth = 0 /\ balance = 0 /\ forced = 0
    /\ age = LongestCooldown
    /\ minBlocksBetweenSteps \in Cooldowns
    /\ maxStepWei \in MaxSteps

-----------------------------------------------------------------------------

receiveEth(amount) ==
    /\ balance + amount <= MaxEth
    /\ remainingEth' = remainingEth + amount
    /\ balance' = balance + amount
    /\ UNCHANGED <<forced, age, minBlocksBetweenSteps, maxStepWei>>

ForceEth(amount) ==
    /\ balance + amount <= MaxEth /\ forced + amount <= MaxForced
    /\ balance' = balance + amount
    /\ forced' = forced + amount
    /\ UNCHANGED <<remainingEth, age, minBlocksBetweenSteps, maxStepWei>>

Executable == age >= minBlocksBetweenSteps /\ remainingEth > 0

Step == Smaller(remainingEth, maxStepWei)

\* 0.5% of the step, capped, and nothing of a step it would eat up.
Reward ==
    LET reward == Smaller((Step * 50) \div 10000, ExecRewardCap)
    IN IF reward >= Step THEN 0 ELSE reward

SwapAmount == Step - Reward

ActualReward(ethSpent) ==
    IF ethSpent = SwapAmount THEN Reward ELSE (Reward * ethSpent) \div SwapAmount

\* Mutant: a refused reward is not credited back to the queue
RewardDebit_NotReturned(ethSpent, accepts) == ActualReward(ethSpent)

\* What the queue is debited for the reward: a refused one is credited back.
RewardDebit(ethSpent, accepts) == IF accepts THEN ActualReward(ethSpent) ELSE 0

executeStep(ethSpent, accepts) ==
    /\ Executable
    /\ ethSpent \in 1 .. SwapAmount
    /\ ethSpent + ActualReward(ethSpent) <= remainingEth
    /\ remainingEth' = remainingEth - ethSpent - RewardDebit(ethSpent, accepts)
    /\ balance' = balance - ethSpent - (IF accepts THEN ActualReward(ethSpent) ELSE 0)
    /\ age' = 0
    /\ UNCHANGED <<forced, minBlocksBetweenSteps, maxStepWei>>

\* Mutant: a new cooldown starts from now
KeepsPace_Restarts == age' = 0

\* A new cooldown counts from the last step.
KeepsPace == UNCHANGED age

setMinBlocksBetweenSteps(caller, newValue) ==
    /\ checkAdmin(caller) /\ newValue \in Cooldowns
    /\ minBlocksBetweenSteps' = newValue
    /\ KeepsPace
    /\ UNCHANGED <<remainingEth, balance, forced, maxStepWei>>

setMaxStepWei(caller, newValue) ==
    /\ checkAdmin(caller) /\ newValue \in MaxSteps
    /\ maxStepWei' = newValue
    /\ UNCHANGED <<remainingEth, balance, forced, age, minBlocksBetweenSteps>>

NextBlock ==
    /\ age < LongestCooldown
    /\ age' = age + 1
    /\ UNCHANGED <<remainingEth, balance, forced, minBlocksBetweenSteps, maxStepWei>>

=============================================================================
