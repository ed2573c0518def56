----------------------------- MODULE UpkeepProofs -----------------------------
(***************************************************************************)
(* QueueIsBacked and PowerOnlyShrinks for all values of the constants.     *)
(* What they need besides: the amounts are numbers, and a burned role      *)
(* belongs to nobody (so no caller passes the carve-outs' raw check).      *)
(***************************************************************************)
EXTENDS Upkeep, TLAPS

BurnerNumbers ==
    /\ remainingEth \in Int /\ balance \in Int /\ forced \in Int
    /\ maxStepWei \in Int

BurnedMeansNobody == adminBurned => admin = NoOne

IInv == BurnerNumbers /\ BurnedMeansNobody /\ QueueIsBacked

-----------------------------------------------------------------------------

\* What the assumption on the constants gives the provers.
LEMMA BurnerConstants ==
    /\ ExecRewardCap \in Int
    /\ \A n \in MaxSteps : n \in Int
    /\ \A n \in Deposits : n \in Int
    /\ \A n \in ForcedAmounts : n \in Int
BY BurnerAssumption DEF BurnerAssumption

\* The reward of a partial fill is a number: a swap has a positive amount.
LEMMA RewardIsANumber ==
    ASSUME BurnerNumbers, NEW ethSpent \in 1 .. SwapAmount
    PROVE  ActualReward(ethSpent) \in Int
<1>1. Step \in Int
    BY DEF BurnerNumbers, Step, Smaller
<1>2. Reward \in Int
    <2>1. (Step * 50) \div 10000 \in Int
        BY <1>1
    <2>2. Smaller((Step * 50) \div 10000, ExecRewardCap) \in Int
        BY <2>1, BurnerConstants DEF Smaller
    <2>. QED
        BY <2>2 DEF Reward
<1>3. SwapAmount \in Int /\ SwapAmount >= 1 /\ ethSpent \in Int
    BY <1>1, <1>2 DEF SwapAmount
<1>4. Reward * ethSpent \in Int
    BY <1>2, <1>3
<1>5. (Reward * ethSpent) \div SwapAmount \in Int
    BY <1>3, <1>4
<1>. QED
    BY <1>2, <1>5 DEF ActualReward

\* The accounting of one step, whoever sends it.
LEMMA StepKeepsBacking ==
    ASSUME BurnerNumbers, QueueIsBacked, ExecuteAny
    PROVE  BurnerNumbers' /\ QueueIsBacked'
<1>1. PICK ethSpent \in Fills, accepts \in BOOLEAN : executeStep(ethSpent, accepts)
    BY DEF ExecuteAny
<1>2. ethSpent \in 1 .. SwapAmount
    BY <1>1 DEF executeStep
<1>3. ethSpent \in Int
    BY <1>2
<1>4. ActualReward(ethSpent) \in Int
    BY <1>2, RewardIsANumber
<1>5. RewardDebit(ethSpent, accepts) \in Int
    BY <1>4 DEF RewardDebit
<1>6. /\ remainingEth' = remainingEth - ethSpent - RewardDebit(ethSpent, accepts)
      /\ balance' = balance - ethSpent - RewardDebit(ethSpent, accepts)
      /\ forced' = forced /\ maxStepWei' = maxStepWei
    BY <1>1 DEF executeStep, RewardDebit
<1>7. BurnerNumbers'
    BY <1>3, <1>5, <1>6 DEF BurnerNumbers
<1>8. QueueIsBacked'
    BY <1>3, <1>5, <1>6 DEF BurnerNumbers, QueueIsBacked
<1>. QED
    BY <1>7, <1>8

\* Nobody is not an account.
LEMMA NobodyCalls ==
    ASSUME BurnedMeansNobody, adminBurned, NEW caller \in Accounts
    PROVE  caller # admin
BY AdminAssumption DEF AdminAssumption, BurnedMeansNobody

-----------------------------------------------------------------------------

\* The inductive invariant holds of the deployed contracts.
THEOREM IInvInit == Init => IInv
BY BurnerConstants
   DEF Init, AdminInit, BurnerInit, IInv, BurnerNumbers, BurnedMeansNobody, QueueIsBacked

\* Every call of the burner and of the admin preserves it: a step of
\* executeStep by StepKeepsBacking, the others because they only add ETH or
\* move the role (BuybackBurner.sol:222-325, ProtocolAdmin.sol:105-122).
THEOREM IInvNext == IInv /\ [Next]_vars => IInv'
<1>. SUFFICES ASSUME IInv, [Next]_vars PROVE IInv'
    OBVIOUS
<1>. USE DEF IInv
<1>. DEFINE SameAmounts == UNCHANGED <<remainingEth, balance, forced, maxStepWei>>
<1>. DEFINE SameRole == UNCHANGED <<admin, adminBurned>>
<1>a. ASSUME SameAmounts PROVE BurnerNumbers' /\ QueueIsBacked'
    BY <1>a DEF BurnerNumbers, QueueIsBacked
<1>b. ASSUME SameRole PROVE BurnedMeansNobody'
    BY <1>b DEF BurnedMeansNobody
<1>1. ASSUME NEW caller \in Accounts, NEW newAdmin \in Accounts \cup {NoOne},
             HandOver(caller, newAdmin)
      PROVE  IInv'
    <2>1. SameAmounts
        BY <1>1 DEF HandOver, burnerVars
    <2>2. admin' = newAdmin /\ caller = admin
        BY <1>1 DEF HandOver, transferAdmin
    <2>3. CASE newAdmin = NoOne
        BY <2>1, <1>a, <2>2, <2>3 DEF BurnedMeansNobody
    <2>4. CASE newAdmin # NoOne
        <3>1. ~adminBurned
            BY <1>1, <2>4 DEF HandOver, transferAdmin, MayHandOver, IsLocked
        <3>2. UNCHANGED adminBurned
            BY <1>1, <2>4 DEF HandOver, transferAdmin
        <3>. QED
            BY <2>1, <1>a, <3>1, <3>2 DEF BurnedMeansNobody
    <2>. QED
        BY <2>3, <2>4
<1>2. ASSUME NEW caller \in Accounts, SetParameter(caller) PROVE IInv'
    <2>1. SameRole
        BY <1>2 DEF SetParameter, adminVars
    <2>2. CASE \E n \in Cooldowns : setMinBlocksBetweenSteps(caller, n)
        <3>1. SameAmounts
            BY <2>2 DEF setMinBlocksBetweenSteps
        <3>. QED
            BY <3>1, <2>1, <1>a, <1>b
    <2>3. CASE \E n \in MaxSteps : setMaxStepWei(caller, n)
        <3>1. maxStepWei' \in Int /\ UNCHANGED <<remainingEth, balance, forced>>
            BY <2>3, BurnerConstants DEF setMaxStepWei
        <3>. QED
            BY <3>1, <2>1, <1>b DEF BurnerNumbers, QueueIsBacked
    <2>. QED
        BY <1>2, <2>2, <2>3 DEF SetParameter
<1>3. ASSUME NEW caller \in Accounts, NEW seller \in Sellers, SetAllowedSeller(caller, seller)
      PROVE  IInv'
    <2>1. SameAmounts /\ SameRole
        BY <1>3 DEF SetAllowedSeller, burnerVars, adminVars
    <2>. QED
        BY <2>1, <1>a, <1>b
<1>4. CASE Year
    <2>1. SameAmounts /\ SameRole
        BY <1>4 DEF Year, TimePasses, burnerVars
    <2>. QED
        BY <2>1, <1>a, <1>b
<1>5. CASE Deposit
    <2>1. SameRole
        BY <1>5 DEF Deposit, adminVars
    <2>2. CASE \E amount \in Deposits : receiveEth(amount)
        <3>1. PICK amount \in Deposits : receiveEth(amount)
            BY <2>2
        <3>2. amount \in Int
            BY BurnerConstants
        <3>. QED
            BY <3>1, <3>2, <2>1, <1>b DEF receiveEth, BurnerNumbers, QueueIsBacked
    <2>3. CASE \E amount \in ForcedAmounts : ForceEth(amount)
        <3>1. PICK amount \in ForcedAmounts : ForceEth(amount)
            BY <2>3
        <3>2. amount \in Int
            BY BurnerConstants
        <3>. QED
            BY <3>1, <3>2, <2>1, <1>b DEF ForceEth, BurnerNumbers, QueueIsBacked
    <2>. QED
        BY <1>5, <2>2, <2>3 DEF Deposit
<1>6. CASE Mined
    <2>1. SameAmounts /\ SameRole
        BY <1>6 DEF Mined, NextBlock, adminVars
    <2>. QED
        BY <2>1, <1>a, <1>b
<1>7. CASE OtherExecutes
    <2>1. SameRole
        BY <1>7 DEF OtherExecutes, adminVars
    <2>2. BurnerNumbers' /\ QueueIsBacked'
        BY <1>7, StepKeepsBacking DEF OtherExecutes
    <2>. QED
        BY <2>1, <2>2, <1>b
<1>8. ASSUME NEW rpcWorks \in BOOLEAN, KeeperStarts(rpcWorks) PROVE IInv'
    <2>1. SameAmounts /\ SameRole
        BY <1>8 DEF KeeperStarts, burnerVars, adminVars
    <2>. QED
        BY <2>1, <1>a, <1>b
<1>9. CASE KeeperReads
    <2>1. SameAmounts /\ SameRole
        BY <1>9 DEF KeeperReads, ReadQueue, ReadNextBlock, burnerVars, adminVars
    <2>. QED
        BY <2>1, <1>a, <1>b
<1>10. CASE Evaluated
    <2>1. SameAmounts /\ SameRole
        BY <1>10 DEF Evaluated, burnerVars, adminVars
    <2>. QED
        BY <2>1, <1>a, <1>b
<1>11. CASE KeeperExecutes
    <2>1. SameRole
        BY <1>11 DEF KeeperExecutes, adminVars
    <2>2. CASE ExecuteAny
        BY <2>1, <2>2, <1>b, StepKeepsBacking
    <2>3. CASE UNCHANGED burnerVars
        <3>1. SameAmounts
            BY <2>3 DEF burnerVars
        <3>. QED
            BY <2>1, <3>1, <1>a, <1>b
    <2>. QED
        BY <1>11, <2>2, <2>3 DEF KeeperExecutes
<1>12. CASE UNCHANGED vars
    <2>1. SameAmounts /\ SameRole
        BY <1>12 DEF vars, burnerVars, adminVars
    <2>. QED
        BY <2>1, <1>a, <1>b
<1>. QED
    BY <1>1, <1>2, <1>3, <1>4, <1>5, <1>6, <1>7, <1>8, <1>9, <1>10, <1>11, <1>12 DEF Next

\* It therefore holds in every reachable state.
THEOREM AlwaysIInv == Spec => []IInv
BY IInvInit, IInvNext, PTL DEF Spec

\* remainingEth is covered by the burner's ETH whatever the pool fills and
\* whoever refuses his reward (BuybackBurner.sol:281-324).
THEOREM AlwaysBacked == Spec => []QueueIsBacked
<1>1. IInv => QueueIsBacked
    BY DEF IInv
<1>. QED
    BY <1>1, AlwaysIInv, PTL

-----------------------------------------------------------------------------

\* One step of anybody keeps what is locked locked.
LEMMA StepShrinks == IInv /\ [Next]_vars => [Shrinks]_vars
<1>. SUFFICES ASSUME IInv, [Next]_vars PROVE Shrinks \/ UNCHANGED vars
    OBVIOUS
<1>. DEFINE SameRole == UNCHANGED <<admin, timer, adminBurned>>
<1>. DEFINE SameParameters == UNCHANGED <<minBlocksBetweenSteps, maxStepWei>>
<1>0. BurnedMeansNobody
    BY DEF IInv
<1>a. ASSUME SameRole, SameParameters, UNCHANGED allowedSellers PROVE Shrinks
    BY <1>a DEF Shrinks, IsLocked
<1>1. ASSUME NEW caller \in Accounts, NEW newAdmin \in Accounts \cup {NoOne},
             HandOver(caller, newAdmin)
      PROVE  Shrinks
    <2>1. SameParameters /\ UNCHANGED allowedSellers
        BY <1>1 DEF HandOver, burnerVars
    <2>2. admin' = newAdmin /\ caller = admin
        BY <1>1 DEF HandOver, transferAdmin
    <2>3. CASE newAdmin = NoOne
        <3>1. adminBurned'
            BY <1>1, <2>3 DEF HandOver, transferAdmin
        <3>. QED
            BY <2>1, <2>2, <2>3, <3>1 DEF Shrinks, IsLocked
    <2>4. CASE newAdmin # NoOne
        <3>1. ~IsLocked
            BY <1>1, <2>4 DEF HandOver, transferAdmin, MayHandOver
        <3>. QED
            BY <3>1 DEF Shrinks, IsLocked
    <2>. QED
        BY <2>3, <2>4
<1>2. ASSUME NEW caller \in Accounts, SetParameter(caller) PROVE Shrinks
    <2>1. ~IsLocked
        BY <1>2 DEF SetParameter, setMinBlocksBetweenSteps, setMaxStepWei, checkAdmin
    <2>. QED
        BY <2>1 DEF Shrinks, IsLocked
<1>3. ASSUME NEW caller \in Accounts, NEW seller \in Sellers, SetAllowedSeller(caller, seller)
      PROVE  Shrinks
    <2>1. SameRole /\ SameParameters /\ caller = admin
        BY <1>3 DEF SetAllowedSeller, burnerVars, adminVars
    <2>2. ~adminBurned
        BY <1>0, <2>1, NobodyCalls
    <2>. QED
        BY <2>1, <2>2 DEF Shrinks, IsLocked
<1>4. CASE Year
    <2>1. timer > 0 /\ UNCHANGED <<admin, adminBurned>> /\ SameParameters
          /\ UNCHANGED allowedSellers
        BY <1>4 DEF Year, TimePasses, burnerVars
    <2>2. IsLocked => adminBurned
        BY <2>1 DEF IsLocked
    <2>. QED
        BY <2>1, <2>2 DEF Shrinks, IsLocked
<1>5. CASE Deposit
    <2>1. SameRole /\ SameParameters /\ UNCHANGED allowedSellers
        BY <1>5 DEF Deposit, receiveEth, ForceEth, adminVars
    <2>. QED
        BY <2>1, <1>a
<1>6. CASE Mined
    <2>1. SameRole /\ SameParameters /\ UNCHANGED allowedSellers
        BY <1>6 DEF Mined, NextBlock, adminVars
    <2>. QED
        BY <2>1, <1>a
<1>7. CASE OtherExecutes
    <2>1. SameRole /\ SameParameters /\ UNCHANGED allowedSellers
        BY <1>7 DEF OtherExecutes, ExecuteAny, executeStep, adminVars
    <2>. QED
        BY <2>1, <1>a
<1>8. ASSUME NEW rpcWorks \in BOOLEAN, KeeperStarts(rpcWorks) PROVE Shrinks
    <2>1. SameRole /\ SameParameters /\ UNCHANGED allowedSellers
        BY <1>8 DEF KeeperStarts, burnerVars, adminVars
    <2>. QED
        BY <2>1, <1>a
<1>9. CASE KeeperReads
    <2>1. SameRole /\ SameParameters /\ UNCHANGED allowedSellers
        BY <1>9 DEF KeeperReads, ReadQueue, ReadNextBlock, burnerVars, adminVars
    <2>. QED
        BY <2>1, <1>a
<1>10. CASE Evaluated
    <2>1. SameRole /\ SameParameters /\ UNCHANGED allowedSellers
        BY <1>10 DEF Evaluated, burnerVars, adminVars
    <2>. QED
        BY <2>1, <1>a
<1>11. CASE KeeperExecutes
    <2>1. SameRole /\ SameParameters /\ UNCHANGED allowedSellers
        BY <1>11 DEF KeeperExecutes, ExecuteAny, executeStep, burnerVars, adminVars
    <2>. QED
        BY <2>1, <1>a
<1>. QED
    BY <1>1, <1>2, <1>3, <1>4, <1>5, <1>6, <1>7, <1>8, <1>9, <1>10, <1>11 DEF Next

\* A lapsed role moves no parameter behind checkAdmin and can only be burned, and
\* a burned one opens no carve-out either (ProtocolAdmin.sol:105-141).
THEOREM AlwaysShrinks == Spec => PowerOnlyShrinks
<1>1. IInv /\ [Next]_vars => [Shrinks]_vars
    BY StepShrinks
<1>. QED
    BY <1>1, AlwaysIInv, PTL DEF Spec, PowerOnlyShrinks

=============================================================================
