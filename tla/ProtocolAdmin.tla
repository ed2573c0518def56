---------------------------- MODULE ProtocolAdmin ----------------------------
(***************************************************************************)
(* contracts/src/ProtocolAdmin.sol: one admin role on a timer of a year.   *)
(* Renewing or rotating it needs the timer to run still; burning it never  *)
(* does.  Two kinds of gate hang on it: checkAdmin (the parameters, which  *)
(* freeze when the role locks) and the raw admin() getter (the carve-outs, *)
(* which freeze only when the role is burned).                             *)
(***************************************************************************)
EXTENDS Integers

CONSTANTS
    Accounts,
    NoOne,              \* address(0)
    TimerDuration       \* ADMIN_TIMER_DURATION, in units of time

ASSUME AdminAssumption == TimerDuration \in Nat \ {0} /\ NoOne \notin Accounts

VARIABLES
    admin,
    timer,              \* time left until adminTimerExpires, 0 from then on
    adminBurned

adminVars == <<admin, timer, adminBurned>>

AdminInit ==
    /\ admin \in Accounts
    /\ timer = TimerDuration
    /\ adminBurned = FALSE

IsLocked == adminBurned \/ timer = 0

\* Mutant: a lapsed role may be renewed
MayHandOver_AlsoLapsed(newAdmin) == newAdmin # NoOne => ~adminBurned

MayHandOver(newAdmin) == newAdmin # NoOne => ~IsLocked

checkAdmin(caller) == ~IsLocked /\ caller = admin

transferAdmin(caller, newAdmin) ==
    /\ caller = admin
    /\ MayHandOver(newAdmin)
    /\ admin' = newAdmin
    /\ IF newAdmin = NoOne
       THEN adminBurned' = TRUE /\ UNCHANGED timer
       ELSE timer' = TimerDuration /\ UNCHANGED adminBurned

TimePasses ==
    /\ timer > 0
    /\ timer' = timer - 1
    /\ UNCHANGED <<admin, adminBurned>>

=============================================================================
