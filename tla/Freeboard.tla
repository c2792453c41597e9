------------------------------ MODULE Freeboard ------------------------------
(***************************************************************************)
(* Freeboard drops: created with a claim code and an expiry time, claimed  *)
(* once for a reward, expired by a timer (freeboard.service.ts).           *)
(*                                                                         *)
(* The claim is one conditional UPDATE; everything else is a SELECT and,   *)
(* later, the save of what it returned.  TypeORM's save is a SELECT of its *)
(* own and an UPDATE of the columns in which the entity differs from it.   *)
(* One action is one statement of one call; a call is one HTTP request, a  *)
(* timer is one of the cleanups that can overlap.                          *)
(***************************************************************************)
EXTENDS Integers, FiniteSets

CONSTANTS
  Drop,         \* rows of freeboard_drops that can be created
  Code,         \* claim codes
  Call,         \* claims, one HTTP request each
  Timer,        \* overlapping runs of the 30 s cleanup
  Nobody,       \* claimedByUserId is null
  Rewards,      \* rewardCents that clients ask for
  Lifetimes,    \* expiresInMinutes that clients ask for
  MaxClock,     \* bound: the clock stops here
  UniqueCodes   \* TRUE: no two of the 32-bit random codes are equal

ASSUME FreeboardAssumption ==
  /\ Call \cap Timer = {}
  /\ Nobody \notin Call
  /\ Rewards \subseteq Int
  /\ Lifetimes \subseteq Nat
  /\ MaxClock \in Nat
  /\ UniqueCodes \in BOOLEAN
  /\ Code # {}

Proc == Call \cup Timer

VARIABLES
  drop,    \* Drop -> row
  clock,   \* new Date()
  paid,    \* Drop -> the calls that were paid its reward
  run      \* Proc -> where it is and what it has read

vars == <<drop, clock, paid, run>>

AnyCode == CHOOSE c \in Code : TRUE

NoDrop == [status |-> "NONE", code |-> AnyCode, expiresAt |-> 0, reward |-> 0,
           claimedBy |-> Nobody]

(* now: the time the call read; got: the drops it read; stale, taken: of   *)
(* these, the ones whose status, claimer the save is to overwrite.         *)
Idle == [pc |-> "idle", code |-> AnyCode, now |-> 0, got |-> {}, stale |-> {}, taken |-> {}]

Exists(d) == drop[d].status # "NONE"

Active(d) == drop[d].status = "ACTIVE"

Coded(code) == {d \in Drop : Exists(d) /\ drop[d].code = code}

Init ==
  /\ drop = [d \in Drop |-> NoDrop]
  /\ clock = 0
  /\ paid = [d \in Drop |-> {}]
  /\ run = [p \in Proc |-> Idle]

-----------------------------------------------------------------------------
At(p, point) == run[p].pc = point

Goto(p, point) == run' = [run EXCEPT ![p].pc = point]

(* A call is over; a timer fires again. *)
Finish(p) == run' = [run EXCEPT ![p] = [Idle EXCEPT !.pc = IF p \in Timer THEN "idle" ELSE "done"]]

Tick ==
  /\ clock < MaxClock
  /\ clock' = clock + 1
  /\ UNCHANGED <<drop, paid, run>>

(* Mutant: createDrop without `rewardCents < 0`. *)
CreateUnchecked(d, code, life, reward) ==
  /\ ~Exists(d)
  /\ UniqueCodes => Coded(code) = {}
  /\ drop' = [drop EXCEPT ![d] = [status |-> "ACTIVE", code |-> code, reward |-> reward,
                                  expiresAt |-> clock + life, claimedBy |-> Nobody]]
  /\ UNCHANGED <<clock, paid, run>>

CreateDrop(d, code, life, reward) ==
  /\ ~Exists(d)
  /\ reward >= 0
  /\ UniqueCodes => Coded(code) = {}
  /\ drop' = [drop EXCEPT ![d] = [status |-> "ACTIVE", code |-> code, reward |-> reward,
                                  expiresAt |-> clock + life, claimedBy |-> Nobody]]
  /\ UNCHANGED <<clock, paid, run>>

(* claimDrop reads the clock once, before its first statement. *)
ClaimDrop(p, code) ==
  /\ At(p, "idle")
  /\ run' = [run EXCEPT ![p] = [Idle EXCEPT !.pc = "flip", !.code = code, !.now = clock]]
  /\ UNCHANGED <<drop, clock, paid>>

Claimable(p) == {d \in Coded(run[p].code) : Active(d) /\ drop[d].expiresAt > run[p].now}

FlipWith(p, D) ==
  /\ At(p, "flip")
  /\ drop' = [d \in Drop |-> IF d \in D
                               THEN [drop[d] EXCEPT !.status = "CLAIMED", !.claimedBy = p]
                               ELSE drop[d]]
  /\ Goto(p, IF D = {} THEN "find" ELSE "readBack")
  /\ UNCHANGED <<clock, paid>>

(* Mutant: the UPDATE without `AND status = 'ACTIVE'`. *)
FlipAnyStatus(p) == FlipWith(p, {d \in Coded(run[p].code) : drop[d].expiresAt > run[p].now})

(* UPDATE ... SET CLAIMED WHERE claimCode = ... AND status = 'ACTIVE' AND  *)
(* expiresAt > now: every row with the code, in one statement.             *)
Flip(p) == FlipWith(p, Claimable(p))

(* The claimed row is read back by its code; a positive reward is paid.    *)
ReadBack(p) ==
  /\ At(p, "readBack")
  /\ \E d \in Coded(run[p].code) :
       IF drop[d].reward > 0
         THEN run' = [run EXCEPT ![p].pc = "deposit", ![p].got = {d}]
         ELSE Finish(p)
  /\ UNCHANGED <<drop, clock, paid>>

(* walletService.deposit, in no transaction with the claim.                *)
Deposit(p) ==
  /\ At(p, "deposit")
  /\ paid' = [d \in Drop |-> IF d \in run[p].got THEN paid[d] \cup {p} ELSE paid[d]]
  /\ Finish(p)
  /\ UNCHANGED <<drop, clock>>

(* Nothing was claimed: the drop is read to say why, and expired if its    *)
(* time is over.                                                           *)
FindDrop(p) ==
  /\ At(p, "find")
  /\ \/ Coded(run[p].code) = {} /\ Finish(p)
     \/ \E d \in Coded(run[p].code) :
          IF Active(d) /\ drop[d].expiresAt < run[p].now
            THEN run' = [run EXCEPT ![p].pc = "select", ![p].got = {d}]
            ELSE Finish(p)
  /\ UNCHANGED <<drop, clock, paid>>

CleanupWith(t, D) ==
  /\ At(t, "idle")
  /\ D # {}
  /\ run' = [run EXCEPT ![t].pc = "select", ![t].got = D]
  /\ UNCHANGED <<drop, clock, paid>>

(* Mutant: MoreThan(now) for LessThan(now). *)
CleanupFuture(t) == CleanupWith(t, {d \in Drop : Active(d) /\ drop[d].expiresAt > clock})

(* cleanupExpiredDrops: find the ACTIVE drops with expiresAt < now.        *)
CleanupExpiredDrops(t) == CleanupWith(t, {d \in Drop : Active(d) /\ drop[d].expiresAt < clock})

(* save of the drops that were read, now with status EXPIRED and still     *)
(* with no claimer: its SELECT, then its UPDATE.                           *)
SaveSelect(p) ==
  /\ At(p, "select")
  /\ run' = [run EXCEPT ![p].pc = "update",
                        ![p].stale = {d \in run[p].got : drop[d].status # "EXPIRED"},
                        ![p].taken = {d \in run[p].got : drop[d].claimedBy # Nobody}]
  /\ UNCHANGED <<drop, clock, paid>>

SaveUpdate(p) ==
  /\ At(p, "update")
  /\ drop' = [d \in Drop |->
                [drop[d] EXCEPT !.status = IF d \in run[p].stale THEN "EXPIRED" ELSE @,
                                !.claimedBy = IF d \in run[p].taken THEN Nobody ELSE @]]
  /\ Finish(p)
  /\ UNCHANGED <<clock, paid>>

(* A statement fails or the process stops: what was committed stays.       *)
Fail(p) ==
  /\ ~At(p, "idle") /\ ~At(p, "done")
  /\ Finish(p)
  /\ UNCHANGED <<drop, clock, paid>>

Next ==
  \/ Tick
  \/ \E d \in Drop, code \in Code, life \in Lifetimes, reward \in Rewards :
       CreateDrop(d, code, life, reward)
  \/ \E p \in Call, code \in Code : ClaimDrop(p, code)
  \/ \E p \in Call : Flip(p) \/ ReadBack(p) \/ Deposit(p) \/ FindDrop(p)
  \/ \E t \in Timer : CleanupExpiredDrops(t)
  \/ \E p \in Proc : SaveSelect(p) \/ SaveUpdate(p) \/ Fail(p)

Spec == Init /\ [][Next]_vars

(* @Interval fires for ever; its statements fail, but not for ever.        *)
FairSpec ==
  /\ Spec
  /\ \A t \in Timer : WF_vars(CleanupExpiredDrops(t) \/ SaveSelect(t) \/ SaveUpdate(t))
  /\ \A t \in Timer : <>[][~Fail(t)]_vars

-----------------------------------------------------------------------------
Row == [status : {"NONE", "ACTIVE", "CLAIMED", "EXPIRED"}, code : Code, expiresAt : Nat,
        reward : Nat, claimedBy : Call \cup {Nobody}]

Local == [pc : {"idle", "flip", "readBack", "deposit", "find", "select", "update", "done"},
          code : Code, now : Nat, got : SUBSET Drop, stale : SUBSET Drop, taken : SUBSET Drop]

(* Types of the table and of what calls remember; no reward is negative,   *)
(* so no deposit of a reward takes money away.                             *)
TypeOK ==
  /\ drop \in [Drop -> Row]
  /\ clock \in Nat
  /\ paid \in [Drop -> SUBSET Call]
  /\ run \in [Proc -> Local]

(* "Atomic claim: only one caller can flip ACTIVE -> CLAIMED"              *)
(* (freeboard.service.ts:113), and so the reward of a drop is paid to one  *)
(* caller, although the payment is a transaction of its own, expiry races  *)
(* the claim and the save of a cleanup can overwrite it.                   *)
OneReward == \A d \in Drop : \A p, q \in paid[d] : p = q

(* "Runs frequently so expired drops don't linger as ACTIVE"               *)
(* (freeboard.scheduler.service.ts:11).                                    *)
Expired(d) == Active(d) /\ drop[d].expiresAt < clock

ExpiredLeaves == \A d \in Drop : Expired(d) ~> ~Active(d)

-----------------------------------------------------------------------------
(* p has flipped d and is on its way to the reward, or has it.             *)
Won(p, d) ==
  \/ At(p, "readBack") /\ d \in Coded(run[p].code)
  \/ At(p, "deposit") /\ d \in run[p].got
  \/ p \in paid[d]

(* The inductive invariant behind OneReward: codes name one drop, what a   *)
(* process has read exists, a drop that was won is not ACTIVE again and    *)
(* was won by one call.                                                    *)
WinInv ==
  /\ TypeOK
  /\ \A p \in Proc : \A d \in run[p].got \cup run[p].stale : Exists(d)
  /\ \A d, e \in Drop : Exists(d) /\ Exists(e) /\ drop[d].code = drop[e].code => d = e
  /\ \A p \in Call : At(p, "readBack") => Coded(run[p].code) # {}
  /\ \A p \in Call, d \in Drop : Won(p, d) => Exists(d) /\ ~Active(d)
  /\ \A p, q \in Call, d \in Drop : Won(p, d) /\ Won(q, d) => p = q
=============================================================================
