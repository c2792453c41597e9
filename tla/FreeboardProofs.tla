--------------------------- MODULE FreeboardProofs ---------------------------
(* The reward of a drop is paid once, for any number of drops, claims and  *)
(* cleanups.                                                               *)
EXTENDS Freeboard, TLAPS

LEMMA CodeType == AnyCode \in Code
BY FreeboardAssumption DEF AnyCode

(* The initial state satisfies the inductive invariant.                    *)
LEMMA InitWin == Init => WinInv
BY CodeType, FreeboardAssumption
   DEF Init, WinInv, TypeOK, NoDrop, Idle, Row, Local, Exists, Active, At, Won, Proc

(* A step of one process that writes neither drops nor rewards and does    *)
(* not put it on the way to a reward keeps the invariant.                  *)
LEMMA Harmless ==
  ASSUME WinInv, NEW p \in Proc, UNCHANGED <<drop, paid>>, clock' \in Nat,
         run' \in [Proc -> Local], \A q \in Proc \ {p} : run'[q] = run[q],
         p \in Call => run'[p].pc \notin {"readBack", "deposit"},
         \A d \in run'[p].got \cup run'[p].stale : Exists(d)
  PROVE  WinInv'
<1>1. \A q \in Call, d \in Drop : Won(q, d)' => Won(q, d)
  BY DEF Won, At, Coded, Exists, Proc
<1>2. TypeOK'
  BY DEF WinInv, TypeOK
<1>3. \A q \in Call : At(q, "readBack")' => Coded(run[q].code)' # {}
  BY DEF WinInv, At, Coded, Exists, Proc
<1>4. \A q \in Proc : \A d \in run'[q].got \cup run'[q].stale : Exists(d)'
  BY DEF WinInv, Exists
<1> QED
  BY <1>1, <1>2, <1>3, <1>4 DEF WinInv, Exists, Active

(* What Finish leaves: the process is at rest with nothing in hand.        *)
LEMMA FinishLocal ==
  ASSUME WinInv, NEW p \in Proc, Finish(p)
  PROVE  /\ run' \in [Proc -> Local]
         /\ \A q \in Proc \ {p} : run'[q] = run[q]
         /\ run'[p].pc \in {"idle", "done"} /\ run'[p].got = {} /\ run'[p].stale = {}
         /\ run'[p].got = {} /\ run'[p].stale = {}
<1>1. [Idle EXCEPT !.pc = IF p \in Timer THEN "idle" ELSE "done"] \in Local
  BY CodeType DEF Idle, Local
<1>2. run \in [Proc -> Local]
  BY DEF WinInv, TypeOK
<1> QED
  BY <1>1, <1>2 DEF Finish, Idle

LEMMA TickWin == ASSUME WinInv, Tick PROVE WinInv'
<1>1. TypeOK'
  BY DEF Tick, WinInv, TypeOK
<1> QED
  BY <1>1 DEF Tick, WinInv, Won, At, Coded, Exists, Active

(* A new drop has a code of its own, so no call is on its way to it.       *)
LEMMA CreateWin ==
  ASSUME UniqueCodes, WinInv, NEW d \in Drop, NEW code \in Code, NEW life \in Lifetimes,
         NEW reward \in Rewards, CreateDrop(d, code, life, reward)
  PROVE  WinInv'
<1> DEFINE new == [status |-> "ACTIVE", code |-> code, reward |-> reward,
                   expiresAt |-> clock + life, claimedBy |-> Nobody]
<1>1. /\ drop' = [drop EXCEPT ![d] = new] /\ ~Exists(d) /\ Coded(code) = {}
      /\ reward >= 0 /\ UNCHANGED <<clock, paid, run>>
  BY DEF CreateDrop
<1>2. new \in Row
  BY <1>1, FreeboardAssumption DEF Row, WinInv, TypeOK
<1>3. drop'[d] = new /\ \A e \in Drop \ {d} : drop'[e] = drop[e]
  BY <1>1 DEF WinInv, TypeOK
<1>4. TypeOK'
  BY <1>1, <1>2 DEF WinInv, TypeOK
<1>5. \A p \in Call : At(p, "readBack") => run[p].code # code /\ Coded(run[p].code)' = Coded(run[p].code)
  BY <1>1, <1>3 DEF WinInv, Coded, Exists
<1>6. \A p \in Call, e \in Drop : Won(p, e)' => Won(p, e) /\ e # d
  <2> SUFFICES ASSUME NEW p \in Call, NEW e \in Drop, Won(p, e)' PROVE Won(p, e) /\ e # d
    OBVIOUS
  <2>1. Won(p, e)
    BY <1>1, <1>5 DEF Won, At
  <2> QED
    BY <2>1, <1>1 DEF WinInv
<1>7. \A e, f \in Drop : Exists(e)' /\ Exists(f)' /\ drop'[e].code = drop'[f].code => e = f
  BY <1>1, <1>3 DEF WinInv, Exists, Coded
<1>8. \A p \in Call : At(p, "readBack")' => Coded(run[p].code)' # {}
  BY <1>1, <1>5 DEF WinInv, At
<1>9. \A p \in Call, e \in Drop : Won(p, e)' => Exists(e)' /\ ~Active(e)'
  BY <1>3, <1>6 DEF WinInv, Exists, Active
<1>10. \A p \in Proc : \A e \in run'[p].got \cup run'[p].stale : Exists(e)'
  BY <1>1, <1>3 DEF WinInv, TypeOK, Local, Exists
<1> QED
  BY <1>1, <1>4, <1>6, <1>7, <1>8, <1>9, <1>10 DEF WinInv, Exists, Coded, At

LEMMA ClaimDropWin ==
  ASSUME WinInv, NEW p \in Call, NEW code \in Code, ClaimDrop(p, code)
  PROVE  WinInv'
<1>1. [Idle EXCEPT !.pc = "flip", !.code = code, !.now = clock] \in Local
  BY CodeType DEF Idle, Local, WinInv, TypeOK
<1>2. p \in Proc /\ run \in [Proc -> Local] /\ clock \in Nat
  BY DEF Proc, WinInv, TypeOK
<1>3. run' \in [Proc -> Local] /\ \A q \in Proc \ {p} : run'[q] = run[q]
  BY <1>1, <1>2 DEF ClaimDrop
<1>4. run'[p].pc = "flip" /\ run'[p].got = {} /\ run'[p].stale = {}
  BY <1>2 DEF ClaimDrop, Idle
<1> QED
  BY <1>2, <1>3, <1>4, Harmless DEF ClaimDrop

(* The one step that makes winners: the drop it flips was ACTIVE, so it    *)
(* had none, and it is the only one with its code.                         *)
LEMMA FlipWin ==
  ASSUME WinInv, NEW p \in Call, Flip(p)
  PROVE  WinInv'
<1> DEFINE F == Claimable(p)
<1>1. /\ run' = [run EXCEPT ![p].pc = IF F = {} THEN "find" ELSE "readBack"]
      /\ drop' = [d \in Drop |-> IF d \in F
                     THEN [drop[d] EXCEPT !.status = "CLAIMED", !.claimedBy = p] ELSE drop[d]]
      /\ UNCHANGED <<clock, paid>> /\ run[p].pc = "flip"
  BY DEF Flip, FlipWith, Goto, At
<1>2. p \in Proc /\ run \in [Proc -> Local] /\ drop \in [Drop -> Row]
  BY DEF Proc, WinInv, TypeOK
<1>3. run[p] \in Local
  BY <1>2
<1>4. /\ \A q \in Proc \ {p} : run'[q] = run[q]
      /\ run'[p] = [run[p] EXCEPT !.pc = IF F = {} THEN "find" ELSE "readBack"]
  BY <1>1, <1>2
<1>5. /\ run'[p].pc = IF F = {} THEN "find" ELSE "readBack"
      /\ run'[p].code = run[p].code /\ run'[p] \in Local
      /\ run'[p].got = run[p].got /\ run'[p].stale = run[p].stale
  BY <1>3, <1>4 DEF Local
<1>6. run' \in [Proc -> Local]
  BY <1>1, <1>2, <1>4, <1>5
<1>7. \A d \in Drop : /\ drop'[d] \in Row
                      /\ drop'[d].code = drop[d].code
                      /\ drop'[d].status = IF d \in F THEN "CLAIMED" ELSE drop[d].status
  BY <1>1, <1>2 DEF Row
<1>8. TypeOK'
  BY <1>1, <1>6, <1>7 DEF WinInv, TypeOK
<1>9. \A d \in Drop : Exists(d)' <=> Exists(d)
  BY <1>7 DEF Exists, Claimable, Coded, Active
<1>10. \A q \in Call : (Coded(run[q].code))' = Coded(run[q].code)
  BY <1>2, <1>4, <1>5, <1>7, <1>9 DEF Coded, Proc
<1>11. \A q \in Call \ {p}, d \in Drop : Won(q, d)' => Won(q, d)
  BY <1>1, <1>4, <1>10 DEF Won, At, Proc
<1>12. \A d \in Drop : Won(p, d)' => d \in F \/ Won(p, d)
  <2> SUFFICES ASSUME NEW d \in Drop, Won(p, d)', d \notin F PROVE Won(p, d)
    OBVIOUS
  <2>1. CASE p \in paid[d]
    BY <2>1 DEF Won
  <2>2. CASE F # {} /\ d \in Coded(run[p].code)
    <3>1. PICK e \in F : TRUE
      BY <2>2
    <3>2. e \in Drop /\ Exists(e) /\ drop[e].code = run[p].code
      BY <3>1 DEF Claimable, Coded
    <3>3. d = e
      BY <2>2, <3>2 DEF WinInv, Coded
    <3> QED
      BY <3>1, <3>3
  <2>3. p \in paid[d] \/ (F # {} /\ d \in Coded(run[p].code))
    <3>1. \/ run'[p].pc = "readBack" /\ d \in (Coded(run[p].code))'
          \/ run'[p].pc = "deposit"
          \/ p \in paid'[d]
      BY DEF Won, At
    <3>2. paid' = paid /\ (Coded(run[p].code))' = Coded(run[p].code)
      BY <1>1, <1>10
    <3> QED
      BY <1>5, <3>1, <3>2
  <2> QED
    BY <2>1, <2>2, <2>3
<1>13. \A q \in Call, d \in F : ~Won(q, d)
  BY DEF WinInv, Claimable, Coded
<1>14. \A q \in Call, d \in Drop : Won(q, d)' => Exists(d)' /\ ~Active(d)'
  BY <1>7, <1>9, <1>11, <1>12 DEF WinInv, Active, Claimable, Coded
<1>15. \A q, r \in Call, d \in Drop : Won(q, d)' /\ Won(r, d)' => q = r
  BY <1>11, <1>12, <1>13 DEF WinInv
<1>16. \A q \in Call : At(q, "readBack")' => (Coded(run[q].code))' # {}
  <2> SUFFICES ASSUME NEW q \in Call, At(q, "readBack")' PROVE (Coded(run[q].code))' # {}
    OBVIOUS
  <2>1. CASE q = p
    <3>1. F # {} /\ F \subseteq Coded(run[p].code)
      BY <1>5, <2>1 DEF At, Claimable
    <3> QED
      BY <3>1, <1>10, <2>1
  <2>2. CASE q # p
    <3>1. run'[q] = run[q] /\ At(q, "readBack")
      BY <1>4, <2>2 DEF Proc, At
    <3> QED
      BY <3>1, <1>10 DEF WinInv
  <2> QED
    BY <2>1, <2>2
<1>17. \A d, e \in Drop : Exists(d)' /\ Exists(e)' /\ drop'[d].code = drop'[e].code => d = e
  BY <1>7, <1>9 DEF WinInv
<1>18. \A q \in Proc : \A e \in run'[q].got \cup run'[q].stale : Exists(e)'
  <2>1. \A q \in Proc : run'[q].got \cup run'[q].stale = run[q].got \cup run[q].stale
    BY <1>4, <1>5
  <2> QED
    BY <1>2, <1>9, <2>1 DEF WinInv, Local
<1> QED
  BY <1>8, <1>14, <1>15, <1>16, <1>17, <1>18 DEF WinInv, Exists

LEMMA ReadBackWin ==
  ASSUME WinInv, NEW p \in Call, ReadBack(p)
  PROVE  WinInv'
<1>1. p \in Proc /\ run \in [Proc -> Local] /\ clock \in Nat /\ UNCHANGED <<drop, clock, paid>>
  BY DEF Proc, WinInv, TypeOK, ReadBack
<1>2. CASE Finish(p)
  BY <1>1, <1>2, FinishLocal, Harmless
<1>3. ASSUME NEW d \in Coded(run[p].code),
             run' = [run EXCEPT ![p].pc = "deposit", ![p].got = {d}]
      PROVE  WinInv'
  <2>1. d \in Drop /\ At(p, "readBack") /\ Won(p, d)
    BY <1>3 DEF Coded, ReadBack, Won
  <2>2. /\ run' \in [Proc -> Local]
        /\ \A q \in Proc \ {p} : run'[q] = run[q]
        /\ run'[p].pc = "deposit" /\ run'[p].got = {d} /\ run'[p].stale = run[p].stale
    BY <1>1, <1>3, <2>1 DEF Local
  <2>3. \A q \in Call, e \in Drop : Won(q, e)' => Won(q, e)
    <3> SUFFICES ASSUME NEW q \in Call, NEW e \in Drop, Won(q, e)' PROVE Won(q, e)
      OBVIOUS
    <3>1. CASE q = p
      <4>1. e = d \/ p \in paid[e]
        BY <1>1, <2>2, <3>1 DEF Won, At
      <4> QED
        BY <2>1, <3>1, <4>1 DEF Won
    <3>2. CASE q # p
      BY <1>1, <2>2, <3>2 DEF Won, At, Coded, Exists, Proc
    <3> QED
      BY <3>1, <3>2
  <2>4. \A q \in Call : At(q, "readBack")' => (Coded(run[q].code))' # {}
    BY <1>1, <2>2 DEF WinInv, At, Coded, Exists, Proc
  <2>5. TypeOK'
    BY <1>1, <2>2 DEF WinInv, TypeOK
  <2>6. \A q \in Proc : \A e \in run'[q].got \cup run'[q].stale : Exists(e)'
    BY <1>1, <1>3, <2>2 DEF WinInv, Exists, Coded
  <2> QED
    BY <1>1, <2>3, <2>4, <2>5, <2>6 DEF WinInv, Exists, Active
<1> QED
  BY <1>2, <1>3 DEF ReadBack

LEMMA DepositWin ==
  ASSUME WinInv, NEW p \in Call, Deposit(p)
  PROVE  WinInv'
<1>1. /\ p \in Proc /\ UNCHANGED <<drop, clock>> /\ At(p, "deposit")
      /\ paid' = [d \in Drop |-> IF d \in run[p].got THEN paid[d] \cup {p} ELSE paid[d]]
      /\ Finish(p)
  BY DEF Proc, Deposit
<1>2. /\ run' \in [Proc -> Local]
      /\ \A q \in Proc \ {p} : run'[q] = run[q]
      /\ run'[p].pc \in {"idle", "done"} /\ run'[p].got = {} /\ run'[p].stale = {}
  BY <1>1, FinishLocal
<1>3. TypeOK'
  BY <1>1, <1>2 DEF WinInv, TypeOK
<1>4. \A q \in Call, d \in Drop : Won(q, d)' => Won(q, d)
  <2> SUFFICES ASSUME NEW q \in Call, NEW d \in Drop, Won(q, d)' PROVE Won(q, d)
    OBVIOUS
  <2>1. q \in paid'[d] => q \in paid[d] \/ (q = p /\ d \in run[p].got)
    BY <1>1
  <2>2. CASE q = p
    BY <1>1, <1>2, <2>1, <2>2 DEF Won, At
  <2>3. CASE q # p
    BY <1>1, <1>2, <2>1, <2>3 DEF Won, At, Coded, Exists, Proc
  <2> QED
    BY <2>2, <2>3
<1>5. \A q \in Call : At(q, "readBack")' => (Coded(run[q].code))' # {}
  BY <1>1, <1>2 DEF WinInv, At, Coded, Exists, Proc
<1>6. \A q \in Proc : \A e \in run'[q].got \cup run'[q].stale : Exists(e)'
  BY <1>1, <1>2 DEF WinInv, Exists
<1> QED
  BY <1>1, <1>3, <1>4, <1>5, <1>6 DEF WinInv, Exists, Active

LEMMA FindDropWin ==
  ASSUME WinInv, NEW p \in Call, FindDrop(p)
  PROVE  WinInv'
<1>1. p \in Proc /\ run \in [Proc -> Local] /\ clock' \in Nat /\ UNCHANGED <<drop, paid>>
  BY DEF Proc, WinInv, TypeOK, FindDrop
<1>2. CASE Finish(p)
  BY <1>1, <1>2, FinishLocal, Harmless
<1>3. ASSUME NEW d \in Coded(run[p].code),
             run' = [run EXCEPT ![p].pc = "select", ![p].got = {d}]
      PROVE  WinInv'
  <2>1. /\ run' \in [Proc -> Local]
        /\ \A q \in Proc \ {p} : run'[q] = run[q]
        /\ run'[p].pc = "select" /\ run'[p].got = {d} /\ run'[p].stale = run[p].stale
    BY <1>1, <1>3 DEF Local, Coded
  <2>2. \A e \in run'[p].got \cup run'[p].stale : Exists(e)
    BY <1>1, <1>3, <2>1 DEF WinInv, Coded
  <2> QED
    BY <1>1, <2>1, <2>2, Harmless
<1> QED
  BY <1>2, <1>3 DEF FindDrop

LEMMA CleanupWin ==
  ASSUME WinInv, NEW t \in Timer, CleanupExpiredDrops(t)
  PROVE  WinInv'
<1>1. t \in Proc /\ run \in [Proc -> Local] /\ clock' \in Nat /\ UNCHANGED <<drop, paid>>
  BY DEF Proc, WinInv, TypeOK, CleanupExpiredDrops, CleanupWith
<1> DEFINE D == {d \in Drop : Active(d) /\ drop[d].expiresAt < clock}
<1>2. run' = [run EXCEPT ![t].pc = "select", ![t].got = D] /\ D \subseteq Drop
  BY DEF CleanupExpiredDrops, CleanupWith
<1> HIDE DEF D
<1>3. /\ run' \in [Proc -> Local]
      /\ \A q \in Proc \ {t} : run'[q] = run[q]
      /\ run'[t].pc = "select" /\ run'[t].got = D /\ run'[t].stale = run[t].stale
  BY <1>1, <1>2 DEF Local
<1>4. \A d \in run'[t].got \cup run'[t].stale : Exists(d)
  BY <1>1, <1>3 DEF WinInv, D, Active, Exists
<1>5. t \notin Call
  BY FreeboardAssumption
<1> QED
  BY <1>1, <1>3, <1>4, <1>5, Harmless

LEMMA SaveSelectWin ==
  ASSUME WinInv, NEW p \in Proc, SaveSelect(p)
  PROVE  WinInv'
<1>1. run \in [Proc -> Local] /\ clock' \in Nat /\ UNCHANGED <<drop, paid>>
  BY DEF WinInv, TypeOK, SaveSelect
<1> DEFINE S == {d \in run[p].got : drop[d].status # "EXPIRED"}
           T == {d \in run[p].got : drop[d].claimedBy # Nobody}
<1>2. run[p] \in Local /\ S \subseteq Drop /\ T \subseteq Drop /\ S \subseteq run[p].got
  BY <1>1 DEF Local
<1>3. run' = [run EXCEPT ![p].pc = "update", ![p].stale = S, ![p].taken = T]
  BY DEF SaveSelect
<1> HIDE DEF S, T
<1>4. /\ run'[p] = [run[p] EXCEPT !.pc = "update", !.stale = S, !.taken = T]
      /\ \A q \in Proc \ {p} : run'[q] = run[q]
      /\ run' = [run EXCEPT ![p] = run'[p]]
  BY <1>1, <1>3
<1>5. /\ run'[p].pc = "update" /\ run'[p].got = run[p].got /\ run'[p].stale = S
      /\ run'[p] \in Local
  BY <1>2, <1>4 DEF Local
<1>6. run' \in [Proc -> Local]
  BY <1>1, <1>4, <1>5
<1>7. \A d \in run'[p].got \cup run'[p].stale : Exists(d)
  BY <1>2, <1>5 DEF WinInv
<1> QED
  BY <1>1, <1>4, <1>5, <1>6, <1>7, Harmless

(* The stale save writes EXPIRED or nothing: a drop that was won does not  *)
(* become ACTIVE, and no row comes or goes.                                *)
LEMMA SaveUpdateWin ==
  ASSUME WinInv, NEW p \in Proc, SaveUpdate(p)
  PROVE  WinInv'
<1>1. Finish(p) /\ UNCHANGED <<clock, paid>>
  BY DEF SaveUpdate
<1>2. /\ run \in [Proc -> Local] /\ drop \in [Drop -> Row] /\ run[p].stale \subseteq Drop
      /\ \A d \in run[p].stale : Exists(d)
  BY DEF WinInv, TypeOK, Local
<1>3. /\ run' \in [Proc -> Local]
      /\ \A q \in Proc \ {p} : run'[q] = run[q]
      /\ run'[p].pc \in {"idle", "done"} /\ run'[p].got = {} /\ run'[p].stale = {}
  BY <1>1, FinishLocal
<1>4. drop' = [d \in Drop |->
        [drop[d] EXCEPT !.status = IF d \in run[p].stale THEN "EXPIRED" ELSE drop[d].status,
                        !.claimedBy = IF d \in run[p].taken THEN Nobody ELSE drop[d].claimedBy]]
  BY DEF SaveUpdate
<1>5. \A d \in Drop :
        /\ drop'[d] \in Row /\ drop'[d].code = drop[d].code
        /\ drop'[d].status = IF d \in run[p].stale THEN "EXPIRED" ELSE drop[d].status
  BY <1>2, <1>4 DEF Row
<1>6. TypeOK'
  BY <1>1, <1>3, <1>4, <1>5 DEF WinInv, TypeOK
<1>7. \A d \in Drop : (Exists(d)' <=> Exists(d)) /\ (Active(d)' => Active(d))
  BY <1>2, <1>5 DEF Exists, Active
<1>8. \A q \in Call \ {p} : (Coded(run[q].code))' = Coded(run[q].code)
  BY <1>3, <1>5, <1>7 DEF Coded, Proc
<1>9. \A q \in Call, d \in Drop : Won(q, d)' => Won(q, d)
  <2> SUFFICES ASSUME NEW q \in Call, NEW d \in Drop, Won(q, d)' PROVE Won(q, d)
    OBVIOUS
  <2>1. CASE q = p
    BY <1>1, <1>3, <2>1 DEF Won, At
  <2>2. CASE q # p
    BY <1>1, <1>3, <1>8, <2>2 DEF Won, At, Proc
  <2> QED
    BY <2>1, <2>2
<1>10. \A q \in Call : At(q, "readBack")' => (Coded(run[q].code))' # {}
  <2> SUFFICES ASSUME NEW q \in Call, At(q, "readBack")' PROVE (Coded(run[q].code))' # {}
    OBVIOUS
  <2>1. q # p /\ At(q, "readBack")
    BY <1>3 DEF At, Proc
  <2> QED
    BY <1>8, <2>1 DEF WinInv
<1>11. \A q \in Proc : \A e \in run'[q].got \cup run'[q].stale : Exists(e)'
  BY <1>2, <1>3, <1>7 DEF WinInv, Local
<1>12. \A d, e \in Drop : Exists(d)' /\ Exists(e)' /\ drop'[d].code = drop'[e].code => d = e
  BY <1>5, <1>7 DEF WinInv
<1>13. \A q \in Call, d \in Drop : Won(q, d)' => Exists(d)' /\ ~Active(d)'
  BY <1>7, <1>9 DEF WinInv
<1>14. \A q, r \in Call, d \in Drop : Won(q, d)' /\ Won(r, d)' => q = r
  BY <1>9 DEF WinInv
<1> QED
  BY <1>6, <1>10, <1>11, <1>12, <1>13, <1>14 DEF WinInv

LEMMA FailWin ==
  ASSUME WinInv, NEW p \in Proc, Fail(p)
  PROVE  WinInv'
<1>1. Finish(p) /\ UNCHANGED <<drop, clock, paid>> /\ clock' \in Nat
  BY DEF Fail, WinInv, TypeOK
<1> QED
  BY <1>1, FinishLocal, Harmless

(* WinInv is inductive when claim codes do not collide.                    *)
LEMMA NextWin == ASSUME UniqueCodes, WinInv, [Next]_vars PROVE WinInv'
<1>1. CASE Tick
  BY <1>1, TickWin
<1>2. ASSUME NEW d \in Drop, NEW code \in Code, NEW life \in Lifetimes,
             NEW reward \in Rewards, CreateDrop(d, code, life, reward)
      PROVE  WinInv'
  BY <1>2, CreateWin
<1>3. ASSUME NEW p \in Call, NEW code \in Code, ClaimDrop(p, code) PROVE WinInv'
  BY <1>3, ClaimDropWin
<1>4. ASSUME NEW p \in Call, Flip(p) \/ ReadBack(p) \/ Deposit(p) \/ FindDrop(p)
      PROVE  WinInv'
  BY <1>4, FlipWin, ReadBackWin, DepositWin, FindDropWin
<1>5. ASSUME NEW t \in Timer, CleanupExpiredDrops(t) PROVE WinInv'
  BY <1>5, CleanupWin
<1>6. ASSUME NEW p \in Proc, SaveSelect(p) \/ SaveUpdate(p) \/ Fail(p) PROVE WinInv'
  BY <1>6, SaveSelectWin, SaveUpdateWin, FailWin
<1>7. CASE UNCHANGED vars
  BY <1>7 DEF vars, WinInv, TypeOK, Won, At, Coded, Exists, Active
<1> QED
  BY <1>1, <1>2, <1>3, <1>4, <1>5, <1>6, <1>7 DEF Next

(* The tables and the calls keep their types, whatever claims and cleanups *)
(* overwrite of each other's saves.                                        *)
THEOREM TypeCorrect == ASSUME UniqueCodes PROVE Spec => []TypeOK
<1>1. WinInv => TypeOK
  BY DEF WinInv
<1> QED
  BY <1>1, InitWin, NextWin, PTL DEF Spec

(* freeboard.service.ts:113, "only one caller can flip ACTIVE -> CLAIMED": *)
(* the reward of a drop is paid to one caller, for any number of drops,    *)
(* claims and cleanups, as long as claim codes do not collide.             *)
THEOREM RewardOnce == ASSUME UniqueCodes PROVE Spec => []OneReward
<1>1. WinInv => OneReward
  <2> SUFFICES ASSUME WinInv, NEW d \in Drop, NEW p \in paid[d], NEW q \in paid[d]
               PROVE  p = q
    BY DEF OneReward
  <2>1. p \in Call /\ q \in Call
    BY DEF WinInv, TypeOK
  <2> QED
    BY <2>1 DEF WinInv, Won
<1> QED
  BY <1>1, InitWin, NextWin, PTL DEF Spec
=============================================================================
