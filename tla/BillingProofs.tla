--------------------------- MODULE BillingProofs ---------------------------
(***************************************************************************)
(* Billing for every number of concurrent requests, every price list and   *)
(* every set of references.                                                *)
(***************************************************************************)
EXTENDS Billing, TLAPS

-----------------------------------------------------------------------------
(* The inductive invariant.                                                *)

\* What a session's argument is.
Arguments ==
    \A s \in Sessions :
        /\ at[s] \in {"paid", "unpaid", "granting", "applying"} => arg[s] \in Txs
        /\ at[s] \in {"renew", "renewing", "comping"} => arg[s] \in Plans
        /\ at[s] = "granting" => PlanOf[arg[s]] # NoPlan

\* A session about to grant an allowance.
Granting(s) == \/ at[s] \in {"renewing", "comping"}
               \/ at[s] = "applying" /\ PlanOf[arg[s]] # NoPlan

Fits(credits) == \E p \in Plans : credits <= Allowance[p] + extra

\* Such a session holds the row, so there is one of them, and what it adds was
\* computed from a balance that only top-ups and debits have moved since.
GrantsFit == \A s \in Sessions : Granting(s) => lock = s /\ Fits(bal + delta[s])

\* The other entries.
OtherEntries ==
    \A s \in Sessions :
        /\ at[s] = "applying" /\ PlanOf[arg[s]] = NoPlan => delta[s] = Pack
        /\ at[s] = "running" => delta[s] = -Cost
        /\ at[s] = "renewing" => delta[s] >= 0

IInv == TypeOK /\ Arguments /\ OtherEntries /\ GrantsFit
        /\ AllowanceNotCompounded /\ StatusMatchesLedger

\* A session's variables after one of its steps.
LEMMA PutType ==
    ASSUME TypeOK, NEW s \in Sessions, NEW step \in Steps,
           NEW about \in Txs \cup Plans \cup {NoPlan}, NEW entry \in Int,
           Put(s, step, about, entry)
    PROVE  /\ at' \in [Sessions -> Steps]
           /\ arg' \in [Sessions -> Txs \cup Plans \cup {NoPlan}]
           /\ delta' \in [Sessions -> Int]
  BY DEF TypeOK, Put

\* What is committed is an integer.
LEMMA CommitType ==
    ASSUME TypeOK, NEW s \in Sessions, Commit(s)
    PROVE  /\ at' \in [Sessions -> Steps]
           /\ arg' \in [Sessions -> Txs \cup Plans \cup {NoPlan}]
           /\ delta' \in [Sessions -> Int]
           /\ bal' \in Int
           /\ lock' \in Sessions \cup {NoSession}
           /\ paid' = paid /\ begun' = begun
<1>1. "idle" \in Steps
  BY DEF Steps
<1>2. Put(s, "idle", NoPlan, 0)
  BY DEF Commit
<1>3. bal' \in Int /\ lock' \in Sessions \cup {NoSession}
  BY DEF Commit, TypeOK
<1> QED
  BY <1>1, <1>2, <1>3, PutType DEF Commit

\* Every statement keeps the columns and the sessions' variables in their types.
LEMMA TypeStep == TypeOK /\ Arguments /\ [Next]_vars => TypeOK'
<1> SUFFICES ASSUME TypeOK, Arguments, [Next]_vars PROVE TypeOK'
  OBVIOUS
<1> USE BillingAssumption DEF TypeOK, Steps
<1>1. ASSUME NEW t \in Txs, Checkout(t) PROVE TypeOK'
  BY <1>1 DEF Checkout, row, session
<1>2. ASSUME NEW t \in Txs, Pay(t) PROVE TypeOK'
  BY <1>2 DEF Pay, row, session
<1>3. ASSUME NEW n \in {Pack, -Pack}, AdjustCredits(n) PROVE TypeOK'
  BY <1>3 DEF AdjustCredits, Max0, row, session
<1>4. ASSUME NEW s \in Sessions, NEW t \in Txs, Verify(s, t) PROVE TypeOK'
  BY <1>4 DEF Verify, Begin, Put, row, session
<1>5. ASSUME NEW s \in Sessions, MarkDeclined(s) PROVE TypeOK'
  <2>1. arg[s] \in Txs
    BY <1>5 DEF MarkDeclined, Arguments
  <2>2. tx' \in [Txs -> {"absent", "pending", "success", "declined"}]
    BY <1>5, <2>1 DEF MarkDeclined
  <2>3. Put(s, "idle", NoPlan, 0)
    BY <1>5 DEF MarkDeclined, End
  <2> QED
    BY <1>5, <2>2, <2>3, PutType DEF MarkDeclined, End, row
<1>6. ASSUME NEW s \in Sessions, ReadPending(s) PROVE TypeOK'
  BY <1>6 DEF ReadPending, Put, row, session
<1>7. ASSUME NEW s \in Sessions, ReadSettled(s) PROVE TypeOK'
  BY <1>7 DEF ReadSettled, End, Put, row, session
<1>8. ASSUME NEW s \in Sessions, GrantPlan(s) PROVE TypeOK'
  <2>1. arg[s] \in Txs /\ PlanOf[arg[s]] \in Plans
    BY <1>8 DEF GrantPlan, Arguments
  <2>2. Allowance[PlanOf[arg[s]]] - bal \in Int
    BY <2>1
  <2> QED
    BY <1>8, <2>1, <2>2, PutType DEF GrantPlan, row
<1>9. ASSUME NEW s \in Sessions, ApplySuccess(s) PROVE TypeOK'
  <2>1. arg[s] \in Txs
    BY <1>9 DEF ApplySuccess, Arguments
  <2>2. /\ plan' \in Plans \cup {NoPlan}
        /\ status' \in {"active", "inactive"}
        /\ extra' \in Nat
    BY <1>9, <2>1 DEF ApplySuccess, row
  <2>3. /\ tx' \in [Txs -> {"absent", "pending", "success", "declined"}]
        /\ applied' \in [Txs -> Nat]
    BY <1>9, <2>1 DEF ApplySuccess
  <2> QED
    BY <1>9, <2>2, <2>3, CommitType DEF ApplySuccess
<1>10. ASSUME NEW s \in Sessions, RenewRead(s) PROVE TypeOK'
  BY <1>10 DEF RenewRead, Begin, Put, row, session
<1>11. ASSUME NEW s \in Sessions, RenewGrant(s) PROVE TypeOK'
  <2>1. arg[s] \in Plans
    BY <1>11 DEF RenewGrant, Arguments
  <2>2. Max0(Allowance[arg[s]] - bal) \in Int
    BY <2>1 DEF Max0
  <2> QED
    BY <1>11, <2>1, <2>2, PutType DEF RenewGrant, row
<1>12. ASSUME NEW s \in Sessions, Renew(s) PROVE TypeOK'
  BY <1>12 DEF Renew, Commit, Put, row, session
<1>13. ASSUME NEW s \in Sessions, NEW p \in Plans, CompGrant(s, p) PROVE TypeOK'
  BY <1>13 DEF CompGrant, Begin, Put, row, session
<1>14. ASSUME NEW s \in Sessions, Comp(s) PROVE TypeOK'
  <2>1. arg[s] \in Plans
    BY <1>14 DEF Comp, Arguments
  <2> QED
    BY <1>14, <2>1, CommitType DEF Comp
<1>15. ASSUME NEW s \in Sessions, CancelRead(s) PROVE TypeOK'
  BY <1>15 DEF CancelRead, Begin, Put, row, session
<1>16. ASSUME NEW s \in Sessions, Cancel(s) PROVE TypeOK'
  BY <1>16 DEF Cancel, Commit, Put, Max0, row, session
<1>17. ASSUME NEW s \in Sessions, RunBegins(s) PROVE TypeOK'
  BY <1>17 DEF RunBegins, Begin, Put, row, session
<1>18. ASSUME NEW s \in Sessions, Debit(s) PROVE TypeOK'
  BY <1>18 DEF Debit, Commit, Put, row, session
<1>19. CASE UNCHANGED vars
  BY <1>19 DEF vars, row, session
<1> QED
  BY <1>1, <1>2, <1>3, <1>4, <1>5, <1>6, <1>7, <1>8, <1>9, <1>10, <1>11, <1>12, <1>13, <1>14, <1>15, <1>16, <1>17, <1>18, <1>19 DEF Next

-----------------------------------------------------------------------------
\* Every statement keeps the invariant.
LEMMA Inductive == IInv /\ [Next]_vars => IInv'
<1> SUFFICES ASSUME IInv, [Next]_vars
             PROVE Arguments' /\ OtherEntries' /\ GrantsFit'
                   /\ AllowanceNotCompounded' /\ StatusMatchesLedger'
  BY TypeStep DEF IInv
<1>0. TypeOK'
  BY TypeStep DEF IInv
<1> DEFINE Goal == Arguments' /\ OtherEntries' /\ GrantsFit'
                   /\ AllowanceNotCompounded' /\ StatusMatchesLedger'
<1> USE <1>0, BillingAssumption DEF IInv, TypeOK, Steps, Granting, Fits
<1>1. ASSUME NEW t \in Txs, Checkout(t) PROVE Goal
  <2>1. Arguments'
    BY <1>1 DEF Checkout, row, session, Arguments
  <2>2. OtherEntries'
    BY <1>1 DEF Checkout, row, session, OtherEntries
  <2>3. GrantsFit'
    BY <1>1 DEF Checkout, row, session, GrantsFit
  <2>4. AllowanceNotCompounded'
    BY <1>1 DEF Checkout, row, session, AllowanceNotCompounded
  <2>5. StatusMatchesLedger'
    BY <1>1 DEF Checkout, row, session, StatusMatchesLedger
  <2> QED
    BY <2>1, <2>2, <2>3, <2>4, <2>5
<1>2. ASSUME NEW t \in Txs, Pay(t) PROVE Goal
  <2>1. Arguments'
    BY <1>2 DEF Pay, row, session, Arguments
  <2>2. OtherEntries'
    BY <1>2 DEF Pay, row, session, OtherEntries
  <2>3. GrantsFit'
    BY <1>2 DEF Pay, row, session, GrantsFit
  <2>4. AllowanceNotCompounded'
    BY <1>2 DEF Pay, row, session, AllowanceNotCompounded
  <2>5. StatusMatchesLedger'
    BY <1>2 DEF Pay, row, session, StatusMatchesLedger
  <2> QED
    BY <2>1, <2>2, <2>3, <2>4, <2>5
<1>3. ASSUME NEW n \in {Pack, -Pack}, AdjustCredits(n) PROVE Goal
  <2>1. Arguments'
    BY <1>3 DEF AdjustCredits, Max0, row, session, Arguments
  <2>2. OtherEntries'
    BY <1>3 DEF AdjustCredits, Max0, row, session, OtherEntries
  <2>3. GrantsFit'
    BY <1>3 DEF AdjustCredits, Max0, row, session, GrantsFit
  <2>4. AllowanceNotCompounded'
    BY <1>3 DEF AdjustCredits, Max0, row, session, AllowanceNotCompounded
  <2>5. StatusMatchesLedger'
    BY <1>3 DEF AdjustCredits, Max0, row, session, StatusMatchesLedger
  <2> QED
    BY <2>1, <2>2, <2>3, <2>4, <2>5
<1>4. ASSUME NEW s \in Sessions, NEW t \in Txs, Verify(s, t) PROVE Goal
  <2>1. Arguments'
    BY <1>4 DEF Verify, Begin, Put, row, session, Arguments
  <2>2. OtherEntries'
    BY <1>4 DEF Verify, Begin, Put, row, session, OtherEntries
  <2>3. GrantsFit'
    BY <1>4 DEF Verify, Begin, Put, row, session, GrantsFit
  <2>4. AllowanceNotCompounded'
    BY <1>4 DEF Verify, Begin, Put, row, session, AllowanceNotCompounded
  <2>5. StatusMatchesLedger'
    BY <1>4 DEF Verify, Begin, Put, row, session, StatusMatchesLedger
  <2> QED
    BY <2>1, <2>2, <2>3, <2>4, <2>5
<1>5. ASSUME NEW s \in Sessions, MarkDeclined(s) PROVE Goal
  <2>1. Arguments'
    BY <1>5 DEF MarkDeclined, End, Put, row, session, Arguments
  <2>2. OtherEntries'
    BY <1>5 DEF MarkDeclined, End, Put, row, session, OtherEntries
  <2>3. GrantsFit'
    BY <1>5 DEF MarkDeclined, End, Put, row, session, GrantsFit
  <2>4. AllowanceNotCompounded'
    BY <1>5 DEF MarkDeclined, End, Put, row, session, AllowanceNotCompounded
  <2>5. StatusMatchesLedger'
    BY <1>5 DEF MarkDeclined, End, Put, row, session, StatusMatchesLedger
  <2> QED
    BY <2>1, <2>2, <2>3, <2>4, <2>5
<1>6. ASSUME NEW s \in Sessions, ReadPending(s) PROVE Goal
  <2>1. Arguments'
    BY <1>6 DEF ReadPending, Put, row, session, Arguments
  <2>2. OtherEntries'
    BY <1>6 DEF ReadPending, Put, row, session, OtherEntries
  <2>3. GrantsFit'
    BY <1>6 DEF ReadPending, Put, row, session, GrantsFit
  <2>4. AllowanceNotCompounded'
    BY <1>6 DEF ReadPending, Put, row, session, AllowanceNotCompounded
  <2>5. StatusMatchesLedger'
    BY <1>6 DEF ReadPending, Put, row, session, StatusMatchesLedger
  <2> QED
    BY <2>1, <2>2, <2>3, <2>4, <2>5
<1>7. ASSUME NEW s \in Sessions, ReadSettled(s) PROVE Goal
  <2>1. Arguments'
    BY <1>7 DEF ReadSettled, End, Put, row, session, Arguments
  <2>2. OtherEntries'
    BY <1>7 DEF ReadSettled, End, Put, row, session, OtherEntries
  <2>3. GrantsFit'
    BY <1>7 DEF ReadSettled, End, Put, row, session, GrantsFit
  <2>4. AllowanceNotCompounded'
    BY <1>7 DEF ReadSettled, End, Put, row, session, AllowanceNotCompounded
  <2>5. StatusMatchesLedger'
    BY <1>7 DEF ReadSettled, End, Put, row, session, StatusMatchesLedger
  <2> QED
    BY <2>1, <2>2, <2>3, <2>4, <2>5
<1>8. ASSUME NEW s \in Sessions, GrantPlan(s) PROVE Goal
  <2>1. Arguments'
    BY <1>8 DEF GrantPlan, Put, row, session, Arguments
  <2>2. OtherEntries'
    <3>1. /\ at[s] = "granting" /\ arg[s] \in Txs /\ PlanOf[arg[s]] # NoPlan
          /\ at' = [at EXCEPT ![s] = "applying"]
          /\ arg' = [arg EXCEPT ![s] = arg[s]]
          /\ \A r \in Sessions : r # s => delta'[r] = delta[r]
      BY <1>8 DEF GrantPlan, Put, Arguments
    <3> QED
      BY <3>1 DEF OtherEntries
  <2>3. GrantsFit'
    <3>1. /\ arg[s] \in Txs /\ PlanOf[arg[s]] \in Plans
          /\ bal + (Allowance[PlanOf[arg[s]]] - bal) <= Allowance[PlanOf[arg[s]]] + extra
      BY <1>8 DEF GrantPlan, Arguments
    <3>2. /\ delta'[s] = Allowance[PlanOf[arg[s]]] - bal
          /\ lock' = s /\ bal' = bal /\ extra' = extra
      BY <1>8 DEF GrantPlan, Put
    <3>3. \A r \in Sessions : r # s => ~Granting(r)'
      BY <1>8 DEF GrantPlan, Put, GrantsFit
    <3> QED
      BY <3>1, <3>2, <3>3 DEF GrantsFit
  <2>4. AllowanceNotCompounded'
    BY <1>8 DEF GrantPlan, Put, row, session, AllowanceNotCompounded
  <2>5. StatusMatchesLedger'
    BY <1>8 DEF GrantPlan, Put, row, session, StatusMatchesLedger
  <2> QED
    BY <2>1, <2>2, <2>3, <2>4, <2>5
<1>9. ASSUME NEW s \in Sessions, ApplySuccess(s) PROVE Goal
  <2>1. Arguments'
    BY <1>9 DEF ApplySuccess, Commit, Put, row, session, Arguments
  <2>2. OtherEntries'
    BY <1>9 DEF ApplySuccess, Commit, Put, row, session, OtherEntries
  <2>3. GrantsFit'
    <3>1. /\ lock' = (IF lock = s THEN NoSession ELSE lock)
          /\ bal' = bal + delta[s] /\ ~Granting(s)'
          /\ arg[s] \in Txs
          /\ \A r \in Sessions : r # s => delta'[r] = delta[r] /\ (Granting(r)' <=> Granting(r))
      BY <1>9 DEF ApplySuccess, Commit, Put, Arguments
    <3>2. CASE PlanOf[arg[s]] = NoPlan
      <4>1. bal' = bal + Pack /\ extra' = extra + Pack
        BY <1>9, <3>1, <3>2 DEF ApplySuccess, OtherEntries
      <4>2. ASSUME NEW r \in Sessions, Granting(r)'
            PROVE r # s /\ lock' = r /\ Fits(bal + delta[r])'
        BY <3>1, <4>1, <4>2, <1>9, <3>2 DEF GrantsFit, ApplySuccess
      <4> QED
        BY <4>2 DEF GrantsFit
    <3>3. CASE PlanOf[arg[s]] # NoPlan
      BY <1>9, <3>1, <3>3 DEF GrantsFit, ApplySuccess
    <3> QED
      BY <3>2, <3>3
  <2>4. AllowanceNotCompounded'
    <3>1. arg[s] \in Txs /\ bal' = bal + delta[s]
      BY <1>9 DEF ApplySuccess, Commit, Arguments
    <3>2. CASE PlanOf[arg[s]] = NoPlan
      <4>1. bal' = bal + Pack /\ extra' = extra + Pack
        BY <1>9, <3>1, <3>2 DEF ApplySuccess, OtherEntries
      <4> QED
        BY <4>1 DEF AllowanceNotCompounded
    <3>3. CASE PlanOf[arg[s]] # NoPlan
      <4>1. Fits(bal + delta[s]) /\ extra' = extra
        BY <1>9, <3>3 DEF ApplySuccess, GrantsFit
      <4> QED
        BY <3>1, <4>1 DEF AllowanceNotCompounded
    <3> QED
      BY <3>2, <3>3
  <2>5. StatusMatchesLedger'
    BY <1>9 DEF ApplySuccess, Commit, Put, row, session, StatusMatchesLedger
  <2> QED
    BY <2>1, <2>2, <2>3, <2>4, <2>5
<1>10. ASSUME NEW s \in Sessions, RenewRead(s) PROVE Goal
  <2>1. Arguments'
    BY <1>10 DEF RenewRead, Begin, Put, row, session, Arguments
  <2>2. OtherEntries'
    BY <1>10 DEF RenewRead, Begin, Put, row, session, OtherEntries
  <2>3. GrantsFit'
    BY <1>10 DEF RenewRead, Begin, Put, row, session, GrantsFit
  <2>4. AllowanceNotCompounded'
    BY <1>10 DEF RenewRead, Begin, Put, row, session, AllowanceNotCompounded
  <2>5. StatusMatchesLedger'
    BY <1>10 DEF RenewRead, Begin, Put, row, session, StatusMatchesLedger
  <2> QED
    BY <2>1, <2>2, <2>3, <2>4, <2>5
<1>11. ASSUME NEW s \in Sessions, RenewGrant(s) PROVE Goal
  <2>1. Arguments'
    BY <1>11 DEF RenewGrant, Put, Max0, row, session, Arguments
  <2>2. OtherEntries'
    BY <1>11 DEF RenewGrant, Put, Max0, row, session, OtherEntries
  <2>3. GrantsFit'
    <3>1. /\ arg[s] \in Plans
          /\ delta'[s] = IF Allowance[arg[s]] - bal > 0 THEN Allowance[arg[s]] - bal ELSE 0
          /\ lock' = s /\ bal' = bal /\ extra' = extra
      BY <1>11 DEF RenewGrant, Put, Max0, Arguments
    <3>2. \A r \in Sessions : r # s => ~Granting(r)'
      BY <1>11 DEF RenewGrant, Put, GrantsFit
    <3>3. Fits(bal + delta[s])'
      <4>1. CASE Allowance[arg[s]] - bal > 0
        BY <3>1, <4>1
      <4>2. CASE ~(Allowance[arg[s]] - bal > 0)
        BY <3>1, <4>2 DEF AllowanceNotCompounded
      <4> QED
        BY <4>1, <4>2
    <3> QED
      BY <3>1, <3>2, <3>3 DEF GrantsFit
  <2>4. AllowanceNotCompounded'
    BY <1>11 DEF RenewGrant, Put, Max0, row, session, AllowanceNotCompounded
  <2>5. StatusMatchesLedger'
    BY <1>11 DEF RenewGrant, Put, Max0, row, session, StatusMatchesLedger
  <2> QED
    BY <2>1, <2>2, <2>3, <2>4, <2>5
<1>12. ASSUME NEW s \in Sessions, Renew(s) PROVE Goal
  <2>1. Arguments'
    BY <1>12 DEF Renew, Commit, Put, row, session, Arguments
  <2>2. OtherEntries'
    BY <1>12 DEF Renew, Commit, Put, row, session, OtherEntries
  <2>3. GrantsFit'
    BY <1>12 DEF Renew, Commit, Put, row, session, GrantsFit
  <2>4. AllowanceNotCompounded'
    BY <1>12 DEF Renew, Commit, GrantsFit, AllowanceNotCompounded
  <2>5. StatusMatchesLedger'
    BY <1>12 DEF Renew, Commit, Put, row, session, StatusMatchesLedger
  <2> QED
    BY <2>1, <2>2, <2>3, <2>4, <2>5
<1>13. ASSUME NEW s \in Sessions, NEW p \in Plans, CompGrant(s, p) PROVE Goal
  <2>1. Arguments'
    BY <1>13 DEF CompGrant, Begin, Put, row, session, Arguments
  <2>2. OtherEntries'
    BY <1>13 DEF CompGrant, Begin, Put, row, session, OtherEntries
  <2>3. GrantsFit'
    BY <1>13 DEF CompGrant, Begin, Put, row, session, GrantsFit
  <2>4. AllowanceNotCompounded'
    BY <1>13 DEF CompGrant, Begin, Put, row, session, AllowanceNotCompounded
  <2>5. StatusMatchesLedger'
    BY <1>13 DEF CompGrant, Begin, Put, row, session, StatusMatchesLedger
  <2> QED
    BY <2>1, <2>2, <2>3, <2>4, <2>5
<1>14. ASSUME NEW s \in Sessions, Comp(s) PROVE Goal
  <2>1. Arguments'
    BY <1>14 DEF Comp, Commit, Put, row, session, Arguments
  <2>2. OtherEntries'
    BY <1>14 DEF Comp, Commit, Put, row, session, OtherEntries
  <2>3. GrantsFit'
    BY <1>14 DEF Comp, Commit, Put, row, session, GrantsFit
  <2>4. AllowanceNotCompounded'
    BY <1>14 DEF Comp, Commit, GrantsFit, AllowanceNotCompounded
  <2>5. StatusMatchesLedger'
    BY <1>14 DEF Comp, Commit, Put, row, session, StatusMatchesLedger
  <2> QED
    BY <2>1, <2>2, <2>3, <2>4, <2>5
<1>15. ASSUME NEW s \in Sessions, CancelRead(s) PROVE Goal
  <2>1. Arguments'
    BY <1>15 DEF CancelRead, Begin, Put, row, session, Arguments
  <2>2. OtherEntries'
    BY <1>15 DEF CancelRead, Begin, Put, row, session, OtherEntries
  <2>3. GrantsFit'
    BY <1>15 DEF CancelRead, Begin, Put, row, session, GrantsFit
  <2>4. AllowanceNotCompounded'
    BY <1>15 DEF CancelRead, Begin, Put, row, session, AllowanceNotCompounded
  <2>5. StatusMatchesLedger'
    BY <1>15 DEF CancelRead, Begin, Put, row, session, StatusMatchesLedger
  <2> QED
    BY <2>1, <2>2, <2>3, <2>4, <2>5
<1>16. ASSUME NEW s \in Sessions, Cancel(s) PROVE Goal
  <2>1. Arguments'
    BY <1>16 DEF Cancel, Commit, Put, Max0, row, session, Arguments
  <2>2. OtherEntries'
    BY <1>16 DEF Cancel, Commit, Put, Max0, row, session, OtherEntries
  <2>3. GrantsFit'
    BY <1>16 DEF Cancel, Commit, Put, Max0, row, session, GrantsFit
  <2>4. AllowanceNotCompounded'
    BY <1>16 DEF Cancel, Commit, Put, Max0, row, session, AllowanceNotCompounded
  <2>5. StatusMatchesLedger'
    BY <1>16 DEF Cancel, Commit, Put, Max0, row, session, StatusMatchesLedger
  <2> QED
    BY <2>1, <2>2, <2>3, <2>4, <2>5
<1>17. ASSUME NEW s \in Sessions, RunBegins(s) PROVE Goal
  <2>1. Arguments'
    BY <1>17 DEF RunBegins, Begin, Put, row, session, Arguments
  <2>2. OtherEntries'
    BY <1>17 DEF RunBegins, Begin, Put, row, session, OtherEntries
  <2>3. GrantsFit'
    BY <1>17 DEF RunBegins, Begin, Put, row, session, GrantsFit
  <2>4. AllowanceNotCompounded'
    BY <1>17 DEF RunBegins, Begin, Put, row, session, AllowanceNotCompounded
  <2>5. StatusMatchesLedger'
    BY <1>17 DEF RunBegins, Begin, Put, row, session, StatusMatchesLedger
  <2> QED
    BY <2>1, <2>2, <2>3, <2>4, <2>5
<1>18. ASSUME NEW s \in Sessions, Debit(s) PROVE Goal
  <2>1. Arguments'
    BY <1>18 DEF Debit, Commit, Put, row, session, Arguments
  <2>2. OtherEntries'
    BY <1>18 DEF Debit, Commit, Put, row, session, OtherEntries
  <2>3. GrantsFit'
    <3>1. /\ lock' = (IF lock = s THEN NoSession ELSE lock)
          /\ bal' = bal - Cost /\ extra' = extra /\ ~Granting(s)'
          /\ ~Granting(s)
          /\ \A r \in Sessions : r # s => delta'[r] = delta[r] /\ (Granting(r)' <=> Granting(r))
      BY <1>18 DEF Debit, Commit, Put, OtherEntries
    <3>2. ASSUME NEW r \in Sessions, Granting(r)'
          PROVE lock' = r /\ Fits(bal + delta[r])'
      BY <3>1, <3>2 DEF GrantsFit
    <3> QED
      BY <3>2 DEF GrantsFit
  <2>4. AllowanceNotCompounded'
    BY <1>18 DEF Debit, Commit, OtherEntries, AllowanceNotCompounded
  <2>5. StatusMatchesLedger'
    BY <1>18 DEF Debit, Commit, Put, row, session, StatusMatchesLedger
  <2> QED
    BY <2>1, <2>2, <2>3, <2>4, <2>5
<1>19. CASE UNCHANGED vars
  BY <1>19 DEF vars, row, session, Arguments, OtherEntries, GrantsFit, AllowanceNotCompounded, StatusMatchesLedger
<1> QED
  BY <1>1, <1>2, <1>3, <1>4, <1>5, <1>6, <1>7, <1>8, <1>9, <1>10, <1>11, <1>12, <1>13, <1>14, <1>15, <1>16, <1>17, <1>18, <1>19 DEF Next
LEMMA Initially == Init => IInv
  BY BillingAssumption
     DEF Init, IInv, TypeOK, Steps, Arguments, OtherEntries, GrantsFit, Granting,
         AllowanceNotCompounded, StatusMatchesLedger

THEOREM Invariance == Spec => []IInv
  BY Initially, Inductive, PTL DEF Spec

-----------------------------------------------------------------------------
(* What follows from it.                                                   *)

\* The columns and the sessions' variables keep their types.
THEOREM Typing == Spec => []TypeOK
<1>1. IInv => TypeOK
  BY DEF IInv
<1> QED
  BY <1>1, Invariance, PTL

\* A subscription "buys a period's worth": allowances never add up.
THEOREM PeriodsDoNotAddUp == Spec => []AllowanceNotCompounded
<1>1. IInv => AllowanceNotCompounded
  BY DEF IInv
<1> QED
  BY <1>1, Invariance, PTL

\* A transaction says "success" exactly when its credits were granted.
THEOREM SuccessMeansGranted == Spec => []StatusMatchesLedger
<1>1. IInv => StatusMatchesLedger
  BY DEF IInv
<1> QED
  BY <1>1, Invariance, PTL

\* Only a purchase or a comp plan ends the time without a plan.
THEOREM RenewalsDoNotResubscribe == Spec => CancellationSticks
<1>1. IInv /\ [Next]_vars =>
        [plan = NoPlan /\ plan' # NoPlan
           => \E s \in Sessions : at[s] \in {"applying", "comping"} /\ at'[s] = "idle"]_vars
  <2> SUFFICES ASSUME IInv, Next, plan = NoPlan, plan' # NoPlan
               PROVE \E s \in Sessions : at[s] \in {"applying", "comping"} /\ at'[s] = "idle"
    OBVIOUS
  <2> USE DEF IInv, TypeOK
  <2>1. ASSUME NEW s \in Sessions, ApplySuccess(s) \/ Comp(s)
        PROVE at[s] \in {"applying", "comping"} /\ at'[s] = "idle"
    BY <2>1 DEF ApplySuccess, Comp, Commit, Put
  <2>2. \A s \in Sessions : ~Cancel(s)
    BY DEF Cancel
  <2>3. PICK s \in Sessions : ApplySuccess(s) \/ Comp(s)
    BY <2>2 DEF Next, Checkout, Pay, AdjustCredits, Verify, MarkDeclined, End, ReadPending,
                ReadSettled, GrantPlan, RenewRead, RenewGrant, Renew, CompGrant,
                CancelRead, RunBegins, Debit, row
  <2> QED
    BY <2>1, <2>3
<1> QED
  BY <1>1, Invariance, PTL DEF Spec, CancellationSticks

\* A renewal never takes a credit away.
THEOREM RenewalsOnlyAdd == Spec => RenewalTakesNothing
<1>1. IInv /\ [Next]_vars =>
        [\A s \in Sessions : at[s] = "renewing" /\ at'[s] = "idle" => bal' >= bal]_vars
  <2> SUFFICES ASSUME IInv, Next, NEW s \in Sessions,
                      at[s] = "renewing", at'[s] = "idle"
               PROVE bal' >= bal
    OBVIOUS
  <2> USE DEF IInv, TypeOK
  <2>1. ASSUME Renew(s) PROVE bal' >= bal
    BY <2>1 DEF Renew, Commit, OtherEntries
  <2>2. \A r \in Sessions : r # s =>
          /\ \A t \in Txs : ~Verify(r, t)
          /\ ~MarkDeclined(r) /\ ~ReadPending(r) /\ ~ReadSettled(r)
          /\ ~GrantPlan(r) /\ ~ApplySuccess(r)
    BY DEF Verify, Begin, MarkDeclined, End, ReadPending, ReadSettled, GrantPlan,
           ApplySuccess, Commit, Put
  <2>3. \A r \in Sessions : r # s =>
          /\ ~RenewRead(r) /\ ~RenewGrant(r) /\ ~Renew(r)
          /\ \A p \in Plans : ~CompGrant(r, p)
          /\ ~Comp(r) /\ ~CancelRead(r) /\ ~Cancel(r) /\ ~RunBegins(r) /\ ~Debit(r)
    BY DEF RenewRead, RenewGrant, Renew, CompGrant, Comp, CancelRead, Cancel,
           RunBegins, Debit, Begin, Commit, Put
  <2>4. Renew(s)
    <3>1. /\ \A t \in Txs : ~Checkout(t) /\ ~Pay(t)
          /\ ~AdjustCredits(Pack) /\ ~AdjustCredits(-Pack)
      BY DEF Checkout, Pay, AdjustCredits, session
    <3>2. /\ \A t \in Txs : ~Verify(s, t)
          /\ ~MarkDeclined(s) /\ ~ReadPending(s) /\ ~ReadSettled(s)
          /\ ~GrantPlan(s) /\ ~ApplySuccess(s)
          /\ ~RenewRead(s) /\ ~RenewGrant(s)
          /\ \A p \in Plans : ~CompGrant(s, p)
          /\ ~Comp(s) /\ ~CancelRead(s) /\ ~Cancel(s) /\ ~RunBegins(s) /\ ~Debit(s)
      BY DEF Verify, Begin, MarkDeclined, ReadPending, ReadSettled, GrantPlan, ApplySuccess,
             RenewRead, RenewGrant, CompGrant, Comp, CancelRead, Cancel, RunBegins, Debit
    <3> QED
      BY <2>2, <2>3, <3>1, <3>2 DEF Next
  <2> QED
    BY <2>1, <2>4
<1> QED
  BY <1>1, Invariance, PTL DEF Spec, RenewalTakesNothing
=============================================================================
