------------------------------ MODULE Billing ------------------------------
(***************************************************************************)
(* One user's plan, credits and payments (backend/billing.py), as several  *)
(* requests change them at once.  A session is one request's database      *)
(* transaction at READ COMMITTED: each statement sees what is committed    *)
(* when it starts, and an UPDATE of the user_billing row keeps the row     *)
(* locked until the commit.  A step here is a statement whose result the   *)
(* code keeps, or the last write together with the commit.                 *)
(*                                                                         *)
(* Paystack is external: `paid` is what it would answer.                    *)
(***************************************************************************)
EXTENDS Integers

CONSTANTS Sessions,     \* requests being served
          NoSession,
          Plans,        \* plan keys
          NoPlan,       \* plan IS NULL; in a transaction: a top-up
          Allowance,    \* [Plans -> Nat], a plan's monthly credits
          Txs,          \* payment references
          PlanOf,       \* [Txs -> Plans \cup {NoPlan}], what a reference buys
          Pack,         \* credits of a top-up
          Cost,         \* credits of one metered run
          MaxSessions   \* bound: requests ever begun

ASSUME BillingAssumption ==
    /\ NoSession \notin Sessions
    /\ Plans # {} /\ NoPlan \notin Plans
    /\ Allowance \in [Plans -> Nat]
    /\ PlanOf \in [Txs -> Plans \cup {NoPlan}]
    /\ Pack \in Nat /\ Cost \in Nat /\ MaxSessions \in Nat

VARIABLES plan, status,  \* the user_billing row
          bal,           \* SUM(delta) over credit_ledger
          tx,            \* the status column of billing_transactions
          paid,          \* references Paystack has been paid for
          lock,          \* the session holding the user_billing row
          at,            \* how far each session is
          arg,           \* the reference or plan it is about
          delta,         \* the ledger entry it is going to insert
          begun,         \* sessions begun so far
          applied,       \* history: how often a reference was applied
          extra          \* history: credits that came on top of an allowance

row == <<plan, status>>
session == <<at, arg, delta>>
vars == <<row, bal, tx, paid, lock, session, begun, applied, extra>>

Max0(n) == IF n > 0 THEN n ELSE 0

Init ==
    /\ plan = NoPlan /\ status = "inactive"
    /\ bal = 0
    /\ tx = [t \in Txs |-> "absent"]
    /\ paid = {}
    /\ lock = NoSession
    /\ at = [s \in Sessions |-> "idle"]
    /\ arg = [s \in Sessions |-> NoPlan]
    /\ delta = [s \in Sessions |-> 0]
    /\ begun = 0
    /\ applied = [t \in Txs |-> 0]
    /\ extra = 0

-----------------------------------------------------------------------------
(* Sessions.                                                               *)

Put(s, step, about, entry) ==
    /\ at' = [at EXCEPT ![s] = step]
    /\ arg' = [arg EXCEPT ![s] = about]
    /\ delta' = [delta EXCEPT ![s] = entry]

\* A request arrives: its session takes its first step.
Begin(s, step, about, entry) ==
    /\ at[s] = "idle"
    /\ begun < MaxSessions
    /\ begun' = begun + 1
    /\ Put(s, step, about, entry)

\* COMMIT: the ledger entry counts and the row lock is released.
Commit(s) ==
    /\ bal' = bal + delta[s]
    /\ lock' = IF lock = s THEN NoSession ELSE lock
    /\ Put(s, "idle", NoPlan, 0)
    /\ UNCHANGED <<paid, begun>>

End(s) ==
    /\ Put(s, "idle", NoPlan, 0)
    /\ UNCHANGED <<row, bal, paid, lock, begun, applied, extra>>

-----------------------------------------------------------------------------
(* Checkout, payment and verification.                                     *)

Checkout(t) ==
    /\ tx[t] = "absent"
    /\ tx' = [tx EXCEPT ![t] = "pending"]
    /\ UNCHANGED <<row, bal, paid, lock, session, begun, applied, extra>>

\* The customer pays in the browser pop-up.
Pay(t) ==
    /\ tx[t] # "absent" /\ t \notin paid
    /\ paid' = paid \cup {t}
    /\ UNCHANGED <<row, bal, tx, lock, session, begun, applied, extra>>

\* billing_verify asks Paystack; the answer may be old when it is used.
Verify(s, t) ==
    /\ tx[t] # "absent"
    /\ Begin(s, IF t \in paid THEN "paid" ELSE "unpaid", t, 0)
    /\ UNCHANGED <<row, bal, tx, paid, lock, applied, extra>>

\* Mutant of MarkDeclined: the UPDATE does not ask for status = 'pending'.
MarkDeclinedBlindly(s) ==
    /\ at[s] = "unpaid"
    /\ tx' = [tx EXCEPT ![arg[s]] = "declined"]
    /\ End(s)

\* One UPDATE ... WHERE status = 'pending'.
MarkDeclined(s) ==
    /\ at[s] = "unpaid"
    /\ tx' = IF tx[arg[s]] = "pending" THEN [tx EXCEPT ![arg[s]] = "declined"] ELSE tx
    /\ End(s)

\* apply_success: SELECT * FROM billing_transactions, not FOR UPDATE.
ReadPending(s) ==
    /\ at[s] = "paid"
    /\ tx[arg[s]] = "pending"
    /\ IF PlanOf[arg[s]] = NoPlan THEN Put(s, "applying", arg[s], Pack)
                                  ELSE Put(s, "granting", arg[s], 0)
    /\ UNCHANGED <<row, bal, tx, paid, lock, begun, applied, extra>>

\* Already a success (returned as it is) or declined (an error).
ReadSettled(s) ==
    /\ at[s] = "paid"
    /\ tx[arg[s]] # "pending"
    /\ UNCHANGED tx
    /\ End(s)

\* Mutant of GrantPlan: the balance is read before the row is locked.
GrantPlanUnlocked(s) ==
    /\ at[s] = "granting"
    /\ Put(s, "applying", arg[s], Allowance[PlanOf[arg[s]]] - bal)
    /\ UNCHANGED <<row, bal, tx, paid, lock, begun, applied, extra>>

\* UPDATE user_billing, which locks the row, and the balance read under it.
GrantPlan(s) ==
    /\ at[s] = "granting"
    /\ lock = NoSession
    /\ lock' = s
    /\ Put(s, "applying", arg[s], Allowance[PlanOf[arg[s]]] - bal)
    /\ UNCHANGED <<row, bal, tx, paid, begun, applied, extra>>

\* UPDATE billing_transactions ... WHERE id, whatever the status is by now.
ApplySuccess(s) ==
    /\ at[s] = "applying"
    /\ LET t == arg[s] IN
       /\ tx' = [tx EXCEPT ![t] = "success"]
       /\ applied' = [applied EXCEPT ![t] = @ + 1]
       /\ IF PlanOf[t] = NoPlan
          THEN extra' = extra + Pack /\ UNCHANGED row
          ELSE plan' = PlanOf[t] /\ status' = "active" /\ UNCHANGED extra
    /\ Commit(s)

-----------------------------------------------------------------------------
(* Renewal webhook, the admin's comp plan and adjustment, cancellation.    *)

\* renew_subscription reads the plan first and keeps it.
RenewRead(s) ==
    /\ plan # NoPlan
    /\ Begin(s, "renew", plan, 0)
    /\ UNCHANGED <<row, bal, tx, paid, lock, applied, extra>>

\* Mutant of RenewGrant: the balance is set to the allowance, as a purchase does.
RenewGrantExactly(s) ==
    /\ at[s] = "renew"
    /\ lock = NoSession
    /\ lock' = s
    /\ Put(s, "renewing", arg[s], Allowance[arg[s]] - bal)
    /\ UNCHANGED <<row, bal, tx, paid, begun, applied, extra>>

\* "Back UP to the plan's allowance, not plus it", and never down to it.
RenewGrant(s) ==
    /\ at[s] = "renew"
    /\ lock = NoSession
    /\ lock' = s
    /\ Put(s, "renewing", arg[s], Max0(Allowance[arg[s]] - bal))
    /\ UNCHANGED <<row, bal, tx, paid, begun, applied, extra>>

\* Mutant of Renew: the row is written back as it was read.
RenewWhole(s) ==
    /\ at[s] = "renewing"
    /\ plan' = arg[s] /\ status' = "active"
    /\ Commit(s)
    /\ UNCHANGED <<tx, applied, extra>>

Renew(s) ==
    /\ at[s] = "renewing"
    /\ status' = "active"
    /\ Commit(s)
    /\ UNCHANGED <<plan, tx, applied, extra>>

\* admin_api.set_plan with a plan: the upsert, then the balance.
CompGrant(s, p) ==
    /\ lock = NoSession
    /\ lock' = s
    /\ Begin(s, "comping", p, Allowance[p] - bal)
    /\ UNCHANGED <<row, bal, tx, paid, applied, extra>>

Comp(s) ==
    /\ at[s] = "comping"
    /\ plan' = arg[s] /\ status' = "active"
    /\ Commit(s)
    /\ UNCHANGED <<tx, applied, extra>>

\* cancel reads the balance before it writes the row.
CancelRead(s) ==
    /\ Begin(s, "cancel", NoPlan, -bal)
    /\ UNCHANGED <<row, bal, tx, paid, lock, applied, extra>>

\* Mutant of Cancel: a status of its own for the cancelled.
CancelOtherStatus(s) ==
    /\ at[s] = "cancel"
    /\ lock = NoSession
    /\ plan' = NoPlan /\ status' = "cancelled"
    /\ extra' = extra + Max0(delta[s])
    /\ Commit(s)
    /\ UNCHANGED <<tx, applied>>

\* Its UPDATE of the row waits for the lock, and the commit follows at once.
Cancel(s) ==
    /\ at[s] = "cancel"
    /\ lock = NoSession
    /\ plan' = NoPlan /\ status' = "inactive"
    /\ extra' = extra + Max0(delta[s])   \* a debt written off
    /\ Commit(s)
    /\ UNCHANGED <<tx, applied>>

\* admin_api.adjust_credits: one INSERT, no row locked.
AdjustCredits(n) ==
    /\ begun < MaxSessions
    /\ begun' = begun + 1
    /\ bal' = bal + n
    /\ extra' = extra + Max0(n)
    /\ UNCHANGED <<row, tx, paid, lock, session, applied>>

-----------------------------------------------------------------------------
(* Metered work.                                                           *)

\* get_state's gate before a run, and charge's before a voice call.
MayRun == plan # NoPlan /\ status = "active" /\ bal > 0
MayCharge == bal >= Cost

RunBegins(s) ==
    /\ MayRun \/ MayCharge
    /\ Begin(s, "running", NoPlan, -Cost)
    /\ UNCHANGED <<row, bal, tx, paid, lock, applied, extra>>

\* debit: unconditional, the tokens are already spent.  charge's INSERT does
\* not look at the balance again either.
Debit(s) ==
    /\ at[s] = "running"
    /\ Commit(s)
    /\ UNCHANGED <<row, tx, applied, extra>>

Next ==
    \/ \E t \in Txs : Checkout(t) \/ Pay(t)
    \/ AdjustCredits(Pack) \/ AdjustCredits(-Pack)
    \/ \E s \in Sessions :
         \/ \E t \in Txs : Verify(s, t)
         \/ MarkDeclined(s) \/ ReadPending(s) \/ ReadSettled(s)
         \/ GrantPlan(s) \/ ApplySuccess(s)
         \/ RenewRead(s) \/ RenewGrant(s) \/ Renew(s)
         \/ \E p \in Plans : CompGrant(s, p)
         \/ Comp(s) \/ CancelRead(s) \/ Cancel(s)
         \/ RunBegins(s) \/ Debit(s)

Spec == Init /\ [][Next]_vars

-----------------------------------------------------------------------------
(* Properties.                                                             *)

Steps == {"idle", "paid", "unpaid", "granting", "applying", "renew",
          "renewing", "comping", "cancel", "running"}

TypeOK ==
    /\ plan \in Plans \cup {NoPlan}
    /\ status \in {"active", "inactive"}
    /\ bal \in Int
    /\ tx \in [Txs -> {"absent", "pending", "success", "declined"}]
    /\ paid \in SUBSET Txs
    /\ lock \in Sessions \cup {NoSession}
    /\ at \in [Sessions -> Steps]
    /\ arg \in [Sessions -> Txs \cup Plans \cup {NoPlan}]
    /\ delta \in [Sessions -> Int]
    /\ begun \in 0 .. MaxSessions
    /\ applied \in [Txs -> Nat]
    /\ extra \in Nat

\* Periods do not add up: however purchases, renewals (delivered twice, late, or
\* during an upgrade), comp plans and cancellations overlap, the balance never
\* holds more than one plan's allowance besides what was given on top of it.
AllowanceNotCompounded == \E p \in Plans : bal <= Allowance[p] + extra

\* The transactions list tells the truth: a reference says "success" exactly when
\* its credits were granted, also when one request verified it as paid and
\* another, asking earlier, as unpaid.
StatusMatchesLedger == \A t \in Txs : tx[t] = "success" <=> applied[t] > 0

\* A cancelled plan comes back by a purchase or a comp plan, never by a renewal
\* webhook that had read the row before the cancellation.
CancellationSticks ==
    [][plan = NoPlan /\ plan' # NoPlan
         => \E s \in Sessions : at[s] \in {"applying", "comping"} /\ at'[s] = "idle"]_vars

\* A renewal restores credits and takes none, whatever was bought on top.
RenewalTakesNothing ==
    [][\A s \in Sessions : at[s] = "renewing" /\ at'[s] = "idle" => bal' >= bal]_vars

\* apply_success says it is idempotent: however often and however concurrently
\* a reference is verified, it is applied once.
AppliedOnce == \A t \in Txs : applied[t] <= 1

-----------------------------------------------------------------------------
(* Small instances: plans of different worth; one reference is a top-up's, *)
(* the others buy the cheapest plan.                                       *)

SmallWorths == CHOOSE f \in [Plans -> 2..3] : \A p, q \in Plans : f[p] = f[q] => p = q

OneTopUp ==
    LET top == CHOOSE t \in Txs : TRUE
        cheapest == CHOOSE p \in Plans : SmallWorths[p] = 2
    IN  [t \in Txs |-> IF t = top THEN NoPlan ELSE cheapest]
=============================================================================
