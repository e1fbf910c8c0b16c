------------------------------- MODULE OneShot -------------------------------
(***************************************************************************)
(* What the scheduler promises, with no threads, processes, batches or     *)
(* faults in it: the life of each promise.  It is begun once, and only     *)
(* while it is begun is the broker asked, never after it was withdrawn.    *)
(* The asking may have to be repeated: a request whose answer is lost is   *)
(* made again, so many times and no more.  An order is called kept only if *)
(* the broker took it.                                                     *)
(***************************************************************************)
EXTENDS Naturals

CONSTANTS Rows,      \* the promises
          Orders,    \* those that are one order
          Attempts   \* how often a request is made at most

VARIABLES phase,    \* how far a promise has got
          fired,    \* how many requests for it the broker took
          unheard   \* of one of them the answer was lost

Init ==
    /\ phase = [r \in Rows |-> "absent"]
    /\ fired = [r \in Rows |-> 0]
    /\ unheard = [r \in Rows |-> FALSE]

Move(r, from, to) ==
    /\ phase[r] = from
    /\ phase' = [phase EXCEPT ![r] = to]
    /\ UNCHANGED <<fired, unheard>>

Make(r) == Move(r, "absent", "scheduled")
Withdraw(r) == Move(r, "scheduled", "cancelled")
Begin(r) == Move(r, "scheduled", "executing")

\* Again only after an answer that was lost.
Fire(r) ==
    /\ phase[r] = "executing"
    /\ IF unheard[r] THEN fired[r] < Attempts ELSE fired[r] = 0
    /\ fired' = [fired EXCEPT ![r] = @ + 1]
    /\ \E lost \in {unheard[r], TRUE} : unheard' = [unheard EXCEPT ![r] = lost]
    /\ UNCHANGED phase

Keep(r) == (r \in Orders => fired[r] > 0) /\ Move(r, "executing", "executed")

\* An order fails although the broker took it only if nobody heard so.
Break(r) == (r \in Orders /\ fired[r] > 0 => unheard[r]) /\ Move(r, "executing", "failed")

Next == \E r \in Rows :
    Make(r) \/ Withdraw(r) \/ Begin(r) \/ Fire(r) \/ Keep(r) \/ Break(r)

Spec == Init /\ [][Next]_<<phase, fired, unheard>>
=============================================================================
