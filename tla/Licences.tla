------------------------------ MODULE Licences ------------------------------
(***************************************************************************)
(* The seller's side of the module store: licence keys, the instances they *)
(* are bound to, and the purchases and renewals that grant them            *)
(* (backend/store.py and the checkout half of backend/store_api.py).       *)
(*                                                                         *)
(* Every request is served by one of Procs, and a request that spans       *)
(* several transactions is several steps, as each store.py call opens and  *)
(* commits its own.  Paystack is external.                                 *)
(* A catalogue is a set of priced Products, a set of Free modules, what a  *)
(* bundle Includes and the product a part comes With.                      *)
(***************************************************************************)
EXTENDS Naturals, FiniteSets

CONSTANTS
    Keys,        \* licence keys new_key may draw
    Products,    \* modules and bundles offered at a price
    Free,        \* modules priced at zero
    Includes,    \* Includes[b]: what bundle b lists
    With,        \* With[m]: the product part m is included with
    Everything,  \* the licence entry "*"
    Instances, Nobody,
    Orders,      \* what may be bought: [product, inst, customer] records
    Purchases,   \* 1 .. n, the purchases in order of creation
    Procs,       \* requests served at once
    Terms,       \* lengths of a term: what the catalogue's billing may say
    MaxRebinds,  \* store.MAX_REBINDS
    Bounds,      \* [orders, admin, until]: purchases, keys touched by hand, time
    Grants       \* what an administrator may put on a key

ASSUME LicencesAssumption ==
    /\ IsFiniteSet(Keys) /\ IsFiniteSet(Procs) /\ Procs # {}
    /\ Nobody \notin Keys \cup Instances
    /\ \A o \in Orders : o.product \in Products /\ o.inst \in Instances
    /\ Purchases \subseteq Nat \ {0}
    /\ Terms \subseteq Nat \ {0}
    /\ MaxRebinds \in Nat
    /\ \A b \in Bounds : b.until \in Nat \ {0}
    /\ Grants \subseteq SUBSET (Products \cup {Everything})

VARIABLES
    licences,   \* key -> row of store_licences
    purchases,  \* reference -> row of store_purchases, with the Paystack side
    proc,       \* request -> what it is doing, and what it read
    now,
    raced,      \* history: instances two grants were under way for at once
    handled,    \* history: keys an administrator issued or revoked
    bound       \* the member of Bounds this behaviour keeps within

vars == <<licences, purchases, proc, now, raced, handled, bound>>

Forever == 0    \* expires_at NULL: perpetual
Modules == Products \cup Free \cup DOMAIN With

NoLicence == [st |-> "none", mods |-> {}, exp |-> Forever, inst |-> Nobody,
              rebinds |-> 0, born |-> 0]
Idle == [at |-> "idle", kind |-> "none", ref |-> 0, key |-> Nobody,
         inst |-> Nobody, mods |-> {}, exp |-> Forever, was |-> Nobody]

-----------------------------------------------------------------------------
(* Reading a licence. *)

Live(k) == k # Nobody /\ licences[k].st = "live"          \* licence(key)
Expired(k) == Live(k) /\ licences[k].exp # Forever /\ licences[k].exp < now

\* Everything the ids open through bundles, four levels down.
Contained(ids) ==
    LET within[d \in 0..4] ==
            IF d = 0 THEN ids
            ELSE within[d - 1] \cup
                 UNION {Includes[b] : b \in within[d - 1] \cap DOMAIN Includes}
    IN  within[4]

\* A module and what it comes with, four steps up.
Line(m) ==
    LET up[d \in 0..4] ==
            IF d = 0 THEN {m}
            ELSE up[d - 1] \cup {With[x] : x \in up[d - 1] \cap DOMAIN With}
    IN  up[4]

Owns(k, m) ==
    \/ m \in Free
    \/ /\ Live(k)
       /\ \/ Everything \in licences[k].mods
          \/ Line(m) \cap (Free \cup Contained(licences[k].mods)) # {}

CanUpdate(k, m) == m \in Free \/ (Owns(k, m) /\ ~Expired(k))

\* A key may be downloaded with where it is bound, or anywhere while unbound.
BoundTo(k, i) == Live(k) /\ licences[k].inst \in {Nobody, i}

\* licence_for_instance: the newest live key bound to the instance.
OfInstance(i) ==
    LET ks == {k \in Keys : Live(k) /\ licences[k].inst = i}
    IN  IF ks = {} THEN Nobody
        ELSE CHOOSE k \in ks : \A j \in ks : licences[j].born <= licences[k].born

Issued == {k \in Keys : licences[k].st # "none"}

\* store.issue: insert, or replace modules and term and clear revoked_at.
IssueRow(k, ms, e) ==
    licences' = [licences EXCEPT
        ![k].st = "live", ![k].mods = ms, ![k].exp = e,
        ![k].born = IF @ = 0 THEN Cardinality(Issued) + 1 ELSE @]

-----------------------------------------------------------------------------
(* Checkout, payment and the two ways a grant begins. *)

\* s: a Paystack plan exists for the product, so the purchase renews; without one
\* it is a single charge.  The buyer pays, or not, at Paystack.
Checkout(r, o, s) ==
    /\ \A q \in Purchases : purchases[q].st = "none" => q >= r
    /\ purchases[r].st = "none" /\ r <= bound.orders
    /\ purchases' = [purchases EXCEPT ![r] =
           [@ EXCEPT !.st = "pending", !.product = o.product, !.inst = o.inst,
                     !.customer = o.customer, !.subscribed = s]]
    /\ UNCHANGED <<licences, proc, now, raced, handled, bound>>

\* A request whose grant is not written yet.
Granting(p) == proc[p].kind # "fetch" /\ proc[p].at \in {"look", "mint", "merge", "write"}

BeginGrant(p, kind, r, rec) ==
    /\ proc[p].at = "idle"
    /\ \E term \in Terms :
         proc' = [proc EXCEPT ![p] = [Idle EXCEPT
             !.at = "look", !.kind = kind, !.ref = IF kind = "verify" THEN r ELSE 0,
             !.inst = rec.inst, !.mods = {rec.product}, !.exp = now + term]]
    /\ raced' = IF \E q \in Procs : Granting(q) /\ proc[q].inst = rec.inst
                THEN raced \cup {rec.inst} ELSE raced

\* The buyer, or Paystack retrying, lands on the verify page of a payment that
\* succeeded; for any other the page only says so.
Verify(p, r) ==
    /\ purchases[r].st # "none"
    /\ ~(purchases[r].st = "paid" /\ purchases[r].key # Nobody)
    /\ BeginGrant(p, "verify", r, purchases[r])
    /\ UNCHANGED <<licences, purchases, now, handled, bound>>

\* The purchase a renewal is credited to: the oldest paid one of the same
\* customer on the same plan, and a plan stands for a product.
RenewalRow(c, pr) ==
    LET rows == {q \in Purchases : /\ purchases[q].st = "paid"
                                   /\ purchases[q].customer = c
                                   /\ purchases[q].product = pr
                                   /\ purchases[q].subscribed}
    IN  IF rows = {} THEN 0 ELSE CHOOSE q \in rows : \A x \in rows : q <= x

\* paystack_webhook: subscription r has been charged again.
Renewal(p, r) ==
    LET row == RenewalRow(purchases[r].customer, purchases[r].product)
    IN  /\ purchases[r].subscribed /\ purchases[r].st # "superseded" /\ row # 0
        /\ BeginGrant(p, "renew", row, purchases[row])
        /\ UNCHANGED <<licences, purchases, now, handled, bound>>

-----------------------------------------------------------------------------
(* store.grant, one transaction a step. *)

\* Mutants of Look: the new modules replace those the instance had; a fresh key
\* per payment; the new term replaces the old.
LookForgetting(p) ==
    /\ proc[p].at = "look"
    /\ LET k == OfInstance(proc[p].inst)
       IN  proc' = [proc EXCEPT ![p] = [@ EXCEPT !.key = k,
               !.at = IF k = Nobody THEN "mint" ELSE "merge"]]
    /\ UNCHANGED <<licences, purchases, now, raced, handled, bound>>

LookNever(p) ==
    /\ proc[p].at = "look"
    /\ proc' = [proc EXCEPT ![p] = [@ EXCEPT !.at = "mint"]]
    /\ UNCHANGED <<licences, purchases, now, raced, handled, bound>>

Look(p) ==
    /\ proc[p].at = "look"
    /\ LET k == OfInstance(proc[p].inst)
       IN  proc' = [proc EXCEPT ![p] =
               IF k = Nobody THEN [@ EXCEPT !.at = "mint"]
               ELSE [@ EXCEPT !.at = "merge", !.key = k,
                       !.mods = proc[p].mods \cup licences[k].mods,
                       !.exp = IF licences[k].exp = Forever \/ proc[p].exp > licences[k].exp
                               THEN proc[p].exp ELSE licences[k].exp]]
    /\ UNCHANGED <<licences, purchases, now, raced, handled, bound>>

\* A fresh key is unbound and nobody else holds it: its bind has only the write.
Mint(p, k) ==
    /\ proc[p].at = "mint" /\ k \notin Issued
    /\ IssueRow(k, proc[p].mods, proc[p].exp)
    /\ proc' = [proc EXCEPT ![p] = [@ EXCEPT !.at = "write", !.key = k]]
    /\ UNCHANGED <<purchases, now, raced, handled, bound>>

AfterGrant(p) == IF proc[p].kind = "verify" THEN [proc[p] EXCEPT !.at = "record"] ELSE Idle

Merge(p) ==
    /\ proc[p].at = "merge"
    /\ IssueRow(proc[p].key, proc[p].mods, proc[p].exp)
    /\ proc' = [proc EXCEPT ![p] = AfterGrant(p)]
    /\ UNCHANGED <<purchases, now, raced, handled, bound>>

-----------------------------------------------------------------------------
(* store.bind: read the binding, then write it. *)

\* Mutant of Refused: the limit never bites, as when licence() was asked for it.
NeverRefused(k, i) == FALSE

Refused(k, i) == licences[k].inst \notin {Nobody, i} /\ licences[k].rebinds >= MaxRebinds

BindRead(p) ==
    LET k == proc[p].key
        i == proc[p].inst
    IN  /\ proc[p].at = "bind"
        /\ proc' = [proc EXCEPT ![p] =
               IF ~Live(k) \/ licences[k].inst = i \/ Refused(k, i) THEN AfterGrant(p)
               ELSE [@ EXCEPT !.at = "write", !.was = licences[k].inst]]
        /\ UNCHANGED <<licences, purchases, now, raced, handled, bound>>

BindWrite(p) ==
    /\ proc[p].at = "write"
    /\ licences' = [licences EXCEPT
           ![proc[p].key].inst = proc[p].inst,
           ![proc[p].key].rebinds = IF proc[p].was = Nobody THEN @ ELSE @ + 1]
    /\ proc' = [proc EXCEPT ![p] = AfterGrant(p)]
    /\ UNCHANGED <<purchases, now, raced, handled, bound>>

\* store_download: a paid module, with a key, from an instance that says who it is.
Fetch(p, k, m, i) ==
    /\ proc[p].at = "idle"
    /\ k \in handled \/ licences[k].inst # Nobody      \* a key somebody was given
    /\ Owns(k, m) /\ BoundTo(k, i)
    /\ proc' = [proc EXCEPT ![p] =
           [Idle EXCEPT !.at = "bind", !.kind = "fetch", !.key = k, !.inst = i]]
    /\ UNCHANGED <<licences, purchases, now, raced, handled, bound>>

-----------------------------------------------------------------------------
(* Closing the purchase, and ending what it replaces. *)

\* The running subscriptions product pr includes, for the same instance
\* (_supersede_singles).
Singles(r) ==
    LET pr == purchases[r].product
        covered == IF pr \in DOMAIN Includes THEN Includes[pr] \ {pr} ELSE {}
    IN  {q \in Purchases \ {r} : /\ purchases[q].inst = purchases[r].inst
                                 /\ purchases[q].st = "paid" /\ purchases[q].subscribed
                                 /\ purchases[q].product \in covered}

\* The purchase is closed, then what it replaces is cancelled, one call to
\* Paystack each: any may fail, and is logged and left, as after a crash.
Record(p) ==
    LET r == proc[p].ref
    IN  /\ proc[p].at = "record"
        /\ \E ended \in SUBSET Singles(r) :
             purchases' = [q \in Purchases |->
                 IF q = r THEN [purchases[r] EXCEPT !.st = "paid", !.key = proc[p].key]
                 ELSE IF q \in ended THEN [purchases[q] EXCEPT !.st = "superseded"]
                 ELSE purchases[q]]
        /\ proc' = [proc EXCEPT ![p] = Idle]
        /\ UNCHANGED <<licences, now, raced, handled, bound>>

-----------------------------------------------------------------------------
(* The administrator, the clock, and a restart of the store. *)

AdminIssue(k, ms) ==
    /\ Cardinality(handled \cup {k}) <= bound.admin
    /\ IssueRow(k, ms, Forever)
    /\ handled' = handled \cup {k}
    /\ UNCHANGED <<purchases, proc, now, raced, bound>>

Revoke(k) ==
    /\ Cardinality(handled \cup {k}) <= bound.admin
    /\ Live(k)
    /\ licences' = [licences EXCEPT ![k].st = "revoked"]
    /\ handled' = handled \cup {k}
    /\ UNCHANGED <<purchases, proc, now, raced, bound>>

Tick ==
    /\ now < bound.until
    /\ now' = now + 1
    /\ UNCHANGED <<licences, purchases, proc, raced, handled, bound>>

Crash ==
    /\ \E p \in Procs : proc[p].at # "idle"
    /\ proc' = [p \in Procs |-> Idle]
    /\ UNCHANGED <<licences, purchases, now, raced, handled, bound>>

-----------------------------------------------------------------------------
Init ==
    /\ licences = [k \in Keys |-> NoLicence]
    /\ purchases = [r \in Purchases |->
           [st |-> "none", product |-> Nobody, inst |-> Nobody, customer |-> Nobody,
            subscribed |-> FALSE, key |-> Nobody]]
    /\ proc = [p \in Procs |-> Idle]
    /\ now = 1
    /\ raced = {} /\ handled = {} /\ bound \in Bounds

Buying ==
    \E r \in Purchases :
        \/ \E o \in Orders, s \in BOOLEAN : Checkout(r, o, s)
        \/ \E p \in Procs : Verify(p, r) \/ Renewal(p, r)

Serving ==
    \E p \in Procs :
        \/ Look(p) \/ Merge(p) \/ BindRead(p) \/ BindWrite(p) \/ Record(p)
        \/ \E k \in Keys : \/ Mint(p, k)
                           \/ \E m \in Modules \ Free, i \in Instances : Fetch(p, k, m, i)

Administering ==
    \E k \in Keys : Revoke(k) \/ \E ms \in Grants : AdminIssue(k, ms)

Next == Buying \/ Serving \/ Administering \/ Tick \/ Crash

Spec == Init /\ [][Next]_vars

-----------------------------------------------------------------------------
(* Properties. *)

Licence == [st : {"none", "live", "revoked"}, mods : SUBSET (Products \cup {Everything}),
            exp : Nat, inst : Instances \cup {Nobody}, rebinds : Nat, born : Nat]

LicencesTypeOK ==
    /\ licences \in [Keys -> Licence]
    /\ \A r \in Purchases :
         /\ purchases[r].st \in {"none", "pending", "paid", "superseded"}
         /\ purchases[r].key \in Issued \cup {Nobody}
    /\ \A p \in Procs : proc[p].at \in
         {"idle", "look", "mint", "merge", "bind", "write", "record"}
    /\ now \in 1..bound.until /\ raced \subseteq Instances /\ handled \subseteq Keys

\* What was paid for is owned: the key on a closed purchase is live, bound to the
\* instance that paid, and opens the product, through every later purchase,
\* renewal, retry and restart -- unless two grants for the instance overlapped
\* (store.grant merges what it read in another transaction, store.py:185-203)
\* or an administrator touched the key.
PaidIsOwned ==
    \A r \in Purchases : LET k == purchases[r].key
                             i == purchases[r].inst IN
        k # Nobody => \/ k \in handled \/ i \in raced
                      \/ licences[k].inst = i /\ Owns(k, purchases[r].product)

\* One instance, one key (store.py:180): however many purchases, retries and
\* crashes between the transactions, grants leave an instance one live key,
\* unless they overlapped.
OneKeyPerInstance ==
    \A j, k \in {x \in Keys \ handled : Live(x) /\ licences[x].inst # Nobody} :
        licences[j].inst = licences[k].inst => j = k \/ licences[k].inst \in raced

\* A download from elsewhere is refused (store_api.py:87), but that check and the
\* bind are apart, and so are the count bind reads and the one it writes
\* (store.py:129, 140): concurrent first uses move a key, and past MAX_REBINDS,
\* yet never by more than the other requests that can be between the two.
MovesAreLimited ==
    \A k \in Keys : licences[k].rebinds <= MaxRebinds + Cardinality(Procs) - 1

\* A dated term moves outward only (store.py:186): no grant or renewal brings
\* the end of a licence nearer, whatever it read before, unless grants
\* overlapped or an administrator wrote the row.
TermsMoveOutward ==
    [][\A k \in Keys :
        (licences[k].exp # Forever /\ k \notin handled' /\ licences[k].inst \notin raced)
            => licences'[k].exp >= licences[k].exp]_vars

\* The customer and the plan "together say which licence to extend"
\* (store_api.py:399): the renewal of a purchase is credited to its instance.
RenewalReachesItsInstance ==
    [][\A p \in Procs, r \in Purchases :
         Renewal(p, r) => proc'[p].inst = purchases[r].inst]_vars
=============================================================================
