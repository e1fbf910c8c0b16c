--------------------------- MODULE LicencesProofs ---------------------------
(***************************************************************************)
(* Licences for every set of keys, products, bundles and instances, any    *)
(* number of requests served at once, purchases and renewals, and every    *)
(* crash between two transactions: its type and the four properties its    *)
(* run checks.                                                             *)
(***************************************************************************)
EXTENDS Licences, FiniteSetTheorems, WellFoundedInduction, TLAPS

-----------------------------------------------------------------------------
(* The inductive invariant.                                                *)

Request == [at : {"idle", "look", "mint", "merge", "bind", "write", "record"},
            kind : {"none", "verify", "renew", "fetch"}, ref : Purchases \cup {0},
            key : Keys \cup {Nobody}, inst : Instances \cup {Nobody},
            mods : SUBSET (Products \cup {Everything}), exp : Nat,
            was : Instances \cup {Nobody}]
Purchase == [st : {"none", "pending", "paid", "superseded"},
             product : Products \cup {Nobody}, inst : Instances \cup {Nobody},
             customer : {o.customer : o \in Orders} \cup {Nobody},
             subscribed : BOOLEAN, key : Keys \cup {Nobody}]

TypeOK ==
    /\ licences \in [Keys -> Licence]
    /\ purchases \in [Purchases -> Purchase]
    /\ proc \in [Procs -> Request]
    /\ now \in 1..bound.until
    /\ raced \subseteq Instances /\ handled \subseteq Keys /\ bound \in Bounds

\* What a request at a step of its work has read and holds.
RequestsAreWhole ==
    \A p \in Procs :
        /\ proc[p].at # "idle" => proc[p].inst \in Instances
        /\ proc[p].at \in {"look", "mint", "merge", "record"} => proc[p].kind \in {"verify", "renew"}
        /\ proc[p].at = "bind" => proc[p].kind = "fetch"
        /\ proc[p].at \in {"merge", "bind", "write", "record"} => proc[p].key \in Issued
        /\ proc[p].at \in {"look", "mint"} => proc[p].was = Nobody
        /\ proc[p].at \in {"look", "mint", "merge", "write", "record"} /\ proc[p].kind = "verify" =>
             /\ proc[p].ref \in Purchases
             /\ purchases[proc[p].ref].st # "none"
             /\ purchases[proc[p].ref].inst = proc[p].inst
        /\ proc[p].at = "record" => proc[p].kind = "verify"
        /\ proc[p].at \in {"look", "mint", "merge"} /\ proc[p].kind = "verify" =>
             purchases[proc[p].ref].product \in proc[p].mods

RowsAreWhole ==
    /\ \A k \in Keys : licences[k].st = "none" => licences[k].exp = Forever /\ licences[k].inst = Nobody
    /\ \A k \in Keys \ handled : licences[k].st # "revoked"
    /\ \A k \in Keys : licences[k].born <= Cardinality(Keys) + 1
    /\ \A r \in Purchases : purchases[r].st # "none" =>
         purchases[r].product \in Products /\ purchases[r].inst \in Instances
    /\ \A r \in Purchases : purchases[r].key # Nobody =>
         purchases[r].st # "none" /\ purchases[r].key \in Issued

\* Two grants for an instance that are both unfinished: one began during the other.
RacesAreKnown ==
    \A p, q \in Procs :
        p # q /\ Granting(p) /\ Granting(q) /\ proc[p].inst = proc[q].inst => proc[p].inst \in raced

\* A key no administrator touched is bound once, by the grant that minted it: only
\* its instance can download with it, so no download moves it.
KeysStayPut ==
    /\ \A p \in Procs : proc[p].key \notin handled =>
         /\ proc[p].at \in {"merge", "bind", "record"} => licences[proc[p].key].inst = proc[p].inst
         /\ proc[p].at = "write" =>
              licences[proc[p].key].inst = Nobody /\ proc[p].kind # "fetch" /\ proc[p].was = Nobody
    /\ \A p, q \in Procs :
         /\ proc[p].at = "write" /\ proc[q].at = "write" /\ proc[p].key = proc[q].key
         /\ proc[p].key \notin handled
         => p = q
    /\ \A r \in Purchases : purchases[r].key \notin handled \cup {Nobody} =>
         licences[purchases[r].key].inst = purchases[r].inst

\* What a grant is about to write contains what the key has, and what was paid for.
GrantsAddUp ==
    /\ \A p \in Procs : proc[p].key \notin handled /\ proc[p].inst \notin raced =>
         /\ proc[p].at = "merge" =>
              /\ licences[proc[p].key].mods \subseteq proc[p].mods
              /\ licences[proc[p].key].exp <= proc[p].exp
         /\ proc[p].at \in {"write", "record"} /\ proc[p].kind = "verify" =>
              purchases[proc[p].ref].product \in licences[proc[p].key].mods
    /\ \A r \in Purchases :
         purchases[r].key \notin handled \cup {Nobody} /\ purchases[r].inst \notin raced =>
           purchases[r].product \in licences[purchases[r].key].mods

\* A grant that is to mint a key found none of the instance, and none came since.
NoneIsThere ==
    \A p \in Procs :
        /\ proc[p].at \in {"mint", "write"} /\ proc[p].kind # "fetch" /\ proc[p].inst \notin raced
        => \A k \in Keys \ handled : Live(k) => licences[k].inst # proc[p].inst

\* Requests that read a binding they are about to move away.
Moving(k) == {p \in Procs : proc[p].at = "write" /\ proc[p].key = k /\ proc[p].was # Nobody}

MovesAreCounted ==
    \A k \in Keys :
        licences[k].rebinds + Cardinality(Moving(k)) <= MaxRebinds + Cardinality(Procs) - 1

IInv == /\ TypeOK /\ RequestsAreWhole /\ RowsAreWhole /\ RacesAreKnown /\ KeysStayPut /\ GrantsAddUp
        /\ NoneIsThere /\ OneKeyPerInstance /\ MovesAreCounted

-----------------------------------------------------------------------------
(* The operators.                                                          *)

\* A set of naturals that is not empty has a least element.
LEMMA LeastExists ==
    ASSUME NEW S \in SUBSET Nat, S # {}
    PROVE  \E m \in S : \A n \in S : m <= n
<1> DEFINE Less == {p \in Nat \X Nat : p[1] < p[2]}
<1>1. IsWellFoundedOn(Less, Nat)
  BY NatLessThanWellFounded DEF OpToRel
<1>2. PICK m \in S : \A n \in S : ~(<<n, m>> \in Less)
  BY <1>1, WFMin
<1>3. \A n \in S : n < m => <<n, m>> \in Less
  OBVIOUS
<1>4. \A n \in S : ~(n < m)
  BY <1>2, <1>3, Zenon
<1> QED
  BY <1>4

\* Of the keys of a set one is the newest: the times they were issued at are bounded.
LEMMA NewestExists ==
    ASSUME NEW S \in SUBSET Keys, S # {}, NEW B \in Nat,
           \A k \in S : licences[k].born \in Nat /\ licences[k].born <= B
    PROVE  \E k \in S : \A j \in S : licences[j].born <= licences[k].born
<1> DEFINE Gaps == {B - licences[k].born : k \in S}
<1>1. Gaps \in SUBSET Nat /\ Gaps # {}
  OBVIOUS
<1>2. PICK g \in Gaps : \A h \in Gaps : g <= h
  BY <1>1, LeastExists
<1>3. PICK k \in S : g = B - licences[k].born
  BY <1>2
<1>4. ASSUME NEW j \in S PROVE licences[j].born <= licences[k].born
  <2>1. B - licences[k].born <= B - licences[j].born
    BY <1>2, <1>3
  <2> QED
    BY <2>1
<1> QED
  BY <1>4

\* licence_for_instance: a live key bound to the instance, or none when it has none.
LEMMA OfInstanceIs ==
    ASSUME TypeOK, RowsAreWhole, NEW i \in Instances
    PROVE  \/ /\ OfInstance(i) = Nobody
              /\ \A k \in Keys : Live(k) => licences[k].inst # i
           \/ /\ OfInstance(i) \in Keys /\ OfInstance(i) # Nobody
              /\ Live(OfInstance(i)) /\ licences[OfInstance(i)].inst = i
<1> DEFINE ks == {k \in Keys : Live(k) /\ licences[k].inst = i}
<1>1. CASE ks = {}
  BY <1>1 DEF OfInstance
<1>2. CASE ks # {}
  <2>1. Cardinality(Keys) + 1 \in Nat
    BY FS_CardinalityType, LicencesAssumption
  <2>2. \A k \in ks : licences[k].born \in Nat /\ licences[k].born <= Cardinality(Keys) + 1
    BY DEF TypeOK, Licence, RowsAreWhole
  <2>3. \E k \in ks : \A j \in ks : licences[j].born <= licences[k].born
    BY <1>2, <2>1, <2>2, NewestExists
  <2>4. OfInstance(i) = CHOOSE k \in ks : \A j \in ks : licences[j].born <= licences[k].born
    BY <1>2 DEF OfInstance
  <2>5. OfInstance(i) \in ks
    BY <2>3, <2>4
  <2> QED
    BY <2>5, LicencesAssumption
<1> QED
  BY <1>1, <1>2

\* The webhook's lookup: none, or a purchase that was paid.
LEMMA RenewalRowIs ==
    ASSUME TypeOK, NEW c, NEW pr, RenewalRow(c, pr) # 0
    PROVE  RenewalRow(c, pr) \in Purchases /\ purchases[RenewalRow(c, pr)].st = "paid"
<1> DEFINE rows == {q \in Purchases : /\ purchases[q].st = "paid"
                                      /\ purchases[q].customer = c
                                      /\ purchases[q].product = pr
                                      /\ purchases[q].subscribed}
<1>1. rows # {}
  BY DEF RenewalRow
<1>2. rows \in SUBSET Nat
  BY LicencesAssumption
<1>3. \E q \in rows : \A x \in rows : q <= x
  BY <1>1, <1>2, LeastExists
<1>4. RenewalRow(c, pr) = CHOOSE q \in rows : \A x \in rows : q <= x
  BY <1>1 DEF RenewalRow
<1> QED
  BY <1>3, <1>4

\* store.issue writes a live row with the given modules and term; the binding, the
\* count of moves and every other row stay.
LEMMA IssueRowIs ==
    ASSUME TypeOK, RowsAreWhole, NEW k \in Keys, NEW ms \in SUBSET (Products \cup {Everything}), NEW e \in Nat,
           IssueRow(k, ms, e)
    PROVE  /\ licences' \in [Keys -> Licence]
           /\ licences'[k].st = "live" /\ licences'[k].mods = ms /\ licences'[k].exp = e
           /\ licences'[k].inst = licences[k].inst /\ licences'[k].rebinds = licences[k].rebinds
           /\ licences'[k].born <= Cardinality(Keys) + 1
           /\ \A j \in Keys : j # k => licences'[j] = licences[j]
<1>1. Cardinality(Issued) \in Nat /\ Cardinality(Issued) <= Cardinality(Keys) /\ Cardinality(Keys) \in Nat
  BY FS_Subset, FS_CardinalityType, LicencesAssumption DEF Issued
<1>2. licences[k] \in Licence /\ licences[k].born <= Cardinality(Keys) + 1
  BY DEF TypeOK, RowsAreWhole
<1> DEFINE at == IF licences[k].born = 0 THEN Cardinality(Issued) + 1 ELSE licences[k].born
           row == [licences[k] EXCEPT !.st = "live", !.mods = ms, !.exp = e, !.born = at]
<1>3. licences' = [licences EXCEPT ![k] = row]
  BY DEF IssueRow, TypeOK
<1>4. at \in Nat /\ at <= Cardinality(Keys) + 1
  BY <1>1, <1>2 DEF Licence
<1> HIDE DEF at
<1>5. /\ row \in Licence
      /\ row.st = "live" /\ row.mods = ms /\ row.exp = e /\ row.inst = licences[k].inst
      /\ row.rebinds = licences[k].rebinds /\ row.born = at
  BY <1>2, <1>4 DEF Licence
<1>6. /\ licences' \in [Keys -> Licence] /\ licences'[k] = row
      /\ \A j \in Keys : j # k => licences'[j] = licences[j]
  BY <1>3, <1>5 DEF TypeOK
<1> HIDE DEF row
<1> QED
  BY <1>4, <1>5, <1>6

-----------------------------------------------------------------------------
(* What each step does.                                                    *)

\* A step of p leaves the other requests where they are.
Others(p) == \A q \in Procs : q # p => proc'[q] = proc[q]

LEMMA IdleIs == /\ Idle \in Request /\ Idle.at = "idle" /\ Idle.kind = "none"
                /\ Idle.key = Nobody /\ Idle.was = Nobody
  BY DEF Idle, Request, Forever

\* After the grant a payment's request closes the purchase; any other is done.
LEMMA AfterGrantIs ==
    ASSUME NEW p \in Procs, proc[p] \in Request
    PROVE  /\ AfterGrant(p) \in Request
           /\ \/ /\ proc[p].kind # "verify"
                 /\ AfterGrant(p).at = "idle" /\ AfterGrant(p).kind = "none" /\ AfterGrant(p).key = Nobody
              \/ /\ proc[p].kind = "verify" /\ AfterGrant(p).kind = "verify"
                 /\ AfterGrant(p).at = "record" /\ AfterGrant(p).key = proc[p].key
                 /\ AfterGrant(p).ref = proc[p].ref /\ AfterGrant(p).inst = proc[p].inst
<1>1. CASE proc[p].kind = "verify"
  BY <1>1 DEF AfterGrant, Request
<1>2. CASE proc[p].kind # "verify"
  BY <1>2, IdleIs DEF AfterGrant
<1> QED
  BY <1>1, <1>2

\* A grant begins with nothing read, and marks the instance when another is under way.
Began(p, row) ==
    /\ proc' \in [Procs -> Request] /\ Others(p)
    /\ proc[p].at = "idle"
    /\ proc'[p].at = "look" /\ proc'[p].kind \in {"verify", "renew"}
    /\ proc'[p].inst = purchases[row].inst /\ proc'[p].mods = {purchases[row].product}
    /\ proc'[p].was = Nobody /\ proc'[p].key = Nobody
    /\ proc'[p].kind = "verify" => proc'[p].ref = row
    /\ raced \subseteq raced' /\ raced' \subseteq Instances
    /\ (\E q \in Procs : Granting(q) /\ proc[q].inst = proc'[p].inst) => proc'[p].inst \in raced'
    /\ UNCHANGED <<licences, purchases, now, handled, bound>>

LEMMA BeginGrantIs ==
    ASSUME TypeOK, RowsAreWhole, NEW p \in Procs, NEW kind \in {"verify", "renew"},
           NEW row \in Purchases, purchases[row].st # "none",
           BeginGrant(p, kind, row, purchases[row]),
           UNCHANGED <<licences, purchases, now, handled, bound>>
    PROVE  Began(p, row)
<1>1. PICK term \in Terms :
        proc' = [proc EXCEPT ![p] = [Idle EXCEPT
             !.at = "look", !.kind = kind, !.ref = IF kind = "verify" THEN row ELSE 0,
             !.inst = purchases[row].inst, !.mods = {purchases[row].product}, !.exp = now + term]]
  BY DEF BeginGrant
<1> DEFINE new == [Idle EXCEPT
             !.at = "look", !.kind = kind, !.ref = IF kind = "verify" THEN row ELSE 0,
             !.inst = purchases[row].inst, !.mods = {purchases[row].product}, !.exp = now + term]
<1>2. /\ purchases[row].product \in Products /\ purchases[row].inst \in Instances
      /\ now + term \in Nat /\ (IF kind = "verify" THEN row ELSE 0) \in Purchases \cup {0}
      /\ now \in Nat
  BY LicencesAssumption DEF TypeOK, RowsAreWhole
<1>3. /\ new \in Request
      /\ new.at = "look" /\ new.kind = kind /\ new.inst = purchases[row].inst
      /\ new.mods = {purchases[row].product} /\ new.was = Nobody /\ new.key = Nobody
      /\ kind = "verify" => new.ref = row
  BY <1>2 DEF Idle, Request, Forever
<1>4. proc' = [proc EXCEPT ![p] = new]
  BY <1>1
<1> HIDE DEF new
<1>5. proc' \in [Procs -> Request] /\ proc'[p] = new /\ Others(p)
  BY <1>3, <1>4 DEF TypeOK, Others
<1>6. /\ proc[p].at = "idle"
      /\ raced' = IF \E q \in Procs : Granting(q) /\ proc[q].inst = purchases[row].inst
                  THEN raced \cup {purchases[row].inst} ELSE raced
  BY DEF BeginGrant
<1> QED
  BY <1>2, <1>3, <1>5, <1>6 DEF TypeOK, Began

\* A grant looks for the instance's key: with none it will mint, with one it takes
\* over what the key has.
Looked(p) ==
    /\ proc' \in [Procs -> Request] /\ Others(p)
    /\ proc[p].at = "look"
    /\ proc'[p].kind = proc[p].kind /\ proc'[p].ref = proc[p].ref
    /\ proc'[p].inst = proc[p].inst /\ proc'[p].was = proc[p].was
    /\ proc[p].mods \subseteq proc'[p].mods
    /\ \/ /\ proc'[p].at = "mint" /\ proc'[p].key = proc[p].key
          /\ \A k \in Keys : Live(k) => licences[k].inst # proc[p].inst
       \/ /\ proc'[p].at = "merge" /\ proc'[p].key \in Keys /\ Live(proc'[p].key)
          /\ licences[proc'[p].key].inst = proc[p].inst
          /\ licences[proc'[p].key].mods \subseteq proc'[p].mods
          /\ licences[proc'[p].key].exp <= proc'[p].exp
    /\ UNCHANGED <<licences, purchases, now, raced, handled, bound>>

LEMMA LookIs ==
    ASSUME TypeOK, RowsAreWhole, RequestsAreWhole, NEW p \in Procs, Look(p)
    PROVE  Looked(p)
<1> DEFINE k == OfInstance(proc[p].inst)
<1>1. proc[p] \in Request /\ proc[p].at = "look" /\ proc[p].inst \in Instances
  BY DEF TypeOK, Look, RequestsAreWhole
<1>2. CASE k = Nobody
  <2> DEFINE new == [proc[p] EXCEPT !.at = "mint"]
  <2>1. proc' = [proc EXCEPT ![p] = new]
    BY <1>2 DEF Look, TypeOK
  <2>2. /\ new \in Request /\ new.at = "mint" /\ new.key = proc[p].key /\ new.kind = proc[p].kind
        /\ new.ref = proc[p].ref /\ new.inst = proc[p].inst /\ new.was = proc[p].was
        /\ new.mods = proc[p].mods
    BY <1>1 DEF Request
  <2>3. \A j \in Keys : Live(j) => licences[j].inst # proc[p].inst
    BY <1>1, <1>2, OfInstanceIs
  <2> HIDE DEF new
  <2>4. proc' \in [Procs -> Request] /\ proc'[p] = new /\ Others(p)
    BY <2>1, <2>2 DEF TypeOK, Others
  <2> QED
    BY <1>1, <2>2, <2>3, <2>4 DEF Look, Looked
<1>3. CASE k # Nobody
  <2> DEFINE later == IF licences[k].exp = Forever \/ proc[p].exp > licences[k].exp
                      THEN proc[p].exp ELSE licences[k].exp
             new == [proc[p] EXCEPT !.at = "merge", !.key = k, !.mods = proc[p].mods \cup licences[k].mods,
                                    !.exp = later]
  <2>1. k \in Keys /\ Live(k) /\ licences[k].inst = proc[p].inst /\ licences[k] \in Licence
    BY <1>1, <1>3, OfInstanceIs DEF TypeOK
  <2>2. later \in Nat /\ licences[k].exp <= later
    BY <1>1, <2>1 DEF Request, Licence, Forever
  <2>3. proc' = [proc EXCEPT ![p] = new]
    BY <1>3 DEF Look, TypeOK
  <2> HIDE DEF later, k
  <2>4. /\ new \in Request /\ new.at = "merge" /\ new.key = k /\ new.kind = proc[p].kind
        /\ new.ref = proc[p].ref /\ new.inst = proc[p].inst /\ new.was = proc[p].was
        /\ new.mods = proc[p].mods \cup licences[k].mods /\ new.exp = later
    BY <1>1, <2>1, <2>2 DEF Request, Licence
  <2> HIDE DEF new
  <2>5. proc' \in [Procs -> Request] /\ proc'[p] = new /\ Others(p)
    BY <2>3, <2>4 DEF TypeOK, Others
  <2> QED
    BY <1>1, <2>1, <2>2, <2>4, <2>5 DEF Look, Looked
<1> QED
  BY <1>2, <1>3

\* A minted key was no licence before; it is not bound yet.
Minted(p, k) ==
    /\ proc' \in [Procs -> Request] /\ Others(p)
    /\ proc[p].at = "mint"
    /\ proc'[p].at = "write" /\ proc'[p].key = k
    /\ proc'[p].kind = proc[p].kind /\ proc'[p].ref = proc[p].ref
    /\ proc'[p].inst = proc[p].inst /\ proc'[p].was = Nobody
    /\ licences[k].st = "none"
    /\ licences' \in [Keys -> Licence]
    /\ licences'[k].st = "live" /\ licences'[k].mods = proc[p].mods
    /\ licences'[k].inst = Nobody /\ licences'[k].rebinds = licences[k].rebinds
    /\ licences'[k].born <= Cardinality(Keys) + 1
    /\ \A j \in Keys : j # k => licences'[j] = licences[j]
    /\ UNCHANGED <<purchases, now, raced, handled, bound>>

LEMMA MintIs ==
    ASSUME TypeOK, RowsAreWhole, RequestsAreWhole, NEW p \in Procs, NEW k \in Keys, Mint(p, k)
    PROVE  Minted(p, k)
<1>1. proc[p] \in Request /\ proc[p].at = "mint" /\ proc[p].was = Nobody
  BY DEF TypeOK, Mint, RequestsAreWhole
<1>2. IssueRow(k, proc[p].mods, proc[p].exp) /\ licences[k].st = "none" /\ licences[k].inst = Nobody
  BY DEF Mint, Issued, RowsAreWhole
<1>3. proc[p].mods \in SUBSET (Products \cup {Everything}) /\ proc[p].exp \in Nat
  BY <1>1 DEF Request
<1> DEFINE new == [proc[p] EXCEPT !.at = "write", !.key = k]
<1>4. proc' = [proc EXCEPT ![p] = new]
  BY DEF Mint, TypeOK
<1>5. /\ new \in Request /\ new.at = "write" /\ new.key = k /\ new.kind = proc[p].kind
      /\ new.ref = proc[p].ref /\ new.inst = proc[p].inst /\ new.was = Nobody
  BY <1>1 DEF Request
<1> HIDE DEF new
<1>6. proc' \in [Procs -> Request] /\ proc'[p] = new /\ Others(p)
  BY <1>4, <1>5 DEF TypeOK, Others
<1>7. /\ licences' \in [Keys -> Licence]
      /\ licences'[k].st = "live" /\ licences'[k].mods = proc[p].mods
      /\ licences'[k].inst = licences[k].inst /\ licences'[k].rebinds = licences[k].rebinds
      /\ licences'[k].born <= Cardinality(Keys) + 1
      /\ \A j \in Keys : j # k => licences'[j] = licences[j]
  BY <1>2, <1>3, IssueRowIs
<1> QED
  BY <1>1, <1>2, <1>5, <1>6, <1>7 DEF Mint, Minted

\* The merge writes what the look put together.
Merged(p) ==
    /\ proc' \in [Procs -> Request] /\ Others(p)
    /\ proc[p].at = "merge" /\ proc[p].key \in Keys
    /\ \/ proc'[p].at = "idle" /\ proc'[p].kind = "none" /\ proc'[p].key = Nobody
       \/ /\ proc'[p].at = "record" /\ proc[p].kind = "verify" /\ proc'[p].kind = "verify"
          /\ proc'[p].key = proc[p].key /\ proc'[p].ref = proc[p].ref
          /\ proc'[p].inst = proc[p].inst
    /\ licences' \in [Keys -> Licence]
    /\ licences'[proc[p].key].st = "live"
    /\ licences'[proc[p].key].mods = proc[p].mods /\ licences'[proc[p].key].exp = proc[p].exp
    /\ licences'[proc[p].key].inst = licences[proc[p].key].inst
    /\ licences'[proc[p].key].rebinds = licences[proc[p].key].rebinds
    /\ licences'[proc[p].key].born <= Cardinality(Keys) + 1
    /\ \A j \in Keys : j # proc[p].key => licences'[j] = licences[j]
    /\ UNCHANGED <<purchases, now, raced, handled, bound>>

LEMMA MergeIs ==
    ASSUME TypeOK, RowsAreWhole, RequestsAreWhole, NEW p \in Procs, Merge(p)
    PROVE  Merged(p)
<1>1. proc[p] \in Request /\ proc[p].at = "merge" /\ proc[p].key \in Keys
  BY DEF TypeOK, Merge, RequestsAreWhole, Issued
<1>2. proc' \in [Procs -> Request] /\ proc'[p] = AfterGrant(p) /\ Others(p)
  BY <1>1, AfterGrantIs DEF Merge, TypeOK, Others
<1>3. /\ IssueRow(proc[p].key, proc[p].mods, proc[p].exp)
      /\ proc[p].mods \in SUBSET (Products \cup {Everything}) /\ proc[p].exp \in Nat
  BY <1>1 DEF Merge, Request
<1>4. PICK k \in Keys, ms \in SUBSET (Products \cup {Everything}), e \in Nat :
        k = proc[p].key /\ ms = proc[p].mods /\ e = proc[p].exp /\ IssueRow(k, ms, e)
  BY <1>1, <1>3
<1>5. /\ licences' \in [Keys -> Licence]
      /\ licences'[k].st = "live" /\ licences'[k].mods = ms /\ licences'[k].exp = e
      /\ licences'[k].inst = licences[k].inst /\ licences'[k].rebinds = licences[k].rebinds
      /\ licences'[k].born <= Cardinality(Keys) + 1
      /\ \A j \in Keys : j # k => licences'[j] = licences[j]
  BY <1>4, IssueRowIs
<1>6. UNCHANGED <<purchases, now, raced, handled, bound>>
  BY DEF Merge
<1> QED
  BY <1>1, <1>2, <1>4, <1>5, <1>6, AfterGrantIs DEF Merged

\* bind reads the row: nothing to do or refused, or it will write what it saw.
ReadsBinding(p) ==
    /\ proc' \in [Procs -> Request] /\ Others(p)
    /\ proc[p].at = "bind" /\ proc[p].kind = "fetch" /\ proc[p].key \in Keys
    /\ \/ proc'[p].at = "idle" /\ proc'[p].kind = "none" /\ proc'[p].key = Nobody
       \/ /\ licences[proc[p].key].inst # proc[p].inst
          /\ licences[proc[p].key].inst = Nobody \/ licences[proc[p].key].rebinds < MaxRebinds
          /\ proc'[p].at = "write" /\ proc'[p].kind = "fetch"
          /\ proc'[p].key = proc[p].key /\ proc'[p].inst = proc[p].inst
          /\ proc'[p].was = licences[proc[p].key].inst
    /\ UNCHANGED <<licences, purchases, now, raced, handled, bound>>

LEMMA BindReadIs ==
    ASSUME TypeOK, RequestsAreWhole, NEW p \in Procs, BindRead(p)
    PROVE  ReadsBinding(p)
<1> DEFINE k == proc[p].key
<1>1. /\ proc[p] \in Request /\ proc[p].at = "bind" /\ k \in Keys /\ proc[p].kind = "fetch"
      /\ licences[k] \in Licence
  BY DEF TypeOK, BindRead, RequestsAreWhole, Issued
<1>2. CASE ~Live(k) \/ licences[k].inst = proc[p].inst \/ Refused(k, proc[p].inst)
  <2>1. proc' = [proc EXCEPT ![p] = AfterGrant(p)]
    BY <1>2 DEF BindRead
  <2>2. proc' \in [Procs -> Request] /\ proc'[p] = AfterGrant(p) /\ Others(p)
    BY <1>1, <2>1, AfterGrantIs DEF TypeOK, Others
  <2> QED
    BY <1>1, <2>2, AfterGrantIs DEF BindRead, ReadsBinding
<1>3. CASE ~(~Live(k) \/ licences[k].inst = proc[p].inst \/ Refused(k, proc[p].inst))
  <2> DEFINE new == [proc[p] EXCEPT !.at = "write", !.was = licences[k].inst]
  <2>1. proc' = [proc EXCEPT ![p] = new]
    BY <1>3 DEF BindRead
  <2>2. /\ new \in Request /\ new.at = "write" /\ new.kind = "fetch" /\ new.key = k
        /\ new.inst = proc[p].inst /\ new.was = licences[k].inst
    BY <1>1 DEF Request, Licence
  <2>3. licences[k].inst = Nobody \/ licences[k].rebinds < MaxRebinds
    BY <1>1, <1>3, LicencesAssumption DEF Refused, Licence
  <2> HIDE DEF new
  <2>4. proc' \in [Procs -> Request] /\ proc'[p] = new /\ Others(p)
    BY <2>1, <2>2 DEF TypeOK, Others
  <2> QED
    BY <1>1, <1>3, <2>2, <2>3, <2>4 DEF BindRead, ReadsBinding
<1> QED
  BY <1>2, <1>3

\* bind writes: a move is counted by what was read.
WritesBinding(p) ==
    /\ proc' \in [Procs -> Request] /\ Others(p)
    /\ proc[p].at = "write" /\ proc[p].key \in Keys /\ proc[p].inst \in Instances
    /\ \/ proc'[p].at = "idle" /\ proc'[p].kind = "none" /\ proc'[p].key = Nobody
       \/ /\ proc'[p].at = "record" /\ proc[p].kind = "verify" /\ proc'[p].kind = "verify"
          /\ proc'[p].key = proc[p].key /\ proc'[p].ref = proc[p].ref
          /\ proc'[p].inst = proc[p].inst
    /\ licences' \in [Keys -> Licence]
    /\ licences'[proc[p].key].inst = proc[p].inst
    /\ licences'[proc[p].key].rebinds =
         IF proc[p].was = Nobody THEN licences[proc[p].key].rebinds
         ELSE licences[proc[p].key].rebinds + 1
    /\ licences'[proc[p].key].st = licences[proc[p].key].st
    /\ licences'[proc[p].key].mods = licences[proc[p].key].mods
    /\ licences'[proc[p].key].exp = licences[proc[p].key].exp
    /\ licences'[proc[p].key].born = licences[proc[p].key].born
    /\ \A j \in Keys : j # proc[p].key => licences'[j] = licences[j]
    /\ UNCHANGED <<purchases, now, raced, handled, bound>>

LEMMA BindWriteIs ==
    ASSUME TypeOK, RequestsAreWhole, NEW p \in Procs, BindWrite(p)
    PROVE  WritesBinding(p)
<1> DEFINE k == proc[p].key
           moves == IF proc[p].was = Nobody THEN licences[k].rebinds ELSE licences[k].rebinds + 1
           row == [licences[k] EXCEPT !.inst = proc[p].inst, !.rebinds = moves]
<1>1. /\ proc[p] \in Request /\ proc[p].at = "write" /\ k \in Keys /\ proc[p].inst \in Instances
      /\ licences[k] \in Licence
  BY DEF TypeOK, BindWrite, RequestsAreWhole, Issued
<1>2. proc' \in [Procs -> Request] /\ proc'[p] = AfterGrant(p) /\ Others(p)
  BY <1>1, AfterGrantIs DEF BindWrite, TypeOK, Others
<1>3. licences' = [licences EXCEPT ![k] = row]
  BY DEF BindWrite, TypeOK
<1>4. moves \in Nat
  BY <1>1 DEF Licence
<1> HIDE DEF moves
<1>5. /\ row \in Licence /\ row.inst = proc[p].inst /\ row.rebinds = moves /\ row.st = licences[k].st
      /\ row.mods = licences[k].mods /\ row.exp = licences[k].exp /\ row.born = licences[k].born
  BY <1>1, <1>4 DEF Licence
<1> HIDE DEF row
<1>6. licences' \in [Keys -> Licence] /\ licences'[k] = row
      /\ \A j \in Keys : j # k => licences'[j] = licences[j]
  BY <1>1, <1>3, <1>5 DEF TypeOK
<1> QED
  BY <1>1, <1>2, <1>5, <1>6, AfterGrantIs DEF BindWrite, moves, WritesBinding

\* A download with a key of its own instance's, or one that is nobody's yet.
Fetched(p, k, i) ==
    /\ proc' \in [Procs -> Request] /\ Others(p)
    /\ proc[p].at = "idle"
    /\ proc'[p].at = "bind" /\ proc'[p].kind = "fetch" /\ proc'[p].key = k
    /\ proc'[p].inst = i
    /\ Live(k) /\ (k \in handled \/ licences[k].inst = i)
    /\ UNCHANGED <<licences, purchases, now, raced, handled, bound>>

LEMMA FetchIs ==
    ASSUME TypeOK, NEW p \in Procs, NEW k \in Keys, NEW m, NEW i \in Instances, Fetch(p, k, m, i)
    PROVE  Fetched(p, k, i)
<1> DEFINE new == [Idle EXCEPT !.at = "bind", !.kind = "fetch", !.key = k, !.inst = i]
<1>1. /\ new \in Request /\ new.at = "bind" /\ new.kind = "fetch" /\ new.key = k /\ new.inst = i
  BY DEF Idle, Request, Forever
<1>2. proc' = [proc EXCEPT ![p] = new]
  BY DEF Fetch
<1> HIDE DEF new
<1>3. proc' \in [Procs -> Request] /\ proc'[p] = new /\ Others(p)
  BY <1>1, <1>2 DEF TypeOK, Others
<1> QED
  BY <1>1, <1>3 DEF Fetch, BoundTo, Fetched

\* The purchase is closed with the grant's key; what it replaces keeps its key.
Recorded(p) ==
    /\ proc' \in [Procs -> Request] /\ Others(p)
    /\ proc[p].at = "record" /\ proc[p].ref \in Purchases
    /\ purchases[proc[p].ref].inst = proc[p].inst
    /\ proc'[p].at = "idle" /\ proc'[p].kind = "none" /\ proc'[p].key = Nobody
    /\ purchases' \in [Purchases -> Purchase]
    /\ purchases'[proc[p].ref].key = proc[p].key
    /\ \A r \in Purchases :
         /\ purchases[r].st # "none" \/ r = proc[p].ref => purchases'[r].st # "none"
         /\ purchases'[r].inst = purchases[r].inst
         /\ purchases'[r].product = purchases[r].product
         /\ r # proc[p].ref => purchases'[r].key = purchases[r].key
         /\ purchases[r].st = "none" /\ r # proc[p].ref => purchases'[r].st = "none"
    /\ UNCHANGED <<licences, now, raced, handled, bound>>

LEMMA RecordIs ==
    ASSUME TypeOK, RequestsAreWhole, NEW p \in Procs, Record(p)
    PROVE  Recorded(p)
<1> DEFINE r == proc[p].ref
<1>1. /\ proc[p] \in Request /\ proc[p].at = "record" /\ r \in Purchases
      /\ purchases[r].inst = proc[p].inst /\ purchases[r] \in Purchase
  BY DEF TypeOK, Record, RequestsAreWhole
<1>2. proc' \in [Procs -> Request] /\ proc'[p] = Idle /\ Others(p)
  BY IdleIs DEF Record, TypeOK, Others
<1> DEFINE paid == [purchases[r] EXCEPT !.st = "paid", !.key = proc[p].key]
           over(q) == [purchases[q] EXCEPT !.st = "superseded"]
<1>3. PICK ended \in SUBSET Singles(r) :
         purchases' = [q \in Purchases |-> IF q = r THEN paid
                                           ELSE IF q \in ended THEN over(q) ELSE purchases[q]]
  BY DEF Record
<1>4. /\ paid \in Purchase /\ paid.st = "paid" /\ paid.key = proc[p].key
      /\ paid.inst = purchases[r].inst /\ paid.product = purchases[r].product
  BY <1>1 DEF Purchase, Request
<1>5. \A q \in Purchases :
         /\ over(q) \in Purchase /\ over(q).st = "superseded" /\ over(q).key = purchases[q].key
         /\ over(q).inst = purchases[q].inst /\ over(q).product = purchases[q].product
  BY DEF Purchase, TypeOK
<1>6. \A q \in ended : purchases[q].st = "paid"
  BY DEF Singles
<1> HIDE DEF paid, over
<1>7. purchases' \in [Purchases -> Purchase]
  BY <1>3, <1>4, <1>5 DEF TypeOK
<1>8. \A q \in Purchases : purchases'[q] = IF q = r THEN paid
                                           ELSE IF q \in ended THEN over(q) ELSE purchases[q]
  BY <1>3
<1> QED
  BY <1>1, <1>2, <1>4, <1>5, <1>6, <1>7, <1>8, IdleIs DEF Record, Recorded

\* A checkout writes the order on a purchase that is not one yet.
CheckedOut(r, o) ==
    /\ purchases' \in [Purchases -> Purchase]
    /\ purchases[r].st = "none"
    /\ purchases'[r].st = "pending" /\ purchases'[r].product = o.product
    /\ purchases'[r].inst = o.inst /\ purchases'[r].key = purchases[r].key
    /\ o.product \in Products /\ o.inst \in Instances
    /\ \A q \in Purchases : q # r => purchases'[q] = purchases[q]
    /\ UNCHANGED <<licences, proc, now, raced, handled, bound>>

LEMMA CheckoutIs ==
    ASSUME TypeOK, NEW r \in Purchases, NEW o \in Orders, NEW s \in BOOLEAN, Checkout(r, o, s)
    PROVE  CheckedOut(r, o)
<1> DEFINE new == [purchases[r] EXCEPT !.st = "pending", !.product = o.product, !.inst = o.inst,
                                       !.customer = o.customer, !.subscribed = s]
<1>1. o.product \in Products /\ o.inst \in Instances /\ purchases[r] \in Purchase
  BY LicencesAssumption DEF TypeOK
<1>2. /\ new \in Purchase /\ new.st = "pending" /\ new.product = o.product /\ new.inst = o.inst
      /\ new.key = purchases[r].key
  BY <1>1 DEF Purchase
<1>3. purchases' = [purchases EXCEPT ![r] = new]
  BY DEF Checkout
<1> HIDE DEF new
<1>4. /\ purchases' \in [Purchases -> Purchase] /\ purchases'[r] = new
      /\ \A q \in Purchases : q # r => purchases'[q] = purchases[q]
  BY <1>2, <1>3 DEF TypeOK
<1> QED
  BY <1>1, <1>2, <1>4 DEF Checkout, CheckedOut

-----------------------------------------------------------------------------
(* Every step keeps the invariant.                                         *)

\* Some of the requests, so finitely many.
LEMMA MovingIs ==
    ASSUME NEW k
    PROVE  /\ IsFiniteSet(Moving(k)) /\ Cardinality(Moving(k)) \in Nat
           /\ Cardinality(Moving(k)) <= Cardinality(Procs) /\ Cardinality(Procs) \in Nat
<1>1. Moving(k) \subseteq Procs /\ IsFiniteSet(Procs)
  BY LicencesAssumption DEF Moving
<1> QED
  BY <1>1, FS_Subset, FS_CardinalityType

\* A step that moves no key and reads no binding leaves the count of moves.
LEMMA MovesStay ==
    ASSUME TypeOK, MovesAreCounted,
           \A k \in Keys : Moving(k)' \subseteq Moving(k) /\ licences'[k].rebinds = licences[k].rebinds
    PROVE  MovesAreCounted'
<1> SUFFICES ASSUME NEW k \in Keys
             PROVE  licences'[k].rebinds + Cardinality(Moving(k)') <= MaxRebinds + Cardinality(Procs) - 1
  BY DEF MovesAreCounted
<1>1. /\ Cardinality(Moving(k)') <= Cardinality(Moving(k))
      /\ Cardinality(Moving(k)') \in Nat /\ Cardinality(Moving(k)) \in Nat
  BY MovingIs, FS_Subset, FS_CardinalityType
<1>2. licences[k].rebinds \in Nat
  BY DEF TypeOK, Licence
<1>3. licences[k].rebinds + Cardinality(Moving(k)) <= MaxRebinds + Cardinality(Procs) - 1
  BY DEF MovesAreCounted
<1>4. MaxRebinds + Cardinality(Procs) - 1 \in Int
  BY MovingIs, LicencesAssumption
<1> QED
  BY <1>1, <1>2, <1>3, <1>4

\* The look writes nothing: what it read it holds, and the key it found is its instance's.
LEMMA LookKeeps == ASSUME IInv, NEW p \in Procs, Look(p) PROVE IInv'
<1>1. TypeOK /\ RowsAreWhole /\ RequestsAreWhole /\ proc[p] \in Request
  BY DEF IInv, TypeOK
<1>2. Looked(p)
  BY <1>1, LookIs
<1>3. TypeOK'
  BY <1>1, <1>2 DEF TypeOK, Looked
<1>4. RequestsAreWhole'
  BY <1>1, <1>2 DEF RequestsAreWhole, Others, Issued, Live, Looked
<1>5. RowsAreWhole'
  BY <1>1, <1>2 DEF RowsAreWhole, Issued, Looked
<1>6. RacesAreKnown'
  BY <1>1, <1>2 DEF IInv, RacesAreKnown, RequestsAreWhole, Others, Granting, Looked
<1>7. KeysStayPut'
  BY <1>1, <1>2 DEF IInv, KeysStayPut, Others, Looked
<1>8. GrantsAddUp'
  BY <1>1, <1>2 DEF IInv, GrantsAddUp, Others, Looked
<1>9. NoneIsThere'
  BY <1>1, <1>2 DEF IInv, NoneIsThere, Others, Live, Looked
<1>10. OneKeyPerInstance'
  BY <1>1, <1>2 DEF IInv, OneKeyPerInstance, Live, Looked
<1>11. \A k \in Keys : Moving(k)' \subseteq Moving(k) /\ licences'[k].rebinds = licences[k].rebinds
  BY <1>2 DEF Moving, Others, Looked
<1>12. MovesAreCounted'
  BY <1>1, <1>11, MovesStay DEF IInv
<1> QED
  BY <1>3, <1>4, <1>5, <1>6, <1>7, <1>8, <1>9, <1>10, <1>12 DEF IInv

\* A new order is on a purchase that named no key and no request.
LEMMA CheckoutKeeps ==
    ASSUME IInv, NEW r \in Purchases, NEW o \in Orders, NEW s \in BOOLEAN, Checkout(r, o, s)
    PROVE  IInv'
<1>1. TypeOK /\ RowsAreWhole /\ RequestsAreWhole
  BY DEF IInv, TypeOK
<1>2. CheckedOut(r, o)
  BY <1>1, CheckoutIs
<1>3. TypeOK'
  BY <1>1, <1>2 DEF TypeOK, CheckedOut
<1>4. RequestsAreWhole'
  BY <1>1, <1>2 DEF RequestsAreWhole, Others, Issued, CheckedOut
<1>5. RowsAreWhole'
  BY <1>1, <1>2 DEF RowsAreWhole, Issued, CheckedOut
<1>6. RacesAreKnown'
  BY <1>1, <1>2 DEF IInv, RacesAreKnown, RequestsAreWhole, Others, Granting, CheckedOut
<1>7. KeysStayPut'
  BY <1>1, <1>2 DEF IInv, KeysStayPut, RowsAreWhole, CheckedOut
<1>8. GrantsAddUp'
  BY <1>1, <1>2 DEF IInv, GrantsAddUp, RowsAreWhole, RequestsAreWhole, CheckedOut
<1>9. NoneIsThere'
  BY <1>1, <1>2 DEF IInv, NoneIsThere, Others, Live, CheckedOut
<1>10. OneKeyPerInstance'
  BY <1>1, <1>2 DEF IInv, OneKeyPerInstance, Live, CheckedOut
<1>11. \A k \in Keys : Moving(k)' \subseteq Moving(k) /\ licences'[k].rebinds = licences[k].rebinds
  BY <1>2 DEF Moving, Others, CheckedOut
<1>12. MovesAreCounted'
  BY <1>1, <1>11, MovesStay DEF IInv
<1> QED
  BY <1>3, <1>4, <1>5, <1>6, <1>7, <1>8, <1>9, <1>10, <1>12 DEF IInv

\* A grant that begins during another for the instance puts it in raced.
LEMMA BeginKeeps ==
    ASSUME IInv, NEW p \in Procs, NEW r \in Purchases, Verify(p, r) \/ Renewal(p, r)
    PROVE  IInv'
<1>1. TypeOK /\ RowsAreWhole /\ RequestsAreWhole /\ proc[p] \in Request
  BY DEF IInv, TypeOK
<1>2. PICK row \in Purchases : purchases[row].st # "none" /\ Began(p, row)
  <2>1. CASE Verify(p, r)
    <3>1. purchases[r].st # "none" /\ BeginGrant(p, "verify", r, purchases[r])
          /\ UNCHANGED <<licences, purchases, now, handled, bound>>
      BY <2>1 DEF Verify
    <3>2. Began(p, r)
      BY <1>1, <3>1, BeginGrantIs
    <3> QED
      BY <3>1, <3>2
  <2>2. CASE Renewal(p, r)
    <3> DEFINE row == RenewalRow(purchases[r].customer, purchases[r].product)
    <3>1. row # 0 /\ BeginGrant(p, "renew", row, purchases[row])
          /\ UNCHANGED <<licences, purchases, now, handled, bound>>
      BY <2>2 DEF Renewal
    <3>2. row \in Purchases /\ purchases[row].st = "paid"
      BY <1>1, <3>1, RenewalRowIs
    <3>3. Began(p, row)
      BY <1>1, <3>1, <3>2, BeginGrantIs
    <3> QED
      BY <3>2, <3>3
  <2> QED
    BY <2>1, <2>2
<1>3. TypeOK'
  BY <1>1, <1>2 DEF TypeOK, Began
<1>4. RequestsAreWhole'
  BY <1>1, <1>2 DEF RequestsAreWhole, RowsAreWhole, Others, Issued, Began
<1>5. RowsAreWhole'
  BY <1>1, <1>2 DEF RowsAreWhole, Issued, Began
<1>6. RacesAreKnown'
  BY <1>1, <1>2 DEF IInv, RacesAreKnown, RequestsAreWhole, Others, Granting, Began
<1>7. KeysStayPut'
  BY <1>1, <1>2 DEF IInv, KeysStayPut, Others, Began
<1>8. GrantsAddUp'
  BY <1>1, <1>2 DEF IInv, GrantsAddUp, Others, Began
<1>9. NoneIsThere'
  BY <1>1, <1>2 DEF IInv, NoneIsThere, Others, Live, Began
<1>10. OneKeyPerInstance'
  BY <1>1, <1>2 DEF IInv, OneKeyPerInstance, Live, Began
<1>11. \A k \in Keys : Moving(k)' \subseteq Moving(k) /\ licences'[k].rebinds = licences[k].rebinds
  BY <1>2 DEF Moving, Others, Began
<1>12. MovesAreCounted'
  BY <1>1, <1>11, MovesStay DEF IInv
<1> QED
  BY <1>3, <1>4, <1>5, <1>6, <1>7, <1>8, <1>9, <1>10, <1>12 DEF IInv

\* A key that was no licence is nobody's: it is bound to none and no request holds it.
LEMMA MintKeeps == ASSUME IInv, NEW p \in Procs, NEW k \in Keys, Mint(p, k) PROVE IInv'
<1>1. TypeOK /\ RowsAreWhole /\ RequestsAreWhole /\ proc[p] \in Request
  BY DEF IInv, TypeOK
<1>2. Minted(p, k)
  BY <1>1, MintIs
<1>3. TypeOK'
  BY <1>1, <1>2 DEF TypeOK, Minted
<1>4. RequestsAreWhole'
  BY <1>1, <1>2 DEF RequestsAreWhole, Others, Issued, Minted
<1>5. RowsAreWhole'
  BY <1>1, <1>2 DEF RowsAreWhole, Issued, Minted
<1>6. RacesAreKnown'
  BY <1>1, <1>2 DEF IInv, RacesAreKnown, RequestsAreWhole, Others, Granting, Minted
<1>7. KeysStayPut'
  BY <1>1, <1>2 DEF IInv, KeysStayPut, RequestsAreWhole, RowsAreWhole, Issued, Others, Minted
<1>8. GrantsAddUp'
  BY <1>1, <1>2 DEF IInv, GrantsAddUp, RequestsAreWhole, RowsAreWhole, Issued, Others, Minted
<1>9. NoneIsThere'
  BY <1>1, <1>2, LicencesAssumption DEF IInv, NoneIsThere, RequestsAreWhole, Others, Live, Minted
<1>10. OneKeyPerInstance'
  BY <1>1, <1>2 DEF IInv, OneKeyPerInstance, Live, Minted
<1>11. \A n \in Keys : Moving(n)' \subseteq Moving(n) /\ licences'[n].rebinds = licences[n].rebinds
  BY <1>2 DEF Moving, Others, Minted
<1>12. MovesAreCounted'
  BY <1>1, <1>11, MovesStay DEF IInv
<1> QED
  BY <1>3, <1>4, <1>5, <1>6, <1>7, <1>8, <1>9, <1>10, <1>12 DEF IInv

\* Another grant for the same instance would have raced: what the look read is still
\* what the row has, so the merge takes nothing away.
LEMMA MergeKeeps == ASSUME IInv, NEW p \in Procs, Merge(p) PROVE IInv'
<1>1. TypeOK /\ RowsAreWhole /\ RequestsAreWhole /\ proc[p] \in Request
  BY DEF IInv, TypeOK
<1>2. Merged(p)
  BY <1>1, MergeIs
<1>3. \A j \in Keys : licences'[j].inst = licences[j].inst
  BY <1>2 DEF Merged
<1>4. ASSUME NEW j \in Keys \ handled PROVE Live(j)' <=> Live(j)
  <2>1. CASE j = proc[p].key
    <3>1. licences[j].st = "live"
      BY <1>1, <1>2, <2>1 DEF RowsAreWhole, RequestsAreWhole, Issued, Merged, TypeOK, Licence
    <3> QED
      BY <1>2, <2>1, <3>1 DEF Live, Merged
  <2>2. CASE j # proc[p].key
    BY <1>2, <2>2 DEF Live, Merged
  <2> QED
    BY <2>1, <2>2
<1>5. proc[p].key \notin handled =>
         /\ licences[proc[p].key].inst = proc[p].inst /\ proc[p].inst \in Instances
         /\ proc[p].inst \notin raced => licences[proc[p].key].mods \subseteq licences'[proc[p].key].mods
         /\ \A q \in Procs : q # p /\ Granting(q) /\ proc[q].inst = proc[p].inst => proc[p].inst \in raced
  BY <1>1, <1>2 DEF IInv, KeysStayPut, GrantsAddUp, RacesAreKnown, RequestsAreWhole, Granting, Merged
<1>6. TypeOK'
  BY <1>1, <1>2 DEF TypeOK, Merged
<1>7. RequestsAreWhole'
  BY <1>1, <1>2 DEF RequestsAreWhole, Others, Issued, Merged
<1>8. RowsAreWhole'
  BY <1>1, <1>2 DEF RowsAreWhole, Issued, Merged
<1>9. RacesAreKnown'
  BY <1>1, <1>2 DEF IInv, RacesAreKnown, RequestsAreWhole, Others, Granting, Merged
<1>10. KeysStayPut'
  <2>1. ASSUME NEW q \in Procs, proc'[q].key \notin handled
        PROVE  /\ proc'[q].at \in {"merge", "bind", "record"} => licences'[proc'[q].key].inst = proc'[q].inst
               /\ proc'[q].at = "write" =>
                    licences'[proc'[q].key].inst = Nobody /\ proc'[q].kind # "fetch" /\ proc'[q].was = Nobody
    <3>1. CASE q = p
      BY <1>2, <1>3, <1>5, <2>1, <3>1 DEF Merged
    <3>2. CASE q # p
      BY <1>1, <1>2, <1>3, <2>1, <3>2 DEF IInv, KeysStayPut, RequestsAreWhole, Issued, Others, Merged
    <3> QED
      BY <3>1, <3>2
  <2>2. ASSUME NEW q1 \in Procs, NEW q2 \in Procs, proc'[q1].at = "write", proc'[q2].at = "write",
               proc'[q1].key = proc'[q2].key, proc'[q1].key \notin handled
        PROVE  q1 = q2
    BY <1>2, <2>2 DEF IInv, KeysStayPut, Others, Merged
  <2>3. ASSUME NEW r \in Purchases, purchases[r].key \notin handled \cup {Nobody}
        PROVE  licences'[purchases[r].key].inst = purchases[r].inst
    BY <1>1, <1>3, <2>3 DEF IInv, KeysStayPut, RowsAreWhole, Issued
  <2> QED
    BY <1>2, <2>1, <2>2, <2>3 DEF KeysStayPut, Merged
<1>11. GrantsAddUp'
  <2>1. ASSUME NEW q \in Procs, proc'[q].key \notin handled, proc'[q].inst \notin raced,
               proc'[q].at = "merge"
        PROVE  /\ licences'[proc'[q].key].mods \subseteq proc'[q].mods
               /\ licences'[proc'[q].key].exp <= proc'[q].exp
    <3>1. q # p /\ proc'[q] = proc[q] /\ proc[q].key \in Keys /\ Granting(q)
      BY <1>1, <1>2, <2>1 DEF RequestsAreWhole, Issued, Granting, Others, Merged
    <3>2. licences[proc[q].key].inst = proc[q].inst
      BY <2>1, <3>1 DEF IInv, KeysStayPut
    <3>3. proc[q].key # proc[p].key
      BY <1>5, <2>1, <3>1, <3>2
    <3> QED
      BY <1>2, <2>1, <3>1, <3>3 DEF IInv, GrantsAddUp, Merged
  <2>2. ASSUME NEW q \in Procs, proc'[q].key \notin handled, proc'[q].inst \notin raced,
               proc'[q].at \in {"write", "record"}, proc'[q].kind = "verify"
        PROVE  purchases[proc'[q].ref].product \in licences'[proc'[q].key].mods
    <3>1. CASE q = p
      BY <1>1, <1>2, <2>2, <3>1 DEF RequestsAreWhole, Merged
    <3>2. CASE q # p
      <4>1. proc'[q] = proc[q] /\ proc[q].key \in Keys
        BY <1>1, <1>2, <2>2, <3>2 DEF RequestsAreWhole, Issued, Others, Merged
      <4>2. purchases[proc[q].ref].product \in licences[proc[q].key].mods
        BY <2>2, <4>1 DEF IInv, GrantsAddUp
      <4>3. CASE proc[q].key = proc[p].key
        <5>1. licences[proc[q].key].inst \in {Nobody, proc[q].inst}
          BY <2>2, <4>1 DEF IInv, KeysStayPut
        <5> QED
          BY <1>5, <2>2, <4>1, <4>2, <4>3, <5>1, LicencesAssumption
      <4> QED
        BY <1>2, <4>1, <4>2, <4>3 DEF Merged
    <3> QED
      BY <3>1, <3>2
  <2>3. ASSUME NEW r \in Purchases, purchases[r].key \notin handled \cup {Nobody},
               purchases[r].inst \notin raced
        PROVE  purchases[r].product \in licences'[purchases[r].key].mods
    BY <1>1, <1>2, <1>5, <2>3
       DEF IInv, GrantsAddUp, KeysStayPut, RequestsAreWhole, RowsAreWhole, Issued, Merged
  <2> QED
    BY <1>2, <2>1, <2>2, <2>3 DEF GrantsAddUp, Merged
<1>12. NoneIsThere'
  <2>1. ASSUME NEW q \in Procs, proc'[q].at \in {"mint", "write"}, proc'[q].kind # "fetch"
        PROVE  proc'[q] = proc[q]
    BY <1>2, <2>1 DEF Others, Merged
  <2> QED
    BY <1>2, <1>3, <1>4, <2>1 DEF IInv, NoneIsThere, Merged
<1>13. OneKeyPerInstance'
  BY <1>2, <1>3, <1>4 DEF IInv, OneKeyPerInstance, Merged
<1>14. \A k \in Keys : Moving(k)' \subseteq Moving(k) /\ licences'[k].rebinds = licences[k].rebinds
  <2>1. proc'[p].at # "write"
    BY <1>2 DEF Merged
  <2> QED
    BY <1>2, <2>1 DEF Moving, Others, Merged
<1>15. MovesAreCounted'
  BY <1>1, <1>14, MovesStay DEF IInv
<1> QED
  BY <1>6, <1>7, <1>8, <1>9, <1>10, <1>11, <1>12, <1>13, <1>15 DEF IInv

\* A request about to move a key saw fewer than MAX_REBINDS moves; the others that
\* may be about to are the other requests.
LEMMA BindReadKeeps == ASSUME IInv, NEW p \in Procs, BindRead(p) PROVE IInv'
<1>1. TypeOK /\ RowsAreWhole /\ RequestsAreWhole /\ proc[p] \in Request
  BY DEF IInv, TypeOK
<1>2. ReadsBinding(p)
  BY <1>1, BindReadIs
<1>3. TypeOK'
  BY <1>1, <1>2 DEF TypeOK, ReadsBinding
<1>4. RequestsAreWhole'
  BY <1>1, <1>2 DEF RequestsAreWhole, Others, Issued, ReadsBinding
<1>5. RowsAreWhole'
  BY <1>1, <1>2 DEF RowsAreWhole, Issued, ReadsBinding
<1>6. RacesAreKnown'
  BY <1>1, <1>2 DEF IInv, RacesAreKnown, RequestsAreWhole, Others, Granting, ReadsBinding
<1>7. KeysStayPut'
  BY <1>1, <1>2 DEF IInv, KeysStayPut, Others, ReadsBinding
<1>8. GrantsAddUp'
  BY <1>1, <1>2 DEF IInv, GrantsAddUp, Others, ReadsBinding
<1>9. NoneIsThere'
  BY <1>1, <1>2 DEF IInv, NoneIsThere, Others, Live, ReadsBinding
<1>10. OneKeyPerInstance'
  BY <1>1, <1>2 DEF IInv, OneKeyPerInstance, Live, ReadsBinding
<1>11. MovesAreCounted'
  <2> SUFFICES ASSUME NEW k \in Keys
               PROVE  licences'[k].rebinds + Cardinality(Moving(k)') <= MaxRebinds + Cardinality(Procs) - 1
    BY DEF MovesAreCounted
  <2>1. licences[k].rebinds \in Nat /\ Cardinality(Moving(k)) \in Nat /\ MaxRebinds \in Nat
    BY <1>1, MovingIs, LicencesAssumption DEF TypeOK, Licence
  <2>2. licences[k].rebinds + Cardinality(Moving(k)) <= MaxRebinds + Cardinality(Procs) - 1
    BY DEF IInv, MovesAreCounted
  <2>3. licences'[k].rebinds = licences[k].rebinds
    BY <1>2 DEF ReadsBinding
  <2>4. CASE p \in Moving(k)'
    <3>1. licences[k].rebinds < MaxRebinds
      BY <1>2, <2>4 DEF Moving, ReadsBinding
    <3>2. Cardinality(Moving(k)') \in Nat /\ Cardinality(Moving(k)') <= Cardinality(Procs)
          /\ Cardinality(Procs) \in Nat
      <4>1. Moving(k)' \subseteq Procs
        BY DEF Moving
      <4> QED
        BY <4>1, LicencesAssumption, FS_Subset, FS_CardinalityType
    <3> QED
      BY <2>1, <2>3, <3>1, <3>2
  <2>5. CASE p \notin Moving(k)'
    <3>1. Moving(k)' = Moving(k)
      BY <1>2, <2>5 DEF Moving, Others, ReadsBinding
    <3> QED
      BY <2>2, <2>3, <3>1
  <2> QED
    BY <2>4, <2>5
<1> QED
  BY <1>3, <1>4, <1>5, <1>6, <1>7, <1>8, <1>9, <1>10, <1>11 DEF IInv

\* The write of a grant binds the key it minted to an instance that had none; the
\* write of a download moves a key an administrator touched.
LEMMA BindWriteKeeps == ASSUME IInv, NEW p \in Procs, BindWrite(p) PROVE IInv'
<1>1. TypeOK /\ RowsAreWhole /\ RequestsAreWhole /\ proc[p] \in Request
  BY DEF IInv, TypeOK
<1>2. WritesBinding(p)
  BY <1>1, BindWriteIs
<1>3. /\ proc[p].key \in Keys /\ proc[p].inst \in Instances /\ Nobody \notin Instances
       /\ \A j \in Keys : licences'[j].mods = licences[j].mods /\ licences'[j].exp = licences[j].exp
  BY <1>2, LicencesAssumption DEF WritesBinding
<1>4. TypeOK'
  BY <1>1, <1>2 DEF TypeOK, WritesBinding
<1>5. RequestsAreWhole'
  BY <1>1, <1>2 DEF RequestsAreWhole, Others, Issued, WritesBinding
<1>6. RowsAreWhole'
  BY <1>1, <1>2 DEF RowsAreWhole, RequestsAreWhole, Issued, WritesBinding
<1>7. RacesAreKnown'
  BY <1>1, <1>2 DEF IInv, RacesAreKnown, RequestsAreWhole, Others, Granting, WritesBinding
<1>8. KeysStayPut'
  <2>1. ASSUME NEW q \in Procs, proc'[q].key \notin handled
        PROVE  /\ proc'[q].at \in {"merge", "bind", "record"} => licences'[proc'[q].key].inst = proc'[q].inst
               /\ proc'[q].at = "write" =>
                    licences'[proc'[q].key].inst = Nobody /\ proc'[q].kind # "fetch" /\ proc'[q].was = Nobody
    <3>1. CASE q = p
      BY <1>2, <2>1, <3>1 DEF WritesBinding
    <3>2. CASE q # p /\ proc[q].key = proc[p].key
      <4>1. proc'[q] = proc[q] /\ proc[q].at # "write"
        BY <1>2, <2>1, <3>2 DEF IInv, KeysStayPut, Others, WritesBinding
      <4>2. licences[proc[q].key].inst = Nobody /\ (proc[q].at \in {"merge", "bind", "record"} => proc[q].inst # Nobody)
        BY <1>1, <1>2, <1>3, <2>1, <3>2, <4>1 DEF IInv, KeysStayPut, RequestsAreWhole, WritesBinding
      <4> QED
        BY <2>1, <4>1, <4>2 DEF IInv, KeysStayPut
    <3>3. CASE q # p /\ proc[q].key # proc[p].key
      BY <1>1, <1>2, <2>1, <3>3 DEF IInv, KeysStayPut, RequestsAreWhole, Issued, Others, WritesBinding
    <3> QED
      BY <3>1, <3>2, <3>3
  <2>2. ASSUME NEW q1 \in Procs, NEW q2 \in Procs, proc'[q1].at = "write", proc'[q2].at = "write",
               proc'[q1].key = proc'[q2].key, proc'[q1].key \notin handled
        PROVE  q1 = q2
    BY <1>2, <2>2 DEF IInv, KeysStayPut, Others, WritesBinding
  <2>3. ASSUME NEW r \in Purchases, purchases[r].key \notin handled \cup {Nobody}
        PROVE  licences'[purchases[r].key].inst = purchases[r].inst
    <3>1. licences[purchases[r].key].inst = purchases[r].inst /\ purchases[r].inst \in Instances
          /\ purchases[r].key \in Keys
      BY <1>1, <2>3 DEF IInv, KeysStayPut, RowsAreWhole, Issued
    <3>2. purchases[r].key # proc[p].key
      BY <1>2, <1>3, <2>3, <3>1 DEF IInv, KeysStayPut, WritesBinding
    <3> QED
      BY <1>2, <3>1, <3>2 DEF WritesBinding
  <2> QED
    BY <1>2, <2>1, <2>2, <2>3 DEF KeysStayPut, WritesBinding
<1>9. GrantsAddUp'
  <2>1. ASSUME NEW q \in Procs, proc'[q].key \notin handled, proc'[q].inst \notin raced
        PROVE  /\ proc'[q].at = "merge" =>
                    /\ licences'[proc'[q].key].mods \subseteq proc'[q].mods
                    /\ licences'[proc'[q].key].exp <= proc'[q].exp
               /\ proc'[q].at \in {"write", "record"} /\ proc'[q].kind = "verify" =>
                    purchases[proc'[q].ref].product \in licences'[proc'[q].key].mods
    <3>1. CASE q = p
      BY <1>2, <1>3, <2>1, <3>1 DEF IInv, GrantsAddUp, WritesBinding
    <3>2. CASE q # p
      BY <1>1, <1>2, <1>3, <2>1, <3>2 DEF IInv, GrantsAddUp, RequestsAreWhole, Issued, Others, WritesBinding
    <3> QED
      BY <3>1, <3>2
  <2>2. ASSUME NEW r \in Purchases, purchases[r].key \notin handled \cup {Nobody},
               purchases[r].inst \notin raced
        PROVE  purchases[r].product \in licences'[purchases[r].key].mods
    BY <1>1, <1>3, <2>2 DEF IInv, GrantsAddUp, RowsAreWhole, Issued
  <2> QED
    BY <1>2, <2>1, <2>2 DEF GrantsAddUp, WritesBinding
<1>10. NoneIsThere'
  BY <1>1, <1>2 DEF IInv, NoneIsThere, KeysStayPut, RacesAreKnown, Granting, Others, Live, WritesBinding
<1>11. OneKeyPerInstance'
  BY <1>1, <1>2 DEF IInv, OneKeyPerInstance, NoneIsThere, KeysStayPut, Live, WritesBinding
<1>12. MovesAreCounted'
  <2> SUFFICES ASSUME NEW k \in Keys
               PROVE  licences'[k].rebinds + Cardinality(Moving(k)') <= MaxRebinds + Cardinality(Procs) - 1
    BY DEF MovesAreCounted
  <2>1. licences[k].rebinds \in Nat /\ Cardinality(Moving(k)) \in Nat /\ MaxRebinds + Cardinality(Procs) - 1 \in Int
    BY <1>1, MovingIs, LicencesAssumption DEF TypeOK, Licence
  <2>2. licences[k].rebinds + Cardinality(Moving(k)) <= MaxRebinds + Cardinality(Procs) - 1
    BY DEF IInv, MovesAreCounted
  <2>3. proc'[p].at # "write" /\ proc[p].at = "write"
    BY <1>2 DEF WritesBinding
  <2>4. CASE k = proc[p].key /\ proc[p].was # Nobody
    <3>1. Moving(k)' = Moving(k) \ {p} /\ p \in Moving(k)
      BY <1>2, <2>3, <2>4 DEF Moving, Others, WritesBinding
    <3>2. Cardinality(Moving(k)') = Cardinality(Moving(k)) - 1
      BY <3>1, MovingIs, FS_RemoveElement
    <3>3. licences'[k].rebinds = licences[k].rebinds + 1
      BY <1>2, <2>4 DEF WritesBinding
    <3> QED
      BY <2>1, <2>2, <3>2, <3>3
  <2>5. CASE ~(k = proc[p].key /\ proc[p].was # Nobody)
    <3>1. Moving(k)' = Moving(k)
      BY <1>2, <2>3, <2>5 DEF Moving, Others, WritesBinding
    <3>2. licences'[k].rebinds = licences[k].rebinds
      BY <1>2, <2>5 DEF WritesBinding
    <3> QED
      BY <2>2, <3>1, <3>2
  <2> QED
    BY <2>4, <2>5
<1> QED
  BY <1>4, <1>5, <1>6, <1>7, <1>8, <1>9, <1>10, <1>11, <1>12 DEF IInv

\* A key no administrator touched is fetched with by its own instance only.
LEMMA FetchKeeps ==
    ASSUME IInv, NEW p \in Procs, NEW k \in Keys, NEW m, NEW i \in Instances, Fetch(p, k, m, i)
    PROVE  IInv'
<1>1. TypeOK /\ RowsAreWhole /\ RequestsAreWhole /\ proc[p] \in Request
  BY DEF IInv, TypeOK
<1>2. Fetched(p, k, i)
  BY <1>1, FetchIs
<1>3. TypeOK'
  BY <1>1, <1>2 DEF TypeOK, Fetched
<1>4. RequestsAreWhole'
  BY <1>1, <1>2 DEF RequestsAreWhole, Others, Issued, Live, Fetched
<1>5. RowsAreWhole'
  BY <1>1, <1>2 DEF RowsAreWhole, Issued, Fetched
<1>6. RacesAreKnown'
  BY <1>1, <1>2 DEF IInv, RacesAreKnown, RequestsAreWhole, Others, Granting, Fetched
<1>7. KeysStayPut'
  BY <1>1, <1>2 DEF IInv, KeysStayPut, Others, Fetched
<1>8. GrantsAddUp'
  BY <1>1, <1>2 DEF IInv, GrantsAddUp, Others, Fetched
<1>9. NoneIsThere'
  BY <1>1, <1>2 DEF IInv, NoneIsThere, Others, Live, Fetched
<1>10. OneKeyPerInstance'
  BY <1>1, <1>2 DEF IInv, OneKeyPerInstance, Live, Fetched
<1>11. \A n \in Keys : Moving(n)' \subseteq Moving(n) /\ licences'[n].rebinds = licences[n].rebinds
  BY <1>2 DEF Moving, Others, Fetched
<1>12. MovesAreCounted'
  BY <1>1, <1>11, MovesStay DEF IInv
<1> QED
  BY <1>3, <1>4, <1>5, <1>6, <1>7, <1>8, <1>9, <1>10, <1>12 DEF IInv

\* The purchase takes the key its grant wrote, which opens the product.
LEMMA RecordKeeps == ASSUME IInv, NEW p \in Procs, Record(p) PROVE IInv'
<1>1. TypeOK /\ RowsAreWhole /\ RequestsAreWhole /\ proc[p] \in Request
  BY DEF IInv, TypeOK
<1>2. Recorded(p)
  BY <1>1, RecordIs
<1>3. TypeOK'
  BY <1>1, <1>2 DEF TypeOK, Recorded
<1>4. RequestsAreWhole'
  BY <1>1, <1>2 DEF RequestsAreWhole, Others, Issued, Recorded
<1>5. RowsAreWhole'
  BY <1>1, <1>2, LicencesAssumption DEF RowsAreWhole, RequestsAreWhole, Issued, Recorded
<1>6. RacesAreKnown'
  BY <1>1, <1>2 DEF IInv, RacesAreKnown, RequestsAreWhole, Others, Granting, Recorded
<1>7. KeysStayPut'
  BY <1>1, <1>2 DEF IInv, KeysStayPut, Others, Recorded
<1>8. GrantsAddUp'
  BY <1>1, <1>2 DEF IInv, GrantsAddUp, RequestsAreWhole, Others, Recorded
<1>9. NoneIsThere'
  BY <1>1, <1>2 DEF IInv, NoneIsThere, Others, Live, Recorded
<1>10. OneKeyPerInstance'
  BY <1>1, <1>2 DEF IInv, OneKeyPerInstance, Live, Recorded
<1>11. \A k \in Keys : Moving(k)' \subseteq Moving(k) /\ licences'[k].rebinds = licences[k].rebinds
  BY <1>2 DEF Moving, Others, Recorded
<1>12. MovesAreCounted'
  BY <1>1, <1>11, MovesStay DEF IInv
<1> QED
  BY <1>3, <1>4, <1>5, <1>6, <1>7, <1>8, <1>9, <1>10, <1>12 DEF IInv

\* A row an administrator writes or revokes becomes one of handled.
ByHand(k) ==
    /\ licences' \in [Keys -> Licence]
    /\ licences'[k].st \in {"live", "revoked"}
    /\ licences'[k].inst = licences[k].inst /\ licences'[k].rebinds = licences[k].rebinds
    /\ licences'[k].born <= Cardinality(Keys) + 1
    /\ \A j \in Keys : j # k => licences'[j] = licences[j]
    /\ handled' = handled \cup {k}
    /\ UNCHANGED <<purchases, proc, now, raced, bound>>

\* Revoking ends a row and touches nothing else of it.
LEMMA RevokeIs == ASSUME TypeOK, RowsAreWhole, NEW k \in Keys, Revoke(k) PROVE ByHand(k)
<1> DEFINE row == [licences[k] EXCEPT !.st = "revoked"]
<1>1. licences[k] \in Licence /\ licences[k].born <= Cardinality(Keys) + 1
  BY DEF TypeOK, RowsAreWhole
<1>2. /\ row \in Licence /\ row.st = "revoked" /\ row.inst = licences[k].inst
      /\ row.rebinds = licences[k].rebinds /\ row.born = licences[k].born
  BY <1>1 DEF Licence
<1>3. licences' = [licences EXCEPT ![k] = row]
  BY DEF Revoke, TypeOK
<1> HIDE DEF row
<1>4. /\ licences' \in [Keys -> Licence] /\ licences'[k] = row
      /\ \A j \in Keys : j # k => licences'[j] = licences[j]
  BY <1>2, <1>3 DEF TypeOK
<1> QED
  BY <1>1, <1>2, <1>4 DEF Revoke, ByHand

\* Issuing by hand writes a live, perpetual row.
LEMMA AdminIssueIs ==
    ASSUME TypeOK, RowsAreWhole, NEW k \in Keys, NEW ms \in Grants, AdminIssue(k, ms)
    PROVE  ByHand(k)
<1>1. ms \in SUBSET (Products \cup {Everything}) /\ Forever \in Nat
  BY LicencesAssumption DEF Forever
<1>2. IssueRow(k, ms, Forever) /\ handled' = handled \cup {k}
      /\ UNCHANGED <<purchases, proc, now, raced, bound>>
  BY DEF AdminIssue
<1>3. /\ licences' \in [Keys -> Licence] /\ licences'[k].st = "live"
      /\ licences'[k].inst = licences[k].inst /\ licences'[k].rebinds = licences[k].rebinds
      /\ licences'[k].born <= Cardinality(Keys) + 1
      /\ \A j \in Keys : j # k => licences'[j] = licences[j]
  BY <1>1, <1>2, IssueRowIs
<1> QED
  BY <1>2, <1>3 DEF ByHand

\* A key touched by hand leaves the keys the invariant is about; the others are as they were.
LEMMA ByHandKeeps == ASSUME IInv, NEW k \in Keys, ByHand(k) PROVE IInv'
<1>1. TypeOK /\ RowsAreWhole /\ RequestsAreWhole
  BY DEF IInv
<1>2. \A j \in Keys : j # k => licences'[j] = licences[j]
  BY DEF ByHand
<1>3. TypeOK'
  BY <1>1 DEF TypeOK, ByHand
<1>4. Issued \subseteq Issued'
  BY DEF Issued, ByHand
<1>5. RequestsAreWhole'
  BY <1>1, <1>4 DEF RequestsAreWhole, ByHand
<1>6. RowsAreWhole'
  BY <1>1, <1>4 DEF RowsAreWhole, ByHand
<1>7. RacesAreKnown'
  BY DEF IInv, RacesAreKnown, Granting, ByHand
<1>8. KeysStayPut'
  BY <1>1, <1>2 DEF IInv, KeysStayPut, RequestsAreWhole, RowsAreWhole, Issued, ByHand
<1>9. GrantsAddUp'
  BY <1>1, <1>2 DEF IInv, GrantsAddUp, RequestsAreWhole, RowsAreWhole, Issued, ByHand
<1>10. NoneIsThere'
  BY <1>1, <1>2 DEF IInv, NoneIsThere, Live, ByHand
<1>11. OneKeyPerInstance'
  BY <1>1, <1>2 DEF IInv, OneKeyPerInstance, Live, ByHand
<1>12. \A j \in Keys : Moving(j)' \subseteq Moving(j) /\ licences'[j].rebinds = licences[j].rebinds
  BY <1>2 DEF Moving, ByHand
<1>13. MovesAreCounted'
  BY <1>1, <1>12, MovesStay DEF IInv
<1> QED
  BY <1>3, <1>5, <1>6, <1>7, <1>8, <1>9, <1>10, <1>11, <1>13 DEF IInv

\* A restart ends every request: what it had not written is lost.
LEMMA CrashKeeps == ASSUME IInv, Crash PROVE IInv'
<1>1. TypeOK /\ RowsAreWhole /\ RequestsAreWhole
  BY DEF IInv
<1>2. /\ proc' \in [Procs -> Request] /\ \A p \in Procs : proc'[p] = Idle
      /\ UNCHANGED <<licences, purchases, now, raced, handled, bound>>
  BY IdleIs DEF Crash
<1>3. \A p \in Procs : proc'[p].at = "idle" /\ proc'[p].key = Nobody /\ proc'[p].kind = "none"
  BY <1>2, IdleIs
<1>4. TypeOK'
  BY <1>1, <1>2 DEF TypeOK
<1>5. RequestsAreWhole' /\ RacesAreKnown' /\ NoneIsThere'
  BY <1>3 DEF RequestsAreWhole, RacesAreKnown, NoneIsThere, Granting
<1>6. RowsAreWhole' /\ OneKeyPerInstance'
  BY <1>1, <1>2 DEF IInv, RowsAreWhole, OneKeyPerInstance, Issued, Live
<1>7. KeysStayPut' /\ GrantsAddUp'
  BY <1>2, <1>3 DEF IInv, KeysStayPut, GrantsAddUp
<1>8. \A k \in Keys : Moving(k)' \subseteq Moving(k) /\ licences'[k].rebinds = licences[k].rebinds
  BY <1>2, <1>3 DEF Moving
<1>9. MovesAreCounted'
  BY <1>1, <1>8, MovesStay DEF IInv
<1> QED
  BY <1>4, <1>5, <1>6, <1>7, <1>9 DEF IInv

\* Time passing changes no row and no request.
LEMMA TickKeeps == ASSUME IInv, Tick \/ UNCHANGED vars PROVE IInv'
<1>1. UNCHANGED <<licences, purchases, proc, raced, handled, bound>>
  BY DEF Tick, vars
<1>2. now' \in 1..bound.until
  <2>1. now \in 1..bound.until /\ bound.until \in Nat
    BY LicencesAssumption DEF IInv, TypeOK
  <2> QED
    BY <2>1 DEF Tick, vars
<1>3. TypeOK'
  BY <1>1, <1>2 DEF IInv, TypeOK
<1>4. RequestsAreWhole' /\ RowsAreWhole' /\ RacesAreKnown' /\ KeysStayPut' /\ GrantsAddUp'
  BY <1>1 DEF IInv, RequestsAreWhole, RowsAreWhole, RacesAreKnown, KeysStayPut, GrantsAddUp, Issued, Granting
<1>5. NoneIsThere' /\ OneKeyPerInstance' /\ MovesAreCounted'
  BY <1>1 DEF IInv, NoneIsThere, OneKeyPerInstance, MovesAreCounted, Moving, Live
<1> QED
  BY <1>3, <1>4, <1>5 DEF IInv

\* At the start no key is a licence, no purchase is made, no request is served.
LEMMA Initially == Init => IInv
<1> SUFFICES ASSUME Init PROVE IInv
  OBVIOUS
<1>1. /\ \A k \in Keys : licences[k] = NoLicence
      /\ \A p \in Procs : proc[p] = Idle
      /\ licences \in [Keys -> {NoLicence}] /\ proc \in [Procs -> {Idle}]
  BY DEF Init
<1>2. NoLicence \in Licence /\ NoLicence.st = "none" /\ NoLicence.inst = Nobody
      /\ NoLicence.exp = Forever /\ NoLicence.born = 0 /\ NoLicence.rebinds = 0
  BY DEF NoLicence, Licence, Forever
<1>3. \A r \in Purchases : purchases[r].st = "none" /\ purchases[r].key = Nobody
  BY DEF Init
<1>4. purchases \in [Purchases -> Purchase]
  BY DEF Init, Purchase
<1>5. now \in 1..bound.until
  <2>1. now = 1 /\ bound.until \in Nat \ {0}
    BY LicencesAssumption DEF Init
  <2> QED
    BY <2>1
<1>6. TypeOK
  BY <1>1, <1>2, <1>4, <1>5, IdleIs DEF Init, TypeOK
<1>7. \A p \in Procs : proc[p].at = "idle" /\ proc[p].key = Nobody /\ proc[p].kind = "none"
  BY <1>1, IdleIs
<1>8. RequestsAreWhole /\ RacesAreKnown /\ NoneIsThere
  BY <1>7 DEF RequestsAreWhole, RacesAreKnown, NoneIsThere, Granting
<1>9. RowsAreWhole
  <2>1. Cardinality(Keys) \in Nat
    BY FS_CardinalityType, LicencesAssumption
  <2> QED
    BY <1>1, <1>2, <1>3, <2>1 DEF RowsAreWhole
<1>10. KeysStayPut /\ GrantsAddUp
  BY <1>3, <1>7 DEF KeysStayPut, GrantsAddUp
<1>11. OneKeyPerInstance
  BY <1>1, <1>2 DEF OneKeyPerInstance, Live
<1>12. MovesAreCounted
  <2> SUFFICES ASSUME NEW k \in Keys
               PROVE  licences[k].rebinds + Cardinality(Moving(k)) <= MaxRebinds + Cardinality(Procs) - 1
    BY DEF MovesAreCounted
  <2>1. Moving(k) = {}
    BY <1>7 DEF Moving
  <2>2. Cardinality(Moving(k)) = 0 /\ Cardinality(Procs) \in Nat /\ Cardinality(Procs) # 0 /\ MaxRebinds \in Nat
    BY <2>1, FS_EmptySet, FS_CardinalityType, LicencesAssumption
  <2>3. licences[k].rebinds = 0
    BY <1>1, <1>2
  <2> QED
    BY <2>2, <2>3
<1> QED
  BY <1>6, <1>8, <1>9, <1>10, <1>11, <1>12 DEF IInv

\* Every step keeps the invariant.
LEMMA Inductive == IInv /\ [Next]_vars => IInv'
<1> SUFFICES ASSUME IInv, [Next]_vars PROVE IInv'
  OBVIOUS
<1>1. TypeOK /\ RowsAreWhole
  BY DEF IInv
<1>2. CASE Buying
  BY <1>2, CheckoutKeeps, BeginKeeps DEF Buying
<1>3. CASE Serving
  BY <1>3, LookKeeps, MergeKeeps, BindReadKeeps, BindWriteKeeps, RecordKeeps, MintKeeps, FetchKeeps
     DEF Serving
<1>4. CASE Administering
  <2>1. \E k \in Keys : ByHand(k)
    BY <1>1, <1>4, RevokeIs, AdminIssueIs DEF Administering
  <2> QED
    BY <2>1, ByHandKeeps
<1>5. CASE Tick \/ UNCHANGED vars
  BY <1>5, TickKeeps
<1>6. CASE Crash
  BY <1>6, CrashKeeps
<1> QED
  BY <1>2, <1>3, <1>4, <1>5, <1>6 DEF Next

\* So every behaviour of the store satisfies it.
LEMMA Invariant == Spec => []IInv
  BY Initially, Inductive, PTL DEF Spec

-----------------------------------------------------------------------------
(* The theorems.                                                           *)

\* What the ids of a licence open includes the ids.
LEMMA ContainedHolds == ASSUME NEW ids PROVE ids \subseteq Contained(ids)
<1> DEFINE More(S) == S \cup UNION {Includes[b] : b \in S \cap DOMAIN Includes}
           Opens(f) == f = [d \in 0..4 |->
               IF d = 0 THEN ids
               ELSE f[d - 1] \cup UNION {Includes[b] : b \in f[d - 1] \cap DOMAIN Includes}]
           f0 == [d \in 0..4 |-> IF d = 0 THEN ids ELSE IF d = 1 THEN More(ids)
                    ELSE IF d = 2 THEN More(More(ids)) ELSE IF d = 3 THEN More(More(More(ids)))
                    ELSE More(More(More(More(ids))))]
           w == CHOOSE f : Opens(f)
<1>1. Opens(f0)
  <2> HIDE DEF More
  <2>1. \A d \in 0..4 : f0[d] = IF d = 0 THEN ids ELSE More(f0[d - 1])
    OBVIOUS
  <2> QED
    BY <2>1 DEF More
<1>2. Opens(w)
  BY <1>1
<1>3. Contained(ids) = w[4]
  BY DEF Contained
<1> HIDE DEF w
<1>4. w[0] = ids /\ w[0] \subseteq w[1] /\ w[1] \subseteq w[2] /\ w[2] \subseteq w[3] /\ w[3] \subseteq w[4]
  BY <1>2
<1> QED
  BY <1>3, <1>4

\* A module is the first of its line.
LEMMA LineHolds == ASSUME NEW m PROVE m \in Line(m)
<1> DEFINE More(S) == S \cup {With[x] : x \in S \cap DOMAIN With}
           Climbs(f) == f = [d \in 0..4 |->
               IF d = 0 THEN {m} ELSE f[d - 1] \cup {With[x] : x \in f[d - 1] \cap DOMAIN With}]
           f0 == [d \in 0..4 |-> IF d = 0 THEN {m} ELSE IF d = 1 THEN More({m})
                    ELSE IF d = 2 THEN More(More({m})) ELSE IF d = 3 THEN More(More(More({m})))
                    ELSE More(More(More(More({m}))))]
           w == CHOOSE f : Climbs(f)
<1>1. Climbs(f0)
  <2> HIDE DEF More
  <2>1. \A d \in 0..4 : f0[d] = IF d = 0 THEN {m} ELSE More(f0[d - 1])
    OBVIOUS
  <2> QED
    BY <2>1 DEF More
<1>2. Climbs(w)
  BY <1>1
<1>3. Line(m) = w[4]
  BY DEF Line
<1> HIDE DEF w
<1>4. m \in w[0] /\ w[0] \subseteq w[1] /\ w[1] \subseteq w[2] /\ w[2] \subseteq w[3] /\ w[3] \subseteq w[4]
  BY <1>2
<1> QED
  BY <1>3, <1>4

\* Every row, request and purchase keeps its type, and a closed purchase names a key
\* that was issued.
THEOREM Typing == Spec => []LicencesTypeOK
<1>1. IInv => LicencesTypeOK
  BY DEF IInv, TypeOK, RowsAreWhole, LicencesTypeOK, Purchase, Request
<1> QED
  BY <1>1, Invariant, PTL

\* What an instance paid for it owns, through every later purchase, renewal, retry and
\* restart, unless grants overlapped or an administrator touched the key (store.grant).
THEOREM PaymentsOpenTheirProduct == Spec => []PaidIsOwned
<1>1. ASSUME IInv PROVE PaidIsOwned
  <2> SUFFICES ASSUME NEW r \in Purchases, purchases[r].key # Nobody,
                      purchases[r].key \notin handled, purchases[r].inst \notin raced
               PROVE  /\ licences[purchases[r].key].inst = purchases[r].inst
                      /\ Owns(purchases[r].key, purchases[r].product)
    BY DEF PaidIsOwned
  <2> DEFINE k == purchases[r].key
             pr == purchases[r].product
  <2>1. licences[k].inst = purchases[r].inst /\ pr \in licences[k].mods
    BY <1>1 DEF IInv, KeysStayPut, GrantsAddUp
  <2>2. Live(k)
    BY <1>1 DEF IInv, TypeOK, RowsAreWhole, Issued, Live, Licence
  <2>3. pr \in Line(pr) /\ pr \in Contained(licences[k].mods)
    BY <2>1, LineHolds, ContainedHolds
  <2> QED
    BY <2>1, <2>2, <2>3 DEF Owns
<1> QED
  BY <1>1, Invariant, PTL

\* Grants leave an instance one live key, unless they overlapped.
THEOREM InstancesHaveOneKey == Spec => []OneKeyPerInstance
<1>1. IInv => OneKeyPerInstance
  BY DEF IInv
<1> QED
  BY <1>1, Invariant, PTL

\* A key moves past MAX_REBINDS by no more than the requests between bind's read and
\* its write.
THEOREM MovesAreBounded == Spec => []MovesAreLimited
<1>1. ASSUME IInv PROVE MovesAreLimited
  <2> SUFFICES ASSUME NEW k \in Keys
               PROVE  licences[k].rebinds <= MaxRebinds + Cardinality(Procs) - 1
    BY DEF MovesAreLimited
  <2>1. licences[k].rebinds \in Nat /\ Cardinality(Moving(k)) \in Nat /\ MaxRebinds + Cardinality(Procs) - 1 \in Int
    BY <1>1, MovingIs, LicencesAssumption DEF IInv, TypeOK, Licence
  <2>2. licences[k].rebinds + Cardinality(Moving(k)) <= MaxRebinds + Cardinality(Procs) - 1
    BY <1>1 DEF IInv, MovesAreCounted
  <2> QED
    BY <2>1, <2>2
<1> QED
  BY <1>1, Invariant, PTL

\* No grant or renewal brings the end of a licence nearer, unless grants overlapped or an
\* administrator wrote the row.
THEOREM TermsOnlyMoveOutward == Spec => TermsMoveOutward
<1> DEFINE Outward == \A k \in Keys :
             (licences[k].exp # Forever /\ k \notin handled' /\ licences[k].inst \notin raced)
               => licences'[k].exp >= licences[k].exp
<1>1. ASSUME IInv, [Next]_vars PROVE Outward
  <2>1. /\ TypeOK /\ RowsAreWhole /\ RequestsAreWhole
        /\ \A k \in Keys : licences[k].exp \in Nat
    BY <1>1 DEF IInv, TypeOK, Licence
  <2>2. CASE UNCHANGED licences
    BY <2>1, <2>2
  <2>3. ASSUME NEW p \in Procs, NEW k \in Keys, Mint(p, k) PROVE Outward
    BY <2>1, <2>3, MintIs DEF Minted, RowsAreWhole
  <2>4. ASSUME NEW p \in Procs, Merge(p) PROVE Outward
    <3>1. Merged(p)
      BY <2>1, <2>4, MergeIs
    <3> QED
      BY <1>1, <2>1, <3>1 DEF IInv, Merged, GrantsAddUp, KeysStayPut
  <2>5. ASSUME NEW p \in Procs, BindWrite(p) PROVE Outward
    BY <2>1, <2>5, BindWriteIs DEF WritesBinding
  <2>6. ASSUME NEW k \in Keys, ByHand(k) PROVE Outward
    BY <2>1, <2>6 DEF ByHand
  <2>7. CASE Buying
    BY <2>2, <2>7 DEF Buying, Checkout, Verify, Renewal
  <2>8. CASE Serving
    <3>1. ASSUME NEW p \in Procs, Look(p) \/ BindRead(p) \/ Record(p) \/
                   \E k \in Keys, m \in Modules \ Free, i \in Instances : Fetch(p, k, m, i)
          PROVE  Outward
      BY <2>2, <3>1 DEF Look, BindRead, Record, Fetch
    <3> QED
      BY <2>3, <2>4, <2>5, <2>8, <3>1 DEF Serving
  <2>9. CASE Administering
    BY <2>1, <2>6, <2>9, RevokeIs, AdminIssueIs DEF Administering
  <2>10. CASE Tick \/ Crash \/ UNCHANGED vars
    BY <2>2, <2>10 DEF Tick, Crash, vars
  <2> QED
    BY <1>1, <2>7, <2>8, <2>9, <2>10 DEF Next
<1>2. IInv /\ [Next]_vars => [Outward]_vars
  BY <1>1
<1> QED
  BY <1>2, Invariant, PTL DEF Spec, TermsMoveOutward
=============================================================================
