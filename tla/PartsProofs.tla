----------------------------- MODULE PartsProofs -----------------------------
(***************************************************************************)
(* The machines of Parts, one at a time: the inductive invariant at the    *)
(* end of a part's module holds of its initial states and is kept by its   *)
(* every step, for any threads and any things; and so what the runs check  *)
(* of them.                                                                *)
(***************************************************************************)
EXTENDS Parts, TLAPS, WellFoundedInduction, FiniteSetTheorems

\* A behaviour exercises one part.
LEMMA MachineStays == [PartsNext]_vars => machine' = machine
  BY DEF PartsNext, vars, Rest

\* Numbers have a least one.
LEMMA LeastNumber ==
    ASSUME NEW S \in SUBSET Nat, NEW n \in S
    PROVE  \E m \in S : \A k \in S : m <= k
<1>1. \E x \in S : \A y \in S : ~(<<y, x>> \in OpToRel(<, Nat))
  BY NatLessThanWellFounded, WFMin
<1>2. PICK x \in S : \A y \in S : ~(<<y, x>> \in OpToRel(<, Nat))
  BY <1>1
<1>3. ASSUME NEW y \in S PROVE x <= y
  <2>1. y < x => <<y, x>> \in {ss \in Nat \X Nat : ss[1] < ss[2]}
    <3> DEFINE p == <<y, x>>
    <3>1. p \in Nat \X Nat /\ p[1] = y /\ p[2] = x
      OBVIOUS
    <3> HIDE DEF p
    <3>2. y < x => p \in {ss \in Nat \X Nat : ss[1] < ss[2]}
      BY <3>1
    <3> QED
      BY <3>2 DEF p
  <2>2. OpToRel(<, Nat) = {ss \in Nat \X Nat : ss[1] < ss[2]}
    BY DEF OpToRel
  <2>3. ~(y < x)
    BY <1>2, <2>1, <2>2
  <2> QED
    BY <2>3
<1> QED
  BY <1>3

-----------------------------------------------------------------------------
(* Sign-ups. *)

\* A step that leaves the requests alone: a new row of one address, with nothing verified
\* unless it was, and another code only with the address known to race.
LEMMA SignupRow ==
    ASSUME SignUps!IInv, NEW e \in Things,
           NEW new \in [code : Nat, verified : BOOLEAN, attempts : Nat, expired : BOOLEAN],
           v4' = [v4 EXCEPT ![e] = new], UNCHANGED <<v1, v5, v6, v7, v12, v14>>,
           \/ new.code = v4[e].code /\ new.verified = v4[e].verified /\ v13' = v13
           \/ /\ ~new.verified /\ e \notin v7
              /\ v13' = IF SignUps!At(e, "enters") \/ SignUps!At(e, "completes") THEN v13 \cup {e} ELSE v13 \ {e}
    PROVE  SignUps!IInv'
<1>1. SignUps!SignupTypeOK
  BY DEF SignUps!IInv
<1>2. SignUps!SignupTypeOK'
  BY <1>1 DEF SignUps!SignupTypeOK
<1>3. v4'[e] = new /\ \A d \in Things : d # e => v4'[d] = v4[d]
  BY <1>1 DEF SignUps!SignupTypeOK
<1>4. /\ \A d \in Things : d # e => (d \in v13' <=> d \in v13)
      /\ \/ e \in v13' <=> e \in v13
         \/ e \in v13'
         \/ ~SignUps!At(e, "enters") /\ ~SignUps!At(e, "completes")
  OBVIOUS
<1>5. SignUps!VerifiedIsProved'
  <2>1. ASSUME NEW d \in Things, v4'[d].verified
        PROVE  v12[d] # 0 /\ v4'[d].code # 0 /\ (d \notin v13' => v12[d] = v4'[d].code)
    BY <1>3, <2>1 DEF SignUps!IInv, SignUps!VerifiedIsProved
  <2>2. ASSUME NEW p \in Actors, v5[p] = "enters"
        PROVE  v12[v6[p]] # 0 /\ (v6[p] \notin v13' => v4'[v6[p]].code \in {0, v12[v6[p]]})
    BY <1>1, <1>3, <2>2 DEF SignUps!IInv, SignUps!SignupTypeOK, SignUps!VerifiedIsProved, SignUps!At
  <2> QED
    BY <2>1, <2>2 DEF SignUps!VerifiedIsProved
<1>6. SignUps!CompletesIsProved' /\ SignUps!OverlapsAreKnown' /\ SignUps!NobodyIsIn'
  BY DEF SignUps!IInv, SignUps!CompletesIsProved, SignUps!OverlapsAreKnown, SignUps!NobodyIsIn, SignUps!Asking
<1>7. SignUps!CompletionsAreVerified'
  BY <1>3, <1>4 DEF SignUps!IInv, SignUps!EveryoneWasLetIn, SignUps!CompletionsAreVerified, SignUps!At
<1>8. SignUps!UsersProvedTheirCode' /\ SignUps!OneUserIsAlone'
  BY DEF SignUps!IInv, SignUps!EveryoneWasLetIn, SignUps!UsersProvedTheirCode, SignUps!OneUserIsAlone
<1> QED
  BY <1>2, <1>5, <1>6, <1>7, <1>8 DEF SignUps!IInv, SignUps!EveryoneWasLetIn

\* A new code voids what was verified; an address under a write is known to race.
LEMMA SignupStart ==
    ASSUME SignUps!IInv, NEW e \in Things, NEW inv, SignUps!Start(e, inv)
    PROVE  SignUps!IInv'
<1> DEFINE new == [SignUps!NoSignup EXCEPT !.code = v4[e].code + 1]
<1>1. /\ v4' = [v4 EXCEPT ![e] = new] /\ e \notin v7
      /\ v13' = IF SignUps!At(e, "enters") \/ SignUps!At(e, "completes") THEN v13 \cup {e} ELSE v13 \ {e}
      /\ UNCHANGED <<v1, v5, v6, v7, v12, v14>>
  BY DEF SignUps!Start, SignUps!Raced, SignUps!adminVars
<1>2. SignUps!SignupTypeOK
  BY DEF SignUps!IInv
<1>3. new \in [code : Nat, verified : BOOLEAN, attempts : Nat, expired : BOOLEAN] /\ ~new.verified
  <2>1. v4[e].code + 1 \in Nat
    BY <1>2 DEF SignUps!SignupTypeOK
  <2> DEFINE n == v4[e].code + 1
  <2>2. n \in Nat
    BY <2>1
  <2> HIDE DEF n
  <2>3. [SignUps!NoSignup EXCEPT !.code = n]
          \in [code : Nat, verified : BOOLEAN, attempts : Nat, expired : BOOLEAN]
        /\ ~[SignUps!NoSignup EXCEPT !.code = n].verified
    BY <2>2 DEF SignUps!NoSignup
  <2> QED
    BY <2>3 DEF n
<1> HIDE DEF new
<1> QED
  BY <1>1, <1>3, SignupRow

LEMMA SignupExpires ==
    ASSUME SignUps!IInv, NEW e \in Things, SignUps!Expires(e)
    PROVE  SignUps!IInv'
<1> DEFINE new == [v4[e] EXCEPT !.expired = TRUE]
<1>1. v4' = [v4 EXCEPT ![e] = new] /\ UNCHANGED <<v1, v5, v6, v7, v12, v13, v14>>
  BY DEF SignUps!Expires, SignUps!adminVars, SignUps!requestVars
<1>2. /\ new \in [code : Nat, verified : BOOLEAN, attempts : Nat, expired : BOOLEAN]
      /\ new.code = v4[e].code /\ new.verified = v4[e].verified
  BY DEF SignUps!IInv, SignUps!SignupTypeOK
<1> HIDE DEF new
<1> QED
  BY <1>1, <1>2, SignupRow

\* A request that begins or goes on: what it enters was proved, what it completes too, and
\* whom it asks beside is known.
LEMMA SignupRequest ==
    ASSUME SignUps!IInv, NEW p \in Actors, NEW e \in Things, NEW step \in SignUps!Steps \ {"nothing"},
           v5' = [v5 EXCEPT ![p] = step], v6' = [v6 EXCEPT ![p] = e],
           UNCHANGED <<v1, v4, v7, v13>>,
           \/ v12' = v12
           \/ v12' = [v12 EXCEPT ![e] = v4[e].code] /\ v4[e].code # 0,
           step = "enters" => v4[e].code # 0 /\ v12'[e] = v4[e].code,
           step = "completes" => v5[p] = "asks" /\ v6[p] = e /\ v4[e].verified,
           \/ v14' = v14 /\ (step \in {"asks", "completes"} => p \in SignUps!Asking \/ SignUps!Asking = {})
           \/ v14' = v14 \cup {v6[q] : q \in SignUps!Asking} \cup {e},
           step = "asks" /\ v1 = "single" => v7 = {},
           v5[p] = "nothing" \/ (step = "completes" /\ v14' = v14)
    PROVE  SignUps!IInv'
<1>1. SignUps!SignupTypeOK /\ SignUps!VerifiedIsProved
  BY DEF SignUps!IInv
<1>2. SignUps!SignupTypeOK'
  BY <1>1 DEF SignUps!SignupTypeOK
<1>3. /\ v5'[p] = step /\ v6'[p] = e
      /\ \A q \in Actors : q # p => v5'[q] = v5[q] /\ v6'[q] = v6[q]
      /\ \A q \in Actors : v5[q] # "nothing" => v6[q] \in Things
  BY <1>1 DEF SignUps!SignupTypeOK
<1>4. \A d \in Things : \/ v12'[d] = v12[d]
                        \/ d = e /\ v12'[d] = v4[d].code /\ v4[d].code # 0
  BY <1>1 DEF SignUps!SignupTypeOK
<1>5. SignUps!VerifiedIsProved'
  <2>1. ASSUME NEW d \in Things, v4[d].verified
        PROVE  v12'[d] # 0 /\ v4[d].code # 0 /\ (d \notin v13 => v12'[d] = v4[d].code)
    BY <1>1, <1>4, <2>1 DEF SignUps!VerifiedIsProved
  <2>2. ASSUME NEW q \in Actors, v5'[q] = "enters"
        PROVE  v12'[v6'[q]] # 0 /\ (v6'[q] \notin v13 => v4[v6'[q]].code \in {0, v12'[v6'[q]]})
    <3>1. CASE q = p
      BY <1>3, <2>2, <3>1
    <3>2. CASE q # p
      BY <1>1, <1>3, <1>4, <2>2, <3>2 DEF SignUps!VerifiedIsProved
    <3> QED
      BY <3>1, <3>2
  <2> QED
    BY <2>1, <2>2 DEF SignUps!VerifiedIsProved
<1>6. SignUps!CompletesIsProved'
  <2>1. \A d \in Things : v12[d] # 0 => v12'[d] # 0
    BY <1>4
  <2>2. step = "completes" => v12[e] # 0
    BY <1>1 DEF SignUps!VerifiedIsProved
  <2> QED
    BY <1>3, <2>1, <2>2 DEF SignUps!IInv, SignUps!CompletesIsProved
<1>7. /\ v14 \subseteq v14'
      /\ p \in SignUps!Asking' <=> step \in {"asks", "completes"}
      /\ \A q \in Actors : q # p => (q \in SignUps!Asking' <=> q \in SignUps!Asking)
  BY <1>3 DEF SignUps!Asking
<1>8. SignUps!OverlapsAreKnown'
  BY <1>3, <1>7 DEF SignUps!IInv, SignUps!OverlapsAreKnown, SignUps!Asking
<1>9. SignUps!NobodyIsIn'
  BY <1>3, <1>7 DEF SignUps!IInv, SignUps!NobodyIsIn, SignUps!Asking
<1>10. SignUps!CompletionsAreVerified'
  <2> SUFFICES ASSUME NEW d \in Things \ (v13 \cup v7), NEW q \in Actors, v5'[q] = "completes", v6'[q] = d
               PROVE  v4[d].verified /\ v12'[d] = v4[d].code
    BY DEF SignUps!CompletionsAreVerified, SignUps!At
  <2>1. v4[d].verified /\ v12[d] = v4[d].code
    BY <1>1, <1>3 DEF SignUps!IInv, SignUps!EveryoneWasLetIn, SignUps!CompletionsAreVerified, SignUps!At,
                      SignUps!VerifiedIsProved
  <2> QED
    BY <1>4, <2>1
<1>11. SignUps!UsersProvedTheirCode' /\ SignUps!OneUserIsAlone'
  BY <1>1, <1>4, <1>7 DEF SignUps!IInv, SignUps!SignupTypeOK, SignUps!EveryoneWasLetIn,
                          SignUps!UsersProvedTheirCode, SignUps!OneUserIsAlone
<1> QED
  BY <1>2, <1>5, <1>6, <1>8, <1>9, <1>10, <1>11 DEF SignUps!IInv, SignUps!EveryoneWasLetIn

LEMMA SignupVerify ==
    ASSUME SignUps!IInv, NEW p \in Actors, NEW e \in Things, NEW inv, NEW code \in Nat,
           SignUps!Verify(p, e, inv, code)
    PROVE  SignUps!IInv'
<1>1. SignUps!SignupTypeOK
  BY DEF SignUps!IInv
<1>2. v4[e].code # 0 /\ v5[p] = "nothing" /\ v6' = [v6 EXCEPT ![p] = e] /\ UNCHANGED <<v1, v4, v7, v13, v14>>
  BY DEF SignUps!Verify, SignUps!Begins, SignUps!adminVars
<1>3. \/ v5' = [v5 EXCEPT ![p] = "enters"] /\ v12' = [v12 EXCEPT ![e] = v4[e].code]
      \/ v5' = [v5 EXCEPT ![p] = "misses"] /\ v12' = v12
  BY DEF SignUps!Verify, SignUps!Begins
<1>4. v12' = [v12 EXCEPT ![e] = v4[e].code] => v12'[e] = v4[e].code
  BY <1>1 DEF SignUps!SignupTypeOK
<1>5. CASE v5' = [v5 EXCEPT ![p] = "enters"] /\ v12' = [v12 EXCEPT ![e] = v4[e].code]
  BY <1>2, <1>4, <1>5, SignupRequest DEF SignUps!Steps
<1>6. CASE v5' = [v5 EXCEPT ![p] = "misses"] /\ v12' = v12
  BY <1>2, <1>6, SignupRequest DEF SignUps!Steps
<1> QED
  BY <1>3, <1>5, <1>6

LEMMA SignupCompletes ==
    ASSUME SignUps!IInv, NEW p \in Actors,
           SignUps!CompleteBegins(p) \/ \E e \in Things, inv \in {"none", "old", "new"} : SignUps!CompleteAsks(p, e, inv)
    PROVE  SignUps!IInv'
<1>1. SignUps!SignupTypeOK
  BY DEF SignUps!IInv
<1>2. CASE SignUps!CompleteBegins(p)
  <2>1. /\ v5[p] = "asks" /\ v4[v6[p]].verified /\ v5' = [v5 EXCEPT ![p] = "completes"]
        /\ UNCHANGED <<v1, v4, v6, v7, v12, v13, v14>>
    BY <1>2 DEF SignUps!CompleteBegins, SignUps!adminVars
  <2>2. v6[p] \in Things /\ v6' = [v6 EXCEPT ![p] = v6[p]] /\ p \in SignUps!Asking
    BY <1>1, <2>1 DEF SignUps!SignupTypeOK, SignUps!Asking
  <2> QED
    BY <2>1, <2>2, SignupRequest DEF SignUps!Steps
<1>3. ASSUME NEW e \in Things, NEW inv \in {"none", "old", "new"}, SignUps!CompleteAsks(p, e, inv)
      PROVE  SignUps!IInv'
  <2>1. /\ v5[p] = "nothing" /\ v5' = [v5 EXCEPT ![p] = "asks"] /\ v6' = [v6 EXCEPT ![p] = e]
        /\ UNCHANGED <<v1, v4, v7, v12, v13>>
        /\ v14' = IF SignUps!Asking = {} THEN v14 ELSE v14 \cup {v6[q] : q \in SignUps!Asking} \cup {e}
        /\ v1 = "single" => v7 = {}
    BY <1>3 DEF SignUps!CompleteAsks, SignUps!Begins, SignUps!Allowed, SignUps!adminVars
  <2> QED
    BY <2>1, SignupRequest DEF SignUps!Steps
<1> QED
  BY <1>2, <1>3

\* A request that is over, with what it wrote: a row that is verified now, or one that is
\* gone with the user made.
LEMMA SignupEnds ==
    ASSUME SignUps!IInv, NEW p \in Actors, v5[p] # "nothing", SignUps!Ends(p),
           NEW new \in [code : Nat, verified : BOOLEAN, attempts : Nat, expired : BOOLEAN],
           v4' = [v4 EXCEPT ![v6[p]] = new], UNCHANGED <<v1, v12, v13, v14>>,
           \/ /\ v7' = v7 /\ new.code = v4[v6[p]].code
              /\ \/ new.verified = v4[v6[p]].verified
                 \/ v5[p] = "enters" /\ new.code # 0 /\ new.verified
           \/ /\ v5[p] = "completes" /\ v7' = v7 \cup {v6[p]}
              /\ new.code = 0 /\ ~new.verified
    PROVE  SignUps!IInv'
<1> DEFINE e == v6[p]
<1>1. SignUps!SignupTypeOK /\ SignUps!VerifiedIsProved /\ e \in Things
  BY DEF SignUps!IInv, SignUps!SignupTypeOK
<1> HIDE DEF e
<1>2. /\ v5'[p] = "nothing" /\ \A q \in Actors : q # p => v5'[q] = v5[q] /\ v6'[q] = v6[q]
      /\ \A q \in Actors : v5[q] # "nothing" => v6[q] \in Things
      /\ v4'[e] = new /\ \A d \in Things : d # e => v4'[d] = v4[d]
  BY <1>1 DEF SignUps!SignupTypeOK, SignUps!Ends, e
<1>3. SignUps!SignupTypeOK'
  <2>1. v4' \in [Things -> [code : Nat, verified : BOOLEAN, attempts : Nat, expired : BOOLEAN]]
    BY <1>1 DEF SignUps!SignupTypeOK, e
  <2>2. v5' \in [Actors -> SignUps!Steps] /\ v6' \in [Actors -> Things \cup {"none"}]
    BY <1>1 DEF SignUps!SignupTypeOK, SignUps!Ends, SignUps!Steps
  <2>3. \A q \in Actors : v5'[q] # "nothing" => v6'[q] \in Things
    BY <1>2
  <2>4. v7' \subseteq Things
    BY <1>1 DEF SignUps!SignupTypeOK, e
  <2> QED
    BY <1>1, <2>1, <2>2, <2>3, <2>4 DEF SignUps!SignupTypeOK
<1>4. SignUps!Asking' = SignUps!Asking \ {p}
  BY <1>2 DEF SignUps!Asking
<1>5. SignUps!VerifiedIsProved'
  <2>1. ASSUME NEW d \in Things, v4'[d].verified
        PROVE  v12[d] # 0 /\ v4'[d].code # 0 /\ (d \notin v13 => v12[d] = v4'[d].code)
    BY <1>1, <1>2, <2>1 DEF SignUps!VerifiedIsProved, e
  <2>2. ASSUME NEW q \in Actors, v5'[q] = "enters"
        PROVE  v12[v6'[q]] # 0 /\ (v6'[q] \notin v13 => v4'[v6'[q]].code \in {0, v12[v6'[q]]})
    BY <1>1, <1>2, <2>2 DEF SignUps!VerifiedIsProved, e
  <2> QED
    BY <2>1, <2>2 DEF SignUps!VerifiedIsProved
<1>6. SignUps!CompletesIsProved'
  BY <1>2 DEF SignUps!IInv, SignUps!CompletesIsProved
<1>7. SignUps!OverlapsAreKnown'
  <2> SUFFICES ASSUME NEW q \in SignUps!Asking', NEW r \in SignUps!Asking', q # r PROVE v6'[q] \in v14
    BY DEF SignUps!OverlapsAreKnown
  <2>1. q \in SignUps!Asking /\ r \in SignUps!Asking /\ v6'[q] = v6[q]
    BY <1>2, <1>4 DEF SignUps!Asking
  <2> QED
    BY <2>1 DEF SignUps!IInv, SignUps!OverlapsAreKnown
<1>8. SignUps!NobodyIsIn'
  <2>1. ASSUME v1 = "single", NEW q \in SignUps!Asking', NEW d \in v7' PROVE v6'[q] \in v14 /\ d \in v14
    <3>1. q \in SignUps!Asking /\ q # p /\ v6'[q] = v6[q] /\ q \in Actors
      BY <1>2, <1>4, <2>1 DEF SignUps!Asking
    <3>2. CASE d \in v7
      BY <2>1, <3>1, <3>2 DEF SignUps!IInv, SignUps!NobodyIsIn
    <3>3. CASE d \notin v7
      <4>1. p \in SignUps!Asking /\ d = v6[p]
        BY <2>1, <3>3 DEF SignUps!Asking
      <4> QED
        BY <3>1, <4>1 DEF SignUps!IInv, SignUps!OverlapsAreKnown
    <3> QED
      BY <3>2, <3>3
  <2> QED
    BY <2>1 DEF SignUps!NobodyIsIn
<1>9. SignUps!OneUserIsAlone'
  <2>1. ASSUME v1 = "single", v5[p] = "completes", NEW d \in v7 PROVE {e, d} \subseteq v14
    BY <2>1 DEF SignUps!IInv, SignUps!NobodyIsIn, SignUps!Asking, e
  <2> QED
    BY <2>1 DEF SignUps!IInv, SignUps!EveryoneWasLetIn, SignUps!OneUserIsAlone, e
<1>10. SignUps!UsersProvedTheirCode'
  BY DEF SignUps!IInv, SignUps!EveryoneWasLetIn, SignUps!UsersProvedTheirCode, SignUps!CompletesIsProved
<1>11. SignUps!CompletionsAreVerified'
  <2> SUFFICES ASSUME NEW d \in Things \ (v13 \cup v7'), NEW q \in Actors, v5'[q] = "completes", v6'[q] = d
               PROVE  v4'[d].verified /\ v12[d] = v4'[d].code
    BY DEF SignUps!CompletionsAreVerified, SignUps!At
  <2>1. v4[d].verified /\ v12[d] = v4[d].code
    BY <1>2 DEF SignUps!IInv, SignUps!EveryoneWasLetIn, SignUps!CompletionsAreVerified, SignUps!At
  <2> QED
    BY <1>2, <2>1 DEF e
<1> QED
  BY <1>3, <1>5, <1>6, <1>7, <1>8, <1>9, <1>10, <1>11 DEF SignUps!IInv, SignUps!EveryoneWasLetIn

LEMMA SignupWrites ==
    ASSUME SignUps!IInv, NEW p \in Actors,
           SignUps!Verified(p) \/ SignUps!CompleteEnds(p) \/ SignUps!CompleteFails(p)
    PROVE  SignUps!IInv'
<1> DEFINE e == v6[p]
<1>1. SignUps!SignupTypeOK /\ v5[p] # "nothing" /\ SignUps!Ends(p) /\ UNCHANGED <<v1, v12, v13, v14>>
  BY DEF SignUps!IInv, SignUps!Verified, SignUps!CompleteEnds, SignUps!CompleteFails, SignUps!Asking, SignUps!adminVars
<1>2. e \in Things /\ v4[e] \in [code : Nat, verified : BOOLEAN, attempts : Nat, expired : BOOLEAN]
  BY <1>1 DEF SignUps!SignupTypeOK
<1>3. CASE v4' = v4 /\ v7' = v7
  <2>1. v4' = [v4 EXCEPT ![e] = v4[e]]
    BY <1>1, <1>3 DEF SignUps!SignupTypeOK
  <2> QED
    BY <1>1, <1>2, <1>3, <2>1, SignupEnds
<1>4. CASE SignUps!Verified(p)
  <2>1. CASE v5[p] = "enters"
    <3> DEFINE new == [v4[e] EXCEPT !.verified = v4[e].code # 0]
    <3>1. v4' = [v4 EXCEPT ![e] = new] /\ v7' = v7
      BY <1>4, <2>1 DEF SignUps!Verified
    <3>2. /\ new \in [code : Nat, verified : BOOLEAN, attempts : Nat, expired : BOOLEAN]
          /\ new.code = v4[e].code /\ (new.verified <=> v4[e].code # 0)
      BY <1>2
    <3>3. v4[e].code = 0 => ~v4[e].verified
      BY <1>2 DEF SignUps!IInv, SignUps!VerifiedIsProved
    <3> HIDE DEF new
    <3> QED
      BY <1>1, <1>2, <2>1, <3>1, <3>2, <3>3, SignupEnds
  <2>2. CASE v5[p] = "misses"
    <3> DEFINE new == [v4[e] EXCEPT !.attempts = IF v4[e].code = 0 THEN 0 ELSE v4[e].attempts + 1]
    <3>1. v4' = [v4 EXCEPT ![e] = new] /\ v7' = v7
      BY <1>4, <2>2 DEF SignUps!Verified
    <3>2. /\ new \in [code : Nat, verified : BOOLEAN, attempts : Nat, expired : BOOLEAN]
          /\ new.code = v4[e].code /\ new.verified = v4[e].verified
      BY <1>2
    <3> HIDE DEF new
    <3> QED
      BY <1>1, <1>2, <3>1, <3>2, SignupEnds
  <2> QED
    BY <1>4, <2>1, <2>2 DEF SignUps!Verified
<1>5. CASE SignUps!CompleteEnds(p)
  <2>1. CASE e \in v7
    BY <1>3, <1>5, <2>1 DEF SignUps!CompleteEnds
  <2>2. CASE e \notin v7
    <3>1. v5[p] = "completes" /\ v4' = [v4 EXCEPT ![e] = SignUps!NoSignup] /\ v7' = v7 \cup {e}
      BY <1>5, <2>2 DEF SignUps!CompleteEnds
    <3>2. /\ SignUps!NoSignup \in [code : Nat, verified : BOOLEAN, attempts : Nat, expired : BOOLEAN]
          /\ SignUps!NoSignup.code = 0 /\ ~SignUps!NoSignup.verified
      BY DEF SignUps!NoSignup
    <3> QED
      BY <1>1, <3>1, <3>2, SignupEnds
  <2> QED
    BY <2>1, <2>2
<1>6. CASE SignUps!CompleteFails(p)
  BY <1>3, <1>6 DEF SignUps!CompleteFails
<1> QED
  BY <1>4, <1>5, <1>6

\* Keys and settings decide nothing about who was let in before.
LEMMA SignupElse ==
    ASSUME SignUps!IInv, UNCHANGED <<v1, v4, v5, v6, v7, v12, v13, v14>>
    PROVE  SignUps!IInv'
  BY DEF SignUps!IInv, SignUps!SignupTypeOK, SignUps!VerifiedIsProved, SignUps!CompletesIsProved,
         SignUps!OverlapsAreKnown, SignUps!NobodyIsIn, SignUps!Asking, SignUps!At, SignUps!UsersProvedTheirCode,
         SignUps!CompletionsAreVerified, SignUps!OneUserIsAlone, SignUps!EveryoneWasLetIn

LEMMA SignupInitially == SignUps!Init => SignUps!IInv
<1> SUFFICES ASSUME SignUps!Init PROVE SignUps!IInv
  OBVIOUS
<1>1. /\ v5 = [p \in Actors |-> "nothing"] /\ v6 = [p \in Actors |-> "none"]
      /\ v7 = {} /\ v12 = [e \in Things |-> 0] /\ v4 = [e \in Things |-> SignUps!NoSignup]
  BY DEF SignUps!Init
<1>2. SignUps!Asking = {}
  BY <1>1 DEF SignUps!Asking
<1>3. SignUps!SignupTypeOK
  BY <1>1 DEF SignUps!Init, SignUps!SignupTypeOK, SignUps!NoSignup, SignUps!Steps
<1>4. SignUps!VerifiedIsProved /\ SignUps!CompletesIsProved
  BY <1>1 DEF SignUps!VerifiedIsProved, SignUps!CompletesIsProved, SignUps!NoSignup
<1>5. SignUps!OverlapsAreKnown /\ SignUps!NobodyIsIn
  BY <1>2 DEF SignUps!OverlapsAreKnown, SignUps!NobodyIsIn
<1>6. SignUps!UsersProvedTheirCode /\ SignUps!CompletionsAreVerified
  BY <1>1 DEF SignUps!UsersProvedTheirCode, SignUps!CompletionsAreVerified, SignUps!At
<1>7. SignUps!OneUserIsAlone
  BY <1>1 DEF SignUps!OneUserIsAlone
<1> QED
  BY <1>3, <1>4, <1>5, <1>6, <1>7 DEF SignUps!IInv, SignUps!EveryoneWasLetIn

LEMMA SignupInductive == SignUps!IInv /\ (SignUps!Next \/ UNCHANGED SignUps!svars) => SignUps!IInv'
<1> SUFFICES ASSUME SignUps!IInv, SignUps!Next \/ UNCHANGED SignUps!svars PROVE SignUps!IInv'
  OBVIOUS
<1>1. CASE UNCHANGED <<v1, v4, v5, v6, v7, v12, v13, v14>>
  BY <1>1, SignupElse
<1>2. CASE UNCHANGED SignUps!svars
  BY <1>1, <1>2 DEF SignUps!svars
<1>3. ASSUME NEW p \in Actors, NEW e \in Things, NEW inv \in {"none", "old", "new"}, NEW c \in 0..MaxCodes,
             SignUps!Verify(p, e, inv, c)
      PROVE  SignUps!IInv'
  <2>1. c \in Nat
    BY PlatformAssumption, PartsAssumption
  <2> QED
    BY <1>3, <2>1, SignupVerify
<1>4. ASSUME NEW e \in Things,
             SignUps!Suspend(e) \/ SignUps!LooksForKey(e) \/ SignUps!IssuesKey(e)
             \/ SignUps!CreateKey(e) \/ SignUps!RevokeKey(e)
      PROVE  SignUps!IInv'
  BY <1>1, <1>4 DEF SignUps!Suspend, SignUps!LooksForKey, SignUps!IssuesKey, SignUps!CreateKey,
                    SignUps!RevokeKey, SignUps!adminVars, SignUps!keyVars, SignUps!requestVars
<1>5. CASE SignUps!SetRegistrations \/ SignUps!RotateInvite
  BY <1>1, <1>5 DEF SignUps!SetRegistrations, SignUps!RotateInvite, SignUps!requestVars
<1> QED
  BY <1>2, <1>3, <1>4, <1>5, SignupStart, SignupExpires, SignupCompletes, SignupWrites
     DEF SignUps!Next

-----------------------------------------------------------------------------
(* Analyses asked for. *)

\* Nobody is no user and no job.
LEMMA NobodyIsNone == Analyses!Nobody \notin Actors /\ Analyses!Nobody \notin Things
  BY PlatformAssumption, PartsAssumption DEF Analyses!Nobody


\* A start's sweep leaves what was recorded within JobTTL.
LEMMA JobStart ==
    ASSUME Analyses!IInv, NEW u \in Actors, NEW j \in Things, Analyses!Start(u, j)
    PROVE  Analyses!IInv'
<1>1. /\ v3[j] = "none" /\ v3' = [v3 EXCEPT ![j] = "gate"]
      /\ v8' = [v8 EXCEPT ![j] = u] /\ v9' = [v9 EXCEPT ![j] = "poll"] /\ v10' = [v10 EXCEPT ![j] = v1]
      /\ v2' = [k \in Things |-> IF k = j THEN [status |-> "running", user |-> u, at |-> v1]
                                 ELSE IF Analyses!Swept(k) THEN Analyses!Absent ELSE v2[k]]
      /\ UNCHANGED <<v1, v4, v5, v6, v7, v12>>
  BY DEF Analyses!Start, Analyses!Asked
<1>2. Analyses!JobsTypeOK'
  <2>1. Analyses!Absent \in Analyses!Record
    BY DEF Analyses!Absent, Analyses!Record
  <2>2. [status |-> "running", user |-> u, at |-> v1] \in Analyses!Record
    BY DEF Analyses!IInv, Analyses!JobsTypeOK, Analyses!Record
  <2> QED
    BY <1>1, <2>1, <2>2 DEF Analyses!IInv, Analyses!JobsTypeOK, Analyses!Stages
<1>3. Analyses!StagesAreInOrder'
  <2>1. \A k \in Things \ {j} : v2'[k].user \in {v2[k].user, Analyses!Nobody}
    BY <1>1 DEF Analyses!Absent
  <2> QED
    BY <1>1, <2>1 DEF Analyses!IInv, Analyses!StagesAreInOrder, Analyses!JobsTypeOK, Analyses!Stages
<1>4. Analyses!LeadersRun'
  BY <1>1
     DEF Analyses!IInv, Analyses!LeadersRun, Analyses!Leads, Analyses!StagesAreInOrder,
         Analyses!JobsTypeOK, Analyses!Stages
<1>5. Analyses!RecordsAreTheirs'
  <2>1. \A k \in Things \ {j} :
          /\ v2'[k] = v2[k] \/ (v2[k].at + JobTTL < v1 /\ v2'[k].user = Analyses!Nobody)
          /\ v3'[k] = v3[k] /\ v8'[k] = v8[k] /\ v9'[k] = v9[k] /\ v10'[k] = v10[k]
    BY <1>1 DEF Analyses!Swept, Analyses!Absent, Analyses!IInv, Analyses!JobsTypeOK
  <2>2. v2'[j] = [status |-> "running", user |-> u, at |-> v1] /\ v3'[j] = "gate" /\ v8'[j] = u
        /\ v10'[j] = v1
    BY <1>1 DEF Analyses!IInv, Analyses!JobsTypeOK
  <2>3. \A k \in Things : v10[k] \in Nat /\ v12[k] \in Nat /\ v1 \in Nat /\ JobTTL \in Nat
    BY PlatformAssumption, PartsAssumption DEF Analyses!IInv, Analyses!JobsTypeOK
  <2> SUFFICES ASSUME NEW k \in Things
      PROVE  /\ v2'[k].user \in {v8'[k], Analyses!Nobody}
             /\ v9'[k] = "poll" /\ Analyses!AtWork(k)' /\ ~Analyses!TooLong(k)' =>
                    v2'[k] = [status |-> "running", user |-> v8'[k], at |-> v10'[k]]
             /\ v9'[k] = "poll" /\ v3'[k] = "ended" /\ ~Analyses!TooLong(k)' /\ v1' <= v12'[k] + JobTTL =>
                    v2'[k] = [status |-> v4'[k], user |-> v8'[k], at |-> v12'[k]]
    BY DEF Analyses!RecordsAreTheirs
  <2>4. CASE k = j
    BY <2>2, <2>4
  <2>5. CASE k # j
    BY <1>1, <2>1, <2>3, <2>5 DEF Analyses!IInv, Analyses!RecordsAreTheirs, Analyses!AtWork, Analyses!TooLong
  <2> QED
    BY <2>4, <2>5
<1>6. Analyses!PaidAsServed'
  BY <1>1
     DEF Analyses!IInv, Analyses!PaidAsServed, Analyses!StagesAreInOrder,
         Analyses!LeadersRun, Analyses!Leads, Analyses!JobsTypeOK, Analyses!Stages
<1> QED
  BY <1>2, <1>3, <1>4, <1>5, <1>6 DEF Analyses!IInv

\* A call has a thread and no record.
LEMMA JobCall ==
    ASSUME Analyses!IInv, NEW u \in Actors, NEW j \in Things, Analyses!Calls(u, j)
    PROVE  Analyses!IInv'
<1>1. /\ v3[j] = "none" /\ v3' = [v3 EXCEPT ![j] = "gate"]
      /\ v8' = [v8 EXCEPT ![j] = u] /\ v9' = [v9 EXCEPT ![j] = "call"] /\ v10' = [v10 EXCEPT ![j] = v1]
      /\ UNCHANGED <<v1, v2, v4, v5, v6, v7, v12>>
  BY DEF Analyses!Calls, Analyses!Asked
<1>2. Analyses!JobsTypeOK'
  BY <1>1
     DEF Analyses!IInv, Analyses!JobsTypeOK, Analyses!Record, Analyses!Stages
<1>3. Analyses!StagesAreInOrder'
  BY <1>1
     DEF Analyses!IInv, Analyses!StagesAreInOrder, Analyses!JobsTypeOK, Analyses!Stages
<1>4. Analyses!LeadersRun'
  BY <1>1
     DEF Analyses!IInv, Analyses!LeadersRun, Analyses!Leads, Analyses!StagesAreInOrder,
         Analyses!JobsTypeOK, Analyses!Stages
<1>5. Analyses!RecordsAreTheirs'
  BY <1>1
     DEF Analyses!IInv, Analyses!RecordsAreTheirs, Analyses!AtWork, Analyses!TooLong,
         Analyses!StagesAreInOrder, Analyses!JobsTypeOK, Analyses!Record, Analyses!Stages
<1>6. Analyses!PaidAsServed'
  BY <1>1
     DEF Analyses!IInv, Analyses!PaidAsServed, Analyses!StagesAreInOrder,
         Analyses!LeadersRun, Analyses!Leads, Analyses!JobsTypeOK, Analyses!Stages
<1> QED
  BY <1>2, <1>3, <1>4, <1>5, <1>6 DEF Analyses!IInv

\* A page's run begins at once.
LEMMA JobStream ==
    ASSUME Analyses!IInv, NEW u \in Actors, NEW j \in Things, Analyses!Streams(u, j)
    PROVE  Analyses!IInv'
<1>1. /\ v3[j] = "none" /\ v3' = [v3 EXCEPT ![j] = "runs"]
      /\ v8' = [v8 EXCEPT ![j] = u] /\ v9' = [v9 EXCEPT ![j] = "stream"] /\ v10' = [v10 EXCEPT ![j] = v1]
      /\ UNCHANGED <<v1, v2, v4, v5, v6, v7, v12>>
  BY DEF Analyses!Streams, Analyses!Asked
<1>2. Analyses!JobsTypeOK'
  BY <1>1
     DEF Analyses!IInv, Analyses!JobsTypeOK, Analyses!Record, Analyses!Stages
<1>3. Analyses!StagesAreInOrder'
  BY <1>1
     DEF Analyses!IInv, Analyses!StagesAreInOrder, Analyses!JobsTypeOK, Analyses!Stages
<1>4. Analyses!LeadersRun'
  BY <1>1
     DEF Analyses!IInv, Analyses!LeadersRun, Analyses!Leads, Analyses!StagesAreInOrder,
         Analyses!JobsTypeOK, Analyses!Stages
<1>5. Analyses!RecordsAreTheirs'
  BY <1>1
     DEF Analyses!IInv, Analyses!RecordsAreTheirs, Analyses!AtWork, Analyses!TooLong,
         Analyses!StagesAreInOrder, Analyses!JobsTypeOK, Analyses!Record, Analyses!Stages
<1>6. Analyses!PaidAsServed'
  BY <1>1
     DEF Analyses!IInv, Analyses!PaidAsServed, Analyses!StagesAreInOrder,
         Analyses!LeadersRun, Analyses!Leads, Analyses!JobsTypeOK, Analyses!Stages
<1> QED
  BY <1>2, <1>3, <1>4, <1>5, <1>6 DEF Analyses!IInv

\* A refusal is an answer: an error that shares nothing.
LEMMA JobRefused ==
    ASSUME Analyses!IInv, NEW j \in Things, Analyses!Refused(j)
    PROVE  Analyses!IInv'
<1>1. /\ v3[j] = "gate" /\ v3' = [v3 EXCEPT ![j] = "has"] /\ v4' = [v4 EXCEPT ![j] = "error"] /\ v6' = [v6 EXCEPT ![j] = Analyses!Nobody]
      /\ UNCHANGED <<v1, v2, v5, v7, v8, v9, v10, v12>>
  BY DEF Analyses!Refused, Analyses!Has
<1>2. Analyses!JobsTypeOK'
  BY <1>1
     DEF Analyses!IInv, Analyses!JobsTypeOK, Analyses!Record, Analyses!Stages
<1>3. Analyses!StagesAreInOrder'
  BY <1>1
     DEF Analyses!IInv, Analyses!StagesAreInOrder, Analyses!JobsTypeOK, Analyses!Stages
<1>4. Analyses!LeadersRun'
  BY <1>1
     DEF Analyses!IInv, Analyses!LeadersRun, Analyses!Leads, Analyses!StagesAreInOrder,
         Analyses!JobsTypeOK, Analyses!Stages
<1>5. Analyses!RecordsAreTheirs'
  BY <1>1
     DEF Analyses!IInv, Analyses!RecordsAreTheirs, Analyses!AtWork, Analyses!TooLong,
         Analyses!StagesAreInOrder, Analyses!JobsTypeOK, Analyses!Record, Analyses!Stages
<1>6. Analyses!PaidAsServed'
  BY <1>1
     DEF Analyses!IInv, Analyses!PaidAsServed, Analyses!StagesAreInOrder,
         Analyses!LeadersRun, Analyses!Leads, Analyses!JobsTypeOK, Analyses!Stages
<1> QED
  BY <1>2, <1>3, <1>4, <1>5, <1>6 DEF Analyses!IInv

\* A shared answer is one of a run made for the same user.
LEMMA JobShares ==
    ASSUME Analyses!IInv, NEW j \in Things, NEW l \in Things,
           v3[j] \in {"gate", "waits"}, Analyses!Leads(l, v8[j]), v4[l] = "done", Analyses!Has(j, "done", l),
           UNCHANGED <<v1, v2, v5, v7, v8, v9, v10, v12>>
    PROVE  Analyses!IInv'
<1>1. v3' = [v3 EXCEPT ![j] = "has"] /\ v4' = [v4 EXCEPT ![j] = "done"] /\ v6' = [v6 EXCEPT ![j] = l] /\ l # Analyses!Nobody
  BY NobodyIsNone DEF Analyses!Has
<1>2. Analyses!JobsTypeOK'
  BY <1>1
     DEF Analyses!IInv, Analyses!JobsTypeOK, Analyses!Record, Analyses!Stages
<1>3. Analyses!StagesAreInOrder'
  BY <1>1
     DEF Analyses!IInv, Analyses!StagesAreInOrder, Analyses!JobsTypeOK, Analyses!Stages
<1>4. Analyses!LeadersRun'
  BY <1>1
     DEF Analyses!IInv, Analyses!LeadersRun, Analyses!Leads, Analyses!StagesAreInOrder,
         Analyses!JobsTypeOK, Analyses!Stages
<1>5. Analyses!RecordsAreTheirs'
  BY <1>1
     DEF Analyses!IInv, Analyses!RecordsAreTheirs, Analyses!AtWork, Analyses!TooLong,
         Analyses!StagesAreInOrder, Analyses!JobsTypeOK, Analyses!Record, Analyses!Stages
<1>6. Analyses!PaidAsServed'
  BY <1>1
     DEF Analyses!IInv, Analyses!PaidAsServed, Analyses!StagesAreInOrder,
         Analyses!LeadersRun, Analyses!Leads, Analyses!JobsTypeOK, Analyses!Stages
<1> QED
  BY <1>2, <1>3, <1>4, <1>5, <1>6 DEF Analyses!IInv

\* Whoever waits, waits for a run of the same user.
LEMMA JobWaits ==
    ASSUME Analyses!IInv, NEW j \in Things, NEW l \in Things,
           v3[j] = "gate", Analyses!Leads(l, v8[j]),
           v3' = [v3 EXCEPT ![j] = "waits"], v6' = [v6 EXCEPT ![j] = l],
           UNCHANGED <<v1, v2, v4, v5, v7, v8, v9, v10, v12>>
    PROVE  Analyses!IInv'
<1>1. l # Analyses!Nobody /\ l # j
  BY NobodyIsNone DEF Analyses!Leads
<1>2. Analyses!JobsTypeOK'
  BY <1>1
     DEF Analyses!IInv, Analyses!JobsTypeOK, Analyses!Record, Analyses!Stages
<1>3. Analyses!StagesAreInOrder'
  BY <1>1
     DEF Analyses!IInv, Analyses!StagesAreInOrder, Analyses!JobsTypeOK, Analyses!Stages
<1>4. Analyses!LeadersRun'
  BY <1>1
     DEF Analyses!IInv, Analyses!LeadersRun, Analyses!Leads, Analyses!StagesAreInOrder,
         Analyses!JobsTypeOK, Analyses!Stages
<1>5. Analyses!RecordsAreTheirs'
  BY <1>1
     DEF Analyses!IInv, Analyses!RecordsAreTheirs, Analyses!AtWork, Analyses!TooLong,
         Analyses!StagesAreInOrder, Analyses!JobsTypeOK, Analyses!Record, Analyses!Stages
<1>6. Analyses!PaidAsServed'
  BY <1>1
     DEF Analyses!IInv, Analyses!PaidAsServed, Analyses!StagesAreInOrder,
         Analyses!LeadersRun, Analyses!Leads, Analyses!JobsTypeOK, Analyses!Stages
<1> QED
  BY <1>2, <1>3, <1>4, <1>5, <1>6 DEF Analyses!IInv

\* Whoever finds nothing to share leads its user's next run, from the gate.
LEMMA JobLeads ==
    ASSUME Analyses!IInv, NEW j \in Things,
           v3[j] = "gate", v3' = [v3 EXCEPT ![j] = "runs"], v5' = [v5 EXCEPT ![v8[j]] = j],
           UNCHANGED <<v1, v2, v4, v6, v7, v8, v9, v10, v12>>
    PROVE  Analyses!IInv'
<1>1. v8[j] \in Actors /\ v9[j] # "stream"
  BY DEF Analyses!IInv, Analyses!StagesAreInOrder
<1>2. Analyses!JobsTypeOK'
  BY <1>1
     DEF Analyses!IInv, Analyses!JobsTypeOK, Analyses!Record, Analyses!Stages
<1>3. Analyses!StagesAreInOrder'
  BY <1>1
     DEF Analyses!IInv, Analyses!StagesAreInOrder, Analyses!JobsTypeOK, Analyses!Stages
<1>4. Analyses!LeadersRun'
  BY <1>1
     DEF Analyses!IInv, Analyses!LeadersRun, Analyses!Leads, Analyses!StagesAreInOrder,
         Analyses!JobsTypeOK, Analyses!Stages
<1>5. Analyses!RecordsAreTheirs'
  BY <1>1
     DEF Analyses!IInv, Analyses!RecordsAreTheirs, Analyses!AtWork, Analyses!TooLong,
         Analyses!StagesAreInOrder, Analyses!JobsTypeOK, Analyses!Record, Analyses!Stages
<1>6. Analyses!PaidAsServed'
  BY <1>1
     DEF Analyses!IInv, Analyses!PaidAsServed, Analyses!StagesAreInOrder,
         Analyses!LeadersRun, Analyses!Leads, Analyses!JobsTypeOK, Analyses!Stages
<1> QED
  BY <1>2, <1>3, <1>4, <1>5, <1>6 DEF Analyses!IInv

\* Whoever waited in vain runs for itself.
LEMMA JobRunsAlone ==
    ASSUME Analyses!IInv, NEW j \in Things,
           v3[j] = "waits", v3' = [v3 EXCEPT ![j] = "runs"], v6' = [v6 EXCEPT ![j] = Analyses!Nobody],
           UNCHANGED <<v1, v2, v4, v5, v7, v8, v9, v10, v12>>
    PROVE  Analyses!IInv'
<1>1. v4[j] = "none"
  BY DEF Analyses!IInv, Analyses!StagesAreInOrder
<1>2. Analyses!JobsTypeOK'
  BY <1>1
     DEF Analyses!IInv, Analyses!JobsTypeOK, Analyses!Record, Analyses!Stages
<1>3. Analyses!StagesAreInOrder'
  BY <1>1
     DEF Analyses!IInv, Analyses!StagesAreInOrder, Analyses!JobsTypeOK, Analyses!Stages
<1>4. Analyses!LeadersRun'
  BY <1>1
     DEF Analyses!IInv, Analyses!LeadersRun, Analyses!Leads, Analyses!StagesAreInOrder,
         Analyses!JobsTypeOK, Analyses!Stages
<1>5. Analyses!RecordsAreTheirs'
  BY <1>1
     DEF Analyses!IInv, Analyses!RecordsAreTheirs, Analyses!AtWork, Analyses!TooLong,
         Analyses!StagesAreInOrder, Analyses!JobsTypeOK, Analyses!Record, Analyses!Stages
<1>6. Analyses!PaidAsServed'
  BY <1>1
     DEF Analyses!IInv, Analyses!PaidAsServed, Analyses!StagesAreInOrder,
         Analyses!LeadersRun, Analyses!Leads, Analyses!JobsTypeOK, Analyses!Stages
<1> QED
  BY <1>2, <1>3, <1>4, <1>5, <1>6 DEF Analyses!IInv

\* A run that failed leads nobody any more.
LEMMA JobRuns ==
    ASSUME Analyses!IInv, NEW j \in Things, NEW how \in {"done", "error"}, Analyses!Runs(j, how)
    PROVE  Analyses!IInv'
<1>1. /\ v3[j] = "runs" /\ v3' = [v3 EXCEPT ![j] = "has"] /\ v4' = [v4 EXCEPT ![j] = how] /\ v6' = [v6 EXCEPT ![j] = Analyses!Nobody]
      /\ v5' = [u \in Actors |-> IF v5[u] = j /\ how = "error" THEN Analyses!Nobody ELSE v5[u]]
      /\ UNCHANGED <<v1, v2, v7, v8, v9, v10, v12>>
  BY DEF Analyses!Runs, Analyses!Has
<1>2. Analyses!JobsTypeOK'
  BY <1>1
     DEF Analyses!IInv, Analyses!JobsTypeOK, Analyses!Record, Analyses!Stages
<1>3. Analyses!StagesAreInOrder'
  BY <1>1
     DEF Analyses!IInv, Analyses!StagesAreInOrder, Analyses!JobsTypeOK, Analyses!Stages
<1>4. Analyses!LeadersRun'
  BY <1>1
     DEF Analyses!IInv, Analyses!LeadersRun, Analyses!Leads, Analyses!StagesAreInOrder,
         Analyses!JobsTypeOK, Analyses!Stages
<1>5. Analyses!RecordsAreTheirs'
  BY <1>1
     DEF Analyses!IInv, Analyses!RecordsAreTheirs, Analyses!AtWork, Analyses!TooLong,
         Analyses!StagesAreInOrder, Analyses!JobsTypeOK, Analyses!Record, Analyses!Stages
<1>6. Analyses!PaidAsServed'
  BY <1>1
     DEF Analyses!IInv, Analyses!PaidAsServed, Analyses!StagesAreInOrder,
         Analyses!LeadersRun, Analyses!Leads, Analyses!JobsTypeOK, Analyses!Stages
<1> QED
  BY <1>2, <1>3, <1>4, <1>5, <1>6 DEF Analyses!IInv

\* What has no record ends with its answer.
LEMMA JobReplies ==
    ASSUME Analyses!IInv, NEW j \in Things, Analyses!Replies(j) \/ Analyses!Told(j)
    PROVE  Analyses!IInv'
<1>1. /\ v3[j] = "has" /\ v3' = [v3 EXCEPT ![j] = "ended"] /\ v12' = [v12 EXCEPT ![j] = v1]
      /\ v7' = [v7 EXCEPT ![j] = IF v4[j] = "done" THEN IF v6[j] = Analyses!Nobody THEN "full" ELSE "share"
                                   ELSE v7[j]]
      /\ v9[j] # "poll" /\ UNCHANGED <<v1, v2, v4, v5, v6, v8, v9, v10>>
  BY DEF Analyses!Replies, Analyses!Told, Analyses!Ends, Analyses!Bill
<1>2. Analyses!JobsTypeOK'
  BY <1>1
     DEF Analyses!IInv, Analyses!JobsTypeOK, Analyses!Record, Analyses!Stages
<1>3. Analyses!StagesAreInOrder'
  BY <1>1
     DEF Analyses!IInv, Analyses!StagesAreInOrder, Analyses!JobsTypeOK, Analyses!Stages
<1>4. Analyses!LeadersRun'
  BY <1>1
     DEF Analyses!IInv, Analyses!LeadersRun, Analyses!Leads, Analyses!StagesAreInOrder,
         Analyses!JobsTypeOK, Analyses!Stages
<1>5. Analyses!RecordsAreTheirs'
  BY <1>1
     DEF Analyses!IInv, Analyses!RecordsAreTheirs, Analyses!AtWork, Analyses!TooLong,
         Analyses!StagesAreInOrder, Analyses!JobsTypeOK, Analyses!Record, Analyses!Stages
<1>6. Analyses!PaidAsServed'
  BY <1>1
     DEF Analyses!IInv, Analyses!PaidAsServed, Analyses!StagesAreInOrder,
         Analyses!LeadersRun, Analyses!Leads, Analyses!JobsTypeOK, Analyses!Stages
<1> QED
  BY <1>2, <1>3, <1>4, <1>5, <1>6 DEF Analyses!IInv

\* The record says at the end how the thread stands, and whose it was if it is still there.
LEMMA JobWork ==
    ASSUME Analyses!IInv, NEW j \in Things, Analyses!Work(j)
    PROVE  Analyses!IInv'
<1>1. /\ v3[j] = "has" /\ v3' = [v3 EXCEPT ![j] = "ended"] /\ v12' = [v12 EXCEPT ![j] = v1]
      /\ v7' = [v7 EXCEPT ![j] = IF v4[j] = "done" THEN IF v6[j] = Analyses!Nobody THEN "full" ELSE "share"
                                   ELSE v7[j]]
      /\ v2' = [v2 EXCEPT ![j] = [status |-> v4[j], user |-> v2[j].user, at |-> v1]]
      /\ UNCHANGED <<v1, v4, v5, v6, v8, v9, v10>>
  BY DEF Analyses!Work, Analyses!Ends, Analyses!Bill
<1>2. Analyses!JobsTypeOK'
  <2>1. [status |-> v4[j], user |-> v2[j].user, at |-> v1] \in Analyses!Record
    BY <1>1 DEF Analyses!IInv, Analyses!JobsTypeOK, Analyses!StagesAreInOrder, Analyses!Record
  <2> QED
    BY <1>1, <2>1 DEF Analyses!IInv, Analyses!JobsTypeOK, Analyses!Stages
<1>3. Analyses!StagesAreInOrder'
  <2>1. \A k \in Things : v2'[k].user = v2[k].user
    BY <1>1 DEF Analyses!IInv, Analyses!JobsTypeOK
  <2> QED
    BY <1>1, <2>1 DEF Analyses!IInv, Analyses!StagesAreInOrder, Analyses!JobsTypeOK, Analyses!Stages
<1>4. Analyses!LeadersRun'
  BY <1>1
     DEF Analyses!IInv, Analyses!LeadersRun, Analyses!Leads, Analyses!StagesAreInOrder,
         Analyses!JobsTypeOK, Analyses!Stages
<1>5. Analyses!RecordsAreTheirs'
  <2>1. \A k \in Things \ {j} : v2'[k] = v2[k] /\ v3'[k] = v3[k] /\ v12'[k] = v12[k]
    BY <1>1 DEF Analyses!IInv, Analyses!JobsTypeOK
  <2>2. v2'[j] = [status |-> v4[j], user |-> v2[j].user, at |-> v1] /\ v3'[j] = "ended" /\ v12'[j] = v1
    BY <1>1 DEF Analyses!IInv, Analyses!JobsTypeOK
  <2>3. v2[j].user \in {v8[j], Analyses!Nobody}
    BY DEF Analyses!IInv, Analyses!RecordsAreTheirs
  <2>6. v9[j] = "poll" /\ ~(v1 > v10[j] + JobTTL) => v2[j].user = v8[j]
    <3>1. Analyses!AtWork(j)
      BY <1>1 DEF Analyses!AtWork
    <3>2. Analyses!TooLong(j) <=> v1 > v10[j] + JobTTL
      BY <3>1 DEF Analyses!TooLong
    <3>3. v9[j] = "poll" /\ ~Analyses!TooLong(j) =>
              v2[j] = [status |-> "running", user |-> v8[j], at |-> v10[j]]
      BY <3>1 DEF Analyses!IInv, Analyses!RecordsAreTheirs
    <3> QED
      BY <3>2, <3>3
  <2> SUFFICES ASSUME NEW k \in Things
      PROVE  /\ v2'[k].user \in {v8'[k], Analyses!Nobody}
             /\ v9'[k] = "poll" /\ Analyses!AtWork(k)' /\ ~Analyses!TooLong(k)' =>
                    v2'[k] = [status |-> "running", user |-> v8'[k], at |-> v10'[k]]
             /\ v9'[k] = "poll" /\ v3'[k] = "ended" /\ ~Analyses!TooLong(k)' /\ v1' <= v12'[k] + JobTTL =>
                    v2'[k] = [status |-> v4'[k], user |-> v8'[k], at |-> v12'[k]]
    BY DEF Analyses!RecordsAreTheirs
  <2>4. CASE k = j
    BY <1>1, <2>2, <2>3, <2>4, <2>6 DEF Analyses!AtWork, Analyses!TooLong
  <2>5. CASE k # j
    BY <1>1, <2>1, <2>5 DEF Analyses!IInv, Analyses!RecordsAreTheirs, Analyses!AtWork, Analyses!TooLong
  <2> QED
    BY <2>4, <2>5
<1>6. Analyses!PaidAsServed'
  BY <1>1
     DEF Analyses!IInv, Analyses!PaidAsServed, Analyses!StagesAreInOrder,
         Analyses!LeadersRun, Analyses!Leads, Analyses!JobsTypeOK, Analyses!Stages
<1> QED
  BY <1>2, <1>3, <1>4, <1>5, <1>6 DEF Analyses!IInv

\* A restart leaves no record and no thread.
LEMMA JobRestart ==
    ASSUME Analyses!IInv, Analyses!Restart
    PROVE  Analyses!IInv'
<1>1. /\ v2' = [j \in Things |-> Analyses!Absent] /\ v5' = [u \in Actors |-> Analyses!Nobody]
      /\ v3' = [j \in Things |-> IF v3[j] = "none" THEN "none" ELSE "lost"]
      /\ UNCHANGED <<v1, v4, v6, v7, v8, v9, v10, v12>>
  BY DEF Analyses!Restart
<1>2. Analyses!JobsTypeOK'
  <2>1. Analyses!Absent \in Analyses!Record
    BY DEF Analyses!Absent, Analyses!Record
  <2> QED
    BY <1>1, <2>1 DEF Analyses!IInv, Analyses!JobsTypeOK, Analyses!Stages
<1>3. Analyses!StagesAreInOrder'
  <2>1. \A k \in Things : v2'[k].user = Analyses!Nobody
    BY <1>1 DEF Analyses!Absent
  <2> QED
    BY <1>1, <2>1 DEF Analyses!IInv, Analyses!StagesAreInOrder, Analyses!JobsTypeOK, Analyses!Stages
<1>4. Analyses!LeadersRun'
  BY <1>1
     DEF Analyses!IInv, Analyses!LeadersRun, Analyses!Leads, Analyses!StagesAreInOrder,
         Analyses!JobsTypeOK, Analyses!Stages
<1>5. Analyses!RecordsAreTheirs'
  <2>1. \A k \in Things : v2'[k].user = Analyses!Nobody /\ v3'[k] \in {"none", "lost"}
    BY <1>1 DEF Analyses!Absent
  <2> QED
    BY <2>1 DEF Analyses!RecordsAreTheirs, Analyses!AtWork
<1>6. Analyses!PaidAsServed'
  BY <1>1
     DEF Analyses!IInv, Analyses!PaidAsServed, Analyses!StagesAreInOrder,
         Analyses!LeadersRun, Analyses!Leads, Analyses!JobsTypeOK, Analyses!Stages
<1> QED
  BY <1>2, <1>3, <1>4, <1>5, <1>6 DEF Analyses!IInv

\* Time only makes records older.
LEMMA JobTick ==
    ASSUME Analyses!IInv, v1' = v1 + 1, UNCHANGED <<v2, v3, v4, v5, v6, v7, v8, v9, v10, v12>>
    PROVE  Analyses!IInv'
<1>1. v1 \in Nat /\ JobTTL \in Nat
  BY PlatformAssumption, PartsAssumption DEF Analyses!IInv, Analyses!JobsTypeOK
<1>2. Analyses!JobsTypeOK'
  BY <1>1
     DEF Analyses!IInv, Analyses!JobsTypeOK, Analyses!Record, Analyses!Stages
<1>3. Analyses!StagesAreInOrder'
  BY <1>1
     DEF Analyses!IInv, Analyses!StagesAreInOrder, Analyses!JobsTypeOK, Analyses!Stages
<1>4. Analyses!LeadersRun'
  BY <1>1
     DEF Analyses!IInv, Analyses!LeadersRun, Analyses!Leads, Analyses!StagesAreInOrder,
         Analyses!JobsTypeOK, Analyses!Stages
<1>5. Analyses!RecordsAreTheirs'
  BY <1>1
     DEF Analyses!IInv, Analyses!RecordsAreTheirs, Analyses!AtWork, Analyses!TooLong,
         Analyses!StagesAreInOrder, Analyses!JobsTypeOK, Analyses!Record, Analyses!Stages
<1>6. Analyses!PaidAsServed'
  BY <1>1
     DEF Analyses!IInv, Analyses!PaidAsServed, Analyses!StagesAreInOrder,
         Analyses!LeadersRun, Analyses!Leads, Analyses!JobsTypeOK, Analyses!Stages
<1> QED
  BY <1>2, <1>3, <1>4, <1>5, <1>6 DEF Analyses!IInv

LEMMA JobElse ==
    ASSUME Analyses!IInv, UNCHANGED Analyses!jvars
    PROVE  Analyses!IInv'
<1>1. UNCHANGED <<v1, v2, v3, v4, v5, v6, v7, v8, v9, v10, v12>>
  BY DEF Analyses!jvars
<1> QED
  BY <1>1 DEF Analyses!IInv, Analyses!JobsTypeOK, Analyses!StagesAreInOrder, Analyses!LeadersRun,
              Analyses!Leads, Analyses!RecordsAreTheirs, Analyses!AtWork, Analyses!TooLong,
              Analyses!PaidAsServed

\* acquire takes what is there, waits for it or leads.
LEMMA JobAcquires ==
    ASSUME Analyses!IInv, NEW j \in Things, Analyses!Acquires(j)
    PROVE  Analyses!IInv'
<1>1. v3[j] = "gate" /\ v8[j] \in Actors
  BY DEF Analyses!Acquires, Analyses!IInv, Analyses!StagesAreInOrder
<1>2. PICK l \in {v5[v8[j]]} :
        /\ \/ Analyses!Fresh(l) /\ Analyses!Has(j, "done", l) /\ v5' = v5
           \/ Analyses!InFlight(l) /\ v3' = [v3 EXCEPT ![j] = "waits"] /\ v6' = [v6 EXCEPT ![j] = l]
              /\ UNCHANGED <<v4, v5, v11>>
           \/ v5' = [v5 EXCEPT ![v8[j]] = j] /\ v3' = [v3 EXCEPT ![j] = "runs"]
              /\ UNCHANGED <<v4, v6, v11>>
        /\ UNCHANGED <<v1, v2, v7, v8, v9, v10, v12, v13>>
  BY DEF Analyses!Acquires
<1>3. l # Analyses!Nobody => l \in Things /\ Analyses!Leads(l, v8[j])
  BY <1>1 DEF Analyses!IInv, Analyses!JobsTypeOK, Analyses!LeadersRun
<1>4. CASE Analyses!Fresh(l) /\ Analyses!Has(j, "done", l) /\ v5' = v5
  BY <1>1, <1>2, <1>3, <1>4, JobShares DEF Analyses!Fresh
<1>5. CASE /\ Analyses!InFlight(l) /\ v3' = [v3 EXCEPT ![j] = "waits"]
           /\ v6' = [v6 EXCEPT ![j] = l] /\ UNCHANGED <<v4, v5, v11>>
  BY <1>1, <1>2, <1>3, <1>5, JobWaits DEF Analyses!InFlight
<1>6. CASE v5' = [v5 EXCEPT ![v8[j]] = j] /\ v3' = [v3 EXCEPT ![j] = "runs"] /\ UNCHANGED <<v4, v6, v11>>
  BY <1>1, <1>2, <1>6, JobLeads
<1> QED
  BY <1>2, <1>4, <1>5, <1>6

LEMMA JobWaited ==
    ASSUME Analyses!IInv, NEW j \in Things, Analyses!Waited(j)
    PROVE  Analyses!IInv'
<1> DEFINE l == v6[j]
<1>1. v3[j] = "waits" /\ UNCHANGED <<v1, v2, v5, v7, v8, v9, v10, v12>>
      /\ \/ v4[l] = "done" /\ Analyses!Has(j, "done", l)
         \/ v3' = [v3 EXCEPT ![j] = "runs"] /\ v6' = [v6 EXCEPT ![j] = Analyses!Nobody] /\ v4' = v4
  BY DEF Analyses!Waited
<1>2. l \in Things /\ Analyses!Leads(l, v8[j])
  BY <1>1 DEF Analyses!IInv, Analyses!JobsTypeOK, Analyses!LeadersRun, Analyses!StagesAreInOrder
<1> HIDE DEF l
<1>3. CASE v4[l] = "done" /\ Analyses!Has(j, "done", l)
  BY <1>1, <1>2, <1>3, JobShares
<1>4. CASE v3' = [v3 EXCEPT ![j] = "runs"] /\ v6' = [v6 EXCEPT ![j] = Analyses!Nobody] /\ v4' = v4
  BY <1>1, <1>4, JobRunsAlone
<1> QED
  BY <1>1, <1>3, <1>4

LEMMA JobInitially == Analyses!Init => Analyses!IInv
<1> SUFFICES ASSUME Analyses!Init PROVE Analyses!IInv
  OBVIOUS
<1>1. Analyses!Absent \in Analyses!Record /\ Analyses!Absent.user = Analyses!Nobody
  BY DEF Analyses!Absent, Analyses!Record
<1>2. Analyses!JobsTypeOK
  BY <1>1 DEF Analyses!Init, Analyses!JobsTypeOK, Analyses!Stages
<1>3. Analyses!StagesAreInOrder /\ Analyses!LeadersRun
  BY <1>1 DEF Analyses!Init, Analyses!StagesAreInOrder, Analyses!LeadersRun
<1>4. Analyses!RecordsAreTheirs /\ Analyses!PaidAsServed
  BY <1>1 DEF Analyses!Init, Analyses!RecordsAreTheirs, Analyses!AtWork, Analyses!PaidAsServed
<1> QED
  BY <1>2, <1>3, <1>4 DEF Analyses!IInv

LEMMA JobInductive ==
    Analyses!IInv /\ (Analyses!Next \/ UNCHANGED Analyses!jvars) => Analyses!IInv'
<1> SUFFICES ASSUME Analyses!IInv, Analyses!Next \/ UNCHANGED Analyses!jvars PROVE Analyses!IInv'
  OBVIOUS
<1>1. ASSUME Analyses!Tick PROVE Analyses!IInv'
  BY <1>1, JobTick DEF Analyses!Tick
<1> QED
  BY <1>1, JobStart, JobCall, JobStream, JobRefused, JobAcquires, JobWaited, JobRuns, JobReplies,
     JobWork, JobRestart, JobElse DEF Analyses!Next

-----------------------------------------------------------------------------
(* Alerts. *)

\* An insert begins with a time of its own.
LEMMA AlertEmitBegins ==
    ASSUME Alerts!IInv, NEW e \in Actors, NEW k \in Things, NEW b \in BOOLEAN, Alerts!EmitBegins(e, k, b)
    PROVE  Alerts!IInv'
<1>1. Alerts!AlertsTypeOK
  BY DEF Alerts!IInv
<1> DEFINE new == [key |-> k, at |-> v1 + 1, body |-> b]
<1>2. /\ v1' = v1 + 1 /\ v4' = [v4 EXCEPT ![e] = new]
      /\ UNCHANGED <<v2, v5, v6, v7, v8, v9, v10, v11, v12, v13>>
      /\ new \in [key : Things \cup {"none"}, at : Nat, body : BOOLEAN] /\ new.key = k /\ new.at = v1 + 1
  BY <1>1 DEF Alerts!EmitBegins, Alerts!Advance, Alerts!Now, Alerts!pollVars, Alerts!bellVars, Alerts!AlertsTypeOK
<1> HIDE DEF new
<1>3. Alerts!AlertsTypeOK'
  BY <1>1, <1>2
     DEF Alerts!AlertsTypeOK
<1>4. Alerts!TimesAreRead'
  BY <1>1, <1>2
     DEF Alerts!IInv, Alerts!AlertsTypeOK, Alerts!TimesAreRead, Alerts!Stored
<1>5. Alerts!ReadIsGiven'
  BY <1>1, <1>2
     DEF Alerts!IInv, Alerts!AlertsTypeOK, Alerts!TimesAreRead, Alerts!ReadIsGiven,
         Alerts!NothingIsMissed, Alerts!Stored
<1>6. Alerts!NothingIsMissed'
  BY <1>1, <1>2
     DEF Alerts!IInv, Alerts!AlertsTypeOK, Alerts!TimesAreRead, Alerts!ReadIsGiven,
         Alerts!NothingIsMissed, Alerts!Stored
<1> QED
  BY <1>3, <1>4, <1>5, <1>6 DEF Alerts!IInv

\* An insert that is committed after a poll has read, or a look began, is known to be late.
LEMMA AlertEmitEnds ==
    ASSUME Alerts!IInv, NEW e \in Actors, Alerts!EmitCommits(e) \/ Alerts!EmitFails(e)
    PROVE  Alerts!IInv'
<1>1. Alerts!AlertsTypeOK
  BY DEF Alerts!IInv
<1> DEFINE k == v4[e].key
           at == v4[e].at
<1>2. /\ at # 0 /\ v4' = [v4 EXCEPT ![e] = Alerts!NoEmit] /\ UNCHANGED <<v1, v5, v6, v7, v8, v9, v10, v11, v13>>
      /\ \/ UNCHANGED <<v2, v12>>
         \/ /\ v2[k] = 0 /\ v2' = [v2 EXCEPT ![k] = at]
            /\ v12' = IF at < v7 \/ at < v10 \/ (v6 /\ at < v5) THEN v12 \cup {k} ELSE v12
  BY DEF Alerts!EmitCommits, Alerts!EmitFails, Alerts!pollVars, Alerts!bellVars
<1>3. /\ k \in Things /\ at \in Nat /\ at <= v1 /\ at \notin {v5, v7, v10}
      /\ Alerts!NoEmit \in [key : Things \cup {"none"}, at : Nat, body : BOOLEAN] /\ Alerts!NoEmit.at = 0
  BY <1>1, <1>2 DEF Alerts!IInv, Alerts!TimesAreRead, Alerts!NoEmit, Alerts!AlertsTypeOK
<1> HIDE DEF k, at
<1>4. Alerts!AlertsTypeOK'
  BY <1>1, <1>2, <1>3
     DEF Alerts!AlertsTypeOK
<1>5. Alerts!TimesAreRead'
  BY <1>1, <1>2, <1>3
     DEF Alerts!IInv, Alerts!AlertsTypeOK, Alerts!TimesAreRead, Alerts!Stored
<1>6. Alerts!ReadIsGiven'
  BY <1>1, <1>2, <1>3
     DEF Alerts!IInv, Alerts!AlertsTypeOK, Alerts!TimesAreRead, Alerts!ReadIsGiven,
         Alerts!NothingIsMissed, Alerts!Stored
<1>7. Alerts!NothingIsMissed'
  BY <1>1, <1>2, <1>3
     DEF Alerts!IInv, Alerts!AlertsTypeOK, Alerts!TimesAreRead, Alerts!ReadIsGiven,
         Alerts!NothingIsMissed, Alerts!Stored
<1> QED
  BY <1>4, <1>5, <1>6, <1>7 DEF Alerts!IInv

\* With a row goes what anybody recorded of it.
LEMMA AlertPrune ==
    ASSUME Alerts!IInv, NEW k \in Things, Alerts!Prune(k)
    PROVE  Alerts!IInv'
<1>1. Alerts!AlertsTypeOK
  BY DEF Alerts!IInv
<1>2. /\ v2' = [v2 EXCEPT ![k] = 0] /\ v12' = v12 \ {k} /\ v13' = v13 \ {k} /\ v8' = v8 \ {k}
      /\ v9' = v9 \ {k} /\ v11' = v11 \ {k} /\ UNCHANGED <<v1, v4, v5, v6, v7, v10>>
  BY DEF Alerts!Prune
<1>3. Alerts!AlertsTypeOK'
  BY <1>1, <1>2
     DEF Alerts!AlertsTypeOK
<1>4. Alerts!TimesAreRead'
  BY <1>1, <1>2
     DEF Alerts!IInv, Alerts!AlertsTypeOK, Alerts!TimesAreRead, Alerts!Stored
<1>5. Alerts!ReadIsGiven'
  BY <1>1, <1>2
     DEF Alerts!IInv, Alerts!AlertsTypeOK, Alerts!TimesAreRead, Alerts!ReadIsGiven,
         Alerts!NothingIsMissed, Alerts!Stored
<1>6. Alerts!NothingIsMissed'
  BY <1>1, <1>2
     DEF Alerts!IInv, Alerts!AlertsTypeOK, Alerts!TimesAreRead, Alerts!ReadIsGiven,
         Alerts!NothingIsMissed, Alerts!Stored
<1> QED
  BY <1>3, <1>4, <1>5, <1>6 DEF Alerts!IInv

\* A poll begins with a time of its own.
LEMMA AlertPollBegins ==
    ASSUME Alerts!IInv, Alerts!PollBegins
    PROVE  Alerts!IInv'
<1>1. Alerts!AlertsTypeOK
  BY DEF Alerts!IInv
<1>2. /\ v5 = 0 /\ v1' = v1 + 1 /\ v5' = v1 + 1 /\ UNCHANGED <<v2, v4, v6, v7, v8, v9, v10, v11, v12, v13>>
  BY DEF Alerts!PollBegins, Alerts!Advance, Alerts!Now, Alerts!bellVars
<1>3. Alerts!AlertsTypeOK'
  BY <1>1, <1>2
     DEF Alerts!AlertsTypeOK
<1>4. Alerts!TimesAreRead'
  BY <1>1, <1>2
     DEF Alerts!IInv, Alerts!AlertsTypeOK, Alerts!TimesAreRead, Alerts!Stored
<1>5. Alerts!ReadIsGiven'
  BY <1>1, <1>2
     DEF Alerts!IInv, Alerts!AlertsTypeOK, Alerts!TimesAreRead, Alerts!ReadIsGiven,
         Alerts!NothingIsMissed, Alerts!Stored
<1>6. Alerts!NothingIsMissed'
  BY <1>1, <1>2
     DEF Alerts!IInv, Alerts!AlertsTypeOK, Alerts!TimesAreRead, Alerts!ReadIsGiven,
         Alerts!NothingIsMissed, Alerts!Stored
<1> QED
  BY <1>3, <1>4, <1>5, <1>6 DEF Alerts!IInv

\* What a poll reads is given, or known to have been left out of a full answer.
LEMMA AlertPollReads ==
    ASSUME Alerts!IInv, Alerts!PollReads
    PROVE  Alerts!IInv'
<1>1. Alerts!AlertsTypeOK
  BY DEF Alerts!IInv
<1> DEFINE fresh == {k \in Alerts!Stored : v2[k] > v7}
<1>2. /\ v5 # 0 /\ v6' = TRUE /\ v8' = v8 \cup Alerts!Newest(fresh)
      /\ v13' = v13 \cup (fresh \ Alerts!Newest(fresh))
      /\ UNCHANGED <<v1, v2, v4, v5, v7, v9, v10, v11, v12>>
  BY DEF Alerts!PollReads, Alerts!bellVars
<1>3. Alerts!AlertsTypeOK'
  BY <1>1, <1>2
     DEF Alerts!AlertsTypeOK
<1>4. Alerts!TimesAreRead'
  BY <1>1, <1>2
     DEF Alerts!IInv, Alerts!AlertsTypeOK, Alerts!TimesAreRead, Alerts!Stored
<1>5. Alerts!ReadIsGiven'
  BY <1>1, <1>2
     DEF Alerts!IInv, Alerts!AlertsTypeOK, Alerts!TimesAreRead, Alerts!ReadIsGiven,
         Alerts!NothingIsMissed, Alerts!Stored
<1>6. Alerts!NothingIsMissed'
  BY <1>1, <1>2
     DEF Alerts!IInv, Alerts!AlertsTypeOK, Alerts!TimesAreRead, Alerts!ReadIsGiven,
         Alerts!NothingIsMissed, Alerts!Stored
<1> QED
  BY <1>3, <1>4, <1>5, <1>6 DEF Alerts!IInv

\* The watermark is the time the poll began.
LEMMA AlertPollAnswers ==
    ASSUME Alerts!IInv, Alerts!PollAnswers
    PROVE  Alerts!IInv'
<1>1. Alerts!AlertsTypeOK
  BY DEF Alerts!IInv
<1>2. /\ v6 /\ v7' = v5 /\ v5' = 0 /\ v6' = FALSE /\ UNCHANGED <<v1, v2, v4, v8, v9, v10, v11, v12, v13>>
  BY DEF Alerts!PollAnswers, Alerts!Watermark, Alerts!bellVars
<1>3. Alerts!AlertsTypeOK'
  BY <1>1, <1>2
     DEF Alerts!AlertsTypeOK
<1>4. Alerts!TimesAreRead'
  BY <1>1, <1>2
     DEF Alerts!IInv, Alerts!AlertsTypeOK, Alerts!TimesAreRead, Alerts!Stored
<1>5. Alerts!ReadIsGiven'
  BY <1>1, <1>2
     DEF Alerts!IInv, Alerts!AlertsTypeOK, Alerts!TimesAreRead, Alerts!ReadIsGiven,
         Alerts!NothingIsMissed, Alerts!Stored
<1>6. Alerts!NothingIsMissed'
  BY <1>1, <1>2
     DEF Alerts!IInv, Alerts!AlertsTypeOK, Alerts!TimesAreRead, Alerts!ReadIsGiven,
         Alerts!NothingIsMissed, Alerts!Stored
<1> QED
  BY <1>3, <1>4, <1>5, <1>6 DEF Alerts!IInv

\* A look lists more.
LEMMA AlertLook ==
    ASSUME Alerts!IInv, Alerts!Look
    PROVE  Alerts!IInv'
<1>1. Alerts!AlertsTypeOK
  BY DEF Alerts!IInv
<1>2. /\ v9 \subseteq v9' /\ v13 \subseteq v13' /\ UNCHANGED <<v1, v2, v4, v5, v6, v7, v8, v10, v11, v12>>
  BY DEF Alerts!Look, Alerts!pollVars
<1>3. Alerts!AlertsTypeOK'
  BY <1>1, <1>2
     DEF Alerts!AlertsTypeOK
<1>4. Alerts!TimesAreRead'
  BY <1>1, <1>2
     DEF Alerts!IInv, Alerts!AlertsTypeOK, Alerts!TimesAreRead, Alerts!Stored
<1>5. Alerts!ReadIsGiven'
  BY <1>1, <1>2
     DEF Alerts!IInv, Alerts!AlertsTypeOK, Alerts!TimesAreRead, Alerts!ReadIsGiven,
         Alerts!NothingIsMissed, Alerts!Stored
<1>6. Alerts!NothingIsMissed'
  BY <1>1, <1>2
     DEF Alerts!IInv, Alerts!AlertsTypeOK, Alerts!TimesAreRead, Alerts!ReadIsGiven,
         Alerts!NothingIsMissed, Alerts!Stored
<1> QED
  BY <1>3, <1>4, <1>5, <1>6 DEF Alerts!IInv

\* What is marked as seen was listed, or is known to have come between.
LEMMA AlertMarkSeen ==
    ASSUME Alerts!IInv, Alerts!MarkSeen
    PROVE  Alerts!IInv'
<1>1. Alerts!AlertsTypeOK
  BY DEF Alerts!IInv
<1>2. /\ v1' = v1 + 1 /\ v10' = v1 + 1 /\ v12' = v12 \cup (Alerts!Stored \ v9)
      /\ UNCHANGED <<v2, v4, v5, v6, v7, v8, v9, v11, v13>>
  BY DEF Alerts!MarkSeen, Alerts!Advance, Alerts!Now, Alerts!pollVars
<1>3. Alerts!AlertsTypeOK'
  BY <1>1, <1>2
     DEF Alerts!AlertsTypeOK
<1>4. Alerts!TimesAreRead'
  BY <1>1, <1>2
     DEF Alerts!IInv, Alerts!AlertsTypeOK, Alerts!TimesAreRead, Alerts!Stored
<1>5. Alerts!ReadIsGiven'
  BY <1>1, <1>2
     DEF Alerts!IInv, Alerts!AlertsTypeOK, Alerts!TimesAreRead, Alerts!ReadIsGiven,
         Alerts!NothingIsMissed, Alerts!Stored
<1>6. Alerts!NothingIsMissed'
  BY <1>1, <1>2
     DEF Alerts!IInv, Alerts!AlertsTypeOK, Alerts!TimesAreRead, Alerts!ReadIsGiven,
         Alerts!NothingIsMissed, Alerts!Stored
<1> QED
  BY <1>3, <1>4, <1>5, <1>6 DEF Alerts!IInv

\* What is dismissed was dismissed.
LEMMA AlertElse ==
    ASSUME Alerts!IInv, v11 \subseteq v11', UNCHANGED <<v1, v2, v4, v5, v6, v7, v8, v9, v10, v12, v13>>
    PROVE  Alerts!IInv'
<1>1. Alerts!AlertsTypeOK
  BY DEF Alerts!IInv
<1>2. v1 \in Nat
  BY <1>1 DEF Alerts!AlertsTypeOK
<1>3. Alerts!AlertsTypeOK'
  BY <1>1, <1>2
     DEF Alerts!AlertsTypeOK
<1>4. Alerts!TimesAreRead'
  BY <1>1, <1>2
     DEF Alerts!IInv, Alerts!AlertsTypeOK, Alerts!TimesAreRead, Alerts!Stored
<1>5. Alerts!ReadIsGiven'
  BY <1>1, <1>2
     DEF Alerts!IInv, Alerts!AlertsTypeOK, Alerts!TimesAreRead, Alerts!ReadIsGiven,
         Alerts!NothingIsMissed, Alerts!Stored
<1>6. Alerts!NothingIsMissed'
  BY <1>1, <1>2
     DEF Alerts!IInv, Alerts!AlertsTypeOK, Alerts!TimesAreRead, Alerts!ReadIsGiven,
         Alerts!NothingIsMissed, Alerts!Stored
<1> QED
  BY <1>3, <1>4, <1>5, <1>6 DEF Alerts!IInv

LEMMA AlertInitially == Alerts!Init => Alerts!IInv
<1> SUFFICES ASSUME Alerts!Init PROVE Alerts!IInv
  OBVIOUS
<1>1. /\ Alerts!NoEmit \in [key : Things \cup {"none"}, at : Nat, body : BOOLEAN] /\ Alerts!NoEmit.at = 0
  BY DEF Alerts!NoEmit
<1>2. Alerts!Stored = {} /\ Alerts!AlertsTypeOK
  BY <1>1 DEF Alerts!Init, Alerts!Stored, Alerts!AlertsTypeOK
<1>3. Alerts!TimesAreRead
  BY <1>1, <1>2 DEF Alerts!Init, Alerts!TimesAreRead
<1> QED
  BY <1>2, <1>3 DEF Alerts!IInv, Alerts!ReadIsGiven, Alerts!NothingIsMissed

LEMMA AlertInductive ==
    Alerts!IInv /\ (Alerts!Next \/ UNCHANGED Alerts!avars) => Alerts!IInv'
<1> SUFFICES ASSUME Alerts!IInv, Alerts!Next \/ UNCHANGED Alerts!avars PROVE Alerts!IInv'
  OBVIOUS
<1>1. CASE UNCHANGED Alerts!avars
  BY <1>1, AlertElse DEF Alerts!avars
<1>2. ASSUME NEW ks \in SUBSET Things, Alerts!Dismiss(ks) PROVE Alerts!IInv'
  BY <1>2, AlertElse DEF Alerts!Dismiss, Alerts!pollVars
<1> QED
  BY <1>1, <1>2, AlertEmitBegins, AlertEmitEnds, AlertPrune, AlertPollBegins, AlertPollReads,
     AlertPollAnswers, AlertLook, AlertMarkSeen DEF Alerts!Next

-----------------------------------------------------------------------------
(* The profit monitor. *)

\* A share of at most the whole is no more than the whole.
LEMMA ShareIsLess ==
    ASSUME NEW base \in Int, base > 0, NEW p \in Nat, p <= 100
    PROVE  (base * p) \div 100 <= base
<1>1. PICK d \in Nat : d = 100 - p
  OBVIOUS
<1>2. base * d >= 0
  BY <1>1
<1>3. base * p = base * 100 - base * d
  BY <1>1
<1> DEFINE x == base * p
<1>4. x \in Int /\ x <= base * 100
  BY <1>2, <1>3
<1> HIDE DEF x
<1>5. x \div 100 <= base
  BY <1>4
<1> QED
  BY <1>5 DEF x

\* What a thread holds, once it is over, decides its line for good.
LEMMA MonitorStays ==
    ASSUME Monitor!IInv, UNCHANGED <<v1, v3, v4, v6, v8>>, v5' \in Int
    PROVE  Monitor!IInv'
  BY DEF Monitor!IInv, Monitor!MonitorTypeOK, Monitor!StartsFindNone, Monitor!ClosersAreOver,
         Monitor!MonitorIsSeen, Monitor!RunningIsAlive, Monitor!ClosedAtTheLine, Monitor!Through,
         Monitor!Alive, Monitor!Threshold, Monitor!Base

\* A start past the check, with another already past it, is known to overlap.
LEMMA MonitorAsks ==
    ASSUME Monitor!IInv, NEW s \in Things, Monitor!Asks(s)
    PROVE  Monitor!IInv'
<1>1. /\ ~v1 /\ v3' = [v3 EXCEPT ![s] = "through"] /\ v8' = (v8 \/ Monitor!Through # {})
      /\ UNCHANGED <<v1, v4, v5, v6>>
  BY DEF Monitor!Asks
<1>2. Monitor!MonitorTypeOK
  BY DEF Monitor!IInv
<1>3. Monitor!MonitorTypeOK'
  BY <1>1, <1>2 DEF Monitor!MonitorTypeOK
<1>4. Monitor!Through' \subseteq Monitor!Through \cup {s}
  BY <1>1, <1>2 DEF Monitor!MonitorTypeOK, Monitor!Through
<1>5. Monitor!StartsFindNone'
  BY <1>1, <1>4 DEF Monitor!IInv, Monitor!StartsFindNone
<1>6. Monitor!ClosersAreOver' /\ Monitor!MonitorIsSeen'
  BY <1>1 DEF Monitor!IInv, Monitor!ClosersAreOver, Monitor!MonitorIsSeen, Monitor!RunningIsAlive,
              Monitor!ClosedAtTheLine, Monitor!Alive, Monitor!Threshold, Monitor!Base
<1> QED
  BY <1>3, <1>5, <1>6 DEF Monitor!IInv

\* A thread's record replaced by another, when it had closed nothing, changes nobody's line.
LEMMA LinesStay ==
    ASSUME Monitor!IInv, NEW t \in Actors, v4[t].at # "over", NEW new, v4' = [v4 EXCEPT ![t] = new]
    PROVE  \A u \in v6 : /\ v4'[u].at = "over" /\ v4'[u].cur <= Monitor!Threshold(u)'
                         /\ v4'[u].percent <= 100 => v4'[u].cur <= Monitor!Base(u)'
<1>1. \A u \in v6 : v4'[u] = v4[u] /\ v4[u].at = "over"
  BY DEF Monitor!IInv, Monitor!MonitorTypeOK, Monitor!ClosersAreOver
<1> QED
  BY <1>1 DEF Monitor!IInv, Monitor!MonitorIsSeen, Monitor!ClosedAtTheLine, Monitor!Threshold, Monitor!Base

\* The state is replaced and the one thread starts; none was alive.
LEMMA MonitorStarts ==
    ASSUME Monitor!IInv, NEW s \in Things, NEW t \in Actors, NEW p \in Percents,
           NEW r \in {"peak", "start"}, Monitor!Starts(s, t, p, r)
    PROVE  Monitor!IInv'
<1> DEFINE new == [at |-> "arm", percent |-> p, ref |-> r, start |-> 0, peak |-> 0, cur |-> 0]
<1>1. /\ v3[s] = "through" /\ v4[t].at = "none" /\ v3' = [v3 EXCEPT ![s] = "idle"] /\ v1' = TRUE
      /\ v4' = [v4 EXCEPT ![t] = new] /\ UNCHANGED <<v5, v6, v8>>
  BY DEF Monitor!Starts
<1>2. Monitor!MonitorTypeOK
  BY DEF Monitor!IInv
<1>3. new.at = "arm" /\ new \in [at : {"none", "arm", "poll", "judge", "over"}, percent : Nat,
                                 ref : {"peak", "start"}, start : Int, peak : Int, cur : Int]
  <2>1. p \in Nat
    BY PlatformAssumption, PartsAssumption
  <2> QED
    BY <2>1
<1> HIDE DEF new
<1>4. Monitor!MonitorTypeOK'
  BY <1>1, <1>2, <1>3 DEF Monitor!MonitorTypeOK
<1>5. s \in Monitor!Through /\ Monitor!Through' = Monitor!Through \ {s}
  BY <1>1, <1>2 DEF Monitor!MonitorTypeOK, Monitor!Through
<1>6. Monitor!StartsFindNone'
  BY <1>1, <1>5 DEF Monitor!IInv, Monitor!StartsFindNone
<1>7. Monitor!Alive' = Monitor!Alive \cup {t}
  BY <1>1, <1>2, <1>3 DEF Monitor!MonitorTypeOK, Monitor!Alive
<1>8. Monitor!RunningIsAlive'
  BY <1>1, <1>5, <1>7 DEF Monitor!IInv, Monitor!MonitorIsSeen, Monitor!StartsFindNone, Monitor!RunningIsAlive
<1>9. Monitor!ClosersAreOver' /\ Monitor!ClosedAtTheLine'
  BY <1>1, LinesStay DEF Monitor!ClosersAreOver, Monitor!ClosedAtTheLine
<1> QED
  BY <1>4, <1>6, <1>8, <1>9 DEF Monitor!IInv, Monitor!MonitorIsSeen

\* A thread at work goes on.
LEMMA MonitorGoesOn ==
    ASSUME Monitor!IInv, NEW t \in Actors, v4[t].at \in {"arm", "poll", "judge"},
           NEW new \in [at : {"poll", "judge"}, percent : Nat, ref : {"peak", "start"},
                        start : Int, peak : Int, cur : Int],
           v4' = [v4 EXCEPT ![t] = new], UNCHANGED <<v1, v3, v5, v6, v8>>
    PROVE  Monitor!IInv'
<1>1. Monitor!MonitorTypeOK
  BY DEF Monitor!IInv
<1>2. Monitor!MonitorTypeOK'
  BY <1>1 DEF Monitor!MonitorTypeOK
<1>3. Monitor!Alive' = Monitor!Alive
  BY <1>1 DEF Monitor!MonitorTypeOK, Monitor!Alive
<1>4. Monitor!StartsFindNone'
  BY DEF Monitor!IInv, Monitor!StartsFindNone, Monitor!Through
<1>5. Monitor!RunningIsAlive'
  BY <1>3 DEF Monitor!IInv, Monitor!MonitorIsSeen, Monitor!RunningIsAlive
<1>6. Monitor!ClosersAreOver' /\ Monitor!ClosedAtTheLine'
  BY LinesStay DEF Monitor!ClosersAreOver, Monitor!ClosedAtTheLine
<1> QED
  BY <1>2, <1>4, <1>5, <1>6 DEF Monitor!IInv, Monitor!MonitorIsSeen

\* A thread that ends was the only one, unless starts overlapped; it closed everything only
\* at its line.
LEMMA MonitorEnds ==
    ASSUME Monitor!IInv, NEW t \in Actors, v4[t].at \in {"arm", "poll", "judge"}, Monitor!Over(t),
           \/ v6' = v6
           \/ v6' = v6 \cup {t} /\ Monitor!Base(t) > 0 /\ v4[t].cur <= Monitor!Threshold(t),
           UNCHANGED <<v3, v5, v8>>
    PROVE  Monitor!IInv'
<1> DEFINE new == [v4[t] EXCEPT !.at = "over"]
<1>1. Monitor!MonitorTypeOK
  BY DEF Monitor!IInv
<1>2. v1' = FALSE /\ v4' = [v4 EXCEPT ![t] = new]
  BY <1>1 DEF Monitor!Over, Monitor!MonitorTypeOK
<1>3. /\ new \in [at : {"none", "arm", "poll", "judge", "over"}, percent : Nat,
                  ref : {"peak", "start"}, start : Int, peak : Int, cur : Int]
      /\ new.at = "over" /\ new.percent = v4[t].percent /\ new.ref = v4[t].ref
      /\ new.start = v4[t].start /\ new.peak = v4[t].peak /\ new.cur = v4[t].cur
  BY <1>1 DEF Monitor!MonitorTypeOK
<1> HIDE DEF new
<1>4. Monitor!MonitorTypeOK'
  BY <1>1, <1>2, <1>3 DEF Monitor!MonitorTypeOK
<1>5. Monitor!StartsFindNone'
  BY <1>2 DEF Monitor!IInv, Monitor!StartsFindNone, Monitor!Through
<1>6. t \in Monitor!Alive /\ Monitor!Alive' = Monitor!Alive \ {t}
  BY <1>1, <1>2, <1>3 DEF Monitor!MonitorTypeOK, Monitor!Alive
<1>7. Monitor!RunningIsAlive'
  BY <1>2, <1>6 DEF Monitor!IInv, Monitor!MonitorIsSeen, Monitor!RunningIsAlive
<1>8. v4'[t] = new /\ v4[t].percent \in Nat /\ Monitor!Base(t) \in Int
  BY <1>1, <1>2 DEF Monitor!MonitorTypeOK, Monitor!Base
<1>9. Monitor!Base(t)' = Monitor!Base(t) /\ Monitor!Threshold(t)' = Monitor!Threshold(t)
  BY <1>3, <1>8 DEF Monitor!Base, Monitor!Threshold
<1>10. Monitor!Base(t) > 0 /\ v4[t].percent <= 100 => Monitor!Threshold(t) <= Monitor!Base(t)
  <2> SUFFICES ASSUME Monitor!Base(t) > 0, v4[t].percent <= 100
      PROVE  Monitor!Threshold(t) <= Monitor!Base(t)
    OBVIOUS
  <2> DEFINE base == Monitor!Base(t)
             percent == v4[t].percent
  <2>1. Monitor!Threshold(t) = IF percent > 1 THEN (base * percent) \div 100 ELSE base * percent
    BY DEF Monitor!Threshold, Monitor!Base
  <2>2. base \in Int /\ base > 0 /\ percent \in Nat /\ percent <= 100
    BY <1>8
  <2> HIDE DEF base, percent
  <2>3. (base * percent) \div 100 <= base
    BY <2>2, ShareIsLess
  <2>4. percent <= 1 => percent \in {0, 1}
    BY <2>2
  <2>5. base * 0 <= base /\ base * 1 <= base
    BY <2>2
  <2>6. CASE percent > 1
    BY <2>1, <2>3, <2>6 DEF base
  <2>7. CASE percent = 0
    BY <2>1, <2>5, <2>7 DEF base
  <2>8. CASE percent = 1
    BY <2>1, <2>5, <2>8 DEF base
  <2> QED
    BY <2>2, <2>4, <2>6, <2>7, <2>8
<1>11. Monitor!Base(t) > 0 /\ v4[t].cur <= Monitor!Threshold(t) =>
           /\ v4'[t].cur <= Monitor!Threshold(t)'
           /\ v4'[t].percent <= 100 => v4'[t].cur <= Monitor!Base(t)'
  <2>1. v4'[t].cur = v4[t].cur /\ v4'[t].percent = v4[t].percent
    BY <1>3, <1>8
  <2>2. v4[t].cur \in Int /\ Monitor!Base(t) \in Int /\ Monitor!Threshold(t) \in Int
    BY <1>1, <1>8 DEF Monitor!MonitorTypeOK, Monitor!Threshold, Monitor!Base
  <2> QED
    BY <1>9, <1>10, <2>1, <2>2
<1>12. \A u \in v6 : /\ v4'[u].at = "over" /\ v4'[u].cur <= Monitor!Threshold(u)'
                     /\ v4'[u].percent <= 100 => v4'[u].cur <= Monitor!Base(u)'
  BY <1>2, LinesStay
<1>13. Monitor!ClosersAreOver' /\ Monitor!ClosedAtTheLine'
  BY <1>3, <1>8, <1>11, <1>12 DEF Monitor!ClosersAreOver, Monitor!ClosedAtTheLine
<1> QED
  BY <1>4, <1>5, <1>7, <1>13 DEF Monitor!IInv, Monitor!MonitorIsSeen

\* The loop's steps.
LEMMA MonitorLoops ==
    ASSUME Monitor!IInv, NEW t \in Actors,
           Monitor!Dies(t) \/ Monitor!Arms(t) \/ Monitor!Polls(t) \/ Monitor!Judges(t)
    PROVE  Monitor!IInv'
<1>1. Monitor!MonitorTypeOK
  BY DEF Monitor!IInv
<1> DEFINE W == [at : {"poll", "judge"}, percent : Nat, ref : {"peak", "start"},
                 start : Int, peak : Int, cur : Int]
<1>2. v4[t] \in [at : {"none", "arm", "poll", "judge", "over"}, percent : Nat,
                 ref : {"peak", "start"}, start : Int, peak : Int, cur : Int] /\ v5 \in Int
  BY <1>1 DEF Monitor!MonitorTypeOK
<1>3. CASE Monitor!Dies(t)
  BY <1>3, MonitorEnds DEF Monitor!Dies
<1>4. CASE Monitor!Arms(t)
  <2>1. [v4[t] EXCEPT !.at = "poll", !.start = v5, !.peak = v5] \in W
    BY <1>2
  <2> QED
    BY <1>4, <2>1, MonitorGoesOn DEF Monitor!Arms
<1>5. CASE Monitor!Polls(t) /\ v2
  BY <1>5, MonitorEnds DEF Monitor!Polls
<1>6. CASE Monitor!Polls(t) /\ ~v2
  <2> DEFINE new == [v4[t] EXCEPT !.at = "judge", !.cur = v5,
                                  !.peak = IF v5 > v4[t].peak THEN v5 ELSE v4[t].peak]
  <2>1. new \in W
    BY <1>2
  <2>2. v4[t].at = "poll" /\ v4' = [v4 EXCEPT ![t] = new] /\ UNCHANGED <<v1, v3, v5, v6, v8>>
    BY <1>6 DEF Monitor!Polls
  <2> HIDE DEF new
  <2> QED
    BY <2>1, <2>2, MonitorGoesOn
<1>7. CASE Monitor!Judges(t) /\ Monitor!Base(t) > 0 /\ v4[t].cur <= Monitor!Threshold(t)
  BY <1>7, MonitorEnds DEF Monitor!Judges
<1>8. CASE Monitor!Judges(t) /\ ~(Monitor!Base(t) > 0 /\ v4[t].cur <= Monitor!Threshold(t))
  <2> DEFINE new == [v4[t] EXCEPT !.at = "poll"]
  <2>1. new \in W
    BY <1>2
  <2>2. v4[t].at = "judge" /\ v4' = [v4 EXCEPT ![t] = new] /\ UNCHANGED <<v1, v3, v5, v6, v8>>
    BY <1>8 DEF Monitor!Judges
  <2> HIDE DEF new
  <2> QED
    BY <2>1, <2>2, MonitorGoesOn
<1> QED
  BY <1>3, <1>4, <1>5, <1>6, <1>7, <1>8

LEMMA MonitorInitially == Monitor!Init => Monitor!IInv
<1> SUFFICES ASSUME Monitor!Init PROVE Monitor!IInv
  OBVIOUS
<1>1. Monitor!NoWatch.at = "none"
      /\ Monitor!NoWatch \in [at : {"none", "arm", "poll", "judge", "over"}, percent : Nat,
                              ref : {"peak", "start"}, start : Int, peak : Int, cur : Int]
  BY DEF Monitor!NoWatch
<1>2. Monitor!MonitorTypeOK
  BY <1>1, PlatformAssumption, PartsAssumption DEF Monitor!Init, Monitor!MonitorTypeOK
<1>3. Monitor!Through = {} /\ Monitor!Alive = {}
  BY <1>1 DEF Monitor!Init, Monitor!Through, Monitor!Alive
<1> QED
  BY <1>2, <1>3 DEF Monitor!IInv, Monitor!Init, Monitor!StartsFindNone, Monitor!ClosersAreOver,
                    Monitor!MonitorIsSeen, Monitor!RunningIsAlive, Monitor!ClosedAtTheLine

LEMMA MonitorInductive ==
    Monitor!IInv /\ (Monitor!Next \/ UNCHANGED Monitor!monVars) => Monitor!IInv'
<1> SUFFICES ASSUME Monitor!IInv, Monitor!Next \/ UNCHANGED Monitor!monVars PROVE Monitor!IInv'
  OBVIOUS
<1>1. v5 \in Int
  BY DEF Monitor!IInv, Monitor!MonitorTypeOK
<1>2. CASE UNCHANGED Monitor!monVars
  BY <1>1, <1>2, MonitorStays DEF Monitor!monVars
<1>3. CASE Monitor!Stop
  BY <1>1, <1>3, MonitorStays DEF Monitor!Stop
<1>4. ASSUME NEW p \in Profits, Monitor!ProfitMoves(p) PROVE Monitor!IInv'
  BY <1>4, MonitorStays, PlatformAssumption, PartsAssumption DEF Monitor!ProfitMoves
<1> QED
  BY <1>2, <1>3, <1>4, MonitorAsks, MonitorStarts, MonitorLoops DEF Monitor!Next

-----------------------------------------------------------------------------
(* The live pages. *)

\* No connection is called none.
LEMMA NoneIsNoConnection == Streams!None \notin Actors
  BY PlatformAssumption, PartsAssumption DEF Streams!None

\* A new page has its poller; of an account's pollers the one before is told to stop.
LEMMA StreamOpens ==
    ASSUME Streams!IInv, NEW c \in Actors, NEW kind \in {"positions", "ticks"},
           Streams!Opened(c, kind), v4' = (v4 \ {c}) \cup (IF kind = "positions" THEN {v3} \cap Actors ELSE {}),
           v3' = IF kind = "positions" THEN c ELSE v3
    PROVE  Streams!IInv'
<1>1. Streams!TypeOK
  BY DEF Streams!IInv, Streams!StreamsHold
<1> DEFINE new == [Streams!NoPoll EXCEPT !.at = "starts"]
<1>2. /\ v1[c] = "none" /\ ~Streams!Alive(c) /\ v1' = [v1 EXCEPT ![c] = "open"] /\ v2' = [v2 EXCEPT ![c] = kind]
      /\ v5' = [v5 EXCEPT ![c] = new] /\ v6' = [v6 EXCEPT ![c] = "nothing"] /\ v8' = [v8 EXCEPT ![c] = 0]
      /\ v7' = v7
      /\ new.at = "starts" /\ new.fails = 0
      /\ new \in [at : {"starts", "checks", "calls", "waits", "ended"}, fails : 0..Patience, until : Nat]
  BY PlatformAssumption, PartsAssumption DEF Streams!Opened, Streams!NoPoll
<1> HIDE DEF new
<1>3. Streams!TypeOK'
  BY <1>1, <1>2, NoneIsNoConnection, PlatformAssumption, PartsAssumption
     DEF Streams!TypeOK
<1>4. Streams!OnePoller'
  BY <1>1, <1>2, NoneIsNoConnection, PlatformAssumption, PartsAssumption
     DEF Streams!IInv, Streams!StreamsHold, Streams!TypeOK, Streams!OnePoller,
         Streams!Alive, Streams!None
<1>5. Streams!PollersHavePages'
  BY <1>1, <1>2, NoneIsNoConnection, PlatformAssumption, PartsAssumption
     DEF Streams!IInv, Streams!StreamsHold, Streams!TypeOK, Streams!PollersHavePages,
         Streams!Alive, Streams!EntryIsOpen, Streams!OnePoller
<1>6. Streams!ErrorsLast'
  BY <1>1, <1>2, NoneIsNoConnection, PlatformAssumption, PartsAssumption
     DEF Streams!IInv, Streams!StreamsHold, Streams!TypeOK, Streams!ErrorsLast,
         Streams!Alive, Streams!CountsAreTrue
<1>7. Streams!EntryIsOpen'
  BY <1>1, <1>2, NoneIsNoConnection, PlatformAssumption, PartsAssumption
     DEF Streams!IInv, Streams!StreamsHold, Streams!TypeOK, Streams!EntryIsOpen,
         Streams!None
<1>8. Streams!CountsAreTrue'
  BY <1>1, <1>2, NoneIsNoConnection, PlatformAssumption, PartsAssumption
     DEF Streams!IInv, Streams!StreamsHold, Streams!TypeOK, Streams!CountsAreTrue
<1> QED
  BY <1>3, <1>4, <1>5, <1>6, <1>7, <1>8 DEF Streams!IInv, Streams!StreamsHold

\* A browser leaves.
LEMMA StreamLeaves ==
    ASSUME Streams!IInv, NEW c \in Actors, Streams!Leaves(c)
    PROVE  Streams!IInv'
<1>1. Streams!TypeOK
  BY DEF Streams!IInv, Streams!StreamsHold
<1>2. /\ v1' = [v1 EXCEPT ![c] = "left"] /\ UNCHANGED <<v2, v3, v4, v5, v6, v7, v8>>
  BY DEF Streams!Leaves
<1>3. Streams!TypeOK'
  BY <1>1, <1>2
     DEF Streams!TypeOK
<1>4. Streams!OnePoller'
  BY <1>1, <1>2
     DEF Streams!IInv, Streams!StreamsHold, Streams!TypeOK, Streams!OnePoller,
         Streams!Alive, Streams!None
<1>5. Streams!PollersHavePages'
  BY <1>1, <1>2
     DEF Streams!IInv, Streams!StreamsHold, Streams!TypeOK, Streams!PollersHavePages,
         Streams!Alive, Streams!EntryIsOpen, Streams!OnePoller
<1>6. Streams!ErrorsLast'
  BY <1>1, <1>2
     DEF Streams!IInv, Streams!StreamsHold, Streams!TypeOK, Streams!ErrorsLast,
         Streams!Alive, Streams!CountsAreTrue
<1>7. Streams!EntryIsOpen'
  BY <1>1, <1>2
     DEF Streams!IInv, Streams!StreamsHold, Streams!TypeOK, Streams!EntryIsOpen,
         Streams!None
<1>8. Streams!CountsAreTrue'
  BY <1>1, <1>2
     DEF Streams!IInv, Streams!StreamsHold, Streams!TypeOK, Streams!CountsAreTrue
<1> QED
  BY <1>3, <1>4, <1>5, <1>6, <1>7, <1>8 DEF Streams!IInv, Streams!StreamsHold

\* The handler takes its own entry along, and tells its poller.
LEMMA StreamNotices ==
    ASSUME Streams!IInv, NEW c \in Actors, Streams!Notices(c)
    PROVE  Streams!IInv'
<1>1. Streams!TypeOK
  BY DEF Streams!IInv, Streams!StreamsHold
<1>2. /\ v1' = [v1 EXCEPT ![c] = "none"] /\ v4' = v4 \cup {c} /\ v3' = IF v3 = c THEN Streams!None ELSE v3
      /\ v6' = [v6 EXCEPT ![c] = "nothing"] /\ UNCHANGED <<v2, v5, v7, v8>>
  BY DEF Streams!Notices, Streams!Given
<1>3. Streams!TypeOK'
  BY <1>1, <1>2, NoneIsNoConnection
     DEF Streams!TypeOK
<1>4. Streams!OnePoller'
  BY <1>1, <1>2, NoneIsNoConnection
     DEF Streams!IInv, Streams!StreamsHold, Streams!TypeOK, Streams!OnePoller,
         Streams!Alive, Streams!None
<1>5. Streams!PollersHavePages'
  BY <1>1, <1>2, NoneIsNoConnection
     DEF Streams!IInv, Streams!StreamsHold, Streams!TypeOK, Streams!PollersHavePages,
         Streams!Alive, Streams!EntryIsOpen, Streams!OnePoller
<1>6. Streams!ErrorsLast'
  BY <1>1, <1>2, NoneIsNoConnection
     DEF Streams!IInv, Streams!StreamsHold, Streams!TypeOK, Streams!ErrorsLast,
         Streams!Alive, Streams!CountsAreTrue
<1>7. Streams!EntryIsOpen'
  BY <1>1, <1>2, NoneIsNoConnection
     DEF Streams!IInv, Streams!StreamsHold, Streams!TypeOK, Streams!EntryIsOpen,
         Streams!None
<1>8. Streams!CountsAreTrue'
  BY <1>1, <1>2, NoneIsNoConnection
     DEF Streams!IInv, Streams!StreamsHold, Streams!TypeOK, Streams!CountsAreTrue
<1> QED
  BY <1>3, <1>4, <1>5, <1>6, <1>7, <1>8 DEF Streams!IInv, Streams!StreamsHold

\* A poller that goes from one statement to the next.
LEMMA StreamMoves ==
    ASSUME Streams!IInv, NEW c \in Actors, NEW at \in {"checks", "calls"}, v5[c].at # "ended",
           NEW until \in Nat, v5' = [v5 EXCEPT ![c] = [at |-> at, fails |-> v5[c].fails, until |-> until]],
           UNCHANGED <<v1, v2, v3, v4, v6, v7, v8>>
    PROVE  Streams!IInv'
<1>1. Streams!TypeOK
  BY DEF Streams!IInv, Streams!StreamsHold
<1>2. v5[c].fails \in 0..Patience
  BY <1>1 DEF Streams!TypeOK
<1>3. Streams!TypeOK'
  BY <1>1, <1>2
     DEF Streams!TypeOK
<1>4. Streams!OnePoller'
  BY <1>1, <1>2
     DEF Streams!IInv, Streams!StreamsHold, Streams!TypeOK, Streams!OnePoller,
         Streams!Alive, Streams!None
<1>5. Streams!PollersHavePages'
  BY <1>1, <1>2
     DEF Streams!IInv, Streams!StreamsHold, Streams!TypeOK, Streams!PollersHavePages,
         Streams!Alive, Streams!EntryIsOpen, Streams!OnePoller
<1>6. Streams!ErrorsLast'
  BY <1>1, <1>2
     DEF Streams!IInv, Streams!StreamsHold, Streams!TypeOK, Streams!ErrorsLast,
         Streams!Alive, Streams!CountsAreTrue
<1>7. Streams!EntryIsOpen'
  BY <1>1, <1>2
     DEF Streams!IInv, Streams!StreamsHold, Streams!TypeOK, Streams!EntryIsOpen,
         Streams!None
<1>8. Streams!CountsAreTrue'
  BY <1>1, <1>2
     DEF Streams!IInv, Streams!StreamsHold, Streams!TypeOK, Streams!CountsAreTrue
<1> QED
  BY <1>3, <1>4, <1>5, <1>6, <1>7, <1>8 DEF Streams!IInv, Streams!StreamsHold

\* A poller ends when it was told to, or has told its page that there is none.
LEMMA StreamEnds ==
    ASSUME Streams!IInv, NEW c \in Actors,
           v5' = [v5 EXCEPT ![c] = [at |-> "ended", fails |-> v5[c].fails, until |-> v5[c].until]],
           (c \in v4 /\ v6' = v6) \/ Streams!Shows(c, "error"), UNCHANGED <<v1, v2, v3, v4, v7, v8>>
    PROVE  Streams!IInv'
<1>1. Streams!TypeOK
  BY DEF Streams!IInv, Streams!StreamsHold
<1>2. /\ v5[c].fails \in 0..Patience /\ v5[c].until \in Nat
      /\ v6' \in {v6, [v6 EXCEPT ![c] = IF v1[c] = "open" THEN "error" ELSE v6[c]]}
      /\ v1[c] = "open" => (c \in v4 \/ v6'[c] = "error")
  BY <1>1 DEF Streams!TypeOK, Streams!Shows
<1>3. Streams!TypeOK'
  BY <1>1, <1>2
     DEF Streams!TypeOK
<1>4. Streams!OnePoller'
  BY <1>1, <1>2
     DEF Streams!IInv, Streams!StreamsHold, Streams!TypeOK, Streams!OnePoller,
         Streams!Alive, Streams!None
<1>5. Streams!PollersHavePages'
  BY <1>1, <1>2
     DEF Streams!IInv, Streams!StreamsHold, Streams!TypeOK, Streams!PollersHavePages,
         Streams!Alive, Streams!EntryIsOpen, Streams!OnePoller
<1>6. Streams!ErrorsLast'
  BY <1>1, <1>2
     DEF Streams!IInv, Streams!StreamsHold, Streams!TypeOK, Streams!ErrorsLast,
         Streams!Alive, Streams!CountsAreTrue
<1>7. Streams!EntryIsOpen'
  BY <1>1, <1>2
     DEF Streams!IInv, Streams!StreamsHold, Streams!TypeOK, Streams!EntryIsOpen,
         Streams!None
<1>8. Streams!CountsAreTrue'
  BY <1>1, <1>2
     DEF Streams!IInv, Streams!StreamsHold, Streams!TypeOK, Streams!CountsAreTrue
<1> QED
  BY <1>3, <1>4, <1>5, <1>6, <1>7, <1>8 DEF Streams!IInv, Streams!StreamsHold

\* A call to the broker is over; a page shows an error only when enough failed in a row.
LEMMA StreamAnswered ==
    ASSUME Streams!IInv, NEW c \in Actors, v5[c].at = "calls", NEW f \in 0..Patience,
           NEW until \in Nat, v5' = [v5 EXCEPT ![c] = [at |-> "waits", fails |-> f, until |-> until]],
           NEW n \in 0..Patience, v8' = [v8 EXCEPT ![c] = n], f <= n,
           NEW what \in {"nothing", "snapshot", "error"}, v6' = [v6 EXCEPT ![c] = what],
           v1[c] = "open" /\ what = "error" => n = Patience, UNCHANGED <<v1, v2, v3, v4, v7>>
    PROVE  Streams!IInv'
<1>1. Streams!TypeOK
  BY DEF Streams!IInv, Streams!StreamsHold
<1>2. Streams!Alive(c) /\ Streams!Alive(c)'
  BY <1>1 DEF Streams!TypeOK, Streams!Alive
<1>3. Streams!TypeOK'
  BY <1>1, <1>2
     DEF Streams!TypeOK
<1>4. Streams!OnePoller'
  BY <1>1, <1>2
     DEF Streams!IInv, Streams!StreamsHold, Streams!TypeOK, Streams!OnePoller,
         Streams!Alive, Streams!None
<1>5. Streams!PollersHavePages'
  BY <1>1, <1>2
     DEF Streams!IInv, Streams!StreamsHold, Streams!TypeOK, Streams!PollersHavePages,
         Streams!Alive, Streams!EntryIsOpen, Streams!OnePoller
<1>6. Streams!ErrorsLast'
  BY <1>1, <1>2
     DEF Streams!IInv, Streams!StreamsHold, Streams!TypeOK, Streams!ErrorsLast,
         Streams!Alive, Streams!CountsAreTrue
<1>7. Streams!EntryIsOpen'
  BY <1>1, <1>2
     DEF Streams!IInv, Streams!StreamsHold, Streams!TypeOK, Streams!EntryIsOpen,
         Streams!None
<1>8. Streams!CountsAreTrue'
  BY <1>1, <1>2
     DEF Streams!IInv, Streams!StreamsHold, Streams!TypeOK, Streams!CountsAreTrue
<1> QED
  BY <1>3, <1>4, <1>5, <1>6, <1>7, <1>8 DEF Streams!IInv, Streams!StreamsHold

LEMMA StreamElse ==
    ASSUME Streams!IInv, UNCHANGED <<v1, v2, v3, v4, v5, v6, v8>>, v7' \in Nat
    PROVE  Streams!IInv'
  BY DEF Streams!IInv, Streams!StreamsHold, Streams!TypeOK, Streams!OnePoller, Streams!PollersHavePages,
         Streams!ErrorsLast, Streams!Alive, Streams!EntryIsOpen, Streams!CountsAreTrue

\* What a thread holds beside what an assignment changes stays.
LEMMA PollFields ==
    ASSUME NEW P \in [at : {"starts", "checks", "calls", "waits", "ended"}, fails : 0..Patience, until : Nat],
           NEW at \in {"starts", "checks", "calls", "waits", "ended"}
    PROVE  /\ [P EXCEPT !.at = at] = [at |-> at, fails |-> P.fails, until |-> P.until]
           /\ [P EXCEPT !.at = at, !.until = 0] = [at |-> at, fails |-> P.fails, until |-> 0]
<1>1. P = [at |-> P.at, fails |-> P.fails, until |-> P.until]
  OBVIOUS
<1>2. [P EXCEPT !.at = at] = [at |-> at, fails |-> P.fails, until |-> P.until]
  BY <1>1
<1> DEFINE Q == [P EXCEPT !.at = at, !.until = 0]
<1>3. /\ Q \in [at : {"starts", "checks", "calls", "waits", "ended"}, fails : 0..Patience, until : Nat]
      /\ Q.at = at /\ Q.fails = P.fails /\ Q.until = 0
  OBVIOUS
<1> HIDE DEF Q
<1>4. Q = [at |-> Q.at, fails |-> Q.fails, until |-> Q.until]
  BY <1>3
<1>5. Q = [at |-> at, fails |-> P.fails, until |-> 0]
  BY <1>3, <1>4
<1> QED
  BY <1>2, <1>5 DEF Q

\* A thread's steps.
LEMMA StreamThread ==
    ASSUME Streams!IInv, NEW c \in Actors,
           \/ \E ok \in BOOLEAN : Streams!Starts(c, ok)
           \/ Streams!Checks(c) \/ Streams!Hears(c) \/ Streams!Misses(c) \/ Streams!MissesTick(c)
           \/ Streams!Limited(c) \/ Streams!Wakes(c)
    PROVE  Streams!IInv'
<1> DEFINE Poll == [at : {"starts", "checks", "calls", "waits", "ended"}, fails : 0..Patience, until : Nat]
           P == v5[c]
<1>1. /\ Streams!TypeOK /\ v5[c] \in Poll /\ v8[c] \in 0..Patience /\ v7 \in Nat
      /\ v6[c] \in {"nothing", "snapshot", "error"} /\ P.fails <= v8[c] /\ Patience \in Nat
      /\ v8 \in [Actors -> 0..Patience] /\ v6 \in [Actors -> {"nothing", "snapshot", "error"}]
      /\ v5 \in [Actors -> Poll]
  BY PlatformAssumption, PartsAssumption DEF Streams!IInv, Streams!StreamsHold, Streams!TypeOK, Streams!CountsAreTrue
<1>2. P.fails \in 0..Patience /\ P.until \in Nat
  BY <1>1
<1>3. \A at \in {"checks", "calls", "ended"} :
          [v5 EXCEPT ![c].at = at] = [v5 EXCEPT ![c] = [at |-> at, fails |-> P.fails, until |-> P.until]]
  <2> SUFFICES ASSUME NEW at \in {"checks", "calls", "ended"}
      PROVE  [v5 EXCEPT ![c].at = at] = [v5 EXCEPT ![c] = [at |-> at, fails |-> P.fails, until |-> P.until]]
    OBVIOUS
  <2>1. [v5 EXCEPT ![c].at = at] = [v5 EXCEPT ![c] = [P EXCEPT !.at = at]]
    BY <1>1
  <2>2. at \in {"starts", "checks", "calls", "waits", "ended"}
    BY SMTT(40)
  <2>3. [P EXCEPT !.at = at] = [at |-> at, fails |-> P.fails, until |-> P.until]
    BY <1>1, <2>2, PollFields
  <2> QED
    BY <2>1, <2>3
<1>4. [v5 EXCEPT ![c].at = "checks", ![c].until = 0]
          = [v5 EXCEPT ![c] = [at |-> "checks", fails |-> P.fails, until |-> 0]]
  <2>1. [v5 EXCEPT ![c].at = "checks", ![c].until = 0] = [v5 EXCEPT ![c] = [P EXCEPT !.at = "checks", !.until = 0]]
    BY <1>1
  <2> QED
    BY <1>1, <2>1, PollFields
<1>5. v6 = [v6 EXCEPT ![c] = v6[c]] /\ v8 = [v8 EXCEPT ![c] = v8[c]]
  BY <1>1
<1>6. ASSUME NEW ok \in BOOLEAN, Streams!Starts(c, ok) PROVE Streams!IInv'
  <2>1. CASE ok
    BY <1>1, <1>2, <1>3, <1>6, <2>1, StreamMoves DEF Streams!Starts
  <2>2. CASE ~ok
    BY <1>1, <1>2, <1>3, <1>6, <2>2, StreamEnds DEF Streams!Starts
  <2> QED
    BY <2>1, <2>2
<1>7. CASE Streams!Checks(c)
  <2>1. CASE c \in v4
    BY <1>1, <1>2, <1>3, <1>7, <2>1, StreamEnds DEF Streams!Checks
  <2>2. CASE c \notin v4
    BY <1>1, <1>2, <1>3, <1>7, <2>2, StreamMoves DEF Streams!Checks
  <2> QED
    BY <2>1, <2>2
<1>8. CASE Streams!Hears(c)
  <2>1. v7 + Refresh \in Nat /\ 0 \in 0..Patience
    BY <1>1, PlatformAssumption, PartsAssumption
  <2>2. PICK what \in {"nothing", "snapshot", "error"} :
          v6' = [v6 EXCEPT ![c] = what] /\ (v1[c] = "open" => what = "snapshot")
    BY <1>1, <1>8 DEF Streams!Hears, Streams!Shows
  <2>3. /\ v5[c].at = "calls" /\ v5' = [v5 EXCEPT ![c] = [at |-> "waits", fails |-> 0, until |-> v7 + Refresh]]
        /\ v8' = [v8 EXCEPT ![c] = 0] /\ UNCHANGED <<v1, v2, v3, v4, v7>>
    BY <1>8 DEF Streams!Hears, Streams!Served, Streams!Waits
  <2>4. v1[c] = "open" /\ what = "error" => 0 = Patience
    BY <2>2
  <2>5. 0 <= 0
    OBVIOUS
  <2> QED
    BY <2>1, <2>2, <2>3, <2>4, <2>5, StreamAnswered
<1>9. ASSUME Streams!Missed(c)
      PROVE  \E n \in 0..Patience : /\ v8' = [v8 EXCEPT ![c] = n] /\ v8[c] <= n
                                    /\ v8[c] < Patience => n = v8[c] + 1
                                    /\ v8[c] = Patience => n = Patience
  <2> DEFINE n == IF v8[c] < Patience THEN v8[c] + 1 ELSE v8[c]
  <2>1. n \in 0..Patience /\ v8[c] <= n /\ (v8[c] < Patience => n = v8[c] + 1)
        /\ (v8[c] = Patience => n = Patience)
    BY <1>1
  <2>2. v8' = [v8 EXCEPT ![c] = n]
    BY <1>9 DEF Streams!Missed
  <2> HIDE DEF n
  <2> QED
    BY <2>1, <2>2
<1>10. CASE Streams!MissesTick(c)
  <2>1. PICK n \in 0..Patience : v8' = [v8 EXCEPT ![c] = n]
    BY <1>9, <1>10 DEF Streams!MissesTick
  <2>2. v7 + Refresh \in Nat /\ 0 \in 0..Patience /\ 0 <= n
    BY <1>1, PlatformAssumption, PartsAssumption
  <2>3. CASE v1[c] = "open" /\ v6[c] = "error"
    <3>1. v8[c] = Patience
      BY <1>10, <2>3 DEF Streams!IInv, Streams!StreamsHold, Streams!ErrorsLast, Streams!Alive,
                         Streams!MissesTick, Streams!Missed
    <3>2. PICK m \in 0..Patience : v8' = [v8 EXCEPT ![c] = m] /\ m = Patience
      BY <1>9, <1>10, <3>1 DEF Streams!MissesTick
    <3>3. 0 <= m
      OBVIOUS
    <3> QED
      BY <1>1, <1>5, <1>10, <2>2, <3>2, <3>3, StreamAnswered
         DEF Streams!MissesTick, Streams!Missed, Streams!Waits
  <2> QED
    BY <1>1, <1>5, <1>10, <2>1, <2>2, <2>3, StreamAnswered
       DEF Streams!MissesTick, Streams!Missed, Streams!Waits
<1>11. CASE Streams!Misses(c)
  <2> DEFINE f == IF P.fails < Patience THEN P.fails + 1 ELSE Patience
  <2>1. PICK n \in 0..Patience : /\ v8' = [v8 EXCEPT ![c] = n] /\ v8[c] <= n
                                 /\ v8[c] < Patience => n = v8[c] + 1
                                 /\ v8[c] = Patience => n = Patience
    BY <1>9, <1>11 DEF Streams!Misses
  <2>2. f \in 0..Patience /\ f <= n /\ (f >= Patience => n = Patience)
    BY <1>1, <1>2, <2>1
  <2>3. /\ v5' = [v5 EXCEPT ![c] = [at |-> "waits", fails |-> f, until |-> v7 + Refresh * f]]
        /\ IF f >= Patience THEN Streams!Shows(c, "error") ELSE v6' = v6
        /\ v5[c].at = "calls" /\ UNCHANGED <<v1, v2, v3, v4, v7, v9>>
    BY <1>11 DEF Streams!Misses, Streams!Missed, Streams!Waits
  <2> HIDE DEF f
  <2>4. Refresh * f \in Nat
    BY <2>2, PlatformAssumption, PartsAssumption
  <2>5. v7 + Refresh * f \in Nat
    BY <1>1, <2>4
  <2>6. PICK what \in {"nothing", "snapshot", "error"} :
          v6' = [v6 EXCEPT ![c] = what] /\ (what = "error" => f >= Patience \/ what = v6[c])
    BY <1>1, <1>5, <2>3 DEF Streams!Shows
  <2>7. v1[c] = "open" /\ what = "error" => n = Patience
    <3>1. v1[c] = "open" /\ v6[c] = "error" => v8[c] = Patience
      BY <2>3 DEF Streams!IInv, Streams!StreamsHold, Streams!ErrorsLast, Streams!Alive
    <3> QED
      BY <2>1, <2>2, <2>6, <3>1
  <2> QED
    BY <2>1, <2>2, <2>3, <2>5, <2>6, <2>7, StreamAnswered
<1>12. CASE Streams!Limited(c)
  <2>1. v7 + Pause \in Nat
    BY <1>1, PlatformAssumption, PartsAssumption
  <2>2. v1[c] = "open" /\ v6[c] = "error" => v8[c] = Patience
    BY <1>12 DEF Streams!IInv, Streams!StreamsHold, Streams!ErrorsLast, Streams!Alive, Streams!Limited
  <2> QED
    BY ZenonT(60), <1>1, <1>2, <1>5, <1>12, <2>1, <2>2, StreamAnswered DEF Streams!Limited, Streams!Waits
<1>13. CASE Streams!Wakes(c)
  BY <1>1, <1>2, <1>4, <1>13, StreamMoves DEF Streams!Wakes
<1> QED
  BY <1>6, <1>7, <1>8, <1>10, <1>11, <1>12, <1>13

LEMMA StreamInitially == Streams!Init => Streams!IInv
<1> SUFFICES ASSUME Streams!Init PROVE Streams!IInv
  OBVIOUS
<1>1. Streams!NoPoll.at = "ended" /\ Streams!NoPoll.fails = 0
      /\ Streams!NoPoll \in [at : {"starts", "checks", "calls", "waits", "ended"},
                             fails : 0..Patience, until : Nat]
  BY PlatformAssumption, PartsAssumption DEF Streams!NoPoll
<1>2. 0 \in 0..Patience
  BY PlatformAssumption, PartsAssumption
<1>3. Streams!TypeOK
  BY <1>1, <1>2 DEF Streams!Init, Streams!TypeOK
<1> QED
  BY <1>1, <1>3 DEF Streams!Init, Streams!IInv, Streams!StreamsHold, Streams!OnePoller,
     Streams!PollersHavePages, Streams!ErrorsLast, Streams!Alive, Streams!EntryIsOpen, Streams!CountsAreTrue

LEMMA StreamInductive ==
    Streams!IInv /\ (Streams!Next \/ UNCHANGED Streams!streamVars) => Streams!IInv'
<1> SUFFICES ASSUME Streams!IInv, Streams!Next \/ UNCHANGED Streams!streamVars PROVE Streams!IInv'
  OBVIOUS
<1>1. v7 \in Nat
  BY DEF Streams!IInv, Streams!StreamsHold, Streams!TypeOK
<1>2. CASE UNCHANGED Streams!streamVars
  BY <1>1, <1>2, StreamElse DEF Streams!streamVars
<1>3. CASE Streams!Ticks
  BY <1>1, <1>3, StreamElse DEF Streams!Ticks
<1>4. ASSUME NEW c \in Actors, Streams!Opens(c) PROVE Streams!IInv'
  BY <1>4, StreamOpens DEF Streams!Opens
<1>5. ASSUME NEW c \in Actors, Streams!OpensTicks(c) PROVE Streams!IInv'
  BY <1>5, StreamOpens DEF Streams!OpensTicks
<1> QED
  BY <1>2, <1>3, <1>4, <1>5, StreamLeaves, StreamNotices, StreamThread DEF Streams!Next

-----------------------------------------------------------------------------
(* Orders and positions. *)

LEMMA OrderConstants ==
    /\ Orders!NoPos \in Orders!Position /\ Orders!NoPos.entry = 0 /\ Orders!NoPos.tp = 0
    /\ Orders!Closed \in Orders!Position /\ Orders!Closed.entry = -1
    /\ Orders!NoPos # Orders!Closed
    /\ Orders!NoPass \in Orders!Pass /\ Orders!NoPass.kind = "none" /\ Orders!NoPass.todo = {}
    /\ Orders!NoPass.quote = 0
    /\ Orders!Nothing.what = "none"
    /\ Orders!Nothing \in Orders!Report
<1>1. Orders!NoPos \in Orders!Position /\ Orders!NoPos.entry = 0 /\ Orders!NoPos.tp = 0
      /\ Orders!Closed \in Orders!Position /\ Orders!Closed.entry = -1
  BY DEF Orders!NoPos, Orders!Closed, Orders!Position
<1>2. Orders!NoPass \in Orders!Pass /\ Orders!NoPass.kind = "none" /\ Orders!NoPass.todo = {}
      /\ Orders!NoPass.quote = 0
  <2>1. [i \in Things |-> Orders!NoPos] \in [Things -> Orders!Position]
    BY <1>1
  <2> QED
    BY <2>1 DEF Orders!NoPass, Orders!Placing, Orders!Pass
<1>3. Orders!Nothing.what = "none"
      /\ Orders!Nothing \in Orders!Report
  BY DEF Orders!Nothing, Orders!Report
<1>4. Orders!NoPos # Orders!Closed
  BY <1>1
<1> QED
  BY <1>1, <1>2, <1>3, <1>4

\* A pass that begins without a position of its own forgets what the one before it reported.
LEMMA OrderBegins ==
    ASSUME Orders!IInv, NEW c \in Actors, v4[c].kind = "none",
           NEW new \in Orders!Pass, new.kind \in {"bulk", "pending", "cancel"},
           new.kind = "pending" => new.quote # 0, new.kind # "cancel" => new.todo = {},
           v4' = [v4 EXCEPT ![c] = new], v5' = [v5 EXCEPT ![c] = [i \in Things |-> Orders!Nothing]],
           UNCHANGED <<v1, v2, v3, v7, v8>>
    PROVE  Orders!IInv'
<1>1. Orders!OrdersTypeOK
  BY DEF Orders!IInv
<1>2. Orders!OrdersTypeOK'
  BY <1>1, OrderConstants DEF Orders!OrdersTypeOK
<1>3. \A d \in Actors \ {c} : v4'[d] = v4[d] /\ v5'[d] = v5[d]
  BY <1>1 DEF Orders!OrdersTypeOK
<1>4. v4'[c] = new /\ \A i \in Things : v5'[c][i].what = "none"
  BY <1>1, OrderConstants DEF Orders!OrdersTypeOK
<1>5. Orders!BookIsSound'
  BY <1>3, <1>4 DEF Orders!IInv, Orders!BookIsSound, Orders!Running, Orders!Kinds, Orders!Open
<1>6. Orders!HeldIsListed'
  BY <1>3, <1>4 DEF Orders!IInv, Orders!HeldIsListed, Orders!Running, Orders!Holds, Orders!Kinds, Orders!Open
<1>7. Orders!ToldIsOfSome'
  BY <1>3, <1>4 DEF Orders!IInv, Orders!ToldIsOfSome
<1>8. Orders!ReportsAreTrue'
  BY <1>3, <1>4 DEF Orders!IInv, Orders!ReportsAreTrue, Orders!Open
<1> QED
  BY <1>2, <1>5, <1>6, <1>7, <1>8 DEF Orders!IInv

\* A pass over the open positions knows them as they are, and is known to cross another.
LEMMA OrderLists ==
    ASSUME Orders!IInv, NEW c \in Actors, v4[c].kind = "none",
           NEW new \in Orders!Pass, new.list = v1, new.todo \subseteq Orders!Open, new.left >= 0,
           v8' = v8 \cup {i \in new.todo : \E d \in Actors : Orders!Holds(d, i)},
           v4' = [v4 EXCEPT ![c] = new], v5' = [v5 EXCEPT ![c] = [i \in Things |-> Orders!Nothing]],
           new.kind \in Orders!Kinds, UNCHANGED <<v1, v2, v3, v7>>
    PROVE  Orders!IInv'
<1>1. Orders!OrdersTypeOK
  BY DEF Orders!IInv
<1>2. Orders!OrdersTypeOK'
  BY <1>1, OrderConstants DEF Orders!OrdersTypeOK
<1>3. \A d \in Actors \ {c} : v4'[d] = v4[d] /\ v5'[d] = v5[d]
  BY <1>1 DEF Orders!OrdersTypeOK
<1>4. v4'[c] = new /\ \A i \in Things : v5'[c][i].what = "none"
  BY <1>1, OrderConstants DEF Orders!OrdersTypeOK
<1>5. Orders!BookIsSound'
  BY <1>3, <1>4 DEF Orders!IInv, Orders!BookIsSound, Orders!Running, Orders!Open, Orders!Kinds
<1>6. Orders!HeldIsListed'
  <2>1. \A i \in new.todo : i \in Orders!Open /\ v1[i] # Orders!NoPos
    BY OrderConstants DEF Orders!Open
  <2>2. \A d \in Actors \ {c}, i \in new.todo \ v8' : ~(i \in v4[d].todo)
    BY DEF Orders!Holds
  <2> QED
    BY <1>3, <1>4, <2>1, <2>2
       DEF Orders!IInv, Orders!HeldIsListed, Orders!Running, Orders!Holds, Orders!Open
<1>7. Orders!ToldIsOfSome'
  BY <1>3, <1>4 DEF Orders!IInv, Orders!ToldIsOfSome
<1>8. Orders!ReportsAreTrue'
  BY <1>3, <1>4 DEF Orders!IInv, Orders!ReportsAreTrue, Orders!Open
<1> QED
  BY <1>2, <1>5, <1>6, <1>7, <1>8 DEF Orders!IInv

\* A step of a pass at a position of its own, which only the broker may have closed.
LEMMA OrderPasses ==
    ASSUME Orders!IInv, NEW c \in Actors, NEW i \in Things, Orders!Running(c, Orders!Kinds), Orders!Holds(c, i),
           NEW new \in Orders!Pass, v4' = [v4 EXCEPT ![c] = new],
           \/ new.kind = "none" /\ new.todo = {}
           \/ /\ new.kind = v4[c].kind /\ new.todo = v4[c].todo \ {i} /\ new.list = v4[c].list
              /\ new.left = v4[c].left,
           NEW pos \in Orders!Position, v1' = [v1 EXCEPT ![i] = pos],
           \/ pos = v1[i]
           \/ i \in Orders!Open /\ pos = Orders!Closed
           \/ i \in Orders!Open /\ pos.entry = v1[i].entry,
           NEW a \in Int, v7' = [v7 EXCEPT ![i] = a], a = v7[i] \/ i \in Orders!Open,
           i \notin v8 /\ pos.entry > 0 => pos.tp = a,
           NEW w \in Orders!Report,
           v5' = [v5 EXCEPT ![c] = [v5[c] EXCEPT ![i] = w]],
           w.what \notin {"resting", "cancelled"}, w.what \in {"closed", "deleted"} => i \in Orders!Open,
           w.what = "closed" /\ i \notin v8 /\ pos.entry > 0 => pos.vol <= w.num,
           w.what = "deleted" /\ i \notin v8 /\ pos.entry > 0 /\ w.num # 0 => pos.sl # 0,
           i \notin v8 /\ pos.entry > 0 => pos.vol <= v1[i].vol /\ (v1[i].sl # 0 => pos.sl # 0),
           w.what = "moved" => i \in Orders!Open /\ (i \notin v8 => pos.sl >= pos.entry),
           i \notin v8 /\ pos.entry > 0 /\ v1[i].sl >= v1[i].entry => pos.sl >= pos.entry,
           UNCHANGED <<v2, v3, v8>>
    PROVE  Orders!IInv'
<1>1. Orders!OrdersTypeOK
  BY DEF Orders!IInv
<1>2. Orders!OrdersTypeOK'
  BY <1>1 DEF Orders!OrdersTypeOK
<1>3. \A d \in Actors \ {c} : v4'[d] = v4[d] /\ v5'[d] = v5[d]
  BY <1>1 DEF Orders!OrdersTypeOK
<1>4. v4'[c] = new /\ v5'[c][i] = w /\ \A k \in Things \ {i} : v5'[c][k] = v5[c][k]
  BY <1>1 DEF Orders!OrdersTypeOK
<1>5. \A k \in Things \ {i} : v1'[k] = v1[k] /\ v7'[k] = v7[k]
  BY <1>1 DEF Orders!OrdersTypeOK
<1>6. v1'[i] = pos /\ v7'[i] = a
  BY <1>1 DEF Orders!OrdersTypeOK
<1>7. i \in Orders!Open => v1[i] \notin {Orders!NoPos, Orders!Closed}
  BY OrderConstants DEF Orders!Open
<1>8. pos.entry > 0 => pos \notin {Orders!NoPos, Orders!Closed}
  BY OrderConstants
<1>9. /\ pos \in {Orders!NoPos, Orders!Closed} \/ pos.entry > 0
      /\ pos.entry > 0 => i \in Orders!Open
      /\ pos = Orders!NoPos <=> v1[i] = Orders!NoPos
      /\ v1[i] = Orders!Closed => pos = Orders!Closed
  BY <1>7, <1>8, OrderConstants DEF Orders!IInv, Orders!BookIsSound, Orders!Open
<1>10. Orders!BookIsSound'
  BY <1>3, <1>4, <1>5, <1>6, <1>7, <1>9
     DEF Orders!IInv, Orders!BookIsSound, Orders!Running, Orders!Open, Orders!Kinds
<1>11. Orders!HeldIsListed'
  <2>1. \A d \in Actors, k \in Things : v4'[d].kind \in Orders!Kinds /\ k \in v4'[d].todo =>
            /\ v4[d].kind \in Orders!Kinds /\ k \in v4[d].todo /\ v4'[d].list = v4[d].list
            /\ d = c => k # i
    BY <1>3, <1>4 DEF Orders!Kinds
  <2>2. i \notin v8 => \A d \in Actors \ {c} : ~(v4[d].kind \in Orders!Kinds /\ i \in v4[d].todo)
    BY DEF Orders!IInv, Orders!HeldIsListed, Orders!Running, Orders!Holds
  <2>3. \A d \in Actors, k \in Things \ v8 : v4'[d].kind \in Orders!Kinds /\ k \in v4'[d].todo => k # i
    BY <2>1, <2>2
  <2> QED
    BY <1>5, <2>1, <2>3 DEF Orders!IInv, Orders!HeldIsListed, Orders!Running, Orders!Holds, Orders!Open
<1>12. Orders!ToldIsOfSome'
  BY <1>3, <1>4, <1>5, <1>6, <1>7, <1>9 DEF Orders!IInv, Orders!ToldIsOfSome
<1>13. Orders!ReportsAreTrue'
  <2> SUFFICES ASSUME NEW d \in Actors, NEW k \in Things \ v8
      PROVE  /\ v5'[d][k].what = "closed" /\ v1'[k].entry > 0 => v1'[k].vol <= v5'[d][k].num
             /\ v5'[d][k].what = "cancelled" => ~(v1'[k].entry > 0) /\ v2[k] = 0
             /\ v5'[d][k].what = "deleted" /\ v5'[d][k].num # 0 /\ v1'[k].entry > 0 => v1'[k].sl # 0
             /\ v5'[d][k].what = "resting" => v2[k] # 0 \/ v1'[k] # Orders!NoPos
             /\ v5'[d][k].what = "moved" /\ v1'[k].entry > 0 => v1'[k].sl >= v1'[k].entry
             /\ v1'[k].entry > 0 => v1'[k].tp = v7'[k]
    BY DEF Orders!ReportsAreTrue, Orders!Open
  <2>1. CASE k # i
    BY <1>3, <1>4, <1>5, <2>1 DEF Orders!IInv, Orders!ReportsAreTrue, Orders!Open
  <2>2. CASE k = i
    <3>1. v5'[d][k].what = "cancelled" => v1'[k] = Orders!Closed
      BY <1>12 DEF Orders!ToldIsOfSome
    <3>2. v5'[d][k].what = "cancelled" => ~(v1'[k].entry > 0) /\ v2[k] = 0
      BY <1>10, <3>1, OrderConstants DEF Orders!BookIsSound
    <3>3. v5'[d][k] = w \/ v5'[d][k] = v5[d][k]
      BY <1>3, <1>4, <2>2
    <3>4. v5'[d][k].what = "resting" => v2[k] # 0 \/ v1'[k] # Orders!NoPos
      BY <1>6, <1>9, <2>2, <3>3 DEF Orders!IInv, Orders!ReportsAreTrue
    <3>5. v5'[d][k].what = "moved" /\ v1'[k].entry > 0 => v1'[k].sl >= v1'[k].entry
      BY <1>6, <1>9, <2>2, <3>3 DEF Orders!IInv, Orders!ReportsAreTrue
    <3>6. v1'[k].entry > 0 => v1[i].entry > 0
      BY <1>6, <1>9, <2>2 DEF Orders!Open
    <3>7. v5'[d][k].what = "closed" /\ v1'[k].entry > 0 => v1'[k].vol <= v5'[d][k].num
      <4>1. CASE v5'[d][k] = w
        BY <1>6, <2>2, <4>1
      <4>2. CASE v5'[d][k] = v5[d][k]
        <5>1. v5[d][i].what = "closed" /\ v1[i].entry > 0 => v1[i].vol <= v5[d][i].num
          BY <2>2 DEF Orders!IInv, Orders!ReportsAreTrue, Orders!Open
        <5>2. pos.vol \in Int /\ v1[i].vol \in Int /\ v5[d][i].num \in Int
          BY <1>1 DEF Orders!OrdersTypeOK, Orders!Position, Orders!Report
        <5> QED
          BY <1>6, <2>2, <3>6, <4>2, <5>1, <5>2
      <4> QED
        BY <3>3, <4>1, <4>2
    <3>8. v5'[d][k].what = "deleted" /\ v5'[d][k].num # 0 /\ v1'[k].entry > 0 => v1'[k].sl # 0
      <4>1. CASE v5'[d][k] = w
        BY <1>6, <2>2, <4>1
      <4>2. CASE v5'[d][k] = v5[d][k]
        BY <1>6, <2>2, <3>6, <4>2 DEF Orders!IInv, Orders!ReportsAreTrue, Orders!Open
      <4> QED
        BY <3>3, <4>1, <4>2
    <3> QED
      BY <1>6, <2>2, <3>2, <3>4, <3>5, <3>7, <3>8
  <2> QED
    BY <2>1, <2>2
<1> QED
  BY <1>2, <1>10, <1>11, <1>12, <1>13 DEF Orders!IInv

\* An order placed: what was not there yet is, as it was asked for.
LEMMA OrderPlaced ==
    ASSUME Orders!IInv, NEW c \in Actors, NEW i \in Things, v4[c].kind \in {"bulk", "pending"},
           v1[i] = Orders!NoPos, v2[i] = 0,
           NEW new \in Orders!Pass, v4' = [v4 EXCEPT ![c] = new], new.todo = {},
           new.kind \in {"none", "bulk", "pending"}, new.kind = "pending" => new.quote # 0,
           NEW w \in Orders!Report,
           v5' = [v5 EXCEPT ![c] = [v5[c] EXCEPT ![i] = w]],
           \/ /\ w.what = "placed" /\ v2' = v2
              /\ \E pos \in Orders!Position : /\ pos.entry > 0 /\ v1' = [v1 EXCEPT ![i] = pos]
                                              /\ v7' = [v7 EXCEPT ![i] = pos.tp]
           \/ /\ w.what = "resting" /\ UNCHANGED <<v1, v7>>
              /\ \E price \in Nat \ {0} : v2' = [v2 EXCEPT ![i] = price],
           UNCHANGED <<v3, v8>>
    PROVE  Orders!IInv'
<1>1. Orders!OrdersTypeOK
  BY DEF Orders!IInv
<1>2. Orders!OrdersTypeOK'
  <2>1. v1' \in [Things -> Orders!Position] /\ v7' \in [Things -> Int] /\ v2' \in [Things -> Nat]
    <3>1. /\ v1 \in [Things -> Orders!Position] /\ v7 \in [Things -> Int]
          /\ v2 \in [Things -> Nat]
      BY <1>1 DEF Orders!OrdersTypeOK
    <3>2. \A pos \in Orders!Position : /\ [v1 EXCEPT ![i] = pos] \in [Things -> Orders!Position]
                                      /\ pos.tp \in Int
      BY <3>1 DEF Orders!Position
    <3>3. \A price \in Nat : [v2 EXCEPT ![i] = price] \in [Things -> Nat]
      BY <3>1
    <3>4. \A tp \in Int : [v7 EXCEPT ![i] = tp] \in [Things -> Int]
      BY <3>1
    <3> QED
      BY <3>1, <3>2, <3>3, <3>4
  <2> QED
    BY <1>1, <2>1 DEF Orders!OrdersTypeOK
<1>3. \A d \in Actors \ {c} : v4'[d] = v4[d] /\ v5'[d] = v5[d]
  BY <1>1 DEF Orders!OrdersTypeOK
<1>4. v4'[c] = new /\ v5'[c][i] = w /\ \A k \in Things \ {i} : v5'[c][k] = v5[c][k]
  BY <1>1 DEF Orders!OrdersTypeOK
<1>5. \A k \in Things \ {i} : v1'[k] = v1[k] /\ v7'[k] = v7[k] /\ v2'[k] = v2[k]
  BY <1>1 DEF Orders!OrdersTypeOK
<1>6. \/ v1'[i].entry > 0 /\ v1'[i].tp = v7'[i] /\ v2'[i] = 0
      \/ v1'[i] = Orders!NoPos /\ v7'[i] = v7[i] /\ v2'[i] # 0
  BY <1>1 DEF Orders!OrdersTypeOK
<1>7. v1'[i].entry > 0 => v1'[i] \notin {Orders!NoPos, Orders!Closed}
  BY OrderConstants
<1>8. Orders!BookIsSound'
  BY <1>3, <1>4, <1>5, <1>6, <1>7, OrderConstants
     DEF Orders!IInv, Orders!BookIsSound, Orders!Running, Orders!Kinds, Orders!Open
<1>9. Orders!HeldIsListed'
  <2>1. \A d \in Actors, k \in Things : v4'[d].kind \in Orders!Kinds /\ k \in v4'[d].todo =>
            d # c /\ v4'[d] = v4[d]
    BY <1>3, <1>4 DEF Orders!Kinds
  <2>2. \A d \in Actors, k \in Things \ v8 : v4[d].kind \in Orders!Kinds /\ k \in v4[d].todo => k # i
    BY DEF Orders!IInv, Orders!HeldIsListed, Orders!Running, Orders!Holds
  <2> QED
    BY <1>5, <2>1, <2>2 DEF Orders!IInv, Orders!HeldIsListed, Orders!Running, Orders!Holds, Orders!Open
<1>10. \A d \in Actors : v5[d][i].what \notin {"closed", "cancelled", "moved", "deleted"}
  BY OrderConstants DEF Orders!IInv, Orders!ToldIsOfSome
<1>11. Orders!ToldIsOfSome'
  BY <1>3, <1>4, <1>5, <1>10, <1>6 DEF Orders!IInv, Orders!ToldIsOfSome
<1>12. Orders!ReportsAreTrue'
  <2> SUFFICES ASSUME NEW d \in Actors, NEW k \in Things \ v8
      PROVE  /\ v5'[d][k].what = "closed" /\ v1'[k].entry > 0 => v1'[k].vol <= v5'[d][k].num
             /\ v5'[d][k].what = "cancelled" => ~(v1'[k].entry > 0) /\ v2'[k] = 0
             /\ v5'[d][k].what = "deleted" /\ v5'[d][k].num # 0 /\ v1'[k].entry > 0 => v1'[k].sl # 0
             /\ v5'[d][k].what = "resting" => v2'[k] # 0 \/ v1'[k] # Orders!NoPos
             /\ v5'[d][k].what = "moved" /\ v1'[k].entry > 0 => v1'[k].sl >= v1'[k].entry
             /\ v1'[k].entry > 0 => v1'[k].tp = v7'[k]
    BY <1>3 DEF Orders!ReportsAreTrue, Orders!Open
  <2>1. CASE k # i
    BY <1>3, <1>4, <1>5, <2>1 DEF Orders!IInv, Orders!ReportsAreTrue, Orders!Open
  <2>2. CASE k = i
    BY <1>3, <1>4, <1>6, <1>7, <1>10, <2>2, OrderConstants
  <2> QED
    BY <2>1, <2>2
<1> QED
  BY <1>2, <1>8, <1>9, <1>11, <1>12 DEF Orders!IInv

\* An order cancelled is neither waiting nor ever a position; one refused is as it was.
LEMMA OrderCancelled ==
    ASSUME Orders!IInv, NEW c \in Actors, NEW i \in Things, v4[c].kind = "cancel",
           NEW new \in Orders!Pass, v4' = [v4 EXCEPT ![c] = new],
           new.kind \in {"none", "cancel"}, new.kind = "none" => new.todo = {},
           NEW w \in Orders!Report,
           v5' = [v5 EXCEPT ![c] = [v5[c] EXCEPT ![i] = w]],
           \/ w.what = "failed" /\ UNCHANGED <<v1, v2>>
           \/ w.what = "cancelled" /\ v2[i] # 0 /\ v2' = [v2 EXCEPT ![i] = 0]
              /\ v1' = [v1 EXCEPT ![i] = Orders!Closed],
           UNCHANGED <<v3, v7, v8>>
    PROVE  Orders!IInv'
<1>1. Orders!OrdersTypeOK
  BY DEF Orders!IInv
<1>2. Orders!OrdersTypeOK'
  <2>1. v1' \in [Things -> Orders!Position] /\ v2' \in [Things -> Nat]
    <3>1. v1 \in [Things -> Orders!Position] /\ v2 \in [Things -> Nat]
      BY <1>1 DEF Orders!OrdersTypeOK
    <3>2. [v1 EXCEPT ![i] = Orders!Closed] \in [Things -> Orders!Position]
      BY <3>1, OrderConstants
    <3>3. [v2 EXCEPT ![i] = 0] \in [Things -> Nat]
      BY <3>1
    <3> QED
      BY <3>1, <3>2, <3>3
  <2>2. v4' \in [Actors -> Orders!Pass]
    BY <1>1 DEF Orders!OrdersTypeOK
  <2>3. [v5[c] EXCEPT ![i] = w]
          \in [Things -> Orders!Report]
    BY <1>1 DEF Orders!OrdersTypeOK
  <2> QED
    BY <1>1, <2>1, <2>2, <2>3 DEF Orders!OrdersTypeOK
<1>3. \A d \in Actors \ {c} : v4'[d] = v4[d] /\ v5'[d] = v5[d]
  BY <1>1 DEF Orders!OrdersTypeOK
<1>4. v4'[c] = new /\ v5'[c][i] = w /\ \A k \in Things \ {i} : v5'[c][k] = v5[c][k]
  BY <1>1 DEF Orders!OrdersTypeOK
<1>5. \A k \in Things \ {i} : v1'[k] = v1[k] /\ v2'[k] = v2[k]
  BY <1>1 DEF Orders!OrdersTypeOK
<1>6. \/ w.what = "failed" /\ v1'[i] = v1[i] /\ v2'[i] = v2[i]
      \/ w.what = "cancelled" /\ v1[i] = Orders!NoPos /\ v1'[i] = Orders!Closed /\ v2'[i] = 0
  BY <1>1 DEF Orders!IInv, Orders!OrdersTypeOK, Orders!BookIsSound
<1>7. ~(Orders!NoPos.entry > 0) /\ ~(Orders!Closed.entry > 0) /\ Orders!NoPos # Orders!Closed
  BY OrderConstants
<1>8. Orders!BookIsSound'
  BY <1>3, <1>4, <1>5, <1>6, <1>7 DEF Orders!IInv, Orders!BookIsSound, Orders!Running, Orders!Kinds, Orders!Open
<1>9. Orders!HeldIsListed'
  <2>1. \A d \in Actors, k \in Things : v4'[d].kind \in Orders!Kinds /\ k \in v4'[d].todo =>
            d # c /\ v4'[d] = v4[d]
    BY <1>3, <1>4 DEF Orders!Kinds
  <2>2. \A d \in Actors, k \in Things \ v8 : v4[d].kind \in Orders!Kinds /\ k \in v4[d].todo =>
            v1'[k] = v1[k]
    BY <1>5, <1>6 DEF Orders!IInv, Orders!HeldIsListed, Orders!Running, Orders!Holds
  <2> QED
    BY <2>1, <2>2 DEF Orders!IInv, Orders!HeldIsListed, Orders!Running, Orders!Holds, Orders!Open
<1>10. Orders!ToldIsOfSome'
  BY <1>3, <1>4, <1>5, <1>6, <1>7 DEF Orders!IInv, Orders!ToldIsOfSome
<1>11. Orders!ReportsAreTrue'
  <2> SUFFICES ASSUME NEW d \in Actors, NEW k \in Things \ v8
      PROVE  /\ v5'[d][k].what = "closed" /\ v1'[k].entry > 0 => v1'[k].vol <= v5'[d][k].num
             /\ v5'[d][k].what = "cancelled" => ~(v1'[k].entry > 0) /\ v2'[k] = 0
             /\ v5'[d][k].what = "deleted" /\ v5'[d][k].num # 0 /\ v1'[k].entry > 0 => v1'[k].sl # 0
             /\ v5'[d][k].what = "resting" => v2'[k] # 0 \/ v1'[k] # Orders!NoPos
             /\ v5'[d][k].what = "moved" /\ v1'[k].entry > 0 => v1'[k].sl >= v1'[k].entry
             /\ v1'[k].entry > 0 => v1'[k].tp = v7[k]
    BY DEF Orders!ReportsAreTrue, Orders!Open
  <2>1. CASE k # i
    BY <1>3, <1>4, <1>5, <2>1 DEF Orders!IInv, Orders!ReportsAreTrue, Orders!Open
  <2>2. CASE k = i /\ w.what = "cancelled"
    BY <1>6, <1>7, <2>2
  <2>3. CASE k = i /\ w.what = "failed"
    BY <1>3, <1>4, <1>6, <2>3 DEF Orders!IInv, Orders!ReportsAreTrue, Orders!Open
  <2> QED
    BY <1>6, <2>1, <2>2, <2>3
<1> QED
  BY <1>2, <1>8, <1>9, <1>10, <1>11 DEF Orders!IInv

\* The market moves: what it passes is filled or refused, what reaches a level is closed.
LEMMA OrderMarket ==
    ASSUME Orders!IInv, NEW q \in Quotes, Orders!QuoteMoves(q)
    PROVE  Orders!IInv'
<1>1. Orders!OrdersTypeOK
  BY DEF Orders!IInv
<1>2. UNCHANGED <<v4, v5, v7, v8>> /\ v3' = q
  BY DEF Orders!QuoteMoves
<1>3. \A i \in Things : v2[i] \in Nat
  BY <1>1 DEF Orders!OrdersTypeOK
<1>4. \A n \in Nat \ {0} : LET p == Orders!Opened(n, 0, 0) IN
          p \in Orders!Position /\ p.entry > 0 /\ p.tp = 0
  BY DEF Orders!Opened, Orders!Lot, Orders!Position
<1>5. \A i \in Things :
          \/ v2[i] = 0 /\ v2'[i] = 0
             /\ (v1'[i] = v1[i] \/ (i \in Orders!Open /\ v1'[i] = Orders!Closed))
          \/ /\ v2[i] # 0 /\ v2'[i] \in {0, v2[i]}
             /\ v2'[i] # 0 => v1'[i] = v1[i]
             /\ v2'[i] = 0 => \/ v1'[i] = Orders!Closed
                              \/ v1'[i] \in Orders!Position /\ v1'[i].entry > 0 /\ v1'[i].tp = 0
  <2> SUFFICES ASSUME NEW i \in Things
      PROVE  \/ v2[i] = 0 /\ v2'[i] = 0
                /\ (v1'[i] = v1[i] \/ (i \in Orders!Open /\ v1'[i] = Orders!Closed))
             \/ /\ v2[i] # 0 /\ v2'[i] \in {0, v2[i]}
                /\ v2'[i] # 0 => v1'[i] = v1[i]
                /\ v2'[i] = 0 => \/ v1'[i] = Orders!Closed
                                 \/ v1'[i] \in Orders!Position /\ v1'[i].entry > 0 /\ v1'[i].tp = 0
    OBVIOUS
  <2>1. v2[i] # 0 => i \notin Orders!Open
    BY OrderConstants DEF Orders!IInv, Orders!BookIsSound, Orders!Open
  <2>2. i \in Orders!Passed(q) => v2[i] # 0
    BY DEF Orders!Passed
  <2>3. v2'[i] = IF i \in Orders!Passed(q) THEN 0 ELSE v2[i]
    BY DEF Orders!QuoteMoves
  <2>4. \/ i \in Orders!Open /\ v1'[i] = Orders!Closed
        \/ i \notin Orders!Passed(q) /\ v1'[i] = v1[i]
        \/ i \in Orders!Passed(q) /\ v1'[i] \in {Orders!Opened(v2[i], 0, 0), Orders!Closed}
    BY DEF Orders!QuoteMoves
  <2> QED
    BY <1>3, <1>4, <2>1, <2>2, <2>3, <2>4
<1>6. Orders!OrdersTypeOK'
  <2>1. v1' = [i \in Things |-> v1'[i]] /\ v2' = [i \in Things |-> v2'[i]]
    BY DEF Orders!QuoteMoves
  <2>2. \A i \in Things : v1'[i] \in Orders!Position /\ v2'[i] \in Nat
    BY <1>1, <1>3, <1>5, OrderConstants DEF Orders!OrdersTypeOK
  <2>3. v1' \in [Things -> Orders!Position] /\ v2' \in [Things -> Nat]
    BY <2>1, <2>2
  <2> QED
    BY <1>1, <1>2, <2>3 DEF Orders!OrdersTypeOK
<1>7. \A i \in Things : v2[i] # 0 => v1[i] = Orders!NoPos
  BY DEF Orders!IInv, Orders!BookIsSound
<1>8. \A i \in Things : v1'[i].entry > 0 => v1'[i] \notin {Orders!NoPos, Orders!Closed}
  BY OrderConstants
<1>9. Orders!BookIsSound'
  <2> SUFFICES ASSUME NEW i \in Things
      PROVE  /\ v1'[i] \in {Orders!NoPos, Orders!Closed} \/ v1'[i].entry > 0
             /\ v2'[i] # 0 => v1'[i] = Orders!NoPos
             /\ v1'[i] = Orders!NoPos => v7[i] = 0
    BY <1>2 DEF Orders!IInv, Orders!BookIsSound, Orders!Running, Orders!Open
  <2> QED
    BY <1>5, <1>7, <1>8, OrderConstants DEF Orders!IInv, Orders!BookIsSound, Orders!Open
<1>10. Orders!HeldIsListed'
  <2>1. \A i \in Things : v1[i] # Orders!NoPos => v1'[i] # Orders!NoPos /\ (v1'[i].entry > 0 => v1'[i] = v1[i])
    BY <1>5, <1>7, OrderConstants
  <2> QED
    BY <1>2, <2>1 DEF Orders!IInv, Orders!HeldIsListed, Orders!Running, Orders!Holds, Orders!Open
<1>11. \A i \in Things :
          /\ v1[i] = Orders!Closed => v1'[i] = Orders!Closed /\ v2'[i] = 0
          /\ v1[i] # Orders!NoPos => v1'[i] # Orders!NoPos /\ (v1'[i].entry > 0 => v1'[i] = v1[i])
          /\ v2[i] # 0 => v2'[i] # 0 \/ v1'[i] # Orders!NoPos
  BY <1>5, <1>7, <1>8, OrderConstants DEF Orders!Open
<1>12. Orders!ToldIsOfSome'
  BY <1>2, <1>11 DEF Orders!IInv, Orders!ToldIsOfSome
<1>13. Orders!ReportsAreTrue'
  <2>1. \A d \in Actors, i \in Things \ v8 : v1'[i].entry > 0 => v1'[i].tp = v7[i]
    <3> SUFFICES ASSUME NEW d \in Actors, NEW i \in Things \ v8, v1'[i].entry > 0
        PROVE  v1'[i].tp = v7[i]
      OBVIOUS
    <3>1. v1'[i] # Orders!Closed
      BY OrderConstants
    <3>2. v1'[i] = v1[i] => v1'[i].tp = v7[i]
      BY DEF Orders!IInv, Orders!ReportsAreTrue, Orders!Open
    <3>3. v2[i] # 0 => v7[i] = 0
      BY <1>7 DEF Orders!IInv, Orders!BookIsSound
    <3>4. v1'[i] = v1[i] \/ (v2[i] # 0 /\ v1'[i].tp = 0)
      BY <1>5, <3>1
    <3> QED
      BY <3>2, <3>3, <3>4
  <2>2. ~(Orders!Closed.entry > 0)
    BY OrderConstants
  <2> QED
    BY <1>2, <1>11, <2>1, <2>2
       DEF Orders!IInv, Orders!ToldIsOfSome, Orders!ReportsAreTrue, Orders!Open
<1> QED
  BY <1>6, <1>9, <1>10, <1>12, <1>13 DEF Orders!IInv

LEMMA PlacingPass ==
    ASSUME NEW kind \in Orders!Kinds \cup {"none", "bulk", "pending", "cancel"}, NEW n \in Int,
           NEW price \in Nat, NEW sl \in Int, NEW tp \in Int
    PROVE  Orders!Placing(kind, n, price, sl, tp) \in Orders!Pass
<1>1. [i \in Things |-> Orders!NoPos] \in [Things -> Orders!Position]
  BY OrderConstants
<1> QED
  BY <1>1 DEF Orders!Placing, Orders!Pass

LEMMA OverPass ==
    ASSUME NEW kind \in Orders!Kinds \cup {"none", "bulk", "pending", "cancel"},
           NEW list \in [Things -> Orders!Position], NEW todo \in SUBSET Things,
           NEW drop \in SUBSET {"sl", "tp"}, NEW vol \in Int
    PROVE  Orders!Over(kind, list, todo, drop, vol) \in Orders!Pass
  BY DEF Orders!Over, Orders!Pass

LEMMA OrderStarts ==
    ASSUME Orders!IInv, NEW c \in Actors,
           \/ \E n \in 1..MaxBulk, sl \in {0, 1}, tp \in {0, 6}, e \in BOOLEAN :
                  Orders!BulkBegins(c, n, sl, tp, e)
           \/ \E n \in 1..MaxBulk : Orders!PendingBegins(c, n, 4)
           \/ Orders!ListsOrders(c)
    PROVE  Orders!IInv'
<1> DEFINE Begun(new) ==
        /\ new \in Orders!Pass /\ new.kind \in {"bulk", "pending", "cancel"}
        /\ new.kind = "pending" => new.quote # 0
        /\ new.kind # "cancel" => new.todo = {}
        /\ v4' = [v4 EXCEPT ![c] = new]
<1>1. v4[c].kind = "none" /\ v5' = [v5 EXCEPT ![c] = [i \in Things |-> Orders!Nothing]]
      /\ UNCHANGED <<v1, v2, v3, v7, v8>>
  BY DEF Orders!BulkBegins, Orders!PendingBegins, Orders!ListsOrders, Orders!Begins,
         Orders!Running, Orders!Forgets
<1>2. v3 \in Nat
  BY OrderAssumption DEF Orders!IInv, Orders!OrdersTypeOK, OrderAssumption
<1>0. \A n \in 1..MaxBulk : n \in Int
  OBVIOUS
<1>3. ASSUME NEW n \in 1..MaxBulk, NEW sl \in {0, 1}, NEW tp \in {0, 6}, NEW e \in BOOLEAN,
             Orders!BulkBegins(c, n, sl, tp, e)
      PROVE  \E new : Begun(new)
  <2>1. /\ n \in Int /\ sl \in Int /\ tp \in Int
        /\ "bulk" \in Orders!Kinds \cup {"none", "bulk", "pending", "cancel"}
    BY <1>0
  <2>2. Orders!Placing("bulk", n, v3, sl, tp) \in Orders!Pass
    BY ONLY <1>2, <2>1, PlacingPass
  <2>3. Orders!Placing("bulk", n, v3, sl, tp).kind = "bulk" /\ Orders!Placing("bulk", n, v3, sl, tp).todo = {}
    BY DEF Orders!Placing
  <2>4. v4' = [v4 EXCEPT ![c] = Orders!Placing("bulk", n, v3, sl, tp)]
    BY <1>3 DEF Orders!BulkBegins
  <2>5. Begun(Orders!Placing("bulk", n, v3, sl, tp))
    BY <2>2, <2>3, <2>4
  <2> QED
    BY <2>5
<1>4. ASSUME NEW n \in 1..MaxBulk, Orders!PendingBegins(c, n, 4)
      PROVE  \E new : Begun(new)
  <2>1. /\ n \in Int /\ 4 \in Nat /\ 0 \in Int
        /\ "pending" \in Orders!Kinds \cup {"none", "bulk", "pending", "cancel"}
    BY <1>0
  <2>2. Orders!Placing("pending", n, 4, 0, 0) \in Orders!Pass
    BY ONLY <2>1, PlacingPass
  <2>3. /\ Orders!Placing("pending", n, 4, 0, 0).kind = "pending"
        /\ Orders!Placing("pending", n, 4, 0, 0).todo = {}
        /\ Orders!Placing("pending", n, 4, 0, 0).quote # 0
    BY DEF Orders!Placing
  <2>4. v4' = [v4 EXCEPT ![c] = Orders!Placing("pending", n, 4, 0, 0)]
    BY <1>4 DEF Orders!PendingBegins
  <2>5. Begun(Orders!Placing("pending", n, 4, 0, 0))
    BY <2>2, <2>3, <2>4
  <2> QED
    BY <2>5
<1>5. ASSUME Orders!ListsOrders(c)
      PROVE  \E new : Begun(new)
  <2>1. PICK todo \in SUBSET Things :
            v4' = [v4 EXCEPT ![c] = Orders!Over("cancel", [i \in Things |-> Orders!NoPos], todo, {}, 0)]
    BY <1>5 DEF Orders!ListsOrders
  <2>2. Orders!Over("cancel", [i \in Things |-> Orders!NoPos], todo, {}, 0) \in Orders!Pass
    BY OrderConstants, OverPass DEF Orders!Kinds
  <2>3. Orders!Over("cancel", [i \in Things |-> Orders!NoPos], todo, {}, 0).kind = "cancel"
    BY DEF Orders!Over
  <2> QED
    BY <2>1, <2>2, <2>3
<1>6. \E new : Begun(new)
  BY <1>3, <1>4, <1>5
<1>7. PICK new : Begun(new)
  BY <1>6
<1> QED
  BY <1>1, <1>7, OrderBegins

LEMMA OrderListed ==
    ASSUME Orders!IInv, NEW c \in Actors, NEW kind \in Orders!Kinds, NEW only,
           NEW drop \in SUBSET {"sl", "tp"}, NEW vol \in Nat, Orders!Lists(c, kind, only, drop, vol)
    PROVE  Orders!IInv'
<1>1. PICK todo \in SUBSET Orders!Open :
          /\ v4' = [v4 EXCEPT ![c] = Orders!Over(kind, v1, todo, drop, vol)]
          /\ v8' = v8 \cup {i \in todo : \E d \in Actors : Orders!Holds(d, i)}
  BY DEF Orders!Lists
<1>2. v4[c].kind = "none" /\ v5' = [v5 EXCEPT ![c] = [i \in Things |-> Orders!Nothing]]
      /\ UNCHANGED <<v1, v2, v3, v7>>
  BY DEF Orders!Lists, Orders!Begins, Orders!Running, Orders!Forgets
<1>3. v1 \in [Things -> Orders!Position] /\ todo \in SUBSET Things
  BY <1>1 DEF Orders!IInv, Orders!OrdersTypeOK, Orders!Open
<1>4. Orders!Over(kind, v1, todo, drop, vol) \in Orders!Pass
  BY <1>3, OverPass
<1>5. /\ Orders!Over(kind, v1, todo, drop, vol).kind = kind
      /\ Orders!Over(kind, v1, todo, drop, vol).list = v1
      /\ Orders!Over(kind, v1, todo, drop, vol).todo = todo
      /\ Orders!Over(kind, v1, todo, drop, vol).left >= 0
  BY DEF Orders!Over
<1> QED
  BY <1>1, <1>2, <1>4, <1>5, OrderLists

\* What is left of a bulk after one of its orders.
LEMMA OrderLeft ==
    ASSUME Orders!IInv, NEW c \in Actors, v4[c].kind \in {"bulk", "pending"}
    PROVE  /\ Orders!Left(c) \in Orders!Pass /\ Orders!Left(c).todo = {}
           /\ Orders!Left(c).kind \in {"none", v4[c].kind}
           /\ Orders!Left(c).kind = "pending" => Orders!Left(c).quote # 0
<1> DEFINE p == v4[c]
<1>1. p \in Orders!Pass /\ p.todo = {} /\ p.left \in Int /\ p.quote \in Nat
      /\ (p.kind = "pending" => p.quote # 0)
  BY DEF Orders!IInv, Orders!OrdersTypeOK, Orders!BookIsSound, Orders!Running, Orders!Pass
<1>2. CASE p.left = 1
  BY <1>2, OrderConstants DEF Orders!Left
<1>3. CASE p.left # 1
  <2> DEFINE q == p.quote + (IF Orders!Running(c, {"pending"}) THEN 1 ELSE 0)
  <2>1. q \in Nat /\ (p.quote # 0 => q # 0)
    BY <1>1
  <2>2. p.left - 1 \in Int
    BY <1>1
  <2>3. Orders!Left(c) = [p EXCEPT !.left = p.left - 1, !.quote = q]
    BY <1>3 DEF Orders!Left
  <2> HIDE DEF q, p
  <2>4. [p EXCEPT !.left = p.left - 1, !.quote = q] \in Orders!Pass
    BY <1>1, <2>1, <2>2 DEF Orders!Pass
  <2>5. /\ Orders!Left(c).todo = {} /\ Orders!Left(c).kind = p.kind /\ Orders!Left(c).quote = q
    BY <1>1, <2>3 DEF Orders!Pass
  <2> QED
    BY <1>1, <2>1, <2>3, <2>4, <2>5 DEF p
<1> QED
  BY <1>2, <1>3

LEMMA OrderFails ==
    ASSUME Orders!IInv, NEW c \in Actors, Orders!BulkFails(c)
    PROVE  Orders!IInv'
<1>1. v4[c].kind \in {"bulk", "pending"} /\ v4' = [v4 EXCEPT ![c] = Orders!Left(c)]
      /\ UNCHANGED <<v1, v2, v3, v5, v7, v8>>
  BY DEF Orders!BulkFails, Orders!Running
<1> DEFINE new == Orders!Left(c)
<1>2. /\ new \in Orders!Pass /\ new.todo = {}
      /\ new.kind \in {"none", v4[c].kind}
      /\ new.kind = "pending" => new.quote # 0
  BY <1>1, OrderLeft
<1> HIDE DEF new
<1>3. Orders!OrdersTypeOK'
  BY <1>1, <1>2 DEF Orders!IInv, Orders!OrdersTypeOK, new
<1>4. v4'[c] = new /\ \A d \in Actors \ {c} : v4'[d] = v4[d]
  BY <1>1 DEF Orders!IInv, Orders!OrdersTypeOK, new
<1>5. Orders!BookIsSound'
  BY <1>1, <1>2, <1>4 DEF Orders!IInv, Orders!BookIsSound, Orders!Running, Orders!Kinds, Orders!Open
<1>6. Orders!HeldIsListed'
  BY <1>1, <1>2, <1>4 DEF Orders!IInv, Orders!HeldIsListed, Orders!Running, Orders!Holds, Orders!Kinds, Orders!Open
<1>7. Orders!ToldIsOfSome' /\ Orders!ReportsAreTrue'
  BY <1>1 DEF Orders!IInv, Orders!ToldIsOfSome, Orders!ReportsAreTrue, Orders!Open
<1> QED
  BY <1>3, <1>5, <1>6, <1>7 DEF Orders!IInv

LEMMA OrderPlaces ==
    ASSUME Orders!IInv, NEW c \in Actors, NEW i \in Things,
           Orders!BulkPlaces(c, i) \/ Orders!PendingPlaces(c, i)
    PROVE  Orders!IInv'
<1>1. v4[c].kind \in {"bulk", "pending"} /\ v4' = [v4 EXCEPT ![c] = Orders!Left(c)]
      /\ v1[i] = Orders!NoPos /\ v2[i] = 0 /\ UNCHANGED <<v3, v8>>
  BY DEF Orders!BulkPlaces, Orders!PendingPlaces, Orders!Running
<1>2. /\ Orders!Left(c) \in Orders!Pass /\ Orders!Left(c).todo = {}
      /\ Orders!Left(c).kind \in {"none", "bulk", "pending"}
      /\ Orders!Left(c).kind = "pending" => Orders!Left(c).quote # 0
  BY <1>1, OrderLeft
<1>3. v3 \in Nat \ {0} /\ v4[c].sl \in Int /\ v4[c].tp \in Int /\ v4[c].quote \in Nat
  BY OrderAssumption DEF OrderAssumption, Orders!IInv, Orders!OrdersTypeOK, Orders!Pass
<1>4. CASE Orders!BulkPlaces(c, i)
  <2> DEFINE pos == Orders!Opened(v3, v4[c].sl, v4[c].tp)
             w == [what |-> "placed", num |-> 0]
  <2>1. /\ pos \in Orders!Position /\ pos.entry > 0 /\ pos.tp = v4[c].tp
        /\ w \in Orders!Report
        /\ w.what = "placed"
    BY <1>3 DEF Orders!Position, Orders!Opened, Orders!Lot, Orders!Report
  <2>2. v1' = [v1 EXCEPT ![i] = pos] /\ v7' = [v7 EXCEPT ![i] = v4[c].tp] /\ v2' = v2
    BY <1>4 DEF Orders!BulkPlaces
  <2>3. v5' = [v5 EXCEPT ![c] = [v5[c] EXCEPT ![i] = w]]
    BY <1>4 DEF Orders!BulkPlaces, Orders!Reports
  <2> HIDE DEF pos, w
  <2> QED
    BY <1>1, <1>2, <2>1, <2>2, <2>3, OrderPlaced
<1>5. CASE Orders!PendingPlaces(c, i)
  <2> DEFINE w == [what |-> "resting", num |-> 0]
  <2>1. /\ w \in Orders!Report
        /\ w.what = "resting"
    BY DEF Orders!Report
  <2>2. v2' = [v2 EXCEPT ![i] = v4[c].quote] /\ UNCHANGED <<v1, v7>>
    BY <1>5 DEF Orders!PendingPlaces
  <2>3. v5' = [v5 EXCEPT ![c] = [v5[c] EXCEPT ![i] = w]]
    BY <1>5 DEF Orders!PendingPlaces, Orders!Reports
  <2>4. v4[c].quote \in Nat \ {0}
    BY <1>3, <1>5 DEF Orders!PendingPlaces, Orders!IInv, Orders!BookIsSound, Orders!Running
  <2> HIDE DEF w
  <2> QED
    BY <1>1, <1>2, <2>1, <2>2, <2>3, <2>4, OrderPlaced
<1> QED
  BY <1>4, <1>5

\* A pass a step further, or at its end.
LEMMA OrderAfter ==
    ASSUME Orders!IInv, NEW c \in Actors, NEW i \in Things, Orders!Holds(c, i)
    PROVE  \E new \in Orders!Pass :
              /\ Orders!After(c, i) = [v4 EXCEPT ![c] = new]
              /\ \/ new.kind = "none" /\ new.todo = {}
                 \/ /\ new.kind = v4[c].kind /\ new.todo = v4[c].todo \ {i}
                    /\ new.list = v4[c].list /\ new.left = v4[c].left
<1> DEFINE p == v4[c]
           rest == v4[c].todo \ {i}
<1>1. p \in Orders!Pass /\ v3 \in Nat
  BY OrderAssumption DEF OrderAssumption, Orders!IInv, Orders!OrdersTypeOK
<1>2. CASE rest = {}
  <2>1. Orders!After(c, i) = [v4 EXCEPT ![c] = Orders!NoPass]
    BY <1>2 DEF Orders!After
  <2> QED
    BY <2>1, OrderConstants
<1>3. CASE rest # {}
  <2>1. Orders!Seen(c) \in Nat
    BY <1>1 DEF Orders!Seen, Orders!Pass
  <2> DEFINE new == [p EXCEPT !.todo = rest, !.quote = Orders!Seen(c)]
  <2>2. Orders!After(c, i) = [v4 EXCEPT ![c] = new]
    BY <1>3 DEF Orders!After
  <2>3. rest \in SUBSET Things
    BY <1>1 DEF Orders!Pass
  <2> HIDE DEF p, rest
  <2>4. new \in Orders!Pass
    BY <1>1, <2>1, <2>3 DEF Orders!Pass
  <2>5. new.kind = p.kind /\ new.todo = rest /\ new.list = p.list /\ new.left = p.left
    BY <1>1 DEF Orders!Pass
  <2> QED
    BY <2>2, <2>4, <2>5 DEF p, rest
<1> QED
  BY <1>2, <1>3

\* A position passed over, or one whose change was refused: it is as it was.
LEMMA OrderLeaves ==
    ASSUME Orders!IInv, NEW c \in Actors, NEW i \in Things, Orders!Running(c, Orders!Kinds), Orders!Holds(c, i),
           NEW what \in {"failed", "skipped"}, Orders!Reports(c, i, what, 0),
           v4' = Orders!After(c, i), UNCHANGED <<v1, v2, v3, v7, v8>>
    PROVE  Orders!IInv'
<1> DEFINE w == [what |-> what, num |-> 0]
<1>1. PICK new \in Orders!Pass :
          /\ v4' = [v4 EXCEPT ![c] = new]
          /\ \/ new.kind = "none" /\ new.todo = {}
             \/ /\ new.kind = v4[c].kind /\ new.todo = v4[c].todo \ {i}
                /\ new.list = v4[c].list /\ new.left = v4[c].left
  BY OrderAfter
<1>2. /\ v1[i] \in Orders!Position /\ v1' = [v1 EXCEPT ![i] = v1[i]]
      /\ v7[i] \in Int /\ v7' = [v7 EXCEPT ![i] = v7[i]]
  BY DEF Orders!IInv, Orders!OrdersTypeOK
<1>3. i \notin v8 /\ v1[i].entry > 0 => v1[i].tp = v7[i]
  BY DEF Orders!IInv, Orders!ReportsAreTrue, Orders!Open
<1>4. /\ w \in Orders!Report
      /\ w.what \notin {"resting", "cancelled"} /\ w.what \notin {"closed", "deleted"}
      /\ w.what # "closed" /\ w.what # "deleted" /\ w.what # "moved"
  BY DEF Orders!Report
<1>5. v5' = [v5 EXCEPT ![c] = [v5[c] EXCEPT ![i] = w]]
  BY DEF Orders!Reports
<1> HIDE DEF w
<1>6. v1[i].vol \in Int /\ v1[i].vol <= v1[i].vol
  BY DEF Orders!IInv, Orders!OrdersTypeOK, Orders!Position
<1> DEFINE pos == v1[i]
<1>7. /\ pos \in Orders!Position /\ v1' = [v1 EXCEPT ![i] = pos] /\ pos = v1[i]
      /\ i \notin v8 /\ pos.entry > 0 => pos.tp = v7[i]
      /\ i \notin v8 /\ pos.entry > 0 => pos.vol <= v1[i].vol /\ (v1[i].sl # 0 => pos.sl # 0)
      /\ i \notin v8 /\ pos.entry > 0 /\ v1[i].sl >= v1[i].entry => pos.sl >= pos.entry
  BY <1>2, <1>3, <1>6
<1> HIDE DEF pos
<1> QED
  BY <1>1, <1>2, <1>4, <1>5, <1>7, OrderPasses

\* A pass that has the position to itself read it as it is.
LEMMA OrderListedAs ==
    ASSUME Orders!IInv, NEW c \in Actors, NEW i \in Orders!Open, Orders!Running(c, Orders!Kinds),
           Orders!Holds(c, i)
    PROVE  /\ v4[c].list[i] \in Orders!Position
           /\ i \notin v8 => v4[c].list[i] = v1[i] /\ v1[i].tp = v7[i]
<1>1. i \in Things
  BY DEF Orders!Open
<1>2. v4[c].list[i] \in Orders!Position
  BY <1>1 DEF Orders!IInv, Orders!OrdersTypeOK, Orders!Pass
<1>3. i \notin v8 => v4[c].list[i] = v1[i]
  BY <1>1 DEF Orders!IInv, Orders!HeldIsListed
<1>4. i \notin v8 => v1[i].tp = v7[i]
  BY <1>1 DEF Orders!IInv, Orders!ReportsAreTrue
<1> QED
  BY <1>2, <1>3, <1>4

\* What is left of a position of which a volume is closed.
LEMMA OrderLess ==
    ASSUME NEW p \in Orders!Position, NEW vol \in Int
    PROVE  /\ Orders!Less(p, vol) \in Orders!Position
           /\ \/ Orders!Less(p, vol) = Orders!Closed
              \/ /\ Orders!Less(p, vol).entry = p.entry /\ Orders!Less(p, vol).sl = p.sl
                 /\ Orders!Less(p, vol).tp = p.tp /\ Orders!Less(p, vol).vol = p.vol - vol
<1>1. p.vol \in Nat /\ (~(p.vol <= vol) => p.vol - vol \in Nat)
  BY DEF Orders!Position
<1>2. CASE p.vol <= vol
  BY <1>2, OrderConstants DEF Orders!Less
<1>3. CASE ~(p.vol <= vol)
  BY <1>1, <1>3 DEF Orders!Less, Orders!Position
<1> QED
  BY <1>2, <1>3

LEMMA OrderCloses ==
    ASSUME Orders!IInv, NEW c \in Actors, NEW i \in Things, Orders!Closes(c, i)
    PROVE  Orders!IInv'
<1> DEFINE asked == Orders!Asked(c, i)
           leaves == v4[c].list[i].vol - asked
           pos == Orders!Less(v1[i], asked)
<1>1. Orders!Running(c, Orders!Kinds) /\ Orders!Holds(c, i) /\ v4' = Orders!After(c, i)
      /\ UNCHANGED <<v2, v3, v7, v8>>
  BY DEF Orders!Closes, Orders!Running, Orders!Kinds, Orders!Refused
<1>2. CASE Orders!Refused(c, i, "closed", leaves)
  BY <1>1, <1>2, OrderLeaves DEF Orders!Refused
<1>3. CASE i \in Orders!Open /\ v1' = [v1 EXCEPT ![i] = pos]
           /\ Orders!Reports(c, i, "closed", leaves)
  <2> DEFINE w == [what |-> "closed", num |-> leaves]
  <2>1. PICK new \in Orders!Pass :
            /\ v4' = [v4 EXCEPT ![c] = new]
            /\ \/ new.kind = "none" /\ new.todo = {}
               \/ /\ new.kind = v4[c].kind /\ new.todo = v4[c].todo \ {i}
                  /\ new.list = v4[c].list /\ new.left = v4[c].left
    BY <1>1, OrderAfter
  <2>2. v7[i] \in Int /\ v7' = [v7 EXCEPT ![i] = v7[i]]
    BY <1>1 DEF Orders!IInv, Orders!OrdersTypeOK
  <2>3. v1[i] \in Orders!Position /\ v1[i].vol \in Nat /\ v1[i].entry \in Int
    BY DEF Orders!IInv, Orders!OrdersTypeOK, Orders!Position
  <2>4. v4[c].left \in Int /\ v4[c].list[i] \in Orders!Position /\ v4[c].list[i].vol \in Nat
    BY DEF Orders!IInv, Orders!OrdersTypeOK, Orders!Pass, Orders!Position
  <2>5. v4[c].left >= 0
    BY <1>1 DEF Orders!IInv, Orders!BookIsSound
  <2>6. asked \in Int /\ asked >= 0 /\ leaves \in Int
    BY <2>4, <2>5 DEF Orders!Asked
  <2>7. i \notin v8 => v4[c].list[i] = v1[i] /\ v1[i].tp = v7[i]
    BY <1>1, <1>3, OrderListedAs
  <2> HIDE DEF asked
  <2>8. /\ pos \in Orders!Position
        /\ \/ pos = Orders!Closed
           \/ /\ pos.entry = v1[i].entry /\ pos.sl = v1[i].sl /\ pos.tp = v1[i].tp
              /\ pos.vol = v1[i].vol - asked
    BY <2>3, <2>6, OrderLess
  <2> HIDE DEF pos
  <2>9. ~(Orders!Closed.entry > 0)
    BY OrderConstants
  <2>10. /\ i \notin v8 /\ pos.entry > 0 => pos.vol <= leaves /\ pos.vol <= v1[i].vol
         /\ i \notin v8 /\ pos.entry > 0 => pos.sl = v1[i].sl /\ pos.tp = v7[i]
    BY <2>3, <2>6, <2>7, <2>8, <2>9
  <2> HIDE DEF leaves
  <2>11. w \in Orders!Report /\ w.what = "closed" /\ w.num = leaves
    BY <2>6 DEF Orders!Report
  <2>12. v5' = [v5 EXCEPT ![c] = [v5[c] EXCEPT ![i] = w]]
    BY <1>3 DEF Orders!Reports
  <2> HIDE DEF w
  <2>13. /\ i \in Orders!Open /\ (pos = Orders!Closed \/ pos.entry = v1[i].entry)
         /\ i \notin v8 /\ pos.entry > 0 /\ v1[i].sl >= v1[i].entry => pos.sl >= pos.entry
    BY <1>3, <2>8, <2>9
  <2> QED
    BY <1>1, <1>3, <2>1, <2>2, <2>8, <2>10, <2>11, <2>12, <2>13, OrderPasses
<1> QED
  BY <1>2, <1>3 DEF Orders!Closes

LEMMA OrderCancels ==
    ASSUME Orders!IInv, NEW c \in Actors, NEW i \in Things, Orders!Cancels(c, i)
    PROVE  Orders!IInv'
<1>1. v4[c].kind = "cancel" /\ Orders!Holds(c, i) /\ v4' = Orders!After(c, i)
      /\ UNCHANGED <<v3, v7, v8>>
  BY DEF Orders!Cancels, Orders!Running, Orders!Refused
<1>2. PICK new \in Orders!Pass :
          /\ v4' = [v4 EXCEPT ![c] = new]
          /\ \/ new.kind = "none" /\ new.todo = {}
             \/ /\ new.kind = v4[c].kind /\ new.todo = v4[c].todo \ {i}
                /\ new.list = v4[c].list /\ new.left = v4[c].left
  BY <1>1, OrderAfter
<1>3. PICK what \in {"cancelled", "failed"} :
          /\ v5' = [v5 EXCEPT ![c] = [v5[c] EXCEPT ![i] = [what |-> what, num |-> 0]]]
          /\ \/ what = "failed" /\ UNCHANGED <<v1, v2>>
             \/ what = "cancelled" /\ v2[i] # 0 /\ v2' = [v2 EXCEPT ![i] = 0]
                /\ v1' = [v1 EXCEPT ![i] = Orders!Closed]
  BY DEF Orders!Cancels, Orders!Refused, Orders!Reports
<1> DEFINE w == [what |-> what, num |-> 0]
<1>4. /\ w \in Orders!Report
      /\ w.what = what
  BY DEF Orders!Report
<1>5. v5' = [v5 EXCEPT ![c] = [v5[c] EXCEPT ![i] = w]]
  BY <1>3
<1> HIDE DEF w
<1>6. new.kind \in {"none", "cancel"} /\ (new.kind = "none" => new.todo = {})
  BY <1>1, <1>2
<1>7. \/ w.what = "failed" /\ UNCHANGED <<v1, v2>>
      \/ w.what = "cancelled" /\ v2[i] # 0 /\ v2' = [v2 EXCEPT ![i] = 0]
         /\ v1' = [v1 EXCEPT ![i] = Orders!Closed]
  BY <1>3, <1>4
<1> QED
  BY <1>1, <1>2, <1>4, <1>5, <1>6, <1>7, OrderCancelled

\* The broker took new levels for an open position.
LEMMA OrderLevels ==
    ASSUME NEW p \in Orders!Position, NEW sl \in Int, NEW tp \in Int
    PROVE  /\ Orders!Modified(p, sl, tp) \in Orders!Position
           /\ Orders!Modified(p, sl, tp).entry = p.entry /\ Orders!Modified(p, sl, tp).vol = p.vol
           /\ Orders!Modified(p, sl, tp).sl = IF sl = 0 THEN p.sl ELSE sl
           /\ Orders!Modified(p, sl, tp).tp = IF tp = 0 THEN p.tp ELSE tp
  BY DEF Orders!Modified, Orders!Position

LEMMA OrderMoved ==
    ASSUME Orders!IInv, NEW c \in Actors, NEW i \in Orders!Open, Orders!Running(c, Orders!Kinds),
           Orders!Holds(c, i), v4' = Orders!After(c, i),
           NEW sl \in Int, NEW tp \in Int, v1' = [v1 EXCEPT ![i] = Orders!Modified(v1[i], sl, tp)],
           NEW what \in {"moved", "deleted", "aimed"}, NEW said \in Int, Orders!Reports(c, i, what, said),
           what = "moved" /\ i \notin v8 => sl >= v1[i].entry,
           what = "deleted" /\ i \notin v8 => said = v1[i].sl,
           i \notin v8 => sl \in {0, v1[i].sl} \/ sl >= v1[i].entry,
           NEW a \in Int, v7' = [v7 EXCEPT ![i] = a],
           i \notin v8 => \/ tp \in {0, v1[i].tp} /\ a = v7[i]
                          \/ tp # 0 /\ a = tp,
           UNCHANGED <<v2, v3, v8>>
    PROVE  Orders!IInv'
<1> DEFINE w == [what |-> what, num |-> said]
           pos == Orders!Modified(v1[i], sl, tp)
<1>1. PICK new \in Orders!Pass :
          /\ v4' = [v4 EXCEPT ![c] = new]
          /\ \/ new.kind = "none" /\ new.todo = {}
             \/ /\ new.kind = v4[c].kind /\ new.todo = v4[c].todo \ {i}
                /\ new.list = v4[c].list /\ new.left = v4[c].left
  BY OrderAfter DEF Orders!Open
<1>2. i \in Things /\ v1[i] \in Orders!Position /\ v1[i].entry > 0 /\ v1[i].entry \in Int
  BY DEF Orders!Open, Orders!IInv, Orders!OrdersTypeOK, Orders!Position
<1>3. /\ pos \in Orders!Position /\ pos.entry = v1[i].entry /\ pos.vol = v1[i].vol
      /\ pos.sl = IF sl = 0 THEN v1[i].sl ELSE sl
      /\ pos.tp = IF tp = 0 THEN v1[i].tp ELSE tp
  BY <1>2, OrderLevels
<1>4. /\ w \in Orders!Report
      /\ w.what = what
  BY DEF Orders!Report
<1>5. v5' = [v5 EXCEPT ![c] = [v5[c] EXCEPT ![i] = w]] /\ v1' = [v1 EXCEPT ![i] = pos]
  BY DEF Orders!Reports
<1> HIDE DEF w, pos
<1>6. i \notin v8 => v1[i].tp = v7[i]
  BY <1>2 DEF Orders!IInv, Orders!ReportsAreTrue
<1>7. i \notin v8 /\ pos.entry > 0 => pos.tp = a
  BY <1>3, <1>6
<1>8. what = "moved" /\ i \notin v8 => pos.sl >= pos.entry
  BY <1>2, <1>3
<1>9. i \notin v8 /\ pos.entry > 0 /\ v1[i].sl >= v1[i].entry => pos.sl >= pos.entry
  BY <1>2, <1>3
<1>10. /\ w.what \notin {"resting", "cancelled", "closed"}
       /\ pos.vol <= v1[i].vol /\ (v1[i].sl # 0 => pos.sl # 0)
       /\ w.what = "deleted" /\ i \notin v8 /\ pos.entry > 0 /\ w.num # 0 => pos.sl # 0
  BY <1>2, <1>3 DEF w, Orders!Position
<1> QED
  BY <1>1, <1>2, <1>3, <1>4, <1>5, <1>7, <1>8, <1>9, <1>10, OrderPasses

LEMMA OrderMoves ==
    ASSUME Orders!IInv, NEW c \in Actors, NEW i \in Things, Orders!Moves(c, i)
    PROVE  Orders!IInv'
<1> DEFINE listed == v4[c].list[i]
           stop == Orders!NewStop(c, i)
<1>1. Orders!Running(c, Orders!Kinds) /\ Orders!Holds(c, i) /\ v4' = Orders!After(c, i)
      /\ UNCHANGED <<v2, v3, v7, v8>>
  BY DEF Orders!Moves, Orders!Running, Orders!Kinds, Orders!Refused
<1>2. CASE Orders!Refused(c, i, "moved", 0)
  BY <1>1, <1>2, OrderLeaves DEF Orders!Refused
<1>3. CASE Orders!Reports(c, i, "skipped", 0) /\ UNCHANGED <<v1, v7>>
  BY <1>1, <1>3, OrderLeaves
<1>4. CASE /\ i \in Orders!Open /\ v1' = [v1 EXCEPT ![i] = Orders!Modified(v1[i], stop, listed.tp)]
           /\ Orders!Reports(c, i, "moved", 0) /\ Orders!Seen(c) > listed.entry
  <2>1. listed \in Orders!Position /\ (i \notin v8 => listed = v1[i] /\ v1[i].tp = v7[i])
    BY <1>1, <1>4, OrderListedAs
  <2>2. Orders!Seen(c) \in Int
    BY OrderAssumption
       DEF OrderAssumption, Orders!Seen, Orders!IInv, Orders!OrdersTypeOK, Orders!Pass
  <2>3. listed.entry \in Int /\ listed.tp \in Int
    BY <2>1 DEF Orders!Position
  <2>4. stop \in Int /\ stop >= listed.entry
    <3>1. (Orders!Seen(c) - listed.entry) \div 2 \in Int /\ (Orders!Seen(c) - listed.entry) \div 2 >= 0
      BY <1>4, <2>2, <2>3
    <3> QED
      BY <2>3, <3>1 DEF Orders!NewStop
  <2>5. v7[i] \in Int /\ v7' = [v7 EXCEPT ![i] = v7[i]]
    BY <1>1 DEF Orders!IInv, Orders!OrdersTypeOK
  <2> HIDE DEF stop, listed
  <2>6. PICK said \in Int : Orders!Reports(c, i, "moved", said)
    BY <1>4
  <2> QED
    BY <1>1, <1>4, <2>1, <2>3, <2>4, <2>5, <2>6, OrderMoved
<1>5. Orders!Seen(c) \in Int /\ (i \in Orders!Open => listed.entry \in Int)
  BY <1>1, OrderAssumption, OrderListedAs
     DEF OrderAssumption, Orders!Seen, Orders!IInv, Orders!OrdersTypeOK, Orders!Pass, Orders!Position
<1> QED
  BY <1>2, <1>3, <1>4, <1>5 DEF Orders!Moves

LEMMA OrderDeletes ==
    ASSUME Orders!IInv, NEW c \in Actors, NEW i \in Things, Orders!Deletes(c, i)
    PROVE  Orders!IInv'
<1> DEFINE listed == v4[c].list[i]
           sl == IF "sl" \in v4[c].drop THEN 0 ELSE listed.sl
           tp == IF "tp" \in v4[c].drop THEN 0 ELSE listed.tp
<1>1. Orders!Running(c, Orders!Kinds) /\ Orders!Holds(c, i) /\ v4' = Orders!After(c, i)
      /\ UNCHANGED <<v2, v3, v7, v8>>
  BY DEF Orders!Deletes, Orders!Running, Orders!Kinds, Orders!Refused
<1>2. CASE Orders!Refused(c, i, "deleted", listed.sl)
  BY <1>1, <1>2, OrderLeaves DEF Orders!Refused
<1>3. CASE /\ i \in Orders!Open /\ v1' = [v1 EXCEPT ![i] = Orders!Modified(v1[i], sl, tp)]
           /\ Orders!Reports(c, i, "deleted", listed.sl)
  <2>1. listed \in Orders!Position /\ (i \notin v8 => listed = v1[i] /\ v1[i].tp = v7[i])
    BY <1>1, <1>3, OrderListedAs
  <2>2. sl \in Int /\ tp \in Int /\ listed.sl \in Int
    BY <2>1 DEF Orders!Position
  <2>3. i \notin v8 => sl \in {0, v1[i].sl} /\ tp \in {0, v1[i].tp} /\ listed.sl = v1[i].sl
    BY <2>1
  <2>4. v7[i] \in Int /\ v7' = [v7 EXCEPT ![i] = v7[i]]
    BY <1>1 DEF Orders!IInv, Orders!OrdersTypeOK
  <2> HIDE DEF sl, tp, listed
  <2> QED
    BY <1>1, <1>3, <2>2, <2>3, <2>4, OrderMoved
<1> QED
  BY <1>2, <1>3 DEF Orders!Deletes

LEMMA OrderAims ==
    ASSUME Orders!IInv, NEW c \in Actors, NEW i \in Things, Orders!Aims(c, i)
    PROVE  Orders!IInv'
<1> DEFINE listed == v4[c].list[i]
           level == listed.entry + Spread
<1>1. Orders!Running(c, Orders!Kinds) /\ Orders!Holds(c, i) /\ v4' = Orders!After(c, i)
      /\ UNCHANGED <<v2, v3, v8>>
  BY DEF Orders!Aims, Orders!Running, Orders!Kinds, Orders!Refused
<1>2. CASE Orders!Refused(c, i, "aimed", 0)
  BY <1>1, <1>2, OrderLeaves DEF Orders!Refused
<1>3. CASE /\ i \in Orders!Open /\ v1' = [v1 EXCEPT ![i] = Orders!Modified(v1[i], listed.sl, level)]
           /\ v7' = [v7 EXCEPT ![i] = level] /\ Orders!Reports(c, i, "aimed", 0)
  <2>1. listed \in Orders!Position /\ (i \notin v8 => listed = v1[i] /\ v1[i].tp = v7[i])
    BY <1>1, <1>3, OrderListedAs
  <2>2. listed.sl \in Int /\ level \in Int
    BY <2>1, OrderAssumption DEF OrderAssumption, Orders!Position
  <2>3. i \notin v8 => listed.sl = v1[i].sl /\ level # 0
    BY <1>3, <2>1, OrderAssumption DEF OrderAssumption, Orders!Position, Orders!Open
  <2> HIDE DEF level, listed
  <2>4. PICK said \in Int : Orders!Reports(c, i, "aimed", said)
    BY <1>3
  <2> QED
    BY <1>1, <1>3, <2>2, <2>3, <2>4, OrderMoved
<1> QED
  BY <1>2, <1>3 DEF Orders!Aims

LEMMA OrderModified ==
    ASSUME Orders!IInv, NEW c \in Actors, NEW i \in Things, Orders!ModifiesOrder(c, i, 5)
    PROVE  Orders!IInv'
<1>1. v2[i] # 0 /\ v2' = [v2 EXCEPT ![i] = 5] /\ UNCHANGED <<v1, v3, v4, v5, v7, v8>>
  BY DEF Orders!ModifiesOrder
<1>2. v2'[i] = 5 /\ \A k \in Things \ {i} : v2'[k] = v2[k]
  BY <1>1 DEF Orders!IInv, Orders!OrdersTypeOK
<1>3. Orders!OrdersTypeOK'
  BY <1>1 DEF Orders!IInv, Orders!OrdersTypeOK
<1>4. Orders!BookIsSound'
  BY <1>1, <1>2 DEF Orders!IInv, Orders!BookIsSound, Orders!Running, Orders!Open
<1>5. Orders!HeldIsListed' /\ Orders!ToldIsOfSome'
  BY <1>1 DEF Orders!IInv, Orders!HeldIsListed, Orders!ToldIsOfSome, Orders!Running, Orders!Holds, Orders!Open
<1>6. \A d \in Actors : v5[d][i].what # "cancelled"
  BY <1>1, OrderConstants DEF Orders!IInv, Orders!BookIsSound, Orders!ToldIsOfSome
<1>7. Orders!ReportsAreTrue'
  BY <1>1, <1>2, <1>6 DEF Orders!IInv, Orders!ReportsAreTrue, Orders!Open
<1> QED
  BY <1>3, <1>4, <1>5, <1>7 DEF Orders!IInv

LEMMA OrderAsked ==
    ASSUME Orders!IInv, NEW c \in Actors, NEW i \in Things, NEW sl \in {0, 2}, NEW tp \in {0, 7},
           Orders!ModifiesPosition(c, i, sl, tp)
    PROVE  Orders!IInv'
<1> DEFINE pos == Orders!Modified(v1[i], sl, tp)
           a == IF tp = 0 THEN v7[i] ELSE tp
<1>1. /\ i \in Orders!Open /\ v1' = [v1 EXCEPT ![i] = pos] /\ v7' = [v7 EXCEPT ![i] = a]
      /\ v5' = [d \in Actors |-> [v5[d] EXCEPT ![i] = Orders!Nothing]]
      /\ v8' = IF \E d \in Actors : Orders!Holds(d, i) THEN v8 \cup {i} ELSE v8
      /\ UNCHANGED <<v2, v3, v4>>
  BY DEF Orders!ModifiesPosition
<1>2. v1[i] \in Orders!Position /\ v1[i].entry > 0 /\ v1[i].entry \in Int /\ v1[i] # Orders!NoPos
      /\ v7[i] \in Int
  BY <1>1, OrderConstants DEF Orders!Open, Orders!IInv, Orders!OrdersTypeOK, Orders!Position
<1>3. /\ pos \in Orders!Position /\ pos.entry = v1[i].entry
      /\ pos.tp = IF tp = 0 THEN v1[i].tp ELSE tp
  <2>1. sl \in Int /\ tp \in Int
    OBVIOUS
  <2>2. v1[i] \in Orders!Position
    BY <1>2
  <2> QED
    BY <2>1, <2>2, OrderLevels
<1>4. a \in Int
  BY <1>2
<1> HIDE DEF pos
<1>5. pos # Orders!NoPos /\ pos # Orders!Closed /\ pos.entry > 0
  BY <1>2, <1>3, OrderConstants
<1>6. v1'[i] = pos /\ v7'[i] = a /\ \A k \in Things \ {i} : v1'[k] = v1[k] /\ v7'[k] = v7[k]
  BY <1>1 DEF Orders!IInv, Orders!OrdersTypeOK
<1>7. \A d \in Actors : v5'[d][i] = Orders!Nothing /\ \A k \in Things \ {i} : v5'[d][k] = v5[d][k]
  BY <1>1 DEF Orders!IInv, Orders!OrdersTypeOK
<1>8. Orders!OrdersTypeOK'
  <2>1. v1' \in [Things -> Orders!Position] /\ v7' \in [Things -> Int]
    BY <1>1, <1>3, <1>4 DEF Orders!IInv, Orders!OrdersTypeOK
  <2>2. \A d \in Actors : [v5[d] EXCEPT ![i] = Orders!Nothing]
            \in [Things -> Orders!Report]
    BY OrderConstants DEF Orders!IInv, Orders!OrdersTypeOK
  <2> QED
    BY <1>1, <2>1, <2>2 DEF Orders!IInv, Orders!OrdersTypeOK
<1>9. Orders!BookIsSound'
  BY <1>1, <1>2, <1>5, <1>6 DEF Orders!IInv, Orders!BookIsSound, Orders!Running, Orders!Open
<1>10. Orders!HeldIsListed'
  <2>1. \A d \in Actors : i \notin v8' => ~Orders!Holds(d, i)
    BY <1>1
  <2>2. \A k \in Things : k \notin v8' => k \notin v8
    BY <1>1
  <2> QED
    BY <1>1, <1>6, <2>1, <2>2
       DEF Orders!IInv, Orders!HeldIsListed, Orders!Running, Orders!Holds, Orders!Open
<1>11. Orders!ToldIsOfSome'
  BY <1>2, <1>5, <1>6, <1>7, OrderConstants DEF Orders!IInv, Orders!ToldIsOfSome
<1>12. Orders!ReportsAreTrue'
  <2> SUFFICES ASSUME NEW d \in Actors, NEW k \in Things \ v8'
      PROVE  /\ v5'[d][k].what = "closed" /\ v1'[k].entry > 0 => v1'[k].vol <= v5'[d][k].num
             /\ v5'[d][k].what = "cancelled" => ~(v1'[k].entry > 0) /\ v2[k] = 0
             /\ v5'[d][k].what = "deleted" /\ v5'[d][k].num # 0 /\ v1'[k].entry > 0 => v1'[k].sl # 0
             /\ v5'[d][k].what = "resting" => v2[k] # 0 \/ v1'[k] # Orders!NoPos
             /\ v5'[d][k].what = "moved" /\ v1'[k].entry > 0 => v1'[k].sl >= v1'[k].entry
             /\ v1'[k].entry > 0 => v1'[k].tp = v7'[k]
    BY <1>1 DEF Orders!ReportsAreTrue, Orders!Open
  <2>1. k \notin v8
    BY <1>1
  <2>2. CASE k # i
    BY <1>6, <1>7, <2>1, <2>2 DEF Orders!IInv, Orders!ReportsAreTrue, Orders!Open
  <2>3. CASE k = i
    <3>1. v1[i].tp = v7[i]
      BY <1>2, <2>1, <2>3 DEF Orders!IInv, Orders!ReportsAreTrue, Orders!Open
    <3> QED
      BY <1>3, <1>6, <1>7, <2>3, <3>1, OrderConstants
  <2> QED
    BY <2>2, <2>3
<1> QED
  BY <1>8, <1>9, <1>10, <1>11, <1>12 DEF Orders!IInv

LEMMA OrderInitially == Orders!Init => Orders!IInv
<1> SUFFICES ASSUME Orders!Init PROVE Orders!IInv
  OBVIOUS
<1>1. /\ v1 = [i \in Things |-> Orders!NoPos] /\ v2 = [i \in Things |-> 0] /\ v3 \in Quotes
      /\ v4 = [c \in Actors |-> Orders!NoPass]
      /\ v5 = [c \in Actors |-> [i \in Things |-> Orders!Nothing]]
      /\ v7 = [i \in Things |-> 0] /\ v8 = {}
  BY DEF Orders!Init
<1>2. Orders!OrdersTypeOK
  BY <1>1, OrderConstants DEF Orders!OrdersTypeOK
<1>3. /\ \A i \in Things : v1[i] = Orders!NoPos /\ v2[i] = 0 /\ v7[i] = 0
      /\ \A c \in Actors : v4[c].kind = "none" /\ v4[c].todo = {}
      /\ \A c \in Actors, i \in Things : v5[c][i].what = "none"
  BY <1>1, OrderConstants
<1>4. Orders!BookIsSound /\ Orders!HeldIsListed
  BY <1>3 DEF Orders!BookIsSound, Orders!HeldIsListed, Orders!Running, Orders!Holds, Orders!Kinds
<1>5. Orders!ToldIsOfSome /\ Orders!ReportsAreTrue
  BY <1>3, OrderConstants DEF Orders!ToldIsOfSome, Orders!ReportsAreTrue, Orders!Open
<1> QED
  BY <1>2, <1>4, <1>5 DEF Orders!IInv

LEMMA OrderStutters ==
    ASSUME Orders!IInv, UNCHANGED Orders!bookVars
    PROVE  Orders!IInv'
  BY DEF Orders!bookVars, Orders!IInv, Orders!OrdersTypeOK, Orders!BookIsSound, Orders!HeldIsListed,
         Orders!ToldIsOfSome, Orders!ReportsAreTrue, Orders!Running, Orders!Holds, Orders!Open

LEMMA OrderInductive == Orders!IInv /\ (Orders!Next \/ UNCHANGED Orders!bookVars) => Orders!IInv'
<1> SUFFICES ASSUME Orders!IInv, Orders!Next \/ UNCHANGED Orders!bookVars PROVE Orders!IInv'
  OBVIOUS
<1>1. CASE UNCHANGED Orders!bookVars
  BY <1>1, OrderStutters
<1>2. ASSUME NEW c \in Actors,
             \/ \E n \in 1..MaxBulk, sl \in {0, 1}, tp \in {0, 6}, e \in BOOLEAN :
                    Orders!BulkBegins(c, n, sl, tp, e)
             \/ \E n \in 1..MaxBulk : Orders!PendingBegins(c, n, 4)
             \/ Orders!ListsOrders(c)
      PROVE  Orders!IInv'
  BY <1>2, OrderStarts
<1>3. ASSUME NEW c \in Actors, Orders!BulkFails(c)
      PROVE  Orders!IInv'
  BY <1>3, OrderFails
<1>4. ASSUME NEW c \in Actors, NEW only, NEW kind \in Orders!Kinds,
             Orders!Lists(c, kind, only, {}, 0)
      PROVE  Orders!IInv'
  BY <1>4, OrderListed
<1>5. ASSUME NEW c \in Actors, NEW only, NEW drop \in {{"sl"}, {"tp"}, {"sl", "tp"}},
             Orders!Lists(c, "delete", only, drop, 0)
      PROVE  Orders!IInv'
  <2>1. "delete" \in Orders!Kinds /\ drop \in SUBSET {"sl", "tp"}
    BY DEF Orders!Kinds
  <2> QED
    BY <1>5, <2>1, OrderListed
<1>9. ASSUME NEW c \in Actors, NEW only, NEW vol \in 1..Orders!Lot,
             Orders!Lists(c, "close", only, {}, vol)
      PROVE  Orders!IInv'
  <2>1. "close" \in Orders!Kinds /\ vol \in Nat
    BY DEF Orders!Kinds, Orders!Lot
  <2> QED
    BY <1>9, <2>1, OrderListed
<1>6. ASSUME NEW c \in Actors, NEW i \in Things,
             \/ Orders!BulkPlaces(c, i) \/ Orders!Closes(c, i) \/ Orders!Moves(c, i)
             \/ Orders!Deletes(c, i) \/ Orders!Aims(c, i)
             \/ Orders!PendingPlaces(c, i) \/ Orders!Cancels(c, i) \/ Orders!ModifiesOrder(c, i, 5)
      PROVE  Orders!IInv'
  BY <1>6, OrderPlaces, OrderCloses, OrderMoves, OrderDeletes, OrderAims, OrderCancels, OrderModified
<1>7. ASSUME NEW c \in Actors, NEW i \in Things, NEW sl \in {0, 2}, NEW tp \in {0, 7},
             Orders!ModifiesPosition(c, i, sl, tp)
      PROVE  Orders!IInv'
  BY <1>7, OrderAsked
<1>8. ASSUME NEW q \in Quotes, Orders!QuoteMoves(q)
      PROVE  Orders!IInv'
  BY <1>8, OrderMarket
<1> QED
  BY <1>1, <1>2, <1>3, <1>4, <1>5, <1>6, <1>7, <1>8, <1>9
  DEF Orders!Next, Orders!MarketRequests, Orders!PendingRequests, Orders!PassRequests

-----------------------------------------------------------------------------
(* Accounts and the desk. *)

LEMMA DeskInitially == Desk!Init => Desk!IInv
  BY DeskAssumption
  DEF Desk!Init, Desk!IInv, Desk!DeskTypeOK, Desk!ReadingsAreTrue, Desk!OnlyMovesAreOwed, Desk!ActiveInReach,
      Desk!IsAt, Desk!Owes, Desk!NoRequest, Desk!Request, Desk!Unasked, Desk!None, Desk!Brokers, Desk!Accounts

\* A request ends that owed nothing.
LEMMA DeskEnds ==
    ASSUME Desk!IInv, NEW h \in Actors, ~Desk!Owes(h), Desk!Ends(h), UNCHANGED <<v2, v3, v6, v7>>
    PROVE  Desk!IInv'
<1> USE DEF Desk!Ends, Desk!Moves
<1>1. Desk!DeskTypeOK'
  BY DEF Desk!IInv, Desk!DeskTypeOK, Desk!NoRequest, Desk!Request
<1>2. Desk!ReadingsAreTrue'
  BY DEF Desk!IInv, Desk!DeskTypeOK, Desk!ReadingsAreTrue, Desk!IsAt, Desk!Owes, Desk!IsAvailable, Desk!NoRequest, Desk!Request
<1>3. Desk!OnlyMovesAreOwed'
  BY DEF Desk!IInv, Desk!DeskTypeOK, Desk!OnlyMovesAreOwed, Desk!IsAt, Desk!Owes, Desk!IsAvailable
<1>4. Desk!ActiveInReach'
  BY <1>3 DEF Desk!IInv, Desk!DeskTypeOK, Desk!OnlyMovesAreOwed, Desk!ActiveInReach, Desk!DropPending, Desk!IsAt,
         Desk!Owes, Desk!IsAvailable, Desk!NoRequest, Desk!Request
<1> QED
  BY <1>1, <1>2, <1>3, <1>4 DEF Desk!IInv

\* An account is written: an available one of the broker in use, or none, unless the
\* reading was overtaken.
LEMMA DeskWrites ==
    ASSUME Desk!IInv, NEW h \in Actors, NEW a \in Desk!Accounts \cup {Desk!None}, NEW b \in Desk!Brokers \cup {Desk!None},
           Desk!Writes(h, a, b), UNCHANGED v2, Desk!IsAt(h, "replace") => b = v7,
           h \notin v5 /\ a # Desk!None => BrokerOf[a] = b /\ Desk!IsAvailable(a)
    PROVE  Desk!IInv'
<1>1. /\ v3' = a /\ v7' = b /\ v6' = (h \in v5) /\ v4' = [v4 EXCEPT ![h] = Desk!NoRequest]
      /\ v5' = (v5 \cup {g \in Actors : v4[g].stage = "replace" /\ v4[g].broker # b}) \ {h}
  BY DEF Desk!Writes, Desk!Moves, Desk!IsAt
<1>2. Desk!DeskTypeOK'
  BY <1>1 DEF Desk!IInv, Desk!DeskTypeOK, Desk!NoRequest, Desk!Request
<1>3. v4'[h] = Desk!NoRequest /\ \A g \in Actors \ {h} : v4'[g] = v4[g]
  BY <1>1 DEF Desk!IInv, Desk!DeskTypeOK
<1>4. Desk!ReadingsAreTrue'
  <2> SUFFICES ASSUME NEW g \in Actors
               PROVE  /\ v4'[g].stage = "idle" => g \notin v5' /\ v4'[g].broker = Desk!None
                      /\ v4'[g].stage = "activate" =>
                            v4'[g].acct # Desk!None /\ BrokerOf[v4'[g].acct] = v4'[g].broker
                      /\ v4'[g].stage \in {"ensure", "drop", "replace"} =>
                            \A x \in v4'[g].set : BrokerOf[x] = v4'[g].broker
                      /\ g \notin v5' =>
                            /\ v4'[g].stage = "activate" => Desk!IsAvailable(v4'[g].acct)
                            /\ v4'[g].stage = "ensure" => \A x \in v4'[g].set : Desk!IsAvailable(x)
                            /\ v4'[g].stage \in {"drop", "replace"} => v2[v4'[g].broker] = v4'[g].set
                            /\ v4'[g].stage = "replace" => v7' = v4'[g].broker
    BY DEF Desk!ReadingsAreTrue, Desk!IsAt, Desk!Owes, Desk!IsAvailable
  <2>1. CASE g = h
    BY <1>1, <1>3, <2>1 DEF Desk!NoRequest, Desk!Request
  <2>2. CASE g # h
    BY <1>1, <1>3, <2>2 DEF Desk!IInv, Desk!ReadingsAreTrue, Desk!IsAt, Desk!Owes
  <2> QED
    BY <2>1, <2>2
<1>5. a # Desk!None /\ ~v6' => BrokerOf[a] = v7' /\ Desk!IsAvailable(a)'
  BY <1>1 DEF Desk!IsAvailable
<1>6. Desk!OnlyMovesAreOwed'
  BY <1>1, <1>5 DEF Desk!OnlyMovesAreOwed
<1>7. Desk!ActiveInReach'
  <2>1. ASSUME NEW g \in Actors, v4'[g].stage = "bound", v4'[g].fresh, v4'[g].acct # Desk!None
        PROVE  v2[BrokerOf[v4'[g].acct]] = Desk!Unasked \/ v4'[g].acct \in v2[BrokerOf[v4'[g].acct]]
    <3>1. g # h /\ v4'[g] = v4[g]
      BY <1>3, <2>1 DEF Desk!NoRequest, Desk!Request
    <3> QED
      BY <2>1, <3>1 DEF Desk!IInv, Desk!ActiveInReach, Desk!IsAt, Desk!IsAvailable
  <2> QED
    BY <1>1, <1>5, <2>1 DEF Desk!ActiveInReach, Desk!IsAt, Desk!IsAvailable
<1> QED
  BY <1>2, <1>4, <1>6, <1>7 DEF Desk!IInv

\* A request goes on to a stage at which nothing is owed to it.
LEMMA DeskGoesOn ==
    ASSUME Desk!IInv, NEW h \in Actors, ~Desk!Owes(h), NEW stage \in {"activate", "connected", "ensure"},
           NEW b \in Desk!Brokers, NEW a \in Desk!Accounts \cup {Desk!None}, NEW set \in SUBSET Desk!Accounts,
           Desk!Moves(h, Desk!Request(stage, b, a, set)), UNCHANGED <<v2, v3, v5, v6, v7>>,
           stage = "activate" => a # Desk!None /\ BrokerOf[a] = b /\ (h \notin v5 => Desk!IsAvailable(a)),
           stage = "ensure" => \A x \in set : BrokerOf[x] = b /\ (h \notin v5 => Desk!IsAvailable(x))
    PROVE  Desk!IInv'
<1> USE DEF Desk!Moves, Desk!Request
<1>1. Desk!DeskTypeOK'
  BY DEF Desk!IInv, Desk!DeskTypeOK
<1>2. Desk!ReadingsAreTrue'
  BY DEF Desk!IInv, Desk!DeskTypeOK, Desk!ReadingsAreTrue, Desk!IsAt, Desk!Owes, Desk!IsAvailable
<1>3. Desk!OnlyMovesAreOwed'
  BY DEF Desk!IInv, Desk!DeskTypeOK, Desk!OnlyMovesAreOwed, Desk!IsAt, Desk!Owes, Desk!IsAvailable
<1>4. Desk!ActiveInReach'
  BY DEF Desk!IInv, Desk!DeskTypeOK, Desk!ActiveInReach, Desk!DropPending, Desk!IsAt, Desk!Owes, Desk!IsAvailable
<1> QED
  BY <1>1, <1>2, <1>3, <1>4 DEF Desk!IInv

\* The account is available when it is chosen.
LEMMA DeskChooses == ASSUME Desk!IInv, NEW h \in Actors, NEW a \in Desk!Accounts, Desk!Chooses(h, a) PROVE Desk!IInv'
<1>1. BrokerOf[a] \in Desk!Brokers /\ a # Desk!None
  BY DeskAssumption DEF Desk!Brokers, Desk!Accounts, Desk!None
<1> QED
  BY <1>1, DeskGoesOn DEF Desk!Chooses, Desk!IsAt, Desk!Owes

LEMMA DeskActivates == ASSUME Desk!IInv, NEW h \in Actors, Desk!Activates(h) PROVE Desk!IInv'
<1>1. /\ v4[h].acct \in Desk!Accounts /\ (h \notin v5 => Desk!IsAvailable(v4[h].acct)) /\ UNCHANGED v2
      /\ Desk!Writes(h, v4[h].acct, v4[h].broker) /\ v4[h].stage = "activate" /\ BrokerOf[v4[h].acct] = v4[h].broker
      /\ v4[h].broker \in Desk!Brokers \cup {Desk!None}
  BY DEF Desk!IInv, Desk!DeskTypeOK, Desk!ReadingsAreTrue, Desk!Activates, Desk!IsAt
<1> QED
  BY <1>1, DeskWrites DEF Desk!IsAt

\* Whoever read the broker's choice is overtaken, and the move is this handler's to make.
LEMMA DeskPicks ==
    ASSUME Desk!IInv, NEW h \in Actors, NEW b \in Desk!Brokers, NEW s \in SUBSET Desk!Of(b), Desk!Picks(h, b, s)
    PROVE  Desk!IInv'
<1>1. /\ v2' = [v2 EXCEPT ![b] = s] /\ v5' = v5 \cup {g \in Actors : v4[g].broker = b /\ v4[g].stage # "connected"}
      /\ UNCHANGED <<v1, v3, v6, v7>> /\ v4[h].stage = "idle" /\ s \in SUBSET Desk!Accounts
      /\ v4' \in [Actors -> [stage : {"idle", "activate", "drop", "replace", "connected", "ensure", "bound"},
                             broker : Desk!Brokers \cup {Desk!None}, acct : Desk!Accounts \cup {Desk!None},
                             set : SUBSET Desk!Accounts, fresh : BOOLEAN]]
      /\ v4'[h] = Desk!Request("drop", b, Desk!None, s)
      /\ \A g \in Actors \ {h} : /\ v4'[g].stage = v4[g].stage /\ v4'[g].broker = v4[g].broker
                                 /\ v4'[g].acct = v4[g].acct /\ v4'[g].set = v4[g].set /\ v4'[g].fresh = FALSE
  BY ZenonT(60) DEF Desk!IInv, Desk!DeskTypeOK, Desk!Picks, Desk!IsAt, Desk!Owes, Desk!Request, Desk!Of
<1>2. \A a \in Desk!Accounts : v2'[BrokerOf[a]] = IF BrokerOf[a] = b THEN s ELSE v2[BrokerOf[a]]
  BY <1>1 DEF Desk!IInv, Desk!DeskTypeOK, Desk!Brokers
<1>3. b # Desk!None
  BY DeskAssumption DEF Desk!Brokers, Desk!Accounts, Desk!None
<1>4. Desk!DeskTypeOK'
  BY <1>1 DEF Desk!IInv, Desk!DeskTypeOK
<1>5. Desk!ReadingsAreTrue'
  <2> DEFINE May(a) == v2'[BrokerOf[a]] = Desk!Unasked \/ a \in v2'[BrokerOf[a]]
  <2> SUFFICES ASSUME NEW g \in Actors
               PROVE  /\ v4'[g].stage = "idle" => g \notin v5' /\ v4'[g].broker = Desk!None
                      /\ v4'[g].stage = "activate" =>
                            v4'[g].acct # Desk!None /\ BrokerOf[v4'[g].acct] = v4'[g].broker
                      /\ v4'[g].stage \in {"ensure", "drop", "replace"} =>
                            \A a \in v4'[g].set : BrokerOf[a] = v4'[g].broker
                      /\ g \notin v5' =>
                            /\ v4'[g].stage = "activate" => May(v4'[g].acct)
                            /\ v4'[g].stage = "ensure" => \A a \in v4'[g].set : May(a)
                            /\ v4'[g].stage \in {"drop", "replace"} => v2'[v4'[g].broker] = v4'[g].set
                            /\ v4'[g].stage = "replace" => v7' = v4'[g].broker
    BY DEF Desk!ReadingsAreTrue, Desk!IsAt, Desk!Owes, Desk!IsAvailable
  <2>1. CASE g = h
    BY <1>1, <2>1 DEF Desk!IInv, Desk!DeskTypeOK, Desk!Request, Desk!Of
  <2>2. CASE g # h
    <3>1. g \notin v5' => g \notin v5 /\ (v4[g].stage # "connected" => v4[g].broker # b)
      BY <1>1
    <3>2. v4[g].stage = "idle" => g \notin v5'
      BY <1>1, <1>3, <2>2 DEF Desk!IInv, Desk!ReadingsAreTrue, Desk!IsAt, Desk!Owes
    <3>3. g \notin v5' /\ v4[g].stage \in {"drop", "replace"} => v2'[v4[g].broker] = v4[g].set
      BY <1>1, <3>1 DEF Desk!IInv, Desk!DeskTypeOK, Desk!ReadingsAreTrue, Desk!IsAt, Desk!Owes
    <3>4. g \notin v5' /\ v4[g].stage = "activate" => May(v4[g].acct)
      BY <1>1, <1>2, <3>1 DEF Desk!IInv, Desk!DeskTypeOK, Desk!ReadingsAreTrue, Desk!IsAt, Desk!Owes, Desk!IsAvailable
    <3>5. g \notin v5' /\ v4[g].stage = "ensure" => \A a \in v4[g].set : May(a)
      BY <1>1, <1>2, <3>1 DEF Desk!IInv, Desk!DeskTypeOK, Desk!ReadingsAreTrue, Desk!IsAt, Desk!Owes, Desk!IsAvailable
    <3> QED
      BY <1>1, <2>2, <3>2, <3>3, <3>4, <3>5 DEF Desk!IInv, Desk!ReadingsAreTrue, Desk!IsAt, Desk!Owes, Desk!IsAvailable
  <2> QED
    BY <2>1, <2>2
<1>6. Desk!OnlyMovesAreOwed'
  <2> SUFFICES ASSUME v3' # Desk!None, ~v6', ~Desk!IsAvailable(v3)'
               PROVE  \E g \in Actors \ v5' : v4'[g].stage \in {"drop", "replace"} /\ v4'[g].broker = BrokerOf[v3']
    BY DEF Desk!OnlyMovesAreOwed, Desk!IsAt, Desk!Owes, Desk!IsAvailable
  <2>1. CASE BrokerOf[v3] = b
    <3>1. h \notin v5'
      BY <1>1, <1>3 DEF Desk!IInv, Desk!ReadingsAreTrue, Desk!IsAt, Desk!Owes
    <3> QED
      BY <1>1, <2>1, <3>1 DEF Desk!Request
  <2>2. CASE BrokerOf[v3] # b
    <3>1. ~Desk!IsAvailable(v3)
      BY <1>1, <1>2, <2>2 DEF Desk!IInv, Desk!DeskTypeOK, Desk!IsAvailable
    <3>2. PICK g \in Actors \ v5 : v4[g].stage \in {"drop", "replace"} /\ v4[g].broker = BrokerOf[v3]
      BY <1>1, <3>1 DEF Desk!IInv, Desk!OnlyMovesAreOwed, Desk!IsAt, Desk!Owes
    <3>3. g # h /\ g \notin v5'
      BY <1>1, <2>2, <3>2
    <3> QED
      BY <1>1, <3>2, <3>3
  <2> QED
    BY <2>1, <2>2
<1>7. Desk!ActiveInReach'
  <2>1. v3' # Desk!None /\ ~v6' => BrokerOf[v3'] = v7'
    BY <1>1 DEF Desk!IInv, Desk!ActiveInReach
  <2>2. v3' # Desk!None /\ ~v6' /\ ~Desk!DropPending(v3)' => Desk!IsAvailable(v3)'
    BY <1>6 DEF Desk!OnlyMovesAreOwed, Desk!DropPending
  <2>3. \A g \in Actors : ~(v4'[g].stage = "bound" /\ v4'[g].fresh)
    BY <1>1 DEF Desk!Request
  <2> QED
    BY <2>1, <2>2, <2>3 DEF Desk!ActiveInReach, Desk!IsAt
<1> QED
  BY <1>4, <1>5, <1>6, <1>7 DEF Desk!IInv

\* What is still picked stays the active account, and what is of another broker is not
\* this handler's to move; the rest it is about to replace.
LEMMA DeskDrops == ASSUME Desk!IInv, NEW h \in Actors, Desk!Drops(h) PROVE Desk!IInv'
<1>1. /\ v4[h].stage = "drop" /\ UNCHANGED <<v2, v3, v6, v7>>
      /\ h \notin v5 => v2[v4[h].broker] = v4[h].set
  BY DEF Desk!IInv, Desk!ReadingsAreTrue, Desk!Drops, Desk!Owes, Desk!IsAt
<1>2. CASE Desk!DropsFrom(v3, h)
  <2>1. v4' = [v4 EXCEPT ![h] = [v4[h] EXCEPT !.stage = "replace"]] /\ v5' = v5 /\ v7 = v4[h].broker
    BY <1>2 DEF Desk!Drops, Desk!DropsFrom, Desk!Moves
  <2>2. /\ v4'[h].stage = "replace" /\ v4'[h].broker = v4[h].broker /\ v4'[h].set = v4[h].set
        /\ \A g \in Actors \ {h} : v4'[g] = v4[g]
    BY <2>1 DEF Desk!IInv, Desk!DeskTypeOK
  <2>3. Desk!DeskTypeOK'
    BY <1>1, <2>1 DEF Desk!IInv, Desk!DeskTypeOK
  <2>4. Desk!ReadingsAreTrue'
    BY <1>1, <2>1, <2>2 DEF Desk!IInv, Desk!ReadingsAreTrue, Desk!IsAt, Desk!Owes, Desk!IsAvailable
  <2>5. Desk!OnlyMovesAreOwed'
    BY <1>1, <2>1, <2>2 DEF Desk!IInv, Desk!OnlyMovesAreOwed, Desk!IsAt, Desk!Owes, Desk!IsAvailable
  <2>6. Desk!ActiveInReach'
    BY <1>1, <2>1, <2>2 DEF Desk!IInv, Desk!ActiveInReach, Desk!DropPending, Desk!IsAt, Desk!Owes, Desk!IsAvailable
  <2> QED
    BY <2>3, <2>4, <2>5, <2>6 DEF Desk!IInv
<1>3. CASE ~Desk!DropsFrom(v3, h)
  <2>1. /\ v4' = [v4 EXCEPT ![h] = Desk!NoRequest] /\ v5' = v5 \ {h}
        /\ v3 # Desk!None /\ v7 = v4[h].broker => v3 \in v4[h].set
    BY <1>3 DEF Desk!Drops, Desk!DropsFrom, Desk!Ends, Desk!Moves
  <2>2. v4'[h] = Desk!NoRequest /\ \A g \in Actors \ {h} : v4'[g] = v4[g]
    BY <2>1 DEF Desk!IInv, Desk!DeskTypeOK
  <2>3. Desk!DeskTypeOK'
    BY <1>1, <2>1 DEF Desk!IInv, Desk!DeskTypeOK, Desk!NoRequest, Desk!Request
  <2>4. Desk!ReadingsAreTrue'
    BY <1>1, <2>1, <2>2
    DEF Desk!IInv, Desk!ReadingsAreTrue, Desk!IsAt, Desk!Owes, Desk!IsAvailable, Desk!NoRequest, Desk!Request
  <2>5. Desk!OnlyMovesAreOwed'
    <3> SUFFICES ASSUME v3 # Desk!None, ~v6, ~Desk!IsAvailable(v3)
                 PROVE  \E g \in Actors \ v5' : v4'[g].stage \in {"drop", "replace"} /\ v4'[g].broker = BrokerOf[v3]
      BY <1>1 DEF Desk!OnlyMovesAreOwed, Desk!IsAt, Desk!Owes, Desk!IsAvailable
    <3>1. PICK g \in Actors \ v5 : v4[g].stage \in {"drop", "replace"} /\ v4[g].broker = BrokerOf[v3]
      BY DEF Desk!IInv, Desk!OnlyMovesAreOwed, Desk!IsAt, Desk!Owes
    <3>2. g # h
      <4>1. CASE g = h
        <5>1. BrokerOf[v3] = v7
          BY DEF Desk!IInv, Desk!ActiveInReach
        <5>2. v3 \in v4[h].set /\ v2[BrokerOf[v3]] = v4[h].set
          BY <1>1, <2>1, <3>1, <4>1, <5>1
        <5> QED
          BY <5>2 DEF Desk!IsAvailable
      <4> QED
        BY <4>1
    <3> QED
      BY <2>1, <2>2, <3>1, <3>2
  <2>6. Desk!ActiveInReach'
    <3>1. v3' # Desk!None /\ ~v6' => BrokerOf[v3'] = v7'
      BY <1>1 DEF Desk!IInv, Desk!ActiveInReach
    <3>2. v3' # Desk!None /\ ~v6' /\ ~Desk!DropPending(v3)' => Desk!IsAvailable(v3)'
      BY <2>5 DEF Desk!OnlyMovesAreOwed, Desk!DropPending
    <3>3. ASSUME NEW g \in Actors, v4'[g].stage = "bound", v4'[g].fresh, v4'[g].acct # Desk!None
          PROVE  v2[BrokerOf[v4'[g].acct]] = Desk!Unasked \/ v4'[g].acct \in v2[BrokerOf[v4'[g].acct]]
      <4>1. g # h /\ v4'[g] = v4[g]
        BY <2>2, <3>3 DEF Desk!NoRequest, Desk!Request
      <4> QED
        BY <3>3, <4>1 DEF Desk!IInv, Desk!ActiveInReach, Desk!IsAt, Desk!IsAvailable
    <3> QED
      BY <1>1, <3>1, <3>2, <3>3 DEF Desk!ActiveInReach, Desk!IsAt, Desk!IsAvailable
  <2> QED
    BY <2>3, <2>4, <2>5, <2>6 DEF Desk!IInv
<1> QED
  BY <1>2, <1>3

\* The first pick, or none, takes the place of what was not picked, under the broker that
\* is in use.
LEMMA DeskReplaces == ASSUME Desk!IInv, NEW h \in Actors, Desk!Replaces(h) PROVE Desk!IInv'
<1>1. /\ v4[h].stage = "replace" /\ v4[h].set \in SUBSET Desk!Accounts /\ UNCHANGED v2
      /\ v7 \in Desk!Brokers \cup {Desk!None} /\ \A a \in v4[h].set : BrokerOf[a] = v4[h].broker
      /\ h \notin v5 => v2[v4[h].broker] = v4[h].set /\ v7 = v4[h].broker
  BY DEF Desk!IInv, Desk!DeskTypeOK, Desk!ReadingsAreTrue, Desk!Replaces, Desk!Owes, Desk!IsAt
<1>2. PICK a \in v4[h].set \cup {Desk!None} : Desk!Writes(h, a, v7)
  BY DEF Desk!Replaces
<1>3. a \in v4[h].set /\ h \notin v5 => Desk!IsAvailable(a) /\ BrokerOf[a] = v7
  BY <1>1 DEF Desk!IsAvailable
<1> QED
  BY <1>1, <1>2, <1>3, DeskWrites

LEMMA DeskConnects ==
    ASSUME Desk!IInv, NEW h \in Actors,
           \/ \E b \in Desk!Brokers : Desk!Connects(h, b)
           \/ Desk!Considers(h) \/ Desk!Decides(h)
    PROVE  Desk!IInv'
<1>1. ASSUME NEW b \in Desk!Brokers, Desk!Connects(h, b) PROVE Desk!IInv'
  BY <1>1, DeskGoesOn DEF Desk!Connects, Desk!IsAt, Desk!Owes
<1>2. CASE Desk!Considers(h)
  <2> DEFINE may == {a \in Desk!Of(v4[h].broker) : Desk!IsAvailable(a)}
  <2>1. CASE may = {}
    BY <1>2, <2>1, DeskEnds DEF Desk!Considers, Desk!IsAt, Desk!Owes
  <2>2. CASE may # {}
    <3>1. may \in SUBSET Desk!Accounts /\ v4[h].broker \in Desk!Brokers
      BY <2>2 DEF Desk!Of, Desk!Brokers
    <3>2. \A x \in may : BrokerOf[x] = v4[h].broker /\ Desk!IsAvailable(x)
      BY DEF Desk!Of
    <3>3. /\ v4[h].stage = "connected" /\ UNCHANGED <<v2, v3, v5, v6, v7>>
          /\ Desk!Moves(h, Desk!Request("ensure", v4[h].broker, Desk!None, may))
      BY <1>2, <2>2 DEF Desk!Considers, Desk!IsAt
    <3>4. ~Desk!Owes(h)
      BY <3>3 DEF Desk!Owes, Desk!IsAt
    <3> HIDE DEF may
    <3> QED
      BY <3>1, <3>2, <3>3, <3>4, DeskGoesOn
  <2> QED
    BY <2>1, <2>2
<1>3. CASE Desk!Decides(h)
  <2>1. v4[h].stage = "ensure" /\ ~Desk!Owes(h) /\ UNCHANGED <<v2, v3, v6, v7>>
    BY <1>3 DEF Desk!Decides, Desk!IsAt, Desk!Owes
  <2>2. CASE Desk!Ends(h)
    BY <2>1, <2>2, DeskEnds
  <2>3. ASSUME NEW a \in v4[h].set, Desk!Moves(h, Desk!Request("activate", v4[h].broker, a, {})), UNCHANGED v5
        PROVE  Desk!IInv'
    <3>1. /\ a \in Desk!Accounts /\ a # Desk!None /\ BrokerOf[a] = v4[h].broker
          /\ h \notin v5 => Desk!IsAvailable(a)
      BY <2>1, DeskAssumption
      DEF Desk!IInv, Desk!DeskTypeOK, Desk!ReadingsAreTrue, Desk!IsAt, Desk!Owes, Desk!Accounts, Desk!None
    <3>2. v4[h].broker \in Desk!Brokers
      BY <3>1 DEF Desk!Brokers
    <3> QED
      BY <2>1, <2>3, <3>1, <3>2, DeskGoesOn
  <2> QED
    BY <1>3, <2>2, <2>3 DEF Desk!Decides
<1> QED
  BY <1>1, <1>2, <1>3

LEMMA DeskDisconnects == ASSUME Desk!IInv, NEW b \in Desk!Brokers, Desk!Disconnects(b) PROVE Desk!IInv'
<1>1. v3' \in {v3, Desk!None} /\ (v3' # Desk!None /\ ~v6' => ~v6) /\ UNCHANGED <<v2, v4, v5, v7>>
  BY DEF Desk!Disconnects
<1>2. Desk!DeskTypeOK' /\ Desk!ReadingsAreTrue'
  BY <1>1 DEF Desk!IInv, Desk!DeskTypeOK, Desk!ReadingsAreTrue, Desk!IsAt, Desk!Owes, Desk!IsAvailable
<1>3. Desk!OnlyMovesAreOwed' /\ Desk!ActiveInReach'
  BY <1>1
  DEF Desk!IInv, Desk!OnlyMovesAreOwed, Desk!ActiveInReach, Desk!DropPending, Desk!IsAt, Desk!Owes, Desk!IsAvailable
<1> QED
  BY <1>2, <1>3 DEF Desk!IInv

\* A request binds to what it may reach, or is not fresh.
LEMMA DeskBinds == ASSUME Desk!IInv, NEW h \in Actors, Desk!Binds(h) PROVE Desk!IInv'
<1>1. /\ v4[h].stage = "idle" /\ UNCHANGED <<v2, v3, v5, v6, v7>>
      /\ v4' = [v4 EXCEPT ![h] = [stage |-> "bound", broker |-> Desk!None, acct |-> v3, set |-> {},
                                  fresh |-> ~v6 /\ ~Desk!DropPending(v3)]]
  BY DEF Desk!Binds, Desk!IsAt, Desk!Owes, Desk!Moves
<1>2. Desk!DeskTypeOK'
  BY <1>1 DEF Desk!IInv, Desk!DeskTypeOK
<1>3. Desk!ReadingsAreTrue'
  BY <1>1 DEF Desk!IInv, Desk!DeskTypeOK, Desk!ReadingsAreTrue, Desk!IsAt, Desk!Owes, Desk!IsAvailable
<1>4. Desk!OnlyMovesAreOwed'
  BY <1>1 DEF Desk!IInv, Desk!DeskTypeOK, Desk!OnlyMovesAreOwed, Desk!IsAt, Desk!Owes, Desk!IsAvailable
<1>5. v3 # Desk!None /\ ~v6 /\ ~Desk!DropPending(v3) => Desk!IsAvailable(v3)
  BY DEF Desk!IInv, Desk!ActiveInReach
<1>6. Desk!ActiveInReach'
  BY <1>1, <1>5
  DEF Desk!IInv, Desk!DeskTypeOK, Desk!ActiveInReach, Desk!DropPending, Desk!IsAt, Desk!Owes, Desk!IsAvailable
<1> QED
  BY <1>2, <1>3, <1>4, <1>6 DEF Desk!IInv

\* A move that was not written is lost with the process.
LEMMA DeskRestarts == ASSUME Desk!IInv, Desk!Restarts PROVE Desk!IInv'
<1>1. v4' = [h \in Actors |-> Desk!NoRequest] /\ v5' = {} /\ (~v6' => ~v6 /\ ~Desk!DropPending(v3)) /\ UNCHANGED <<v2, v3, v7>>
  BY DEF Desk!Restarts
<1>2. v3 # Desk!None /\ ~v6' => Desk!IsAvailable(v3) /\ BrokerOf[v3] = v7
  BY <1>1 DEF Desk!IInv, Desk!ActiveInReach
<1> QED
  BY <1>1, <1>2
  DEF Desk!IInv, Desk!DeskTypeOK, Desk!ReadingsAreTrue, Desk!OnlyMovesAreOwed, Desk!ActiveInReach,
      Desk!IsAt, Desk!Owes, Desk!IsAvailable, Desk!NoRequest, Desk!Request

LEMMA DeskInductive == Desk!IInv /\ (Desk!Next \/ UNCHANGED Desk!deskVars) => Desk!IInv'
<1> SUFFICES ASSUME Desk!IInv, Desk!Next \/ UNCHANGED Desk!deskVars PROVE Desk!IInv'
  OBVIOUS
<1>1. CASE UNCHANGED Desk!deskVars
  BY <1>1 DEF Desk!deskVars, Desk!IInv, Desk!DeskTypeOK, Desk!ReadingsAreTrue, Desk!OnlyMovesAreOwed,
      Desk!ActiveInReach, Desk!DropPending, Desk!IsAt, Desk!Owes, Desk!IsAvailable
<1>2. ASSUME NEW h \in Actors, Desk!Acts(h) PROVE Desk!IInv'
  BY <1>2, DeskEnds DEF Desk!Acts, Desk!IsAt, Desk!Owes
<1> QED
  BY <1>1, <1>2, DeskChooses, DeskActivates, DeskPicks, DeskDrops, DeskReplaces, DeskConnects, DeskDisconnects, DeskBinds,
     DeskRestarts
  DEF Desk!Next

-----------------------------------------------------------------------------
(* Readings of the market. *)

\* The accounts, and what is made of them.
LEMMA ReadAccounts ==
    /\ Prices!None \notin Prices!Accounts
    /\ \A x \in Prices!Accounts \cup {Prices!None} :
          /\ Prices!Preferred(x) \in Prices!Accounts \cup {Prices!None}
          /\ Prices!Candidates(x) \in SUBSET Prices!Accounts
          /\ Prices!In(OwnAccounts) \ Prices!Candidates(x) \in SUBSET Prices!Accounts
          /\ \A a \in Prices!Accounts \ Prices!Candidates(x) : a \in Prices!In(OwnAccounts)
<1>1. Shortlist # <<>> => Shortlist[1] \in Prices!Accounts
  BY ReadAssumption DEF Prices!Accounts, Prices!In
<1>2. Prices!None \notin Prices!Accounts
  BY ReadAssumption DEF Prices!Accounts, Prices!In, Prices!None
<1> QED
  BY <1>1, <1>2 DEF Prices!Preferred, Prices!Candidates, Prices!Accounts

LEMMA ReadDone ==
    ASSUME v3 \in Nat, NEW end \in {"served", "raised", "refused"}
    PROVE  Prices!Done(end) \in
              [at : 0..v3, kind : {"resolve", "pull"}, first : Prices!Accounts \cup {Prices!None},
               phase : {"short", "rest", "last", "over"}, todo : SUBSET Prices!Accounts,
               asking : Prices!Accounts \cup {Prices!None}, tried : BOOLEAN,
               end : {Prices!None, "served", "raised", "refused"}]
<1>1. 0 \in 0..v3
  OBVIOUS
<1> QED
  BY <1>1 DEF Prices!Done

LEMMA ReadInitially == Prices!Init => Prices!IInv
<1> SUFFICES ASSUME Prices!Init PROVE Prices!IInv
  OBVIOUS
<1>1. /\ v1 = [a \in Prices!Accounts |-> "serves"] /\ v2 = [a \in Prices!Accounts |-> Prices!Never] /\ v3 = 0
      /\ v4 = [r \in Actors |-> Prices!Done("served")] /\ v5 = [r \in Actors |-> {}]
  BY DEF Prices!Init
<1>2. v3 \in Nat
  BY <1>1
<1>3. Prices!TypeOK
  <2>1. v4 \in [Actors -> [at : 0..v3, kind : {"resolve", "pull"}, first : Prices!Accounts \cup {Prices!None},
                            phase : {"short", "rest", "last", "over"}, todo : SUBSET Prices!Accounts,
                            asking : Prices!Accounts \cup {Prices!None}, tried : BOOLEAN,
                            end : {Prices!None, "served", "raised", "refused"}]]
    BY <1>1, <1>2, ReadDone
  <2>2. \A r \in Actors : v4[r].asking = Prices!None /\ v4[r].end = "served"
    BY <1>1 DEF Prices!Done
  <2> QED
    BY <1>1, <1>2, <2>1, <2>2 DEF Prices!TypeOK, Prices!Answers, Prices!None
<1>4. Prices!RefusedByAll /\ Prices!SteadyIsAhead /\ Prices!LastIsPreferred
  BY <1>1 DEF Prices!RefusedByAll, Prices!SteadyIsAhead, Prices!LastIsPreferred, Prices!Done
<1> QED
  BY <1>3, <1>4 DEF Prices!IInv, Prices!ReadsHold

\* A read begins with all its candidates before it.
LEMMA ReadBegins ==
    ASSUME Prices!IInv, NEW r \in Actors, NEW kind \in {"resolve", "pull"},
           NEW first \in Prices!Accounts \cup {Prices!None}, Prices!Begins(r, kind, first)
    PROVE  Prices!IInv'
<1>1. /\ v4' = [v4 EXCEPT ![r] = Prices!Read(v3, kind, first, "short", Prices!Candidates(first), Prices!None, FALSE)]
      /\ v5' = [v5 EXCEPT ![r] = {a \in Prices!Accounts :
                    v1[a] = "serves" /\ (v2[a] = Prices!Never \/ v3 - v2[a] >= ReadTTL \/ a = Prices!Preferred(first))}]
      /\ UNCHANGED <<v1, v2, v3>>
  BY DEF Prices!Begins
<1>2. Prices!TypeOK'
  BY <1>1, ReadAccounts DEF Prices!IInv, Prices!ReadsHold, Prices!TypeOK, Prices!Read
<1>3. Prices!RefusedByAll'
  BY <1>1 DEF Prices!IInv, Prices!ReadsHold, Prices!TypeOK, Prices!RefusedByAll, Prices!Read
<1>4. Prices!SteadyIsAhead'
  BY <1>1 DEF Prices!IInv, Prices!ReadsHold, Prices!TypeOK, Prices!SteadyIsAhead, Prices!Fresh, Prices!Read
<1>5. Prices!LastIsPreferred'
  BY <1>1 DEF Prices!IInv, Prices!ReadsHold, Prices!TypeOK, Prices!LastIsPreferred, Prices!Read
<1> QED
  BY <1>2, <1>3, <1>4, <1>5 DEF Prices!IInv, Prices!ReadsHold

\* A read passes over what is marked, and asks an account that none that is not comes
\* before.
LEMMA ReadAsks == ASSUME Prices!IInv, NEW r \in Actors, Prices!Asks(r) PROVE Prices!IInv'
<1> DEFINE at(a) == Prices!Place(v4[r].first, a)
           open == {a \in v4[r].todo : v4[r].phase = "last" \/ Prices!Fresh(r, a)}
<1>1. PICK a \in open :
        /\ \A b \in open : at(a) <= at(b)
        /\ Prices!GoesOn(r, v4[r].phase, {b \in v4[r].todo \ {a} : at(a) <= at(b)}, a, v4[r].tried)
  BY DEF Prices!Asks
<1>2. v4[r].phase # "over" /\ v4[r].asking = Prices!None /\ UNCHANGED <<v1, v2, v3, v5>>
  BY DEF Prices!Asks
<1>3. PICK todo \in SUBSET v4[r].todo :
        /\ Prices!GoesOn(r, v4[r].phase, todo, a, v4[r].tried)
        /\ \A b \in open : b \in todo \cup {a}
  BY <1>1
<1>4. a \in v4[r].todo /\ a \in Prices!Accounts
  BY <1>1 DEF Prices!IInv, Prices!ReadsHold, Prices!TypeOK
<1>5. Prices!TypeOK'
  BY <1>2, <1>3, <1>4 DEF Prices!IInv, Prices!ReadsHold, Prices!TypeOK, Prices!GoesOn, Prices!Read
<1>6. Prices!RefusedByAll'
  BY <1>2, <1>3 DEF Prices!IInv, Prices!ReadsHold, Prices!TypeOK, Prices!RefusedByAll, Prices!GoesOn, Prices!Read
<1>7. Prices!SteadyIsAhead'
  <2> HIDE DEF at
  <2> SUFFICES ASSUME NEW q \in Actors, NEW x \in v5[q]
               PROVE  /\ v1[x] = "serves"
                      /\ v4'[q].phase \in {"short", "rest"} /\ ~Prices!Fresh(q, x)' => x = Prices!Preferred(v4'[q].first)
                      /\ v4'[q].phase = "short" /\ Prices!Fresh(q, x)' /\ x \in Prices!Candidates(v4'[q].first) =>
                            x \in v4'[q].todo \cup {v4'[q].asking}
                      /\ v4'[q].phase = "rest" /\ Prices!Fresh(q, x)' => x \in v4'[q].todo \cup {v4'[q].asking}
                      /\ v4'[q].phase = "last" => x = Prices!Preferred(v4'[q].first)
    BY <1>2 DEF Prices!SteadyIsAhead
  <2>1. CASE q = r
    <3>1. Prices!Fresh(q, x)' = Prices!Fresh(q, x) /\ x # Prices!None
      BY <1>2, <1>3, ReadAccounts
      DEF Prices!IInv, Prices!ReadsHold, Prices!TypeOK, Prices!Fresh, Prices!GoesOn, Prices!Read
    <3> QED
      BY <1>2, <1>3, <2>1, <3>1
      DEF Prices!IInv, Prices!ReadsHold, Prices!TypeOK, Prices!SteadyIsAhead, Prices!GoesOn, Prices!Read
  <2>2. CASE q # r
    BY <1>2, <1>3, <2>2
    DEF Prices!IInv, Prices!ReadsHold, Prices!TypeOK, Prices!SteadyIsAhead, Prices!GoesOn, Prices!Fresh
  <2> QED
    BY <2>1, <2>2
<1>8. Prices!LastIsPreferred'
  BY <1>2, <1>3, <1>4
  DEF Prices!IInv, Prices!ReadsHold, Prices!TypeOK, Prices!LastIsPreferred, Prices!GoesOn, Prices!Read
<1> QED
  BY <1>5, <1>6, <1>7, <1>8 DEF Prices!IInv, Prices!ReadsHold

\* A read is over: with a refusal, only if nothing would have served it.
LEMMA ReadEnds ==
    ASSUME Prices!IInv, NEW r \in Actors, NEW end \in {"served", "raised", "refused"}, Prices!Over(r, end),
           UNCHANGED <<v1, v2, v3, v5>>, end = "refused" => v5[r] = {}
    PROVE  Prices!IInv'
<1>0. v3 \in Nat /\ end # Prices!None
  BY DEF Prices!IInv, Prices!ReadsHold, Prices!TypeOK, Prices!None
<1>1. Prices!TypeOK'
  <2>1. v4'[r].asking = Prices!None /\ v4'[r].end = end
    BY DEF Prices!IInv, Prices!ReadsHold, Prices!TypeOK, Prices!Over, Prices!Done
  <2> QED
    BY <1>0, <2>1, ReadDone DEF Prices!IInv, Prices!ReadsHold, Prices!TypeOK, Prices!Over
<1> USE DEF Prices!Over, Prices!Done
<1>2. Prices!RefusedByAll'
  BY DEF Prices!IInv, Prices!ReadsHold, Prices!TypeOK, Prices!RefusedByAll
<1>3. Prices!SteadyIsAhead'
  BY DEF Prices!IInv, Prices!ReadsHold, Prices!TypeOK, Prices!SteadyIsAhead, Prices!Fresh
<1>4. Prices!LastIsPreferred'
  BY DEF Prices!IInv, Prices!ReadsHold, Prices!TypeOK, Prices!LastIsPreferred
<1> QED
  BY <1>1, <1>2, <1>3, <1>4 DEF Prices!IInv, Prices!ReadsHold

\* An account that refuses is none that would have served any read all along.
LEMMA ReadHears == ASSUME Prices!IInv, NEW r \in Actors, Prices!Hears(r) PROVE Prices!IInv'
<1>1. PICK a \in Prices!Accounts :
        /\ a = v4[r].asking
        /\ \/ Prices!Over(r, "served") /\ UNCHANGED v2
           \/ v1[a] # "serves" /\ v4[r].phase = "last" /\ Prices!Over(r, "refused") /\ UNCHANGED v2
           \/ /\ Prices!Refusal(r, v1[a]) /\ v4[r].phase # "last" /\ v2' = [v2 EXCEPT ![a] = v4[r].at]
              /\ Prices!GoesOn(r, v4[r].phase, v4[r].todo, Prices!None, v4[r].tried \/ v4[r].phase = "short")
           \/ Prices!Over(r, "raised") /\ UNCHANGED v2
        /\ UNCHANGED <<v1, v3, v5>>
  BY DEF Prices!Hears
<1>2. CASE Prices!Over(r, "served") /\ UNCHANGED v2
  BY <1>1, <1>2, ReadEnds
<1>3. CASE Prices!Over(r, "raised") /\ UNCHANGED v2
  BY <1>1, <1>3, ReadEnds
<1>4. CASE v1[a] # "serves" /\ v4[r].phase = "last" /\ Prices!Over(r, "refused") /\ UNCHANGED v2
  <2>1. v5[r] = {}
    BY <1>1, <1>4, ReadAccounts DEF Prices!IInv, Prices!SteadyIsAhead, Prices!LastIsPreferred
  <2> QED
    BY <1>1, <1>4, <2>1, ReadEnds
<1>5. CASE /\ Prices!Refusal(r, v1[a]) /\ v4[r].phase # "last" /\ v2' = [v2 EXCEPT ![a] = v4[r].at]
           /\ Prices!GoesOn(r, v4[r].phase, v4[r].todo, Prices!None, v4[r].tried \/ v4[r].phase = "short")
  <2>1. v1[a] # "serves" /\ v4[r].phase # "over" /\ v4[r].asking = a
    BY <1>1, <1>5, ReadAccounts DEF Prices!IInv, Prices!ReadsHold, Prices!TypeOK, Prices!Refusal
  <2>2. Prices!TypeOK'
    BY <1>1, <1>5, <2>1 DEF Prices!IInv, Prices!ReadsHold, Prices!TypeOK, Prices!GoesOn, Prices!Read
  <2>3. Prices!RefusedByAll'
    BY <1>1, <1>5, <2>1
    DEF Prices!IInv, Prices!ReadsHold, Prices!TypeOK, Prices!RefusedByAll, Prices!GoesOn, Prices!Read
  <2>4. \A q \in Actors : \A x \in v5[q] : v2'[x] = v2[x] /\ v4'[q].at = v4[q].at /\ x # a
    BY <1>1, <1>5, <2>1
    DEF Prices!IInv, Prices!ReadsHold, Prices!TypeOK, Prices!SteadyIsAhead, Prices!GoesOn, Prices!Read
  <2>5. Prices!SteadyIsAhead'
    BY <1>1, <1>5, <2>1, <2>4
    DEF Prices!IInv, Prices!ReadsHold, Prices!TypeOK, Prices!SteadyIsAhead, Prices!Fresh, Prices!GoesOn, Prices!Read
  <2>6. Prices!LastIsPreferred'
    BY <1>5, <2>1
    DEF Prices!IInv, Prices!ReadsHold, Prices!TypeOK, Prices!LastIsPreferred, Prices!GoesOn, Prices!Read
  <2> QED
    BY <2>2, <2>3, <2>5, <2>6 DEF Prices!IInv, Prices!ReadsHold
<1> QED
  BY <1>1, <1>2, <1>3, <1>4, <1>5

\* What is not a candidate is tried next.
LEMMA ReadWidens == ASSUME Prices!IInv, NEW r \in Actors, Prices!Widens(r) PROVE Prices!IInv'
<1>1. /\ v4[r].phase = "short" /\ v4[r].asking = Prices!None /\ \A a \in v4[r].todo : ~Prices!Fresh(r, a)
      /\ Prices!GoesOn(r, "rest", Prices!Rest(r), Prices!None, v4[r].tried) /\ UNCHANGED <<v1, v2, v3, v5>>
  BY DEF Prices!Widens, Prices!Spent
<1>2. Prices!Rest(r) \in SUBSET Prices!Accounts
  BY ReadAccounts DEF Prices!IInv, Prices!ReadsHold, Prices!TypeOK, Prices!Rest
<1>3. Prices!TypeOK'
  BY <1>1, <1>2 DEF Prices!IInv, Prices!ReadsHold, Prices!TypeOK, Prices!GoesOn, Prices!Read
<1>4. Prices!RefusedByAll'
  BY <1>1 DEF Prices!IInv, Prices!ReadsHold, Prices!TypeOK, Prices!RefusedByAll, Prices!GoesOn, Prices!Read
<1>5. \A x \in v5[r] : Prices!Fresh(r, x) => x \in Prices!Rest(r)
  BY <1>1, ReadAccounts
  DEF Prices!IInv, Prices!ReadsHold, Prices!TypeOK, Prices!SteadyIsAhead, Prices!Rest
<1>6. Prices!SteadyIsAhead'
  BY <1>1, <1>5
  DEF Prices!IInv, Prices!ReadsHold, Prices!TypeOK, Prices!SteadyIsAhead, Prices!Fresh, Prices!GoesOn, Prices!Read
<1>7. Prices!LastIsPreferred'
  BY <1>1 DEF Prices!IInv, Prices!ReadsHold, Prices!TypeOK, Prices!LastIsPreferred, Prices!GoesOn, Prices!Read
<1> QED
  BY <1>3, <1>4, <1>6, <1>7 DEF Prices!IInv, Prices!ReadsHold

\* Nothing is left but what is marked: of that, only the preferred account would have
\* served, and it gets the last attempt.
LEMMA ReadWipes == ASSUME Prices!IInv, NEW r \in Actors, Prices!Wipes(r) PROVE Prices!IInv'
<1>1. /\ v4[r].phase = "rest" /\ v4[r].asking = Prices!None /\ \A a \in v4[r].todo : ~Prices!Fresh(r, a)
      /\ v2' = [a \in Prices!Accounts |-> Prices!Never]
      /\ v5' = [q \in Actors |-> IF q = r THEN v5[q] ELSE {a \in v5[q] : v2[a] = Prices!Never}]
      /\ UNCHANGED <<v1, v3>>
  BY DEF Prices!Wipes, Prices!Spent
<1>2. /\ v4 \in [Actors -> [at : 0..v3, kind : {"resolve", "pull"}, first : Prices!Accounts \cup {Prices!None},
                            phase : {"short", "rest", "last", "over"}, todo : SUBSET Prices!Accounts,
                            asking : Prices!Accounts \cup {Prices!None}, tried : BOOLEAN,
                            end : {Prices!None, "served", "raised", "refused"}]]
      /\ v5 \in [Actors -> SUBSET Prices!Accounts]
  BY DEF Prices!IInv, Prices!ReadsHold, Prices!TypeOK
<1>3. \A x \in v5[r] : ~Prices!Fresh(r, x) /\ x = Prices!Preferred(v4[r].first) /\ x \in Prices!Accounts
  BY <1>1, <1>2, ReadAccounts DEF Prices!IInv, Prices!SteadyIsAhead
<1>4. \/ Prices!GoesOn(r, "last", Prices!LastTry(r), Prices!None, v4[r].tried)
      \/ Prices!Over(r, "refused") /\ v5[r] = {}
  <2>1. ASSUME NEW x \in v5[r] PROVE v2[x] # Prices!Never /\ x \in Prices!LastTry(r)
    BY <1>3, <2>1, ReadAccounts DEF Prices!Fresh, Prices!LastTry
  <2> QED
    BY <1>3, <2>1 DEF Prices!Wipes
<1>5. Prices!LastTry(r) \in SUBSET Prices!Accounts
  BY <1>2, ReadAccounts DEF Prices!LastTry
<1>6. Prices!TypeOK'
  <2>1. v3 \in Nat
    BY DEF Prices!IInv, Prices!ReadsHold, Prices!TypeOK
  <2>2. v2' \in [Prices!Accounts -> {Prices!Never} \cup 0..v3'] /\ v5' \in [Actors -> SUBSET Prices!Accounts]
    BY <1>1, <1>2
  <2>3. v4' \in [Actors -> [at : 0..v3, kind : {"resolve", "pull"}, first : Prices!Accounts \cup {Prices!None},
                            phase : {"short", "rest", "last", "over"}, todo : SUBSET Prices!Accounts,
                            asking : Prices!Accounts \cup {Prices!None}, tried : BOOLEAN,
                            end : {Prices!None, "served", "raised", "refused"}]]
    <3>1. CASE Prices!Over(r, "refused")
      BY <1>2, <2>1, <3>1, ReadDone DEF Prices!Over
    <3>2. CASE Prices!GoesOn(r, "last", Prices!LastTry(r), Prices!None, v4[r].tried)
      BY <1>2, <1>5, <3>2 DEF Prices!GoesOn, Prices!Read
    <3> QED
      BY <1>4, <3>1, <3>2
  <2>4. \A q \in Actors : v4'[q].phase = "over" => v4'[q].asking = Prices!None /\ v4'[q].end # Prices!None
    BY <1>2, <1>4
    DEF Prices!IInv, Prices!ReadsHold, Prices!TypeOK, Prices!GoesOn, Prices!Over, Prices!Read, Prices!Done, Prices!None
  <2> QED
    BY <1>1, <2>2, <2>3, <2>4 DEF Prices!IInv, Prices!ReadsHold, Prices!TypeOK
<1>7. Prices!RefusedByAll'
  BY <1>1, <1>2, <1>4 DEF Prices!IInv, Prices!ReadsHold, Prices!RefusedByAll, Prices!GoesOn, Prices!Over, Prices!Read,
     Prices!Done
<1>8. Prices!SteadyIsAhead'
  <2> SUFFICES ASSUME NEW q \in Actors, NEW x \in v5'[q]
               PROVE  /\ v1[x] = "serves"
                      /\ v4'[q].phase \in {"short", "rest"} /\ ~Prices!Fresh(q, x)' => x = Prices!Preferred(v4'[q].first)
                      /\ v4'[q].phase = "short" /\ Prices!Fresh(q, x)' /\ x \in Prices!Candidates(v4'[q].first) =>
                            x \in v4'[q].todo \cup {v4'[q].asking}
                      /\ v4'[q].phase = "rest" /\ Prices!Fresh(q, x)' => x \in v4'[q].todo \cup {v4'[q].asking}
                      /\ v4'[q].phase = "last" => x = Prices!Preferred(v4'[q].first)
    BY <1>1 DEF Prices!SteadyIsAhead
  <2>1. x \in v5[q] /\ x \in Prices!Accounts
    BY <1>1, <1>2
  <2>2. CASE q = r
    <3>1. Prices!GoesOn(r, "last", Prices!LastTry(r), Prices!None, v4[r].tried)
      BY <1>4, <2>1, <2>2
    <3>2. /\ v4'[r].phase = "last" /\ v4'[r].todo = {Prices!Preferred(v4[r].first)} \ {Prices!None}
          /\ v4'[r].first = v4[r].first
      BY <1>2, <3>1 DEF Prices!GoesOn, Prices!Read, Prices!LastTry
    <3>3. x = Prices!Preferred(v4[r].first) /\ x # Prices!None /\ v1[x] = "serves"
      BY <1>3, <2>1, <2>2, ReadAccounts DEF Prices!IInv, Prices!SteadyIsAhead
    <3> QED
      BY <2>2, <3>2, <3>3
  <2>3. CASE q # r
    <3>1. v4'[q] = v4[q]
      BY <1>2, <1>4, <2>3 DEF Prices!GoesOn, Prices!Over
    <3>2. v2[x] = Prices!Never /\ v2'[x] = Prices!Never
      BY <1>1, <2>1, <2>3
    <3>3. Prices!Fresh(q, x) /\ Prices!Fresh(q, x)'
      BY <3>2 DEF Prices!Fresh
    <3> QED
      BY <2>1, <3>1, <3>3 DEF Prices!IInv, Prices!SteadyIsAhead
  <2> QED
    BY <2>2, <2>3
<1>9. Prices!LastIsPreferred'
  BY <1>2, <1>4
  DEF Prices!IInv, Prices!LastIsPreferred, Prices!LastTry, Prices!GoesOn, Prices!Over, Prices!Read, Prices!Done
<1> QED
  BY <1>6, <1>7, <1>8, <1>9 DEF Prices!IInv, Prices!ReadsHold

LEMMA ReadTurns ==
    ASSUME Prices!IInv,
           \/ \E a \in Prices!Accounts, answer \in Prices!Answers : Prices!Turns(a, answer)
           \/ Prices!Ticks
    PROVE  Prices!IInv'
<1>1. ASSUME NEW a \in Prices!Accounts, NEW answer \in Prices!Answers, Prices!Turns(a, answer) PROVE Prices!IInv'
  <2>1. /\ v1' = [v1 EXCEPT ![a] = answer] /\ v5' = [r \in Actors |-> v5[r] \ {a}] /\ UNCHANGED <<v2, v3, v4>>
    BY <1>1 DEF Prices!Turns
  <2>2. Prices!TypeOK'
    BY <2>1 DEF Prices!IInv, Prices!ReadsHold, Prices!TypeOK
  <2>3. Prices!RefusedByAll'
    BY <2>1 DEF Prices!IInv, Prices!ReadsHold, Prices!RefusedByAll
  <2>4. Prices!SteadyIsAhead'
    BY <2>1 DEF Prices!IInv, Prices!ReadsHold, Prices!TypeOK, Prices!SteadyIsAhead, Prices!Fresh
  <2> QED
    BY <2>1, <2>2, <2>3, <2>4 DEF Prices!IInv, Prices!ReadsHold, Prices!LastIsPreferred
<1>2. CASE Prices!Ticks
  <2>1. v3' = v3 + 1 /\ UNCHANGED <<v1, v2, v4, v5>>
    BY <1>2 DEF Prices!Ticks
  <2>2. Prices!TypeOK'
    <3>1. v3 \in Nat /\ 0..v3 \subseteq 0..v3'
      BY <2>1 DEF Prices!IInv, Prices!ReadsHold, Prices!TypeOK
    <3> QED
      BY <2>1, <3>1 DEF Prices!IInv, Prices!ReadsHold, Prices!TypeOK
  <2> QED
    BY <2>1, <2>2 DEF Prices!IInv, Prices!ReadsHold, Prices!RefusedByAll, Prices!SteadyIsAhead, Prices!LastIsPreferred,
       Prices!Fresh
<1> QED
  BY <1>1, <1>2

LEMMA ReadInductive == Prices!IInv /\ (Prices!Next \/ UNCHANGED Prices!readVars) => Prices!IInv'
<1> SUFFICES ASSUME Prices!IInv, Prices!Next \/ UNCHANGED Prices!readVars PROVE Prices!IInv'
  OBVIOUS
<1>1. CASE UNCHANGED Prices!readVars
  BY <1>1 DEF Prices!readVars, Prices!IInv, Prices!ReadsHold, Prices!TypeOK, Prices!RefusedByAll,
      Prices!SteadyIsAhead, Prices!LastIsPreferred, Prices!Fresh
<1>2. ASSUME NEW r \in Actors, NEW kind \in {"resolve", "pull"},
             NEW first \in {Prices!None} \cup (Prices!Accounts \ {Shortlist[1]}), Prices!Begins(r, kind, first)
      PROVE  Prices!IInv'
  BY <1>2, ReadBegins
<1> QED
  BY <1>1, <1>2, ReadAsks, ReadHears, ReadWidens, ReadWipes, ReadTurns DEF Prices!Next

-----------------------------------------------------------------------------
(* The turns of the chat. *)

\* Sums over a finite set: how Chat!Together and the folds of the calculators unfold.
SumPick(s) == CHOOSE x \in s : TRUE
SumAdds(f, s, g) == IF s = {} THEN 0 ELSE f[SumPick(s)] + g[s \ {SumPick(s)}]
SumSmall(S, n) == {s \in SUBSET S : Cardinality(s) <= n}
SumsUpTo(S, f, n, g) == g \in [SumSmall(S, n) -> Int] /\ \A s \in SumSmall(S, n) : g[s] = SumAdds(f, s, g)
SumShifts(f, e, t, n) == \A x \in Actors : e[x] = f[x] + (IF x = t THEN n ELSE 0)
SumScales(S, f, e, n) == \A x \in S : e[x] = n * f[x]
SumsUp(S, f, g) == \A s \in SUBSET S : g[s] = SumAdds(f, s, g)
SumsTyped(S, f, g) == f \in [S -> Int] /\ g \in [SUBSET S -> Int] /\ SumsUp(S, f, g)

LEMMA SumSubsets ==
    ASSUME NEW S, IsFiniteSet(S)
    PROVE
    /\ \A s \in SUBSET S : s # {} => SumPick(s) \in s
    /\ \A s \in SUBSET S : Cardinality(s) \in Nat /\ Cardinality(s) <= Cardinality(S)
    /\ \A s \in SUBSET S : \A x \in s : Cardinality(s \ {x}) = Cardinality(s) - 1
    /\ \A s \in SUBSET S : Cardinality(s) = 0 => s = {}
<1>1. \A s \in SUBSET S : IsFiniteSet(s) /\ Cardinality(s) \in Nat /\ Cardinality(s) <= Cardinality(S)
  BY FS_Subset, FS_CardinalityType
<1>2. \A s \in SUBSET S : \A x \in s : Cardinality(s \ {x}) = Cardinality(s) - 1
  BY <1>1, FS_RemoveElement
<1> QED
  BY <1>1, <1>2, FS_EmptySet DEF SumPick

\* There are such sums: of the sets of n + 1 turns, where there are those of n.
LEMMA SumsExist ==
    ASSUME NEW S, IsFiniteSet(S), NEW f \in [S -> Int]
    PROVE  \E g : SumsUp(S, f, g) /\ g \in [SUBSET S -> Int]
<1> DEFINE P(n) == \E g : SumsUpTo(S, f, n, g)
           bad == {n \in Nat : ~P(n)}
<1>1. P(0)
  <2> DEFINE g == [s \in SumSmall(S, 0) |-> 0]
  <2>1. \A s \in SumSmall(S, 0) : s = {}
    BY SumSubsets DEF SumSmall
  <2>2. g \in [SumSmall(S, 0) -> Int] /\ \A s \in SumSmall(S, 0) : g[s] = SumAdds(f, s, g)
    BY <2>1 DEF SumAdds
  <2> QED
    BY <2>2 DEF SumsUpTo
<1>2. ASSUME NEW m \in Nat, P(m) PROVE P(m + 1)
  <2>1. PICK g \in [SumSmall(S, m) -> Int] : \A s \in SumSmall(S, m) : g[s] = SumAdds(f, s, g)
    BY <1>2 DEF SumsUpTo
  <2>2. \A s \in SumSmall(S, m + 1) : s # {} => s \ {SumPick(s)} \in SumSmall(S, m) /\ f[SumPick(s)] \in Int
    BY SumSubsets DEF SumSmall
  <2>3. \A s \in SumSmall(S, m) : s \in SumSmall(S, m + 1)
    BY SumSubsets DEF SumSmall
  <2> DEFINE h == [s \in SumSmall(S, m + 1) |-> SumAdds(f, s, g)]
  <2>4. h \in [SumSmall(S, m + 1) -> Int]
    BY <2>1, <2>2 DEF SumAdds
  <2>5. \A s \in SumSmall(S, m) : h[s] = g[s]
    BY <2>1, <2>3
  <2>6. \A s \in SumSmall(S, m + 1) : h[s] = SumAdds(f, s, h)
    BY <2>2, <2>5 DEF SumAdds
  <2> QED
    BY <2>4, <2>6 DEF SumsUpTo
<1> HIDE DEF P
<1>3. \A n \in Nat : P(n)
  <2> SUFFICES ASSUME NEW n \in bad PROVE FALSE
    OBVIOUS
  <2>1. PICK m \in bad : \A k \in bad : m <= k
    BY LeastNumber
  <2>2. m # 0 /\ m \in Nat
    BY <1>1
  <2>3. P(m - 1)
    BY <2>1, <2>2
  <2> QED
    BY <1>2, <2>1, <2>2, <2>3
<1>4. Cardinality(S) \in Nat /\ SumSmall(S, Cardinality(S)) = SUBSET S
  BY SumSubsets DEF SumSmall
<1> QED
  BY <1>3, <1>4 DEF P, SumsUpTo, SumsUp

\* What one turn has more, the sum has more.
LEMMA SumsMove ==
    ASSUME NEW f, NEW g, SumsTyped(Actors, f, g), NEW t \in Actors, NEW n \in Int,
           NEW e, SumShifts(f, e, t, n), NEW h, SumsUp(Actors, e, h)
    PROVE  h[Actors] = g[Actors] + n
<1> DEFINE Right(s) == h[s] = g[s] + (IF t \in s THEN n ELSE 0)
           bad == {c \in Nat : \E s \in SUBSET Actors : Cardinality(s) = c /\ ~Right(s)}
<1> USE DEF SumsTyped
<1>1. ASSUME NEW c \in bad PROVE FALSE
  <2>1. PICK m \in bad : \A k \in bad : m <= k
    BY LeastNumber
  <2>2. PICK s \in SUBSET Actors : Cardinality(s) = m /\ ~Right(s)
    BY <2>1
  <2>3. s # {}
    <3>1. g[{}] = 0 /\ h[{}] = 0
      BY DEF SumsUp, SumAdds
    <3>2. Right({})
      BY <3>1
    <3> HIDE DEF Right
    <3> QED
      BY <2>2, <3>2
  <2> DEFINE x == SumPick(s)  r == s \ {x}
  <2>4. x \in s /\ r \in SUBSET Actors /\ Cardinality(r) = m - 1 /\ m - 1 \in Nat
    <3>1. Cardinality(s) # 0 \/ s = {}
      BY SumSubsets, TurnAssumption
    <3> QED
      BY <2>2, <2>3, <3>1, SumSubsets, TurnAssumption
  <2>5. Right(r)
    BY <2>1, <2>4
  <2>6. h[s] = e[x] + h[r] /\ g[s] = f[x] + g[r]
    BY <2>3 DEF SumsUp, SumAdds
  <2>7. e[x] = f[x] + (IF x = t THEN n ELSE 0)
    BY <2>4 DEF SumShifts
  <2>8. f[x] \in Int /\ g[r] \in Int
    BY <2>4
  <2> QED
    BY <2>2, <2>4, <2>5, <2>6, <2>7, <2>8
<1>2. Actors \in SUBSET Actors /\ Cardinality(Actors) \in Nat
  BY SumSubsets, TurnAssumption
<1> QED
  BY <1>1, <1>2

LEMMA TogetherIs == ASSUME NEW f \in [Actors -> Int] PROVE \E g : SumsUp(Actors, f, g) /\ Chat!Together(f) = g[Actors]
<1> DEFINE Iter(g) == g = [s \in SUBSET Actors |-> IF s = {} THEN 0
                             ELSE f[CHOOSE x \in s : TRUE] + g[s \ {CHOOSE x \in s : TRUE}]]
           it == CHOOSE g : Iter(g)
<1>1. PICK g : SumsUp(Actors, f, g) /\ g \in [SUBSET Actors -> Int]
  BY SumsExist, TurnAssumption
<1>2. Iter(g)
  BY <1>1 DEF SumsUp, SumAdds, SumPick
<1>3. Iter(it)
  BY <1>2
<1>4. Chat!Together(f) = it[Actors]
  BY DEF Chat!Together, Chat!MapThenSumSet, Chat!MapThenFoldSet
<1>5. SumsUp(Actors, f, it)
  BY <1>3 DEF SumsUp, SumAdds, SumPick
<1> QED
  BY <1>4, <1>5

LEMMA TogetherMoves ==
    ASSUME NEW f \in [Actors -> Int], NEW t \in Actors, NEW n \in Int
    PROVE  Chat!Together(f) \in Int /\ Chat!Together([f EXCEPT ![t] = f[t] + n]) = Chat!Together(f) + n
<1> DEFINE e == [f EXCEPT ![t] = f[t] + n]
<1>1. e \in [Actors -> Int]
  OBVIOUS
<1>2. PICK g : SumsTyped(Actors, f, g)
  BY SumsExist, TurnAssumption DEF SumsTyped
<1>3. PICK h : SumsUp(Actors, e, h) /\ Chat!Together(e) = h[Actors]
  BY <1>1, TogetherIs
<1>4. PICK k : SumsUp(Actors, f, k) /\ Chat!Together(f) = k[Actors]
  BY TogetherIs
<1>5. h[Actors] = g[Actors] + n
  <2>1. SumShifts(f, e, t, n)
    BY DEF SumShifts
  <2>2. SumsUp(Actors, e, h)
    BY <1>3
  <2> HIDE DEF e
  <2> QED
    BY <1>2, <2>1, <2>2, SumsMove
<1>6. k[Actors] = g[Actors] + 0
  <2>1. 0 \in Int /\ SumShifts(f, f, t, 0)
    BY DEF SumShifts
  <2> QED
    BY <1>2, <1>4, <2>1, SumsMove
<1>7. g[Actors] \in Int
  BY <1>2 DEF SumsTyped
<1> QED
  BY <1>3, <1>4, <1>5, <1>6, <1>7

LEMMA TogetherNothing == Chat!Together([t \in Actors |-> 0]) = 0
<1> DEFINE f == [t \in Actors |-> 0]  g == [s \in SUBSET Actors |-> 0]
<1>1. g \in [SUBSET Actors -> Int] /\ f \in [Actors -> Int]
  OBVIOUS
<1>2. SumsTyped(Actors, f, g)
  BY SumSubsets, TurnAssumption DEF SumsTyped, SumsUp, SumAdds
<1>3. PICK k : SumsUp(Actors, f, k) /\ Chat!Together(f) = k[Actors]
  BY <1>1, TogetherIs
<1> QED
  <2>1. CASE Actors = {}
    BY <1>3, <2>1 DEF SumsUp, SumAdds
  <2>2. CASE Actors # {}
    <3>1. PICK t \in Actors : TRUE
      BY <2>2
    <3>2. 0 \in Int /\ SumShifts(f, f, t, 0)
      BY DEF SumShifts
    <3>3. g[Actors] = 0
      OBVIOUS
    <3> HIDE DEF f, g
    <3>4. k[Actors] = g[Actors] + 0
      BY <1>1, <1>2, <1>3, <3>1, <3>2, SumsMove
    <3> QED
      BY <1>3, <3>3, <3>4 DEF f
  <2> QED
    BY <2>1, <2>2

\* A turn moves on, with its tools: the rest of the invariant follows from what
\* the turn, its tools, the balance and the memory become.
LEMMA TurnMoves ==
    ASSUME Chat!IInv, NEW t \in Actors, NEW r \in Chat!Records, Chat!Accounted(r), NEW js \in [Things -> Chat!Jobs],
           \A c \in Things : js[c].at \in {"asked", "read"} => r.at = "tools",
           v3' = [v3 EXCEPT ![t] = r], v4' = [v4 EXCEPT ![t] = js], v1' = v1 - (r.paid - v3[t].paid),
           v2' \in Seq(Chat!Facts), Chat!NotesAreKept'
    PROVE  Chat!IInv'
<1>1. v1 \in Int /\ v3 \in [Actors -> Chat!Records] /\ v4 \in [Actors -> [Things -> Chat!Jobs]]
  BY DEF Chat!IInv, Chat!TurnsTyped
<1>2. v3[t].paid \in Nat /\ r.paid \in Nat
  BY <1>1 DEF Chat!Records
<1>3. Chat!TurnsTyped'
  BY <1>1, <1>2 DEF Chat!TurnsTyped
<1>4. v1' = Funds - Chat!Together([u \in Actors |-> v3'[u].paid])
  <2> DEFINE f == [u \in Actors |-> v3[u].paid]  n == r.paid - v3[t].paid
  <2>1. f \in [Actors -> Int] /\ n \in Int /\ f[t] = v3[t].paid
    BY SMTT(40), <1>1, <1>2 DEF Chat!Records
  <2>2. [u \in Actors |-> v3'[u].paid] = [f EXCEPT ![t] = f[t] + n]
    <3>1. f[t] + n = r.paid
      BY <1>2, <2>1
    <3>2. \A u \in Actors : v3'[u].paid = IF u = t THEN r.paid ELSE v3[u].paid
      BY <1>1
    <3> QED
      BY <3>1, <3>2
  <2>3. v1 = Funds - Chat!Together(f)
    BY DEF Chat!IInv, Chat!TurnsAreSettled, Chat!TurnsAreCharged
  <2> HIDE DEF f
  <2>4. Chat!Together(f) \in Int /\ Chat!Together([f EXCEPT ![t] = f[t] + n]) = Chat!Together(f) + n
    BY <2>1, TogetherMoves
  <2> HIDE DEF n
  <2>5. v1' = v1 - n
    BY DEF n
  <2> QED
    BY <2>1, <2>2, <2>3, <2>4, <2>5, TurnAssumption
<1>5. \A u \in Actors : Chat!Accounted(v3'[u])
  BY <1>1 DEF Chat!IInv
<1>6. \A u \in Actors : (\E c \in Things : v4'[u][c].at \in {"asked", "read"}) => v3'[u].at \in {"tools"}
  <2>1. \A u \in Actors : (\E c \in Things : v4[u][c].at \in {"asked", "read"}) => v3[u].at \in {"tools"}
    BY DEF Chat!IInv, Chat!Busy, Chat!At
  <2> QED
    BY <1>1, <2>1
<1>7. \A u \in Actors : ~v3'[u].lost /\ v3'[u].at = "over" /\ ~v3'[u].left /\ ~v3'[u].unpaid => v3'[u].paid = v3'[u].burned
  BY <1>5 DEF Chat!Accounted
<1>8. Chat!TurnsAreCharged'
  BY <1>4, <1>7 DEF Chat!TurnsAreCharged, Chat!At, Chat!Live
<1>9. \A u \in Actors : Chat!Accounted(v3[u])' /\ (Chat!Busy(u)' => Chat!At(u, {"tools"})')
  BY <1>5, <1>6 DEF Chat!Accounted, Chat!Busy, Chat!At
<1> QED
  BY <1>3, <1>8, <1>9 DEF Chat!IInv, Chat!TurnsAreSettled

\* The same, where the memory is left alone.
LEMMA TurnGoesOn ==
    ASSUME Chat!IInv, NEW t \in Actors, NEW r \in Chat!Records, Chat!Accounted(r), NEW js \in [Things -> Chat!Jobs],
           \A c \in Things : js[c].at \in {"asked", "read"} => r.at = "tools",
           v3' = [v3 EXCEPT ![t] = r], v4' = [v4 EXCEPT ![t] = js], v1' = v1 - (r.paid - v3[t].paid),
           UNCHANGED <<v2, v5, v6, v7>>
    PROVE  Chat!IInv'
<1>1. v2' \in Seq(Chat!Facts)
  BY DEF Chat!IInv, Chat!TurnsTyped
<1>2. Chat!NotesAreKept'
  BY DEF Chat!IInv, Chat!TurnsAreSettled, Chat!NotesAreKept, Chat!InMemory
<1> QED
  BY <1>1, <1>2, TurnMoves

\* What a turn and its tools are.
LEMMA TurnIs ==
    ASSUME Chat!IInv, NEW t \in Actors
    PROVE  /\ v1 \in Int /\ v3 \in [Actors -> Chat!Records] /\ v4 \in [Actors -> [Things -> Chat!Jobs]]
           /\ v2 \in Seq(Chat!Facts) /\ v3[t] \in Chat!Records /\ v4[t] \in [Things -> Chat!Jobs]
           /\ Chat!Accounted(v3[t]) /\ v4 = [v4 EXCEPT ![t] = v4[t]] /\ v3 = [v3 EXCEPT ![t] = v3[t]]
           /\ v3[t].meter \in Nat /\ v3[t].burned \in Nat /\ v3[t].paid \in Nat /\ v3[t].round \in Nat
           /\ \A c \in Things : v4[t][c].at \in {"asked", "read"} => v3[t].at = "tools"
<1>1. v1 \in Int /\ v3 \in [Actors -> Chat!Records] /\ v4 \in [Actors -> [Things -> Chat!Jobs]] /\ v2 \in Seq(Chat!Facts)
  BY DEF Chat!IInv, Chat!TurnsTyped
<1>2. Chat!Accounted(v3[t]) /\ \A c \in Things : v4[t][c].at \in {"asked", "read"} => v3[t].at = "tools"
  BY DEF Chat!IInv, Chat!Busy, Chat!At
<1>3. v3[t].meter \in Nat /\ v3[t].burned \in Nat /\ v3[t].paid \in Nat /\ v3[t].round \in Nat
  BY <1>1 DEF Chat!Records
<1> QED
  BY <1>1, <1>2, <1>3

\* No tool is asked.
LEMMA NoJobs == LET js == [c \in Things |-> Chat!NoJob]
                IN  js \in [Things -> Chat!Jobs] /\ \A c \in Things : js[c].at \notin {"asked", "read"}
<1>1. Chat!NoJob \in Chat!Jobs /\ Chat!NoJob.at = "none"
  <2>1. <<>> \in Seq(Chat!Facts) /\ "" \in Chat!Facts
    BY DEF Chat!Facts
  <2> QED
    BY <2>1 DEF Chat!NoJob, Chat!Jobs
<1> QED
  BY <1>1

LEMMA ChatInitially == Chat!Init => Chat!IInv
<1> SUFFICES ASSUME Chat!Init PROVE Chat!IInv
  OBVIOUS
<1>1. PICK taken \in SUBSET Actors : v3 = [t \in Actors |-> IF t \in taken THEN Chat!NewTurn ELSE [Chat!NewTurn EXCEPT !.at = "over"]]
  BY DEF Chat!Init
<1>2. v1 = Funds /\ v2 = <<>> /\ v5 = {} /\ v4 = [t \in Actors |-> [c \in Things |-> Chat!NoJob]]
  BY DEF Chat!Init
<1>3. <<>> \in Seq(Chat!Facts) /\ "" \in Chat!Facts
  BY DEF Chat!Facts
<1>4. /\ Chat!NewTurn \in Chat!Records /\ [Chat!NewTurn EXCEPT !.at = "over"] \in Chat!Records
      /\ Chat!Accounted(Chat!NewTurn) /\ Chat!Accounted([Chat!NewTurn EXCEPT !.at = "over"])
      /\ Chat!NewTurn.paid = 0 /\ [Chat!NewTurn EXCEPT !.at = "over"].paid = 0
      /\ [Chat!NewTurn EXCEPT !.at = "over"].burned = 0
  BY <1>3 DEF Chat!NewTurn, Chat!Records, Chat!Accounted
<1>5. \A t \in Actors : v3[t] \in Chat!Records /\ Chat!Accounted(v3[t]) /\ v3[t].paid = 0 /\ (v3[t].at = "over" => v3[t].burned = 0)
  BY <1>1, <1>4 DEF Chat!NewTurn
<1>6. v3 \in [Actors -> Chat!Records]
  BY <1>1, <1>4
<1>7. v4 \in [Actors -> [Things -> Chat!Jobs]] /\ \A t \in Actors : ~Chat!Busy(t)
  BY <1>2, NoJobs DEF Chat!Busy
<1>8. [t \in Actors |-> v3[t].paid] = [t \in Actors |-> 0]
  BY <1>5
<1>9. Chat!TurnsAreCharged
  BY <1>2, <1>5, <1>8, TogetherNothing, TurnAssumption DEF Chat!TurnsAreCharged, Chat!At
<1>10. Chat!TurnsTyped
  BY <1>2, <1>3, <1>6, <1>7, TurnAssumption DEF Chat!TurnsTyped
<1>11. Chat!NotesAreKept
  BY <1>2 DEF Chat!NotesAreKept
<1> QED
  BY <1>5, <1>7, <1>9, <1>10, <1>11 DEF Chat!IInv, Chat!TurnsAreSettled

LEMMA TurnPasses == ASSUME Chat!IInv, NEW t \in Actors, Chat!Passes(t) PROVE Chat!IInv'
<1> DEFINE r == [v3[t] EXCEPT !.at = "model", !.round = 1]
<1>1. v3' = [v3 EXCEPT ![t] = r] /\ v3[t].at = "new" /\ v4' = v4 /\ v1' = v1 /\ UNCHANGED <<v2, v5, v6, v7>>
  BY TurnIs DEF Chat!Passes, Chat!At, Chat!memoryVars
<1>2. r \in Chat!Records /\ Chat!Accounted(r) /\ r.paid = v3[t].paid
  BY ZenonT(60), TurnIs, <1>1 DEF Chat!Records, Chat!Accounted
<1>3. \A c \in Things : v4[t][c].at \notin {"asked", "read"}
  BY TurnIs, <1>1
<1>4. v1' = v1 - (r.paid - v3[t].paid)
  BY TurnIs, <1>1, <1>2 DEF Chat!Records
<1> HIDE DEF r
<1> QED
  BY TurnIs, <1>1, <1>2, <1>3, <1>4, TurnGoesOn

LEMMA TurnSpeaks ==
    ASSUME Chat!IInv, NEW t \in Actors, NEW called \in SUBSET Things, NEW asked \in [called -> Chat!Wishes],
           Chat!Speaks(t, asked)
    PROVE  Chat!IInv'
<1> DEFINE stage == IF DOMAIN asked = {} THEN "charge" ELSE "tools"
           r == [v3[t] EXCEPT !.burned = @ + 1, !.meter = @ + 1, !.at = stage]
           js == [c \in Things |-> IF c \in DOMAIN asked
                    THEN [Chat!NoJob EXCEPT !.kind = asked[c].kind, !.note = asked[c].note, !.at = "asked"]
                    ELSE Chat!NoJob]
<1>1. v3' = [v3 EXCEPT ![t] = r] /\ v3[t].at = "model" /\ v4' = [v4 EXCEPT ![t] = js] /\ v1' = v1 /\ UNCHANGED <<v2, v5, v6, v7>>
  BY TurnIs DEF Chat!Speaks, Chat!At, Chat!memoryVars
<1>2. r \in Chat!Records /\ Chat!Accounted(r) /\ r.paid = v3[t].paid
  <2>1. stage \in {"charge", "tools"}
    OBVIOUS
  <2> HIDE DEF stage
  <2>2. /\ r \in Chat!Records /\ r.paid = v3[t].paid /\ r.at = stage /\ r.lost = v3[t].lost
        /\ r.burned = v3[t].burned + 1 /\ r.meter = v3[t].meter + 1
    <3> DEFINE burned == v3[t].burned + 1  meter == v3[t].meter + 1
    <3>1. burned \in Nat /\ meter \in Nat /\ v3[t] \in Chat!Records
      BY TurnIs
    <3>2. r = [v3[t] EXCEPT !.burned = burned, !.meter = meter, !.at = stage]
      OBVIOUS
    <3> HIDE DEF burned, meter, r
    <3>3. /\ r \in Chat!Records /\ r.paid = v3[t].paid /\ r.at = stage /\ r.lost = v3[t].lost
          /\ r.burned = burned /\ r.meter = meter
      BY <2>1, <3>1, <3>2 DEF Chat!Records
    <3> QED
      BY <3>3 DEF burned, meter
  <2> HIDE DEF r
  <2> QED
    BY TurnIs, <1>1, <2>1, <2>2 DEF Chat!Accounted
<1>3. /\ Chat!NoJob \in Chat!Jobs /\ Chat!NoJob.at = "none"
      /\ \A w \in Chat!Wishes : [Chat!NoJob EXCEPT !.kind = w.kind, !.note = w.note, !.at = "asked"] \in Chat!Jobs
  <2>1. <<>> \in Seq(Chat!Facts) /\ "" \in Chat!Facts /\ \A w \in Chat!Wishes : w.note \in Chat!Facts /\ w.kind \in {"analysis", "remember"}
    <3>1. <<>> \in Seq(Chat!Facts) /\ "" \in Chat!Facts
      BY DEF Chat!Facts
    <3>2. ASSUME NEW w \in Chat!Wishes PROVE w.note \in Chat!Facts /\ w.kind \in {"analysis", "remember"}
      <4>1. CASE w \in [kind : {"analysis"}, note : {""}]
        BY <4>1 DEF Chat!Facts
      <4>2. CASE w \in [kind : {"remember"}, note : Things]
        BY <4>2 DEF Chat!Facts
      <4> QED
        BY <3>2, <4>1, <4>2 DEF Chat!Wishes
    <3> QED
      BY <3>1, <3>2
  <2> QED
    BY <2>1 DEF Chat!NoJob, Chat!Jobs
<1>4. js \in [Things -> Chat!Jobs] /\ (\A c \in Things : js[c].at \in {"asked", "read"} => r.at = "tools")
  <2>1. \A c \in Things : js[c] \in Chat!Jobs /\ (c \notin DOMAIN asked => js[c].at = "none")
    BY <1>3
  <2>2. \A c \in Things : js[c].at \in {"asked", "read"} => DOMAIN asked # {}
    BY <2>1
  <2>3. r.at = IF DOMAIN asked = {} THEN "charge" ELSE "tools"
    <3> HIDE DEF stage
    <3>1. r.at = stage
      BY TurnIs DEF Chat!Records
    <3> QED
      BY <3>1 DEF stage
  <2> QED
    BY <2>1, <2>2, <2>3
<1>5. v1' = v1 - (r.paid - v3[t].paid)
  <2>1. v1' = v1 /\ v1 \in Int /\ v3[t].paid \in Nat
    BY TurnIs DEF Chat!Speaks
  <2> HIDE DEF r
  <2> QED
    BY ONLY SMTT(40), <1>2, <2>1
<1> HIDE DEF r, js
<1> QED
  BY TurnIs, <1>1, <1>2, <1>4, <1>5, TurnGoesOn

LEMMA TurnBreaks == ASSUME Chat!IInv, NEW t \in Actors, Chat!Breaks(t) PROVE Chat!IInv'
<1> DEFINE r == [v3[t] EXCEPT !.burned = v3[t].burned + 1, !.lost = TRUE, !.at = "charge"]
<1>1. v3' = [v3 EXCEPT ![t] = r] /\ v3[t].at = "model" /\ v4' = v4 /\ v1' = v1 /\ UNCHANGED <<v2, v5, v6, v7>>
  BY TurnIs DEF Chat!Breaks, Chat!At, Chat!memoryVars
<1>2. r \in Chat!Records /\ Chat!Accounted(r) /\ r.paid = v3[t].paid
  <2>1. r \in Chat!Records /\ r.paid = v3[t].paid /\ r.at = "charge" /\ r.lost = TRUE
    <3> DEFINE burned == v3[t].burned + 1
    <3>1. burned \in Nat /\ v3[t] \in Chat!Records /\ r = [v3[t] EXCEPT !.burned = burned, !.lost = TRUE, !.at = "charge"]
      BY TurnIs
    <3> HIDE DEF burned, r
    <3> QED
      BY <3>1 DEF Chat!Records
  <2> HIDE DEF r
  <2> QED
    BY TurnIs, <1>1, <2>1 DEF Chat!Accounted
<1>3. \A c \in Things : v4[t][c].at \notin {"asked", "read"}
  BY TurnIs, <1>1
<1>4. v1' = v1 - (r.paid - v3[t].paid)
  BY SMTT(40), TurnIs, <1>1, <1>2 DEF Chat!Records
<1> HIDE DEF r
<1> QED
  BY TurnIs, <1>1, <1>2, <1>3, <1>4, TurnGoesOn

LEMMA TurnAnswers == ASSUME Chat!IInv, NEW t \in Actors, Chat!Answers(t) PROVE Chat!IInv'
<1> DEFINE more == v3[t].round < v8.rounds
           r == [v3[t] EXCEPT !.at = IF more THEN "model" ELSE "charge", !.round = IF more THEN @ + 1 ELSE @]
           js == [c \in Things |-> Chat!NoJob]
<1>1. v3' = [v3 EXCEPT ![t] = r] /\ v3[t].at = "tools" /\ v4' = [v4 EXCEPT ![t] = js] /\ v1' = v1 /\ UNCHANGED <<v2, v5, v6, v7>>
  BY TurnIs DEF Chat!Answers, Chat!At, Chat!memoryVars
<1>2. r \in Chat!Records /\ Chat!Accounted(r) /\ r.paid = v3[t].paid
  <2> DEFINE stage == IF more THEN "model" ELSE "charge"
             round == IF more THEN v3[t].round + 1 ELSE v3[t].round
  <2>1. stage \in {"model", "charge"} /\ round \in Nat
    <3> HIDE DEF more
    <3> QED
      BY TurnIs DEF Chat!Records
  <2>2. r = [v3[t] EXCEPT !.at = stage, !.round = round]
    OBVIOUS
  <2> HIDE DEF more, stage, round, r
  <2>3. /\ r \in Chat!Records /\ r.paid = v3[t].paid /\ r.at = stage /\ r.lost = v3[t].lost
        /\ r.burned = v3[t].burned /\ r.meter = v3[t].meter
    BY ZenonT(60), TurnIs, <2>1, <2>2 DEF Chat!Records
  <2> QED
    BY TurnIs, <1>1, <2>1, <2>3 DEF Chat!Accounted
<1>3. v1' = v1 - (r.paid - v3[t].paid)
  BY SMTT(40), TurnIs, <1>1, <1>2 DEF Chat!Records
<1>4. js \in [Things -> Chat!Jobs] /\ \A c \in Things : js[c].at \notin {"asked", "read"}
  BY NoJobs
<1> HIDE DEF r, js
<1> QED
  BY <1>1, <1>2, <1>3, <1>4, TurnGoesOn

LEMMA TurnLeaves == ASSUME Chat!IInv, NEW t \in Actors, Chat!Leaves(t) PROVE Chat!IInv'
<1> DEFINE r == [v3[t] EXCEPT !.left = TRUE]
<1>1. v3' = [v3 EXCEPT ![t] = r] /\ v4' = v4 /\ v1' = v1 /\ UNCHANGED <<v2, v5, v6, v7>>
  BY TurnIs DEF Chat!Leaves, Chat!memoryVars
<1>2. r \in Chat!Records /\ Chat!Accounted(r) /\ r.paid = v3[t].paid /\ r.at = v3[t].at
  <2>1. /\ r \in Chat!Records /\ r.paid = v3[t].paid /\ r.at = v3[t].at /\ r.left = TRUE
        /\ r.unpaid = v3[t].unpaid /\ r.meter = v3[t].meter /\ r.burned = v3[t].burned /\ r.lost = v3[t].lost
    BY ZenonT(60), TurnIs DEF Chat!Records
  <2> HIDE DEF r
  <2> QED
    BY TurnIs, <1>1, <2>1 DEF Chat!Accounted
<1>3. v1' = v1 - (r.paid - v3[t].paid)
  BY TurnIs, <1>1, <1>2 DEF Chat!Records
<1> HIDE DEF r
<1> QED
  BY ZenonT(60), TurnIs, <1>1, <1>2, <1>3, TurnGoesOn

LEMMA TurnCloses == ASSUME Chat!IInv, NEW t \in Actors, Chat!Closes(t) PROVE Chat!IInv'
<1> DEFINE r == [v3[t] EXCEPT !.at = "over"]
           js == [c \in Things |-> Chat!NoJob]
<1>1. v3' = [v3 EXCEPT ![t] = r] /\ v3[t].left = TRUE /\ v4' = [v4 EXCEPT ![t] = js] /\ v1' = v1 /\ UNCHANGED <<v2, v5, v6, v7>>
  BY TurnIs DEF Chat!Closes, Chat!Live, Chat!memoryVars, Chat!Records
<1>2. r \in Chat!Records /\ Chat!Accounted(r) /\ r.paid = v3[t].paid
  <2>1. /\ r \in Chat!Records /\ r.paid = v3[t].paid /\ r.at = "over" /\ r.left = v3[t].left
        /\ r.unpaid = v3[t].unpaid /\ r.meter = v3[t].meter /\ r.burned = v3[t].burned /\ r.lost = v3[t].lost
    BY ZenonT(60), TurnIs DEF Chat!Records
  <2> HIDE DEF r
  <2> QED
    BY TurnIs, <1>1, <2>1 DEF Chat!Accounted
<1>3. v1' = v1 - (r.paid - v3[t].paid)
  BY SMTT(40), TurnIs, <1>1, <1>2 DEF Chat!Records
<1>4. js \in [Things -> Chat!Jobs] /\ \A c \in Things : js[c].at \notin {"asked", "read"}
  BY NoJobs
<1> HIDE DEF r, js
<1> QED
  BY <1>1, <1>2, <1>3, <1>4, TurnGoesOn

LEMMA TurnCharges == ASSUME Chat!IInv, NEW t \in Actors, Chat!Charges(t) PROVE Chat!IInv'
<1> DEFINE paid == v3[t].paid + v3[t].meter
           r == [v3[t] EXCEPT !.paid = paid, !.at = "extract"]
<1>1. v3' = [v3 EXCEPT ![t] = r] /\ v3[t].at = "charge" /\ v4' = v4 /\ v1' = v1 - v3[t].meter /\ UNCHANGED <<v2, v5, v6, v7>>
  BY TurnIs DEF Chat!Charges, Chat!At, Chat!memoryVars
<1>2. v3[t].paid = 0 /\ paid = v3[t].meter /\ paid \in Nat
  BY TurnIs, <1>1 DEF Chat!Accounted
<1> HIDE DEF paid
<1>3. r \in Chat!Records /\ r.paid = paid /\ r.at = "extract" /\ r.meter = v3[t].meter /\ r.burned = v3[t].burned /\ r.lost = v3[t].lost
  BY ZenonT(60), TurnIs, <1>2 DEF Chat!Records
<1> HIDE DEF r
<1>4. Chat!Accounted(r)
  BY TurnIs, <1>2, <1>3 DEF Chat!Accounted
<1>5. \A c \in Things : v4[t][c].at \notin {"asked", "read"}
  BY TurnIs, <1>1
<1>6. v1' = v1 - (r.paid - v3[t].paid)
  BY TurnIs, <1>1, <1>2, <1>3
<1> QED
  BY TurnIs, <1>1, <1>3, <1>4, <1>5, <1>6, TurnGoesOn

LEMMA TurnChargeFails == ASSUME Chat!IInv, NEW t \in Actors, Chat!ChargeFails(t) PROVE Chat!IInv'
<1> DEFINE r == [v3[t] EXCEPT !.unpaid = TRUE, !.at = "extract"]
<1>1. v3' = [v3 EXCEPT ![t] = r] /\ v3[t].at = "charge" /\ v4' = v4 /\ v1' = v1 /\ UNCHANGED <<v2, v5, v6, v7>>
  BY TurnIs DEF Chat!ChargeFails, Chat!At, Chat!memoryVars
<1>2. r \in Chat!Records /\ Chat!Accounted(r) /\ r.paid = v3[t].paid
  <2>1. /\ r \in Chat!Records /\ r.paid = v3[t].paid /\ r.at = "extract" /\ r.left = v3[t].left
        /\ r.unpaid = TRUE /\ r.meter = v3[t].meter /\ r.burned = v3[t].burned /\ r.lost = v3[t].lost
    BY ZenonT(60), TurnIs DEF Chat!Records
  <2> HIDE DEF r
  <2> QED
    BY TurnIs, <1>1, <2>1 DEF Chat!Accounted
<1>3. \A c \in Things : v4[t][c].at \notin {"asked", "read"}
  BY TurnIs, <1>1
<1>4. v1' = v1 - (r.paid - v3[t].paid)
  BY TurnIs, <1>1, <1>2
<1> HIDE DEF r
<1> QED
  BY TurnIs, <1>1, <1>2, <1>3, <1>4, TurnGoesOn

LEMMA TurnExtractReads == ASSUME Chat!IInv, NEW t \in Actors, NEW n \in Things, Chat!ExtractReads(t, n) PROVE Chat!IInv'
<1> DEFINE r == [v3[t] EXCEPT !.at = "noting", !.copy = v2, !.note = n]
<1>1. v3' = [v3 EXCEPT ![t] = r] /\ v3[t].at = "extract" /\ v4' = v4 /\ v1' = v1 /\ UNCHANGED <<v2, v5, v6, v7>>
  BY TurnIs DEF Chat!ExtractReads, Chat!At, Chat!memoryVars
<1>2. n \in Chat!Facts /\ v2 \in Seq(Chat!Facts)
  BY TurnIs DEF Chat!Facts
<1>3. r \in Chat!Records /\ Chat!Accounted(r) /\ r.paid = v3[t].paid
  <2>1. /\ r \in Chat!Records /\ r.paid = v3[t].paid /\ r.at = "noting" /\ r.left = v3[t].left
        /\ r.unpaid = v3[t].unpaid /\ r.meter = v3[t].meter /\ r.burned = v3[t].burned /\ r.lost = v3[t].lost
    BY ZenonT(60), TurnIs, <1>2 DEF Chat!Records
  <2> HIDE DEF r
  <2> QED
    BY TurnIs, <1>1, <2>1 DEF Chat!Accounted
<1>4. \A c \in Things : v4[t][c].at \notin {"asked", "read"}
  BY TurnIs, <1>1
<1>5. v1' = v1 - (r.paid - v3[t].paid)
  BY TurnIs, <1>1, <1>3
<1> HIDE DEF r
<1> QED
  BY TurnIs, <1>1, <1>3, <1>4, <1>5, TurnGoesOn

LEMMA TurnEnds == ASSUME Chat!IInv, NEW t \in Actors, Chat!Ends(t) PROVE Chat!IInv'
<1> DEFINE r == [v3[t] EXCEPT !.at = "over"]
<1>1. v3' = [v3 EXCEPT ![t] = r] /\ v3[t].at = "extract" /\ v4' = v4 /\ v1' = v1 /\ UNCHANGED <<v2, v5, v6, v7>>
  BY TurnIs DEF Chat!Ends, Chat!At, Chat!memoryVars
<1>2. r \in Chat!Records /\ Chat!Accounted(r) /\ r.paid = v3[t].paid
  <2>1. /\ r \in Chat!Records /\ r.paid = v3[t].paid /\ r.at = "over" /\ r.left = v3[t].left
        /\ r.unpaid = v3[t].unpaid /\ r.meter = v3[t].meter /\ r.burned = v3[t].burned /\ r.lost = v3[t].lost
    BY TurnIs DEF Chat!Records
  <2> HIDE DEF r
  <2> QED
    BY TurnIs, <1>1, <2>1 DEF Chat!Accounted
<1>3. \A c \in Things : v4[t][c].at \notin {"asked", "read"}
  BY TurnIs, <1>1
<1>4. v1' = v1 - (r.paid - v3[t].paid)
  BY TurnIs, <1>1, <1>2
<1> HIDE DEF r
<1> QED
  BY TurnIs, <1>1, <1>2, <1>3, <1>4, TurnGoesOn

\* What the memory becomes, whoever writes a note into an old copy of it.
LEMMA MemoryIsWritten ==
    ASSUME Chat!IInv, NEW copy \in Seq(Chat!Facts), NEW n \in Chat!Facts, Chat!Writes(copy, n)
    PROVE  v2' \in Seq(Chat!Facts) /\ Chat!NotesAreKept'
<1> DEFINE all == Append(copy, n)
           new == IF Len(all) > MemoryCap THEN Tail(all) ELSE all
           held == {copy[i] : i \in DOMAIN copy}
           after == {new[i] : i \in DOMAIN new}
<1>1. /\ v2' = new /\ v5' = v5 \cup {n} /\ v6' = v6 \cup (held \ after)
      /\ v7' = v7 \cup (Chat!InMemory \ (after \cup held))
  BY DEF Chat!Writes, Chat!Appended
<1>2. all \in Seq(Chat!Facts) /\ Len(all) = Len(copy) + 1 /\ all[Len(all)] = n /\ Len(copy) \in Nat
  OBVIOUS
<1> HIDE DEF all
<1>3. new \in Seq(Chat!Facts) /\ n \in after
  <2>1. CASE Len(all) > MemoryCap
    <3>1. new = Tail(all) /\ Len(all) >= 2 /\ Len(all) \in Nat
      BY <1>2, <2>1, TurnAssumption
    <3>2. Tail(all) \in Seq(Chat!Facts) /\ Len(Tail(all)) = Len(all) - 1 /\ Tail(all)[Len(all) - 1] = n
      BY <1>2, <3>1
    <3> DEFINE rest == Tail(all)
    <3> HIDE DEF rest
    <3>3. Len(all) - 1 \in DOMAIN rest
      <4>1. rest \in Seq(Chat!Facts) /\ Len(rest) = Len(all) - 1
        BY <3>2 DEF rest
      <4> QED
        BY <3>1, <4>1
    <3> USE DEF rest
    <3> QED
      BY <3>1, <3>2, <3>3
  <2>2. CASE ~(Len(all) > MemoryCap)
    <3>1. new = all /\ Len(all) \in DOMAIN all
      BY <1>2, <2>2
    <3> QED
      BY <1>2, <3>1
  <2> QED
    BY <2>1, <2>2
<1>4. Chat!InMemory' = after
  BY <1>1 DEF Chat!InMemory
<1>5. v5 \subseteq Chat!InMemory \cup v6 \cup v7
  BY DEF Chat!IInv, Chat!TurnsAreSettled, Chat!NotesAreKept
<1> HIDE DEF new, held, after
<1> QED
  BY <1>1, <1>3, <1>4, <1>5 DEF Chat!NotesAreKept

LEMMA TurnExtractWrites == ASSUME Chat!IInv, NEW t \in Actors, Chat!ExtractWrites(t) PROVE Chat!IInv'
<1> DEFINE r == [v3[t] EXCEPT !.at = "extract", !.copy = <<>>, !.note = ""]
<1>1. v3' = [v3 EXCEPT ![t] = r] /\ v3[t].at = "noting" /\ v4' = v4 /\ v1' = v1 /\ Chat!Writes(v3[t].copy, v3[t].note)
  BY TurnIs DEF Chat!ExtractWrites, Chat!At
<1>2. "" \in Chat!Facts /\ <<>> \in Seq(Chat!Facts)
  BY DEF Chat!Facts
<1>3. r \in Chat!Records /\ Chat!Accounted(r) /\ r.paid = v3[t].paid
  <2>1. /\ r \in Chat!Records /\ r.paid = v3[t].paid /\ r.at = "extract" /\ r.left = v3[t].left
        /\ r.unpaid = v3[t].unpaid /\ r.meter = v3[t].meter /\ r.burned = v3[t].burned /\ r.lost = v3[t].lost
    BY ZenonT(60), TurnIs, <1>2 DEF Chat!Records
  <2> HIDE DEF r
  <2> QED
    BY TurnIs, <1>1, <2>1 DEF Chat!Accounted
<1>4. \A c \in Things : v4[t][c].at \notin {"asked", "read"}
  BY TurnIs, <1>1
<1>5. v1' = v1 - (r.paid - v3[t].paid)
  BY TurnIs, <1>1, <1>3
<1>6. v3[t].copy \in Seq(Chat!Facts) /\ v3[t].note \in Chat!Facts
  BY TurnIs DEF Chat!Records
<1>7. v2' \in Seq(Chat!Facts) /\ Chat!NotesAreKept'
  BY <1>1, <1>6, MemoryIsWritten
<1> HIDE DEF r
<1> QED
  BY TurnIs, <1>1, <1>3, <1>4, <1>5, <1>7, TurnMoves

\* The tools.
LEMMA ToolRuns ==
    ASSUME Chat!IInv, NEW t \in Actors, NEW c \in Things, Chat!Runs(t, c) \/ Chat!RunFails(t, c)
    PROVE  Chat!IInv'
<1> DEFINE j == [v4[t][c] EXCEPT !.at = "done"]
           js == [v4[t] EXCEPT ![c] = j]
<1>1. v4[t][c].at = "asked" /\ v4' = [v4 EXCEPT ![t][c].at = "done"] /\ v1' = v1 /\ UNCHANGED <<v2, v5, v6, v7>>
  BY DEF Chat!Runs, Chat!RunFails, Chat!Done, Chat!memoryVars
<1>2. v4[t][c] \in Chat!Jobs
  BY TurnIs
<1>3. j \in Chat!Jobs
  BY <1>2 DEF Chat!Jobs
<1>4. v4' = [v4 EXCEPT ![t] = js]
  BY TurnIs, <1>1
<1> HIDE DEF j
<1>5. js \in [Things -> Chat!Jobs] /\ v3[t].at = "tools"
  BY <1>1, <1>3, TurnIs
<1> HIDE DEF js
<1> DEFINE meter == v3[t].meter + 1  burned == v3[t].burned + 1
<1>6. meter \in Nat /\ burned \in Nat /\ v3[t] \in Chat!Records /\ Chat!Accounted(v3[t]) /\ v1 \in Int /\ v3[t].paid \in Nat
  BY TurnIs
<1>7. CASE Chat!Runs(t, c)
  <2> DEFINE r == [v3[t] EXCEPT !.burned = burned, !.meter = meter]
  <2>1. v3' = [v3 EXCEPT ![t] = r]
    BY <1>7, TurnIs DEF Chat!Runs
  <2> HIDE DEF meter, burned
  <2>2. r \in Chat!Records /\ r.at = "tools" /\ r.lost = v3[t].lost /\ r.burned = burned /\ r.meter = meter /\ r.paid = v3[t].paid
    BY <1>5, <1>6 DEF Chat!Records
  <2> HIDE DEF r
  <2>3. Chat!Accounted(r)
    BY <1>5, <1>6, <2>2 DEF Chat!Accounted, meter, burned
  <2>4. v1' = v1 - (r.paid - v3[t].paid)
    BY <1>1, <1>6, <2>2
  <2> QED
    BY <1>1, <1>4, <1>5, <2>1, <2>2, <2>3, <2>4, TurnGoesOn
<1>8. CASE Chat!RunFails(t, c)
  <2> DEFINE r == [v3[t] EXCEPT !.burned = burned, !.lost = TRUE]
  <2>1. v3' = [v3 EXCEPT ![t] = r]
    BY <1>8, TurnIs DEF Chat!RunFails
  <2> HIDE DEF meter, burned
  <2>2. r \in Chat!Records /\ r.at = "tools" /\ r.lost = TRUE /\ r.paid = v3[t].paid
    BY <1>5, <1>6 DEF Chat!Records
  <2> HIDE DEF r
  <2>3. Chat!Accounted(r)
    BY <1>5, <1>6, <2>2 DEF Chat!Accounted
  <2>4. v1' = v1 - (r.paid - v3[t].paid)
    BY <1>1, <1>6, <2>2
  <2> QED
    BY <1>1, <1>4, <1>5, <2>1, <2>2, <2>3, <2>4, TurnGoesOn
<1> QED
  BY <1>7, <1>8

LEMMA ToolReads == ASSUME Chat!IInv, NEW t \in Actors, NEW c \in Things, Chat!RememberReads(t, c) PROVE Chat!IInv'
<1>1. v4[t][c].at = "asked" /\ v3' = v3 /\ v1' = v1 /\ UNCHANGED <<v2, v5, v6, v7>>
  BY DEF Chat!RememberReads, Chat!memoryVars
<1>2. v4[t][c] \in Chat!Jobs /\ v2 \in Seq(Chat!Facts) /\ v3[t].at = "tools" /\ v3[t] \in Chat!Records /\ Chat!Accounted(v3[t])
  BY <1>1, TurnIs
<1>3. PICK j \in Chat!Jobs : v4' = [v4 EXCEPT ![t] = [v4[t] EXCEPT ![c] = j]]
  <2>1. CASE v4[t][c].note \in Chat!InMemory
    <3> DEFINE j == [v4[t][c] EXCEPT !.at = "done"]
    <3>1. j \in Chat!Jobs
      BY <1>2 DEF Chat!Jobs
    <3>2. v4' = [v4 EXCEPT ![t] = [v4[t] EXCEPT ![c] = j]]
      BY <2>1, TurnIs DEF Chat!RememberReads, Chat!Done
    <3> QED
      BY <3>1, <3>2
  <2>2. CASE v4[t][c].note \notin Chat!InMemory
    <3> DEFINE j == [v4[t][c] EXCEPT !.at = "read", !.copy = v2]
    <3>1. j \in Chat!Jobs
      BY <1>2 DEF Chat!Jobs
    <3>2. v4' = [v4 EXCEPT ![t] = [v4[t] EXCEPT ![c] = j]]
      BY <2>2, TurnIs DEF Chat!RememberReads
    <3> QED
      BY <3>1, <3>2
  <2> QED
    BY <2>1, <2>2
<1> DEFINE js == [v4[t] EXCEPT ![c] = j]
<1>4. js \in [Things -> Chat!Jobs]
  BY <1>3, TurnIs
<1>5. v4' = [v4 EXCEPT ![t] = js]
  BY <1>3
<1>6. v1' = v1 - (v3[t].paid - v3[t].paid) /\ v3' = [v3 EXCEPT ![t] = v3[t]]
  BY <1>1, TurnIs
<1> HIDE DEF js
<1> QED
  BY <1>1, <1>2, <1>4, <1>5, <1>6, TurnGoesOn

LEMMA ToolWrites == ASSUME Chat!IInv, NEW t \in Actors, NEW c \in Things, Chat!RememberWrites(t, c) PROVE Chat!IInv'
<1> DEFINE j == [v4[t][c] EXCEPT !.at = "done", !.copy = <<>>]
           js == [v4[t] EXCEPT ![c] = j]
<1>1. /\ v4[t][c].at = "read" /\ v3' = v3 /\ v1' = v1 /\ Chat!Writes(v4[t][c].copy, v4[t][c].note)
      /\ v4' = [v4 EXCEPT ![t][c] = j]
  BY DEF Chat!RememberWrites
<1>2. v4[t][c] \in Chat!Jobs /\ v3[t].at = "tools" /\ v3[t] \in Chat!Records /\ Chat!Accounted(v3[t])
  BY <1>1, TurnIs
<1>3. j \in Chat!Jobs /\ v4[t][c].copy \in Seq(Chat!Facts) /\ v4[t][c].note \in Chat!Facts
  <2>1. <<>> \in Seq(Chat!Facts)
    OBVIOUS
  <2> QED
    BY <1>2, <2>1 DEF Chat!Jobs
<1>4. v2' \in Seq(Chat!Facts) /\ Chat!NotesAreKept'
  BY <1>1, <1>3, MemoryIsWritten
<1> HIDE DEF j
<1>5. js \in [Things -> Chat!Jobs] /\ v4' = [v4 EXCEPT ![t] = js]
  BY <1>1, <1>3, TurnIs
<1>6. v1' = v1 - (v3[t].paid - v3[t].paid) /\ v3' = [v3 EXCEPT ![t] = v3[t]]
  BY <1>1, TurnIs
<1> HIDE DEF js
<1> QED
  BY <1>1, <1>2, <1>4, <1>5, <1>6, TurnMoves

LEMMA ChatInductive == Chat!IInv /\ (Chat!Next \/ UNCHANGED Chat!chatVars) => Chat!IInv'
<1> SUFFICES ASSUME Chat!IInv, Chat!Next \/ UNCHANGED Chat!chatVars PROVE Chat!IInv'
  OBVIOUS
<1>1. CASE UNCHANGED Chat!chatVars
  <2>1. UNCHANGED <<v1, v2, v3, v4, v5, v6, v7>>
    BY <1>1 DEF Chat!chatVars
  <2>2. Chat!TurnsTyped'
    BY <2>1 DEF Chat!IInv, Chat!TurnsTyped
  <2>3. Chat!TurnsAreSettled'
    BY <2>1 DEF Chat!IInv, Chat!TurnsAreSettled, Chat!TurnsAreCharged, Chat!NotesAreKept, Chat!InMemory, Chat!At, Chat!Live
  <2>4. \A t \in Actors : Chat!Accounted(v3[t])' /\ (Chat!Busy(t)' => Chat!At(t, {"tools"})')
    BY <2>1 DEF Chat!IInv, Chat!Accounted, Chat!Busy, Chat!At
  <2> QED
    BY <2>2, <2>3, <2>4 DEF Chat!IInv
<1>2. CASE Chat!Next
  <2>1. PICK t \in Actors :
           \/ Chat!Passes(t) \/ Chat!Breaks(t) \/ Chat!Answers(t) \/ Chat!Leaves(t) \/ Chat!Closes(t)
           \/ \E called \in SUBSET Things : \E asked \in [called -> Chat!Wishes] : Chat!Speaks(t, asked)
           \/ \E c \in Things : Chat!Runs(t, c) \/ Chat!RunFails(t, c) \/ Chat!RememberReads(t, c) \/ Chat!RememberWrites(t, c)
           \/ Chat!Charges(t) \/ Chat!ChargeFails(t) \/ Chat!ExtractWrites(t) \/ Chat!Ends(t)
           \/ \E n \in Things : Chat!ExtractReads(t, n)
    BY <1>2 DEF Chat!Next
  <2> QED
    BY <2>1, TurnPasses, TurnBreaks, TurnAnswers, TurnLeaves, TurnCloses, TurnSpeaks, ToolRuns, ToolReads, ToolWrites,
       TurnCharges, TurnChargeFails, TurnExtractWrites, TurnEnds, TurnExtractReads
<1> QED
  BY <1>1, <1>2

-----------------------------------------------------------------------------
(* The keys of the models. *)

\* The keys of the models.  A key of the user's own is one of the connections, and a call
\* goes out on one exactly when it is priced as such; what is offered has a key at once.
LEMMA KeyKinds ==
    ASSUME NEW p
    PROVE  /\ Keys!OwnKey(p) = Keys!NoKey \/ Keys!Own(Keys!OwnKey(p))
           /\ ~Keys!Own(Keys!NoKey) /\ ~Keys!Own(Keys!AdminKey(p))
           /\ ~Keys!ByOwnKeys /\ Keys!KeyFor(p) # Keys!NoKey
              => (Keys!Own(Keys!KeyFor(p)) <=> Keys!OnOwnKey(p))
<1> DEFINE on == {c \in Connections : v2[c].kind = p /\ v2[c].on}
<1>1. on # {} => Keys!Min(on) \in on
  <2> SUFFICES ASSUME NEW n \in on PROVE Keys!Min(on) \in on
    OBVIOUS
  <2>1. on \in SUBSET Nat
    BY KeyAssumption
  <2>2. \E m \in on : \A k \in on : m <= k
    BY <2>1, LeastNumber
  <2> QED
    BY <2>2 DEF Keys!Min
<1>2. Keys!OwnKey(p) = IF on = {} THEN 0 ELSE Keys!Min(on)
  BY DEF Keys!OwnKey, Keys!Secret, Keys!NoKey
<1>3. on \subseteq Connections
  OBVIOUS
<1> HIDE DEF on
<1>4. Keys!OwnKey(p) = Keys!NoKey \/ Keys!Own(Keys!OwnKey(p))
  BY <1>1, <1>2, <1>3 DEF Keys!NoKey, Keys!Own
<1>5. ~Keys!Own(Keys!NoKey) /\ ~Keys!Own(Keys!AdminKey(p))
  BY KeyAssumption DEF Keys!NoKey, Keys!Own, Keys!AdminKey, Keys!House
<1> QED
  BY <1>4, <1>5 DEF Keys!KeyFor, Keys!OnOwnKey, Keys!Either

LEMMA KeyPairs ==
    \A pair \in Keys!Pairs :
        pair = <<pair[1], pair[2]>> /\ pair[1] \in Providers /\ pair[2] \in ModelsOf[pair[1]]
<1> SUFFICES ASSUME NEW p \in Providers, NEW m \in ModelsOf[p], NEW pair, pair = <<p, m>>
             PROVE  pair = <<pair[1], pair[2]>> /\ pair[1] \in Providers /\ pair[2] \in ModelsOf[pair[1]]
  BY DEF Keys!Pairs, Keys!Pair
<1> QED
  OBVIOUS

LEMMA KeysOffered == Keys!KeysTyped => Keys!OfferedCanRun
<1> SUFFICES ASSUME Keys!KeysTyped, NEW alias \in Keys!Offered
             PROVE  Keys!Resolve(alias).key # Keys!NoKey
                    \/ (alias = Keys!Tier /\ Keys!AdminKey(v4[1]) = Keys!NoKey)
  BY DEF Keys!OfferedCanRun
<1>1. CASE alias \in Keys!OwnModels
  <2>1. alias \in Keys!Pairs
    BY <1>1 DEF Keys!OwnModels, Keys!KeysTyped
  <2> QED
    BY <1>1, <2>1 DEF Keys!Resolve, Keys!OwnModels, Keys!Call, Keys!Either
<1>2. CASE ~Keys!ByOwnKeys /\ alias = Keys!Tier
  <2>1. alias \notin Keys!Pairs
    BY <1>2, KeyAssumption, KeyPairs DEF Keys!Tier
  <2> QED
    BY <1>2, <2>1 DEF Keys!Resolve, Keys!Call, Keys!KeyFor, Keys!Either
<1> QED
  BY <1>1, <1>2 DEF Keys!Offered

LEMMA KeysPicked == \A list \in Selections : DOMAIN list \subseteq Keys!Pairs
  BY KeyAssumption DEF Keys!Pairs, Keys!Pair

\* The parts of the invariant, by what a step may disturb.
KeyRunHolds ==
    /\ v9.flipped \in BOOLEAN
    /\ Keys!PricedAsRun /\ Keys!PricedWhileRunning
KeyPicksHold ==
    /\ v8.late \in BOOLEAN
    /\ Keys!Picked \subseteq Keys!Pairs /\ DOMAIN v8.keep \subseteq Keys!Pairs
    /\ Keys!PicksAreKept /\ Keys!ListingKeeps
KeyRows == v2 \in [Connections -> [kind : Providers \cup {Keys!None}, on : BOOLEAN]]

LEMMA KeyParts == Keys!IInv <=> KeyRows /\ KeyRunHolds /\ KeyPicksHold
  BY KeysOffered
     DEF Keys!IInv, Keys!KeysTyped, Keys!KeysAreTrue, KeyRows, KeyRunHolds, KeyPicksHold

LEMMA KeysInitially == Keys!Init => Keys!IInv
<1> SUFFICES ASSUME Keys!Init PROVE KeyRows /\ KeyRunHolds /\ KeyPicksHold
  BY KeyParts
<1> USE DEF Keys!Init
<1>1. KeyRows
  <2>1. PICK first \in [kind : Providers, on : {TRUE}] \cup {Keys!NoConn} :
            v2 = [c \in Connections |-> IF c = 1 THEN first ELSE Keys!NoConn]
    OBVIOUS
  <2>2. Keys!NoConn \in [kind : Providers \cup {Keys!None}, on : BOOLEAN]
    BY DEF Keys!NoConn
  <2>3. [kind : Providers, on : {TRUE}] \subseteq [kind : Providers \cup {Keys!None}, on : BOOLEAN]
    OBVIOUS
  <2> QED
    BY <2>1, <2>2, <2>3 DEF KeyRows
<1>2. KeyRunHolds
  BY DEF KeyRunHolds, Keys!NoRun, Keys!PricedAsRun, Keys!PricedWhileRunning
<1>3. KeyPicksHold
  BY KeysPicked
     DEF KeyPicksHold, Keys!NoListing, Keys!Picked, Keys!PicksAreKept, Keys!ListingKeeps
<1> QED
  BY <1>1, <1>2, <1>3

\* A step that leaves the answer of on_own_key alone, or flips the run.
LEMMA KeyRunStays ==
    ASSUME KeyRunHolds, v1' = v1, v9' = v9, \A p : Keys!OnOwnKey(p)' <=> Keys!OnOwnKey(p)
    PROVE  KeyRunHolds'
  BY DEF KeyRunHolds, Keys!PricedAsRun, Keys!PricedWhileRunning, Keys!ByOwnKeys, Keys!Own

LEMMA KeyRunFlips ==
    ASSUME KeyRunHolds, v1' = v1, Keys!Flips
    PROVE  KeyRunHolds'
<1> DEFINE flip == v9.flipped \/ (v9.at = "running" /\ Keys!OnOwnKey(v9.provider)' # Keys!OnOwnKey(v9.provider))
<1>1. v9' = [v9 EXCEPT !.flipped = flip]
  BY DEF Keys!Flips
<1>2. flip \in BOOLEAN
  BY DEF KeyRunHolds
<1>3. ~flip => ~v9.flipped /\ (v9.at = "running" => Keys!OnOwnKey(v9.provider)' = Keys!OnOwnKey(v9.provider))
  OBVIOUS
<1> HIDE DEF flip
<1> QED
  BY <1>1, <1>2, <1>3
     DEF KeyRunHolds, Keys!PricedAsRun, Keys!PricedWhileRunning, Keys!ByOwnKeys, Keys!Own

\* Nothing but connections and the policy enter the answer of on_own_key.
LEMMA KeyAnswers ==
    ASSUME v1' = v1, v2' = v2, v5' = v5, v6' = v6
    PROVE  \A p : /\ Keys!OnOwnKey(p)' <=> Keys!OnOwnKey(p)
                  /\ Keys!OwnKey(p)' = Keys!OwnKey(p)
  BY DEF Keys!OnOwnKey, Keys!OwnKey, Keys!Secret, Keys!Policy, Keys!ByOwnKeys

LEMMA KeysConnect ==
    ASSUME Keys!IInv, NEW c \in Connections, NEW row \in [kind : Providers \cup {Keys!None}, on : BOOLEAN],
           Keys!Connect(c, row)
    PROVE  Keys!IInv'
<1>1. KeyRows'
  BY KeyParts DEF Keys!Connect, KeyRows
<1>2. KeyRunHolds'
  BY KeyParts, KeyRunFlips DEF Keys!Connect, Keys!Edit
<1>3. KeyPicksHold'
  BY KeyParts
     DEF Keys!Connect, KeyPicksHold, Keys!Picked, Keys!PicksAreKept, Keys!ListingKeeps
<1> QED
  BY <1>1, <1>2, <1>3, KeyParts, PTL

LEMMA KeysEdited ==
    ASSUME Keys!IInv,
           \/ \E p \in Columned, which \in {"legacy", "house"} : Keys!SetColumn(which, p)
           \/ \E pair \in TierModels : Keys!PointTier(pair)
    PROVE  Keys!IInv'
<1>1. v1' = v1 /\ v2' = v2 /\ v5' = v5 /\ v6' = v6 /\ v7' = v7 /\ v8' = v8 /\ v9' = v9 /\ v10' = v10 /\ v11' = v11
  BY DEF Keys!SetColumn, Keys!PointTier, Keys!Edit
<1>2. KeyRows'
  BY <1>1, KeyParts DEF KeyRows
<1>3. KeyRunHolds'
  BY <1>1, KeyParts, KeyAnswers, KeyRunStays
<1>4. KeyPicksHold'
  BY <1>1, KeyParts DEF KeyPicksHold, Keys!Picked, Keys!PicksAreKept, Keys!ListingKeeps
<1> QED
  BY <1>2, <1>3, <1>4, KeyParts, PTL

LEMMA KeysPriced ==
    ASSUME Keys!IInv,
           \/ Keys!CacheAges
           \/ \E field, value : Keys!SavePolicy(field, value)
    PROVE  Keys!IInv'
<1>1. /\ v1' = v1 /\ v2' = v2 /\ v7' = v7 /\ v8' = v8 /\ v10' = v10 /\ v11' = v11
      /\ Keys!Flips
  BY DEF Keys!SavePolicy, Keys!CacheAges, Keys!Edit
<1>2. KeyRows'
  BY <1>1, KeyParts DEF KeyRows
<1>3. KeyRunHolds'
  BY <1>1, KeyParts, KeyRunFlips
<1>4. KeyPicksHold'
  BY <1>1, KeyParts DEF KeyPicksHold, Keys!Picked, Keys!PicksAreKept, Keys!ListingKeeps
<1> QED
  BY <1>2, <1>3, <1>4, KeyParts, PTL

LEMMA KeysSelected ==
    ASSUME Keys!IInv, NEW list \in Selections, Keys!Select(list)
    PROVE  Keys!IInv'
<1>1. /\ v1' = v1 /\ v2' = v2 /\ v5' = v5 /\ v6' = v6 /\ v9' = v9
      /\ v7' = list /\ v10' = DOMAIN list /\ v11' = {}
      /\ v8' = IF v8 = Keys!NoListing THEN v8 ELSE [v8 EXCEPT !.late = TRUE]
  BY DEF Keys!Select, Keys!Edit
<1>2. KeyRows'
  BY <1>1, KeyParts DEF KeyRows
<1>3. KeyRunHolds'
  BY <1>1, KeyParts, KeyAnswers, KeyRunStays
<1>4. KeyPicksHold'
  <2>1. CASE v8 = Keys!NoListing
    BY <1>1, <2>1, KeyParts, KeysPicked
       DEF KeyPicksHold, Keys!Picked, Keys!PicksAreKept, Keys!ListingKeeps
  <2>2. CASE v8 # Keys!NoListing
    <3>1. v8' = [v8 EXCEPT !.late = TRUE]
      BY <1>1, <2>2
    <3>2. v8'.keep = v8.keep /\ v8'.late = TRUE
      BY <3>1, KeyParts DEF KeyPicksHold
    <3> QED
      BY <1>1, <3>2, KeyParts, KeysPicked
         DEF KeyPicksHold, Keys!Picked, Keys!PicksAreKept, Keys!ListingKeeps
  <2> QED
    BY <2>1, <2>2
<1> QED
  BY <1>2, <1>3, <1>4, KeyParts, PTL

\* What a listing prunes, the provider listed without it.
LEMMA KeysListed ==
    ASSUME Keys!IInv, NEW p \in Providers, NEW live \in SUBSET ModelsOf[p], Keys!Lists(p, live)
    PROVE  Keys!IInv'
<1> DEFINE kept == Keys!Kept(p, live)
<1>1. /\ v1' = v1 /\ v2' = v2 /\ v5' = v5 /\ v6' = v6 /\ v9' = v9 /\ v7' = v7 /\ v10' = v10
      /\ v8 = Keys!NoListing
      /\ v8' = IF kept = v7 THEN Keys!NoListing ELSE [Keys!NoListing EXCEPT !.provider = p, !.keep = kept]
      /\ v11' = IF live = {} THEN v11 ELSE v11 \cup ({p} \X (ModelsOf[p] \ live))
  BY DEF Keys!Lists
<1>2. KeyRows'
  BY <1>1, KeyParts DEF KeyRows
<1>3. KeyRunHolds'
  BY <1>1, KeyParts, KeyAnswers, KeyRunStays
<1>4. /\ DOMAIN kept \subseteq Keys!Picked
      /\ \A pair \in Keys!Picked \ DOMAIN kept : live # {} /\ pair[1] = p /\ pair[2] \notin live
  BY DEF Keys!Kept, Keys!Restrict, Keys!Picked
<1> HIDE DEF kept
<1>5. /\ Keys!Picked' = Keys!Picked /\ Keys!Picked \subseteq Keys!Pairs
      /\ v10 \subseteq Keys!Picked \cup v11
  BY <1>1, KeyParts DEF KeyPicksHold, Keys!Picked, Keys!PicksAreKept
<1>6. v11 \subseteq v11'
  BY <1>1
<1>7. \A pair \in Keys!Picked \ DOMAIN kept : pair \in v11'
  BY <1>1, <1>4, <1>5, KeyPairs
<1>8. v8' = Keys!NoListing \/ (v8'.keep = kept /\ v8'.late = FALSE)
  BY <1>1 DEF Keys!NoListing
<1>9. v8'.late \in BOOLEAN /\ DOMAIN v8'.keep \subseteq Keys!Pairs
  <2>1. Keys!NoListing.late = FALSE /\ DOMAIN Keys!NoListing.keep = {}
    BY DEF Keys!NoListing
  <2> QED
    BY <1>4, <1>5, <1>8, <2>1
<1>10. Keys!PicksAreKept' /\ Keys!ListingKeeps'
  <2>1. v10' \subseteq Keys!Picked' \cup v11'
    BY <1>1, <1>5, <1>6
  <2>2. v8' # Keys!NoListing => v10' \subseteq DOMAIN v8'.keep \cup v11'
    BY <1>1, <1>5, <1>6, <1>7, <1>8
  <2> QED
    BY <2>1, <2>2 DEF Keys!PicksAreKept, Keys!ListingKeeps
<1>11. KeyPicksHold'
  BY <1>5, <1>9, <1>10 DEF KeyPicksHold
<1> QED
  BY <1>2, <1>3, <1>11, KeyParts, PTL

LEMMA KeysPruned == ASSUME Keys!IInv, Keys!Prunes PROVE Keys!IInv'
<1>1. /\ v1' = v1 /\ v2' = v2 /\ v5' = v5 /\ v6' = v6 /\ v9' = v9 /\ v11' = v11
      /\ v8 # Keys!NoListing /\ v7' = v8.keep /\ v8' = Keys!NoListing
      /\ v10' = IF v8.late THEN v10 \cap DOMAIN v7' ELSE v10
  BY DEF Keys!Prunes, Keys!Picked
<1>2. KeyRows'
  BY <1>1, KeyParts DEF KeyRows
<1>3. KeyRunHolds'
  BY <1>1, KeyParts, KeyAnswers, KeyRunStays
<1>4. KeyPicksHold'
  <2>1. Keys!NoListing.late = FALSE /\ DOMAIN Keys!NoListing.keep = {}
    BY DEF Keys!NoListing
  <2> QED
    BY <1>1, <2>1, KeyParts DEF KeyPicksHold, Keys!Picked, Keys!PicksAreKept, Keys!ListingKeeps
<1> QED
  BY <1>2, <1>3, <1>4, KeyParts, PTL

\* What a run's step leaves alone.
LEMMA KeyRunSteps ==
    ASSUME Keys!IInv, Keys!NothingElse
    PROVE  /\ KeyRows' /\ KeyPicksHold' /\ v1' = v1
           /\ \A p : Keys!OnOwnKey(p)' <=> Keys!OnOwnKey(p)
<1>1. /\ v1' = v1 /\ v2' = v2 /\ v5' = v5 /\ v6' = v6 /\ v7' = v7 /\ v8' = v8 /\ v10' = v10 /\ v11' = v11
  BY DEF Keys!NothingElse
<1>2. KeyRows'
  BY <1>1, KeyParts DEF KeyRows
<1>3. KeyPicksHold'
  BY <1>1, KeyParts DEF KeyPicksHold, Keys!Picked, Keys!PicksAreKept, Keys!ListingKeeps
<1> QED
  BY <1>1, <1>2, <1>3, KeyAnswers

LEMMA KeysBegin ==
    ASSUME Keys!IInv, NEW alias \in Keys!Aliases, Keys!Begins(alias)
    PROVE  Keys!IInv'
<1> DEFINE call == Keys!Resolve(alias)
           begun == [Keys!NoRun EXCEPT !.at = "running", !.alias = alias, !.provider = call.provider,
                         !.model = call.model, !.key = call.key, !.allowed = Keys!Policy.on]
<1>1. v9' = begun /\ call.key # Keys!NoKey /\ Keys!NothingElse
  BY DEF Keys!Begins
<1>2. ~Keys!ByOwnKeys =>
          /\ Keys!Policy.on => (Keys!Own(call.key) <=> Keys!OnOwnKey(call.provider))
          /\ ~Keys!Policy.on => ~Keys!OnOwnKey(call.provider) /\ (Keys!Own(call.key) => alias \in Keys!Pairs)
  <2>1. ~Keys!Policy.on /\ ~Keys!ByOwnKeys => ~Keys!OnOwnKey(call.provider)
    BY DEF Keys!OnOwnKey
  <2>2. CASE alias \in Keys!Pairs
    BY <1>1, <2>1, <2>2, KeyKinds
       DEF Keys!Resolve, Keys!Call, Keys!KeyFor, Keys!Either, Keys!OnOwnKey
  <2>3. CASE alias \notin Keys!Pairs
    BY <1>1, <2>1, <2>3, KeyKinds
       DEF Keys!Resolve, Keys!Call, Keys!KeyFor, Keys!Either, Keys!OnOwnKey
  <2> QED
    BY <2>2, <2>3
<1>3. /\ v9'.at = "running" /\ v9'.alias = alias /\ v9'.provider = call.provider /\ v9'.key = call.key
      /\ v9'.allowed = Keys!Policy.on /\ v9'.node = Keys!NoKey /\ v9'.flipped = FALSE
  BY <1>1 DEF Keys!NoRun
<1> HIDE DEF call, begun
<1>4. KeyRunHolds'
  BY <1>1, <1>2, <1>3, KeyRunSteps
     DEF KeyRunHolds, Keys!PricedAsRun, Keys!PricedWhileRunning, Keys!ByOwnKeys
<1> QED
  BY <1>1, <1>4, KeyRunSteps, KeyParts, PTL

LEMMA KeysNode ==
    ASSUME Keys!IInv, NEW pref \in Keys!Aliases, Keys!NodeCalls(pref)
    PROVE  Keys!IInv'
<1> DEFINE call == Keys!ModelFor(v9, pref)
<1>1. /\ v9' = [v9 EXCEPT !.node = call.key] /\ Keys!NothingElse
      /\ v9.at = "running" /\ call.provider = v9.provider
  BY DEF Keys!NodeCalls
<1>2. ~Keys!ByOwnKeys /\ call.key # Keys!NoKey =>
          (Keys!Own(call.key) <=> Keys!OnOwnKey(v9.provider)) \/ call.key = v9.key
  <2> SUFFICES ASSUME ~Keys!ByOwnKeys, call.key # Keys!NoKey, call.key # v9.key
               PROVE  Keys!Own(call.key) <=> Keys!OnOwnKey(v9.provider)
    OBVIOUS
  <2>1. CASE pref \in Keys!Pairs
    BY <1>1, <2>1, KeyKinds DEF Keys!ModelFor, Keys!Call
  <2>2. CASE pref \notin Keys!Pairs
    BY <1>1, <2>2, KeyKinds DEF Keys!ModelFor, Keys!Resolve, Keys!Call
  <2> QED
    BY <2>1, <2>2
<1> HIDE DEF call
<1>3. /\ v9'.at = v9.at /\ v9'.alias = v9.alias /\ v9'.provider = v9.provider /\ v9'.key = v9.key
      /\ v9'.allowed = v9.allowed /\ v9'.node = call.key /\ v9'.flipped = v9.flipped
  BY <1>1, KeyParts DEF KeyRunHolds
<1>4. KeyRunHolds'
  BY <1>1, <1>2, <1>3, KeyRunSteps, KeyParts
     DEF KeyRunHolds, Keys!PricedAsRun, Keys!PricedWhileRunning, Keys!ByOwnKeys
<1> QED
  BY <1>1, <1>4, KeyRunSteps, KeyParts, PTL

LEMMA KeysCharge == ASSUME Keys!IInv, Keys!Charged PROVE Keys!IInv'
<1> DEFINE price == IF Keys!ByOwnKeys THEN 0 ELSE Keys!Factor(v9.provider)
           markup == Keys!Policy.pct
<1>1. /\ v9' = [v9 EXCEPT !.at = "charged", !.markup = markup, !.pct = price]
      /\ Keys!NothingElse /\ v9.at = "running"
  BY DEF Keys!Charged
<1>2. ~Keys!ByOwnKeys => price = IF Keys!OnOwnKey(v9.provider) THEN markup ELSE 100
  BY DEF Keys!Factor
<1> HIDE DEF price, markup
<1>3. /\ v9'.at = "charged" /\ v9'.alias = v9.alias /\ v9'.key = v9.key /\ v9'.pct = price
      /\ v9'.allowed = v9.allowed /\ v9'.node = v9.node /\ v9'.flipped = v9.flipped /\ v9'.markup = markup
  BY <1>1, KeyParts DEF KeyRunHolds
<1>4. KeyRunHolds'
  BY <1>1, <1>2, <1>3, KeyRunSteps, KeyParts
     DEF KeyRunHolds, Keys!PricedAsRun, Keys!PricedWhileRunning, Keys!ByOwnKeys
<1> QED
  BY <1>1, <1>4, KeyRunSteps, KeyParts, PTL

LEMMA KeysStutter == ASSUME Keys!IInv, UNCHANGED Keys!keyVars PROVE Keys!IInv'
<1>1. /\ v1' = v1 /\ v2' = v2 /\ v5' = v5 /\ v6' = v6 /\ v7' = v7 /\ v8' = v8
      /\ v9' = v9 /\ v10' = v10 /\ v11' = v11
  BY DEF Keys!keyVars
<1>2. KeyRows'
  BY <1>1, KeyParts DEF KeyRows
<1>3. KeyRunHolds'
  BY <1>1, KeyParts, KeyAnswers, KeyRunStays
<1>4. KeyPicksHold'
  BY <1>1, KeyParts DEF KeyPicksHold, Keys!Picked, Keys!PicksAreKept, Keys!ListingKeeps
<1> QED
  BY <1>2, <1>3, <1>4, KeyParts, PTL

LEMMA KeysInductive == Keys!IInv /\ (Keys!Next \/ UNCHANGED Keys!keyVars) => Keys!IInv'
<1> SUFFICES ASSUME Keys!IInv, Keys!Next \/ UNCHANGED Keys!keyVars PROVE Keys!IInv'
  OBVIOUS
<1>1. ASSUME NEW c \in Connections, \/ \E p \in Providers, on \in BOOLEAN : Keys!Connect(c, [kind |-> p, on |-> on])
                                   \/ Keys!Connect(c, Keys!NoConn)
      PROVE  Keys!IInv'
  <2>1. CASE Keys!Connect(c, Keys!NoConn)
    BY <2>1, KeysConnect DEF Keys!NoConn
  <2>2. ASSUME NEW p \in Providers, NEW on \in BOOLEAN, Keys!Connect(c, [kind |-> p, on |-> on])
        PROVE  Keys!IInv'
    BY <2>2, KeysConnect
  <2> QED
    BY <1>1, <2>1, <2>2
<1>2. CASE \/ \E p \in Columned, which \in {"legacy", "house"} : Keys!SetColumn(which, p)
           \/ \E pair \in TierModels : Keys!PointTier(pair)
  BY <1>2, KeysEdited
<1>3. CASE Keys!CacheAges \/ \E field, value : Keys!SavePolicy(field, value)
  BY <1>3, KeysPriced
<1>4. ASSUME NEW alias \in Keys!Aliases, Keys!Begins(alias) \/ Keys!NodeCalls(alias) PROVE Keys!IInv'
  BY <1>4, KeysBegin, KeysNode
<1>5. CASE UNCHANGED Keys!keyVars
  BY <1>5, KeysStutter
<1> QED
  BY <1>1, <1>2, <1>3, <1>4, <1>5, KeysSelected, KeysListed, KeysPruned, KeysCharge DEF Keys!Next

-----------------------------------------------------------------------------
(* The sums: the trades.                                                   *)

LEMMA TimesGrow ==
    ASSUME NEW a \in Nat, NEW b \in Nat, NEW c \in Nat, a <= b
    PROVE  c * a \in Nat /\ c * b \in Nat /\ c * a <= c * b
<1>1. b - a \in Nat /\ c * (b - a) \in Nat
  OBVIOUS
<1>2. c * b = c * a + c * (b - a)
  <2>1. b = a + (b - a)
    OBVIOUS
  <2> QED
    OBVIOUS
<1>3. c * a \in Nat /\ c * b \in Nat
  OBVIOUS
<1> QED
  BY <1>1, <1>2, <1>3

LEMMA TimesOver ==
    ASSUME NEW a \in Int, NEW b \in Int, NEW c \in Int
    PROVE  /\ c * a \in Int /\ c * b \in Int /\ c * (a + b) = c * a + c * b
           /\ c * (a - b) = c * a - c * b /\ c * a = a * c /\ c * (-a) = -(c * a)
  OBVIOUS

LEMMA TimesPositive ==
    ASSUME NEW a \in Nat \ {0}, NEW b \in Nat \ {0}
    PROVE  a * b \in Nat \ {0}
<1>1. a - 1 \in Nat /\ b * (a - 1) \in Nat
  OBVIOUS
<1>2. a * b = b * (a - 1) + b
  BY <1>1
<1> QED
  BY <1>1, <1>2

\* Of a multiple and less than one more the quotient is the multiple.
LEMMA QuotientOf ==
    ASSUME NEW q \in Nat, NEW d \in Nat \ {0}, NEW r \in Nat, r < d
    PROVE  (d * q + r) \div d = q /\ (d * q + r) % d = r
  OBVIOUS

LEMMA RemainderOf ==
    ASSUME NEW n \in Nat, NEW q \in Nat, NEW d \in Nat \ {0}, NEW r \in Nat, r < d, n = d * q + r
    PROVE  n % d = r
<1>1. (d * q + r) % d = r
  BY QuotientOf
<1> QED
  BY <1>1

LEMMA QuotientIs ==
    ASSUME NEW n \in Nat, NEW d \in Nat \ {0}
    PROVE  \E q, r \in Nat : n \div d = q /\ n % d = r /\ r < d /\ d * q \in Nat /\ n = d * q + r
<1> DEFINE q == n \div d  r == n - d * q
<1>1. q \in Nat /\ d * q <= n /\ n < d * q + d
  OBVIOUS
<1>2. d * q \in Nat
  BY <1>1
<1>3. r \in Nat /\ r < d /\ n = d * q + r
  BY <1>1, <1>2
<1>4. n % d = r
  <2> HIDE DEF q, r
  <2> QED
    BY <1>1, <1>3, RemainderOf
<1>5. n \div d = q /\ n % d = r /\ q \in Nat /\ r \in Nat /\ r < d /\ d * q \in Nat /\ n = d * q + r
  BY <1>1, <1>2, <1>3, <1>4
<1> HIDE DEF q, r
<1> QED
  BY <1>5, Zenon

LEMMA LevelsHold == Trade!WellPut(v1) => Trade!LevelsOnTheirSide
<1> SUFFICES ASSUME Trade!WellPut(v1), v1.kind = "level", v1.value > 0
             PROVE  LET r == Trade!ResolveLevel(v1.value, v1.isSl, v1.isBuy, v1.entry)
                    IN  IF Trade!Below(v1.isSl, v1.isBuy) THEN r < v1.entry ELSE r > v1.entry
  BY DEF Trade!LevelsOnTheirSide, Trade!Is
<1>1. v1.value \in Nat /\ v1.entry \in Nat
  BY DEF Trade!WellPut
<1> QED
  BY <1>1 DEF Trade!ResolveLevel, Trade!Below

\* A stop behind a quote that is ahead: the share of a distance up to a hundred.
LEMMA SharesOf ==
    ASSUME NEW d \in Nat, NEW p \in Nat
    PROVE  /\ (d * p) \div 100 \in Nat /\ (d * p) \div 100 <= (d * (p + 1)) \div 100
           /\ p <= 100 => (d * p) \div 100 <= d
<1>1. d * p \in Nat /\ d * (p + 1) \in Nat /\ d * p <= d * (p + 1)
  BY TimesGrow
<1>2. p <= 100 => d * p <= d * 100
  BY TimesGrow
<1> DEFINE x == d * p  y == d * (p + 1)
<1> HIDE DEF x, y
<1>3. x \div 100 \in Nat /\ x \div 100 <= y \div 100
  BY <1>1 DEF x, y
<1>4. x <= d * 100 => x \div 100 <= d
  BY <1>1 DEF x
<1> QED
  BY <1>2, <1>3, <1>4 DEF x, y

LEMMA MovesHold == Trade!WellPut(v1) => Trade!MovedStopsLock
<1> DEFINE n == Trade!LockProfit(v1)  m == Trade!LockProfit([v1 EXCEPT !.percent = @ + 1])
           toward(a, b) == IF v1.isBuy THEN a <= b ELSE a >= b
           d == Trade!Abs(v1.cur - v1.entry)  p == v1.percent
           share == IF p > 1 THEN (d * p) \div 100 ELSE d * p
           more == (d * (p + 1)) \div 100
<1> SUFFICES ASSUME Trade!WellPut(v1), v1.kind = "move", Trade!InProfit(v1)
             PROVE  /\ toward(v1.entry, n) /\ (v1.percent <= 100 => toward(n, v1.cur))
                    /\ v1.percent \in 2..99 => toward(n, m)
                    /\ v1.offset <= d => toward(v1.entry, Trade!BreakEven(v1)) /\ toward(Trade!BreakEven(v1), v1.cur)
  BY DEF Trade!MovedStopsLock, Trade!Is
<1>1. v1 \in [kind : {"move"}, isBuy : BOOLEAN, entry : Nat, cur : Nat, percent : Nat, offset : Nat]
  BY DEF Trade!WellPut
<1>2. d \in Nat /\ v1.cur = Trade!Ahead(v1, d)
  BY <1>1 DEF Trade!Abs, Trade!InProfit, Trade!Ahead
<1>3. n = Trade!Ahead(v1, share)
  BY DEF Trade!LockProfit
<1>4. p \in 2..99 => m = Trade!Ahead(v1, more)
  <2> DEFINE w == [v1 EXCEPT !.percent = @ + 1]
  <2>1. w.percent = p + 1 /\ w.cur = v1.cur /\ w.entry = v1.entry /\ w.isBuy = v1.isBuy
    BY <1>1
  <2> HIDE DEF w
  <2>2. p \in 2..99 => w.percent > 1
    BY <2>1
  <2> QED
    BY <2>1, <2>2 DEF Trade!LockProfit, Trade!InProfit, Trade!Ahead, w
<1>5. (d * p) \div 100 \in Nat /\ (d * p) \div 100 <= more /\ more \in Nat /\ (p <= 100 => (d * p) \div 100 <= d)
  <2> HIDE DEF d
  <2>1. p \in Nat /\ p + 1 \in Nat
    BY <1>1
  <2> HIDE DEF p
  <2> QED
    BY <1>2, <2>1, SharesOf
<1>6. p \in Nat /\ (p <= 1 => d * p \in Nat /\ d * p <= d)
  <2>1. p = 0 \/ p = 1 \/ p > 1
    BY <1>1
  <2> QED
    BY <1>1, <1>2, <2>1
<1>7. share \in Nat /\ (p <= 100 => share <= d) /\ (p \in 2..99 => share <= more)
  <2> DEFINE x == (d * p) \div 100  y == d * p
  <2>1. x \in Nat /\ x <= more /\ more \in Nat /\ (p <= 100 => x <= d)
    BY <1>5
  <2>2. p <= 1 => y \in Nat /\ y <= d
    BY <1>6
  <2> HIDE DEF x, y, more, d, p
  <2>3. share = IF p > 1 THEN x ELSE y
    BY DEF x, y
  <2> HIDE DEF share
  <2> QED
    BY <1>6, <2>1, <2>2, <2>3
<1> HIDE DEF share, more, d, n, m
<1>8. toward(v1.entry, n) /\ (p <= 100 => toward(n, v1.cur))
  BY <1>1, <1>2, <1>3, <1>7 DEF Trade!Ahead
<1>9. p \in 2..99 => toward(n, m)
  BY <1>1, <1>3, <1>4, <1>5, <1>7 DEF Trade!Ahead
<1>10. v1.offset <= d => toward(v1.entry, Trade!BreakEven(v1)) /\ toward(Trade!BreakEven(v1), v1.cur)
  BY <1>1, <1>2 DEF Trade!Ahead, Trade!BreakEven
<1> QED
  BY <1>8, <1>9, <1>10

LEMMA RulesHold == Trade!WellPut(v1) => Trade!RulesAgree
<1> SUFFICES ASSUME Trade!WellPut(v1) PROVE Trade!RulesAgree
  OBVIOUS
<1>1. v1.kind = "rules" => Trade!GateSettings(v1.base, v1.over) = Trade!ApiSettings(v1.base, v1.over) \/ v1.over.style = ""
  BY DEF Trade!GateSettings, Trade!ApiSettings
<1>2. ASSUME v1.kind = "hours", \A w \in v1.hours : v1.half # 2 * w[2]
      PROVE  Trade!InHours(v1.hours, v1.half) = Trade!HoursOpen(v1.hours, v1.half)
  <2>1. v1.half \in Nat /\ v1.hours \subseteq Trade!Minute \X Trade!Minute
    BY <1>2 DEF Trade!WellPut
  <2> DEFINE m == v1.half \div 2
  <2>2. m \in Nat /\ v1.half \in Nat /\ 2 * m <= v1.half /\ v1.half < 2 * m + 2
    BY <2>1
  <2> HIDE DEF m
  <2>3. ASSUME NEW w \in v1.hours
        PROVE  (IF 2 * w[1] <= 2 * w[2] THEN 2 * w[1] <= v1.half /\ v1.half <= 2 * w[2]
                ELSE v1.half >= 2 * w[1] \/ v1.half <= 2 * w[2])
               <=> (IF w[1] <= w[2] THEN w[1] <= m /\ m < w[2] ELSE m >= w[1] \/ m < w[2])
    <3>1. w[1] \in Nat /\ w[2] \in Nat /\ v1.half # 2 * w[2]
      BY <1>2, <2>1 DEF Trade!Minute
    <3> QED
      BY <2>2, <3>1
  <2>4. Trade!InHours(v1.hours, v1.half) <=> Trade!HoursOpen(v1.hours, v1.half)
    BY <2>3 DEF Trade!InHours, Trade!HoursOpen, m
  <2> QED
    BY <2>4 DEF Trade!InHours, Trade!HoursOpen
<1> QED
  BY <1>1, <1>2 DEF Trade!RulesAgree, Trade!Is

\* To the nearest is within a half, and a whole number is its own.
LEMMA RoundedOf ==
    ASSUME NEW n \in Nat, NEW d \in Nat \ {0}
    PROVE  \E v \in Nat : /\ Trade!Rounded(n, d) = v /\ d * v \in Nat /\ 2 * Trade!Abs(d * v - n) <= d
                          /\ d = 1 => v = n
<1>1. PICK q \in Nat, r \in Nat : n \div d = q /\ n % d = r /\ r < d /\ d * q \in Nat /\ n = d * q + r
  BY QuotientIs
<1> DEFINE up == 2 * r > d \/ (2 * r = d /\ q % 2 = 1)  v == IF up THEN q + 1 ELSE q
<1>2. Trade!Rounded(n, d) = v
  BY <1>1 DEF Trade!Rounded
<1>3. up => 2 * r >= d
  OBVIOUS
<1>4. ~up => 2 * r <= d
  OBVIOUS
<1> DEFINE y == d * q
<1>5. y \in Nat /\ n = y + r /\ d * (q + 1) = y + d /\ (d = 1 => y = q)
  BY <1>1
<1> HIDE DEF up
<1>6. v \in Nat /\ (up => v = q + 1 /\ d * v = y + d) /\ (~up => v = q /\ d * v = y)
  BY <1>5
<1> HIDE DEF v, y
<1>7. CASE up
  BY <1>1, <1>3, <1>5, <1>6, <1>7, <1>2 DEF Trade!Abs
<1>8. CASE ~up
  BY <1>1, <1>4, <1>5, <1>6, <1>8, <1>2 DEF Trade!Abs
<1> QED
  BY <1>7, <1>8

\* A size inside the limits is the one that was computed.
LEMMA VolumeOf ==
    ASSUME NEW n \in Nat, NEW d \in Nat \ {0}, NEW lim \in [min : Nat, max : Nat]
    PROVE  \E vol \in Nat :
             /\ Trade!NormalizeVolume(n, d, lim) = vol
             /\ lim.min < vol /\ (lim.max = 0 \/ vol < lim.max) =>
                  d * vol \in Nat /\ 2 * Trade!Abs(d * vol - n) <= d
             /\ d = 1 /\ lim.min < n /\ (lim.max = 0 \/ n < lim.max) => vol = n
             /\ n = 0 /\ d = 1 => ~(lim.min < vol /\ (lim.max = 0 \/ vol < lim.max))
<1>1. PICK v \in Nat : /\ Trade!Rounded(n, d) = v /\ d * v \in Nat /\ 2 * Trade!Abs(d * v - n) <= d
                       /\ d = 1 => v = n
  BY RoundedOf
<1> DEFINE vol == IF v < lim.min THEN lim.min ELSE IF lim.max # 0 /\ v > lim.max THEN lim.max ELSE v
<1>2. Trade!NormalizeVolume(n, d, lim) = vol
  BY <1>1 DEF Trade!NormalizeVolume
<1>3. vol \in Nat /\ (lim.min < vol /\ (lim.max = 0 \/ vol < lim.max) => vol = v)
  OBVIOUS
<1>4. d = 1 /\ lim.min < n /\ (lim.max = 0 \/ n < lim.max) => vol = n
  BY <1>1
<1>5. n = 0 /\ d = 1 => ~(lim.min < vol /\ (lim.max = 0 \/ vol < lim.max))
  BY <1>1
<1> HIDE DEF vol
<1> QED
  BY <1>1, <1>2, <1>3, <1>4, <1>5

LEMMA AskedIs ==
    ASSUME NEW s, Trade!WellPut(s), s.kind = "plan"
    PROVE  /\ Trade!Given(s.riskMoney) \/ s.basis > 0 => Trade!Asked(s) \in Nat \cup {-1}
           /\ Trade!Given(s.riskMoney) \/ (Trade!Given(s.riskPct) /\ s.basis > 0) => Trade!Asked(s) \in Nat
           /\ ~Trade!Given(s.riskMoney) /\ ~Trade!Given(s.riskPct) => Trade!Asked(s) = -1
<1>1. s.riskMoney \in Nat \cup {-1} /\ s.riskPct \in Nat \cup {-1} /\ s.basis \in Int
  BY DEF Trade!WellPut, Trade!Opt
<1> DEFINE x == s.basis * s.riskPct
<1>2. s.basis > 0 /\ s.riskPct \in Nat => x \in Nat
  BY <1>1
<1> HIDE DEF x
<1>3. x \in Nat => x \div 100 \in Nat
  OBVIOUS
<1> QED
  BY <1>1, <1>2, <1>3 DEF Trade!Asked, Trade!Given, x

LEMMA StopOf ==
    ASSUME NEW s, Trade!Given(s.volume), ~Trade!Given(s.sl), ~Trade!Given(s.slPoints), Trade!Given(s.riskMoney),
           Trade!Asked(s) # -1
    PROVE  Trade!RiskPlan(s).dist = IF Trade!NormalizeVolume(s.volume, 1, s.lim) = 0 THEN 0
                                    ELSE Trade!Asked(s) \div (s.mpu * Trade!NormalizeVolume(s.volume, 1, s.lim))
  BY DEF Trade!RiskPlan

\* The size found: its risk is near the risk asked for, and gives back the stop.
LEMMA SizeFits ==
    ASSUME NEW s, Trade!WellPut(s), s.kind = "plan",
           NEW p, p = Trade!RiskPlan(s), p.solved = "size",
           s.lim.min < p.vol /\ (s.lim.max = 0 \/ p.vol < s.lim.max),
           NEW again, again.volume = p.vol, again.riskMoney = p.risk, again.sl = -1, again.slPoints = -1,
           again.lim = s.lim, again.mpu = s.mpu
    PROVE  /\ 2 * Trade!Abs(p.risk - Trade!Asked(s)) <= p.dist * s.mpu
           /\ Trade!RiskPlan(again).dist = p.dist
<1> DEFINE A == Trade!Asked(s)  dist == Trade!Distance(s)
           vol == IF dist = 0 THEN Trade!NormalizeVolume(0, 1, s.lim) ELSE Trade!NormalizeVolume(A, dist * s.mpu, s.lim)
<1>1. /\ s.isBuy \in BOOLEAN /\ s.entry \in Nat /\ s.mpu \in Nat \ {0} /\ s.lim \in [min : Nat, max : Nat]
      /\ s.sl \in Nat \cup {-1} /\ s.slPoints \in Nat \cup {-1} /\ s.basis \in Int
      /\ s.riskMoney \in Nat \cup {-1} /\ s.riskPct \in Nat \cup {-1} /\ s.volume \in Nat \cup {-1}
  BY DEF Trade!WellPut, Trade!Opt
<1>2. /\ ~Trade!Given(s.volume) /\ A # -1 /\ (Trade!Given(s.sl) \/ Trade!Given(s.slPoints))
      /\ ~(~Trade!Given(s.riskMoney) /\ Trade!Given(s.riskPct) /\ s.basis <= 0)
      /\ p = [solved |-> "size", vol |-> vol, risk |-> dist * s.mpu * vol, dist |-> dist]
  BY DEF Trade!RiskPlan
<1>3. dist \in Nat
  BY <1>1, <1>2 DEF Trade!Distance, Trade!Abs, Trade!Given
<1>4. A \in Nat
  BY <1>1, <1>2, AskedIs DEF Trade!Given
<1>5. p.vol = vol /\ p.dist = dist /\ p.risk = dist * s.mpu * vol
  BY <1>2
<1>6. dist # 0
  <2> SUFFICES ASSUME dist = 0 PROVE FALSE
    OBVIOUS
  <2>1. vol = Trade!NormalizeVolume(0, 1, s.lim)
    OBVIOUS
  <2> HIDE DEF vol, dist, A
  <2>2. PICK x \in Nat : Trade!NormalizeVolume(0, 1, s.lim) = x /\ ~(s.lim.min < x /\ (s.lim.max = 0 \/ x < s.lim.max))
    <3>1. 0 \in Nat /\ 1 \in Nat \ {0} /\ s.lim \in [min : Nat, max : Nat]
      BY <1>1
    <3> QED
      BY <3>1, VolumeOf
  <2> QED
    BY <1>5, <2>1, <2>2
<1>7. vol = Trade!NormalizeVolume(A, dist * s.mpu, s.lim)
  BY <1>6
<1> HIDE DEF A, dist, vol
<1>8. dist * s.mpu \in Nat \ {0}
  BY <1>1, <1>3, <1>6, TimesPositive
<1>9. /\ vol \in Nat /\ vol > 0 /\ s.lim.min < vol /\ (s.lim.max = 0 \/ vol < s.lim.max)
      /\ dist * s.mpu * vol \in Nat
      /\ 2 * Trade!Abs(dist * s.mpu * vol - A) <= dist * s.mpu
  <2> DEFINE d == dist * s.mpu
  <2> HIDE DEF d
  <2>1. d \in Nat \ {0} /\ vol = Trade!NormalizeVolume(A, d, s.lim)
    BY <1>7, <1>8 DEF d
  <2>2. s.lim.min < vol /\ (s.lim.max = 0 \/ vol < s.lim.max)
    BY <1>5
  <2>3. vol \in Nat /\ d * vol \in Nat /\ 2 * Trade!Abs(d * vol - A) <= d
    <3>1. PICK x \in Nat :
             /\ Trade!NormalizeVolume(A, d, s.lim) = x
             /\ s.lim.min < x /\ (s.lim.max = 0 \/ x < s.lim.max) => d * x \in Nat /\ 2 * Trade!Abs(d * x - A) <= d
      BY <1>1, <1>4, <2>1, VolumeOf
    <3> QED
      BY <2>1, <2>2, <3>1
  <2> QED
    BY <1>1, <2>2, <2>3 DEF d
<1> DEFINE risk == dist * s.mpu * vol
<1>10. /\ again.volume = vol /\ again.riskMoney = risk /\ again.sl = -1 /\ again.slPoints = -1
       /\ again.lim = s.lim /\ again.mpu = s.mpu
  <2>1. p.risk = risk
    BY <1>5
  <2> HIDE DEF risk
  <2> QED
    BY <1>5, <2>1
<1>11. risk \in Nat /\ Trade!NormalizeVolume(vol, 1, s.lim) = vol
  BY SMTT(40), <1>1, <1>9, VolumeOf
<1>12. risk \div (s.mpu * vol) = dist
  <2>1. s.mpu * vol \in Nat \ {0}
    BY <1>1, <1>9, TimesPositive
  <2>2. risk = (s.mpu * vol) * dist + 0
    BY <1>1, <1>3, <1>9
  <2> DEFINE d == s.mpu * vol
  <2> HIDE DEF d, risk
  <2>3. d \in Nat \ {0} /\ risk = d * dist + 0
    BY <2>1, <2>2 DEF d
  <2>4. (d * dist + 0) \div d = dist
    BY <1>3, <2>3, QuotientOf
  <2> QED
    BY <2>3, <2>4 DEF d
<1>13. Trade!Given(again.volume) /\ ~Trade!Given(again.sl) /\ ~Trade!Given(again.slPoints) /\ Trade!Given(again.riskMoney)
       /\ Trade!Asked(again) = risk /\ risk # -1
  BY <1>9, <1>10, <1>11 DEF Trade!Given, Trade!Asked
<1>14. Trade!RiskPlan(again).dist = IF vol = 0 THEN 0 ELSE risk \div (s.mpu * vol)
  <2> HIDE DEF risk
  <2>1. Trade!NormalizeVolume(again.volume, 1, again.lim) = vol
    BY <1>10, <1>11
  <2>2. Trade!RiskPlan(again).dist = IF Trade!NormalizeVolume(again.volume, 1, again.lim) = 0 THEN 0
            ELSE Trade!Asked(again) \div (again.mpu * Trade!NormalizeVolume(again.volume, 1, again.lim))
    BY <1>13, StopOf
  <2> QED
    BY <1>10, <1>13, <2>1, <2>2
<1> QED
  BY <1>5, <1>9, <1>12, <1>14 DEF A

\* A stop given as a distance is across the entry from its target.
LEMMA StopAcross ==
    ASSUME NEW s, Trade!WellPut(s), s.kind = "plan", Trade!RiskPlan(s).solved # "refused", ~Trade!Given(s.sl)
    PROVE  (Trade!PlanStop(s) - s.entry) * (Trade!PlanTarget(s, 2) - s.entry) <= 0
<1> DEFINE d == Trade!RiskPlan(s).dist
<1>1. /\ s.isBuy \in BOOLEAN /\ s.entry \in Nat /\ s.mpu \in Nat \ {0} /\ s.lim \in [min : Nat, max : Nat]
      /\ s.sl \in Nat \cup {-1} /\ s.slPoints \in Nat \cup {-1} /\ s.basis \in Int
      /\ s.riskMoney \in Nat \cup {-1} /\ s.riskPct \in Nat \cup {-1} /\ s.volume \in Nat \cup {-1}
  BY DEF Trade!WellPut, Trade!Opt
<1>2. d \in Nat
  <2>1. Trade!Given(s.slPoints) => Trade!Distance(s) \in Nat
    BY <1>1 DEF Trade!Distance, Trade!Given
  <2>2. CASE Trade!Given(s.slPoints)
    <3>1. d = Trade!Distance(s)
      BY <2>2 DEF Trade!RiskPlan
    <3> QED
      BY <2>1, <2>2, <3>1
  <2>3. CASE ~Trade!Given(s.slPoints)
    <3> DEFINE vol == Trade!NormalizeVolume(s.volume, 1, s.lim)
    <3>1. /\ Trade!Given(s.volume) /\ Trade!Asked(s) # -1
          /\ ~(~Trade!Given(s.riskMoney) /\ Trade!Given(s.riskPct) /\ s.basis <= 0)
          /\ d = IF vol = 0 THEN 0 ELSE Trade!Asked(s) \div (s.mpu * vol)
      BY <2>3 DEF Trade!RiskPlan
    <3>2. Trade!Asked(s) \in Nat
      BY <1>1, <3>1, AskedIs DEF Trade!Given
    <3>3. vol \in Nat
      BY <1>1, <3>1, VolumeOf DEF Trade!Given
    <3> DEFINE A == Trade!Asked(s)  m == s.mpu * vol
    <3>4. vol # 0 => m \in Nat \ {0}
      BY <1>1, <3>3, TimesPositive
    <3>5. d = IF vol = 0 THEN 0 ELSE A \div m
      BY <3>1
    <3> HIDE DEF vol, A, m, d
    <3>6. m \in Nat \ {0} => A \div m \in Nat
      BY <3>2, QuotientIs DEF A
    <3> QED
      BY <3>4, <3>5, <3>6
  <2> QED
    BY <2>2, <2>3
<1>3. d * d \in Nat
  <2> HIDE DEF d
  <2> QED
    BY <1>2
<1>4. Trade!PlanStop(s) = (IF s.isBuy THEN s.entry - d ELSE s.entry + d)
  BY DEF Trade!PlanStop
<1>5. Trade!PlanTarget(s, 2) = (IF s.isBuy THEN s.entry + 2 * d ELSE s.entry - 2 * d)
  BY DEF Trade!PlanTarget
<1> HIDE DEF d
<1>6. (Trade!PlanStop(s) - s.entry) * (Trade!PlanTarget(s, 2) - s.entry) = -(2 * (d * d))
  <2>1. CASE s.isBuy
    <3>1. Trade!PlanStop(s) - s.entry = -d /\ Trade!PlanTarget(s, 2) - s.entry = 2 * d
      BY <1>1, <1>2, <1>4, <1>5, <2>1
    <3>2. (-d) * (2 * d) = -(2 * (d * d))
      BY <1>2
    <3> QED
      BY <3>1, <3>2
  <2>2. CASE ~s.isBuy
    <3>1. Trade!PlanStop(s) - s.entry = d /\ Trade!PlanTarget(s, 2) - s.entry = -(2 * d)
      BY <1>1, <1>2, <1>4, <1>5, <2>2
    <3>2. d * (-(2 * d)) = -(2 * (d * d))
      BY <1>2
    <3> QED
      BY <3>1, <3>2
  <2> QED
    BY <2>1, <2>2
<1> QED
  BY <1>3, <1>6

LEMMA PlansHold == Trade!WellPut(v1) => Trade!PlansAgree
<1> SUFFICES ASSUME Trade!WellPut(v1), v1.kind = "plan"
             PROVE  LET p == Trade!RiskPlan(v1) IN
                    /\ p.solved = "size" /\ Trade!Within(v1, p) =>
                         LET again == [v1 EXCEPT !.volume = p.vol, !.riskMoney = p.risk, !.sl = -1, !.slPoints = -1]
                         IN  /\ 2 * Trade!Abs(p.risk - Trade!Asked(v1)) <= p.dist * v1.mpu
                             /\ Trade!RiskPlan(again).dist = p.dist
                    /\ p.solved # "refused" /\ ~Trade!Given(v1.sl) =>
                         (Trade!PlanStop(v1) - v1.entry) * (Trade!PlanTarget(v1, 2) - v1.entry) <= 0
                    /\ p.solved # "refused" => Trade!CalcRisk(v1, 7) = p
                    /\ (Trade!Given(v1.sl) \/ Trade!Given(v1.slPoints)) /\ v1.basis > 0
                         => Trade!CalcRisk(v1, -1).solved # "refused"
  BY DEF Trade!PlansAgree, Trade!Is
<1> DEFINE p == Trade!RiskPlan(v1)  stop == Trade!Given(v1.sl) \/ Trade!Given(v1.slPoints)
<1>1. /\ v1.sl \in Nat \cup {-1} /\ v1.slPoints \in Nat \cup {-1} /\ v1.basis \in Int
      /\ v1.riskMoney \in Nat \cup {-1} /\ v1.riskPct \in Nat \cup {-1} /\ v1.volume \in Nat \cup {-1}
  BY DEF Trade!WellPut, Trade!Opt
<1>2. ASSUME p.solved = "size", Trade!Within(v1, p)
      PROVE  LET again == [v1 EXCEPT !.volume = p.vol, !.riskMoney = p.risk, !.sl = -1, !.slPoints = -1]
             IN  /\ 2 * Trade!Abs(p.risk - Trade!Asked(v1)) <= p.dist * v1.mpu
                 /\ Trade!RiskPlan(again).dist = p.dist
  <2> DEFINE again == [v1 EXCEPT !.volume = p.vol, !.riskMoney = p.risk, !.sl = -1, !.slPoints = -1]
  <2>1. v1.lim.min < p.vol /\ (v1.lim.max = 0 \/ p.vol < v1.lim.max)
    BY <1>2 DEF Trade!Within
  <2>2. v1 \in [kind : {"plan"}, isBuy : BOOLEAN, entry : Nat, mpu : Nat \ {0}, basis : Int,
               lim : [min : Nat, max : Nat], riskMoney : Trade!Opt, riskPct : Trade!Opt, sl : Trade!Opt,
               slPoints : Trade!Opt, volume : Trade!Opt]
    BY DEF Trade!WellPut
  <2>3. p = Trade!RiskPlan(v1)
    OBVIOUS
  <2> HIDE DEF p
  <2>4. /\ again.volume = p.vol /\ again.riskMoney = p.risk /\ again.sl = -1 /\ again.slPoints = -1
        /\ again.lim = v1.lim /\ again.mpu = v1.mpu
    BY <2>2
  <2> HIDE DEF again
  <2>5. 2 * Trade!Abs(p.risk - Trade!Asked(v1)) <= p.dist * v1.mpu /\ Trade!RiskPlan(again).dist = p.dist
    BY <1>2, <2>1, <2>3, <2>4, SizeFits
  <2> QED
    BY <2>5 DEF again
<1>3. p.solved # "refused" /\ ~Trade!Given(v1.sl) =>
        (Trade!PlanStop(v1) - v1.entry) * (Trade!PlanTarget(v1, 2) - v1.entry) <= 0
  BY StopAcross
<1>4. ASSUME p.solved # "refused" PROVE Trade!CalcRisk(v1, 7) = p
  <2> DEFINE pct == IF Trade!Given(v1.volume) \/ ~stop THEN v1.riskPct ELSE Trade!EffectiveRisk(v1.riskPct, v1.riskMoney, 7)
             w == [v1 EXCEPT !.riskPct = pct]
  <2>1. Trade!CalcRisk(v1, 7) = Trade!RiskPlan(w)
    BY SMTT(40) DEF Trade!CalcRisk, Trade!WellPut
  <2>2. ~Trade!Given(v1.volume) => Trade!Given(v1.riskPct) \/ Trade!Given(v1.riskMoney)
    <3> SUFFICES ASSUME ~Trade!Given(v1.volume), ~Trade!Given(v1.riskPct), ~Trade!Given(v1.riskMoney) PROVE FALSE
      OBVIOUS
    <3>1. Trade!Asked(v1) = -1
      BY AskedIs
    <3> QED
      BY <1>4, <3>1 DEF Trade!RiskPlan
  <2>3. pct = v1.riskPct
    BY <2>2 DEF Trade!EffectiveRisk
  <2> HIDE DEF pct, p
  <2>4. w = v1
    BY <2>3 DEF Trade!WellPut
  <2> HIDE DEF w
  <2> QED
    BY <2>1, <2>4 DEF p
<1>5. ASSUME stop, v1.basis > 0 PROVE Trade!CalcRisk(v1, -1).solved # "refused"
  <2> DEFINE pct == IF Trade!Given(v1.volume) \/ ~stop THEN v1.riskPct ELSE Trade!EffectiveRisk(v1.riskPct, v1.riskMoney, -1)
             w == [v1 EXCEPT !.riskPct = pct]
  <2>1. Trade!CalcRisk(v1, -1) = Trade!RiskPlan(w)
    BY DEF Trade!CalcRisk, Trade!WellPut
  <2>2. pct \in Nat \cup {-1}
    BY <1>1 DEF Trade!EffectiveRisk, Trade!Given
  <2>3. ~Trade!Given(v1.volume) => Trade!Given(v1.riskMoney) \/ Trade!Given(pct)
    BY <1>1, <1>5 DEF Trade!EffectiveRisk, Trade!Given
  <2> HIDE DEF pct
  <2>4. /\ w.riskPct = pct /\ w.volume = v1.volume /\ w.sl = v1.sl /\ w.slPoints = v1.slPoints /\ w.basis = v1.basis
        /\ w.riskMoney = v1.riskMoney /\ w.kind = "plan"
    BY DEF Trade!WellPut
  <2>5. Trade!WellPut(w)
    BY <2>2 DEF Trade!WellPut, Trade!Opt
  <2> HIDE DEF w
  <2>6. ~Trade!Given(v1.volume) => Trade!Asked(w) \in Nat
    BY <1>1, <1>5, <2>3, <2>4, <2>5, AskedIs
  <2>7. Trade!RiskPlan(w).solved # "refused"
    BY <1>1, <1>5, <2>4, <2>6 DEF Trade!RiskPlan, Trade!Given
  <2> QED
    BY <2>1, <2>7
<1> QED
  BY <1>2, <1>3, <1>4, <1>5

\* What is multiplied in every part is multiplied in the sum.
LEMMA SumsScale ==
    ASSUME NEW S, IsFiniteSet(S), NEW f, NEW g, SumsTyped(S, f, g), NEW T \in Int,
           NEW e, SumScales(S, f, e, T), NEW h, SumsUp(S, e, h)
    PROVE  h[S] = T * g[S] /\ g[S] \in Int
<1> DEFINE Right(s) == h[s] = T * g[s]
           bad == {c \in Nat : \E s \in SUBSET S : Cardinality(s) = c /\ ~Right(s)}
<1> USE DEF SumsTyped, SumScales
<1>1. ASSUME NEW c \in bad PROVE FALSE
  <2>1. PICK m \in bad : \A k \in bad : m <= k
    BY LeastNumber
  <2>2. PICK s \in SUBSET S : Cardinality(s) = m /\ ~Right(s)
    BY <2>1
  <2>3. s # {}
    <3>1. g[{}] = 0 /\ h[{}] = 0
      BY DEF SumsUp, SumAdds
    <3>2. Right({})
      BY <3>1
    <3> HIDE DEF Right
    <3> QED
      BY <2>2, <3>2
  <2> DEFINE x == SumPick(s)  r == s \ {x}
  <2>4. x \in s /\ r \in SUBSET S /\ Cardinality(r) = m - 1 /\ m - 1 \in Nat
    <3>1. Cardinality(s) # 0 \/ s = {}
      BY SumSubsets
    <3> QED
      BY <2>2, <2>3, <3>1, SumSubsets
  <2>5. Right(r)
    BY <2>1, <2>4
  <2>6. h[s] = e[x] + h[r] /\ g[s] = f[x] + g[r]
    BY <2>3 DEF SumsUp, SumAdds
  <2>7. e[x] = T * f[x] /\ f[x] \in Int /\ g[r] \in Int
    BY <2>4
  <2> DEFINE u == f[x]  v == g[r]
  <2>8. h[s] = T * u + T * v /\ g[s] = u + v /\ u \in Int /\ v \in Int
    BY <2>5, <2>6, <2>7
  <2> HIDE DEF u, v
  <2>9. T * (u + v) = T * u + T * v
    BY <2>8, TimesOver
  <2> QED
    BY <2>2, <2>8, <2>9
<1>2. S \in SUBSET S /\ Cardinality(S) \in Nat
  BY SumSubsets
<1> QED
  BY <1>1, <1>2

\* The sum over a function, and the weight of a basket.
LEMMA TotalIs ==
    ASSUME NEW S, IsFiniteSet(S), NEW f \in [S -> Int]
    PROVE  \E h : SumsUp(S, f, h) /\ Trade!FoldFunction(+, 0, f) = h[S]
<1> DEFINE Iter(g) == g = [s \in SUBSET S |-> IF s = {} THEN 0
                             ELSE f[CHOOSE x \in s : TRUE] + g[s \ {CHOOSE x \in s : TRUE}]]
           it == CHOOSE g : Iter(g)
<1>1. PICK g : SumsUp(S, f, g) /\ g \in [SUBSET S -> Int]
  BY SumsExist
<1>2. Iter(g)
  BY <1>1 DEF SumsUp, SumAdds, SumPick
<1>3. Iter(it)
  BY <1>2
<1>4. Trade!FoldFunction(+, 0, f) = it[S]
  <2>1. DOMAIN f = S
    OBVIOUS
  <2> QED
    BY <2>1 DEF Trade!FoldFunction, Trade!FoldFunctionOnSet, Trade!MapThenFoldSet
<1>5. SumsUp(S, f, it)
  BY <1>3 DEF SumsUp, SumAdds, SumPick
<1> QED
  BY <1>4, <1>5

LEMMA WeightIs ==
    ASSUME NEW legs \in Seq(Trade!Leg)
    PROVE  /\ IsFiniteSet(DOMAIN legs) /\ Cardinality(DOMAIN legs) = Len(legs)
           /\ [i \in DOMAIN legs |-> legs[i].mpu] \in [DOMAIN legs -> Int]
           /\ \E h : SumsUp(DOMAIN legs, [i \in DOMAIN legs |-> legs[i].mpu], h) /\ Trade!Weight(legs) = h[DOMAIN legs]
<1> DEFINE S == DOMAIN legs  f == [i \in S |-> legs[i].mpu]
           Iter(g) == g = [s \in SUBSET S |-> IF s = {} THEN 0
                             ELSE legs[CHOOSE x \in s : TRUE].mpu + g[s \ {CHOOSE x \in s : TRUE}]]
           it == CHOOSE g : Iter(g)
<1>1. IsFiniteSet(S) /\ Cardinality(S) = Len(legs)
  <2>1. S = 1..Len(legs) /\ Len(legs) \in Nat
    OBVIOUS
  <2> HIDE DEF S
  <2> QED
    BY SMTT(40), <2>1, FS_Interval
<1>2. f \in [S -> Int]
  <2>1. \A i \in S : legs[i] \in Trade!Leg
    OBVIOUS
  <2>2. \A i \in S : legs[i].mpu \in Int
    BY <2>1 DEF Trade!Leg
  <2> QED
    BY <2>2
<1>3. PICK g : SumsUp(S, f, g) /\ g \in [SUBSET S -> Int]
  <2> HIDE DEF S, f
  <2> QED
    BY <1>1, <1>2, SumsExist
<1>4. \A s \in SUBSET S : s # {} => SumPick(s) \in S /\ f[SumPick(s)] = legs[SumPick(s)].mpu
  <2>1. \A s \in SUBSET S : s # {} => SumPick(s) \in S
    BY DEF SumPick
  <2> QED
    BY <2>1
<1>5. Iter(g)
  <2> HIDE DEF S, f
  <2> QED
    BY <1>3, <1>4 DEF SumsUp, SumAdds, SumPick
<1>6. Iter(it)
  BY <1>5
<1>7. Trade!Weight(legs) = it[S]
  BY DEF Trade!Weight, Trade!FoldFunction, Trade!FoldFunctionOnSet, Trade!MapThenFoldSet
<1>8. SumsUp(S, f, it)
  <2> HIDE DEF S, f, it
  <2> QED
    BY <1>4, <1>6 DEF SumsUp, SumAdds, SumPick
<1> QED
  BY <1>1, <1>2, <1>7, <1>8

\* The legs' shares add up to the total, times what each is divided by.
LEMMA SharesAddUp ==
    ASSUME NEW legs \in Seq(Trade!Leg), NEW T \in Int, NEW split \in {"equal", "weighted"}
    PROVE  /\ Trade!FoldFunction(+, 0, [i \in DOMAIN legs |-> Trade!Share(legs, i, T, split).num])
                = T * Trade!Share(legs, 1, T, split).den
           /\ Trade!Share(legs, 1, T, split).den \in Int
<1> DEFINE S == DOMAIN legs  e == [i \in S |-> Trade!Share(legs, i, T, split).num]
           w == [i \in S |-> legs[i].mpu]
<1>1. IsFiniteSet(S) /\ Cardinality(S) = Len(legs) /\ w \in [S -> Int]
  BY WeightIs
<1>2. \A i \in S : e[i] = (IF split = "equal" THEN T ELSE T * w[i])
  BY DEF Trade!Share
<1>3. e \in [S -> Int]
  <2>1. \A i \in S : e[i] \in Int
    <3> HIDE DEF e, w, S
    <3> QED
      BY <1>1, <1>2
  <2> QED
    BY <2>1
<1>4. PICK h : SumsUp(S, e, h) /\ Trade!FoldFunction(+, 0, e) = h[S]
  <2> HIDE DEF S, e
  <2> QED
    BY <1>1, <1>3, TotalIs
<1>5. CASE split = "equal"
  <2> DEFINE one == [i \in S |-> 1]  g == [s \in SUBSET S |-> Cardinality(s)]
  <2> HIDE DEF S
  <2>1. one \in [S -> Int] /\ g \in [SUBSET S -> Int]
    BY <1>1, SumSubsets
  <2>2. SumsUp(S, one, g)
    <3> SUFFICES ASSUME NEW s \in SUBSET S PROVE g[s] = SumAdds(one, s, g)
      BY DEF SumsUp
    <3>1. CASE s = {}
      BY <3>1, FS_EmptySet DEF SumAdds
    <3>2. CASE s # {}
      <4>1. SumPick(s) \in s /\ Cardinality(s) \in Nat /\ Cardinality(s \ {SumPick(s)}) = Cardinality(s) - 1
        BY <1>1, <3>2, SumSubsets
      <4> QED
        BY <3>2, <4>1 DEF SumAdds
    <3> QED
      BY <3>1, <3>2
  <2>3. SumScales(S, one, e, T)
    <3>1. T * 1 = T
      OBVIOUS
    <3>2. \A x \in S : e[x] = T /\ one[x] = 1
      BY <1>2, <1>5
    <3> HIDE DEF e, one
    <3> QED
      BY <3>1, <3>2 DEF SumScales
  <2>4. h[S] = T * g[S] /\ g[S] \in Int
    <3>1. SumsTyped(S, one, g)
      BY <2>1, <2>2 DEF SumsTyped
    <3> HIDE DEF e, one, g
    <3> QED
      BY <1>1, <1>4, <2>3, <3>1, SumsScale
  <2>5. g[S] = Len(legs)
    BY <1>1
  <2>6. Trade!Share(legs, 1, T, split).den = Len(legs)
    BY <1>5 DEF Trade!Share
  <2> HIDE DEF e, g
  <2> QED
    BY <1>4, <2>4, <2>5, <2>6 DEF e, S
<1>6. CASE split = "weighted"
  <2>1. PICK k : SumsUp(S, w, k) /\ Trade!Weight(legs) = k[S]
    BY WeightIs
  <2> HIDE DEF S, w, e
  <2>2. PICK g : SumsTyped(S, w, g)
    BY <1>1, SumsExist DEF SumsTyped
  <2>3. SumScales(S, w, e, T) /\ SumScales(S, w, w, 1) /\ 1 \in Int
    BY <1>1, <1>2, <1>6 DEF SumScales
  <2>4. h[S] = T * g[S] /\ g[S] \in Int
    BY <1>1, <1>4, <2>2, <2>3, SumsScale
  <2>5. k[S] = 1 * g[S]
    BY <1>1, <2>1, <2>2, <2>3, SumsScale
  <2>6. Trade!Share(legs, 1, T, split).den = Trade!Weight(legs)
    BY <1>6 DEF Trade!Share
  <2>7. k[S] = g[S]
    BY <2>4, <2>5
  <2>8. Trade!Share(legs, 1, T, split).den = g[S]
    BY <2>1, <2>6, <2>7
  <2> QED
    BY <1>4, <2>4, <2>8, Zenon DEF e, S
<1> QED
  BY <1>5, <1>6

\* Exactly one of the three is given.
LEMMA OneIsGiven ==
    ASSUME NEW f \in {"level", "points", "money"}, NEW q,
           q = [x \in {"level", "points", "money"} |-> IF x = f THEN q[f] ELSE -1], q[f] \in Nat
    PROVE  Cardinality({x \in {"level", "points", "money"} : Trade!Given(q[x])}) = 1
<1>1. \A x \in {"level", "points", "money"} : Trade!Given(q[x]) <=> x = f
  BY DEF Trade!Given
<1>2. {x \in {"level", "points", "money"} : Trade!Given(q[x])} = {f}
  BY <1>1
<1> QED
  BY <1>2, FS_Singleton

LEMMA SltpIs ==
    ASSUME NEW s, NEW q, NEW mode,
           Cardinality({f \in {"level", "points", "money"} : Trade!Given(q[f])}) = 1,
           NEW won, won = IF Trade!Given(q.level) THEN Trade!Signed(s.isBuy, q.level - s.entry) * s.mpu
                          ELSE IF mode = "sl" THEN -(IF Trade!Given(q.points) THEN q.points * s.mpu ELSE q.money)
                          ELSE (IF Trade!Given(q.points) THEN q.points * s.mpu ELSE q.money)
    PROVE  Trade!SltpCalc(s, q, mode) =
             [mode |-> IF ~Trade!Given(q.level) THEN mode ELSE IF won >= 0 THEN "tp" ELSE "sl",
              level |-> s.entry * s.mpu + Trade!Signed(s.isBuy, won), money |-> won]
<1> DEFINE dist == IF Trade!Given(q.points) THEN q.points * s.mpu ELSE q.money
           gain == IF Trade!Given(q.level) THEN Trade!Signed(s.isBuy, q.level - s.entry) * s.mpu
                   ELSE IF mode = "sl" THEN -dist ELSE dist
           given == Cardinality({f \in {"level", "points", "money"} : Trade!Given(q[f])})
           answer == [mode |-> IF ~Trade!Given(q.level) THEN mode ELSE IF gain >= 0 THEN "tp" ELSE "sl",
                      level |-> s.entry * s.mpu + Trade!Signed(s.isBuy, gain), money |-> gain]
<1>1. Trade!SltpCalc(s, q, mode) = IF given # 1 THEN [mode |-> "refused"] ELSE answer
  BY DEF Trade!SltpCalc, Trade!Cardinality, Cardinality
<1>2. given = 1 /\ gain = won
  OBVIOUS
<1> HIDE DEF given, gain
<1> QED
  BY <1>1, <1>2

\* The money and the points of a level give the level back.
LEMMA LevelComesBack ==
    ASSUME NEW leg \in Trade!Leg, NEW l \in Nat, NEW one, one = [level |-> -1, points |-> -1, money |-> -1],
           NEW r, r = Trade!SltpCalc(leg, [one EXCEPT !.level = l], "tp")
    PROVE  /\ Trade!SltpCalc(leg, [one EXCEPT !.money = Trade!Abs(r.money)], r.mode) = r
           /\ Trade!SltpCalc(leg, [one EXCEPT !.points = Trade!Abs(l - leg.entry)], r.mode) = r
           /\ Trade!ProfitTarget(leg, Trade!Abs(r.money), r.mode) = l * leg.mpu
<1> DEFINE E == leg.entry  m == leg.mpu  buy == leg.isBuy
           d == Trade!Signed(buy, l - E)  won == d * m  mode == IF won >= 0 THEN "tp" ELSE "sl"
           back == [mode |-> mode, level |-> E * m + Trade!Signed(buy, won), money |-> won]
<1>1. E \in Nat /\ m \in Nat /\ buy \in BOOLEAN
  BY DEF Trade!Leg
<1>2. d \in Int /\ won \in Int
  BY <1>1 DEF Trade!Signed
<1>3. r = back
  <2> DEFINE q == [one EXCEPT !.level = l]
  <2>1. q = [level |-> l, points |-> -1, money |-> -1]
    OBVIOUS
  <2> HIDE DEF q
  <2>2. Cardinality({f \in {"level", "points", "money"} : Trade!Given(q[f])}) = 1
    <3>1. q = [x \in {"level", "points", "money"} |-> IF x = "level" THEN q["level"] ELSE -1] /\ q["level"] \in Nat
      BY <2>1
    <3> QED
      BY <3>1, OneIsGiven
  <2>3. Trade!Given(q.level) /\ q.level = l
    BY <2>1 DEF Trade!Given
  <2>4. won = Trade!Signed(leg.isBuy, q.level - leg.entry) * leg.mpu
    BY <2>3
  <2> HIDE DEF won, mode
  <2>5. Trade!SltpCalc(leg, q, "tp") =
           [mode |-> IF won >= 0 THEN "tp" ELSE "sl", level |-> leg.entry * leg.mpu + Trade!Signed(leg.isBuy, won), money |-> won]
    BY <2>2, <2>3, <2>4, SltpIs
  <2> QED
    BY <2>5 DEF q, mode
<1> HIDE DEF d, won, mode
<1>4. r.money = won /\ r.mode = mode
  BY <1>3
<1>5. Trade!Abs(d) \in Nat /\ Trade!Abs(won) \in Nat /\ Trade!Abs(d) * m = Trade!Abs(won)
      /\ Trade!Abs(d) = Trade!Abs(l - E) /\ won = (IF mode = "sl" THEN -Trade!Abs(won) ELSE Trade!Abs(won))
  <2>1. Trade!Abs(d) \in Nat /\ Trade!Abs(won) \in Nat /\ Trade!Abs(d) = Trade!Abs(l - E)
    BY <1>1, <1>2 DEF Trade!Abs, Trade!Signed, d
  <2>2. won = (IF mode = "sl" THEN -Trade!Abs(won) ELSE Trade!Abs(won))
    BY <1>2 DEF Trade!Abs, mode
  <2>3. Trade!Abs(d) * m = Trade!Abs(won)
    <3>1. won = d * m
      BY DEF won
    <3>2. CASE d >= 0
      <4>1. won >= 0
        BY <1>1, <1>2, <3>1, <3>2
      <4> QED
        BY <1>1, <1>2, <3>1, <3>2, <4>1 DEF Trade!Abs
    <3>3. CASE d < 0
      <4>1. (-d) * m \in Nat /\ (-d) * m = -won
        BY <1>1, <1>2, <3>1, <3>3
      <4> QED
        BY <1>2, <3>3, <4>1 DEF Trade!Abs
    <3> QED
      BY <1>2, <3>2, <3>3
  <2> QED
    BY <2>1, <2>2, <2>3
<1>6. E * m + Trade!Signed(buy, won) = l * m
  <2>1. CASE buy
    <3>1. won = (l - E) * m
      BY <2>1 DEF won, d, Trade!Signed
    <3>2. (l - E) * m = l * m - E * m
      BY <1>1
    <3> QED
      BY <1>1, <2>1, <3>1, <3>2 DEF Trade!Signed
  <2>2. CASE ~buy
    <3>1. won = (-(l - E)) * m
      BY <2>2 DEF won, d, Trade!Signed
    <3>2. (-(l - E)) * m = E * m - l * m
      BY <1>1
    <3> QED
      BY <1>1, <2>2, <3>1, <3>2 DEF Trade!Signed
  <2> QED
    BY <1>1, <2>1, <2>2
<1>7. Trade!SltpCalc(leg, [one EXCEPT !.money = Trade!Abs(won)], mode) = back
  <2> DEFINE n == Trade!Abs(won)  q == [one EXCEPT !.money = n]
  <2> HIDE DEF n
  <2>1. q = [level |-> -1, points |-> -1, money |-> n] /\ n \in Nat
    BY <1>5 DEF n
  <2> HIDE DEF q
  <2>2. Cardinality({f \in {"level", "points", "money"} : Trade!Given(q[f])}) = 1
    <3>1. q = [x \in {"level", "points", "money"} |-> IF x = "money" THEN q["money"] ELSE -1] /\ q["money"] \in Nat
      BY <2>1
    <3> QED
      BY <3>1, OneIsGiven
  <2>3. ~Trade!Given(q.level) /\ ~Trade!Given(q.points) /\ q.money = n
    BY <2>1 DEF Trade!Given
  <2>4. won = (IF mode = "sl" THEN -n ELSE n)
    BY <1>5 DEF n
  <2>5. Trade!SltpCalc(leg, q, mode) = back
    BY <2>2, <2>3, <2>4, SltpIs
  <2> QED
    BY <2>5 DEF q, n
<1>8. Trade!SltpCalc(leg, [one EXCEPT !.points = Trade!Abs(l - E)], mode) = back
  <2> DEFINE n == Trade!Abs(l - E)  q == [one EXCEPT !.points = n]
  <2> HIDE DEF n
  <2>1. q = [level |-> -1, points |-> n, money |-> -1] /\ n \in Nat
    BY <1>5 DEF n
  <2> HIDE DEF q
  <2>2. Cardinality({f \in {"level", "points", "money"} : Trade!Given(q[f])}) = 1
    <3>1. q = [x \in {"level", "points", "money"} |-> IF x = "points" THEN q["points"] ELSE -1] /\ q["points"] \in Nat
      BY <2>1
    <3> QED
      BY <3>1, OneIsGiven
  <2>3. ~Trade!Given(q.level) /\ Trade!Given(q.points) /\ q.points = n
    BY <2>1 DEF Trade!Given
  <2>4. won = (IF mode = "sl" THEN -(n * m) ELSE n * m)
    BY <1>5 DEF n
  <2>5. Trade!SltpCalc(leg, q, mode) = back
    BY <2>2, <2>3, <2>4, SltpIs
  <2> QED
    BY <2>5 DEF q, n
<1>9. Trade!ProfitTarget(leg, Trade!Abs(won), mode) = l * m
  <2> DEFINE n == Trade!Abs(won)
  <2>1. won = (IF mode = "sl" THEN -n ELSE n) /\ n \in Int /\ mode \in {"sl", "tp"}
    BY <1>5 DEF mode
  <2> HIDE DEF n
  <2>2. (IF buy = (mode = "sl") THEN -n ELSE n) = Trade!Signed(buy, won)
    BY <1>1, <2>1 DEF Trade!Signed
  <2>3. Trade!ProfitTarget(leg, n, mode) = E * m + (IF buy = (mode = "sl") THEN -n ELSE n)
    BY DEF Trade!ProfitTarget
  <2> QED
    BY <1>6, <2>2, <2>3 DEF n
<1> QED
  BY <1>3, <1>4, <1>7, <1>8, <1>9

\* What one leg brings, and of what.
LEMMA ShareOf ==
    ASSUME NEW legs \in Seq(Trade!Leg), NEW T \in Int, NEW split \in {"equal", "weighted"}, NEW i \in DOMAIN legs
    PROVE  \E num, den \in Int :
             /\ Trade!Share(legs, i, T, split) = [num |-> num, den |-> den]
             /\ Trade!Share(legs, i, -T, split) = [num |-> -num, den |-> den]
             /\ split = "weighted" => num * legs[1].mpu = Trade!Share(legs, 1, T, split).num * legs[i].mpu
<1>1. legs[i] \in Trade!Leg /\ legs[1] \in Trade!Leg
  OBVIOUS
<1>2. legs[i].mpu \in Nat /\ legs[1].mpu \in Nat
  BY <1>1 DEF Trade!Leg
<1>3. CASE split = "equal"
  <2>1. Len(legs) \in Int
    OBVIOUS
  <2> QED
    BY <1>3, <2>1 DEF Trade!Share
<1>4. CASE split = "weighted"
  <2> DEFINE a == legs[i].mpu  b == legs[1].mpu  w == Trade!Weight(legs)
  <2>1. w \in Int
    <3>1. Trade!Share(legs, 1, T, split).den \in Int
      BY SharesAddUp
    <3> QED
      BY <1>4, <3>1 DEF Trade!Share
  <2>2. /\ Trade!Share(legs, i, T, split) = [num |-> T * a, den |-> w]
        /\ Trade!Share(legs, i, -T, split) = [num |-> (-T) * a, den |-> w]
        /\ Trade!Share(legs, 1, T, split).num = T * b
    BY <1>4 DEF Trade!Share
  <2> HIDE DEF a, b, w
  <2>3. a \in Int /\ b \in Int
    BY <1>2 DEF a, b
  <2>4. T * a \in Int /\ (-T) * a = -(T * a) /\ (T * a) * b = (T * b) * a
    BY <2>3
  <2> QED
    BY <2>1, <2>2, <2>4 DEF a, b
<1> QED
  BY <1>3, <1>4

\* A bracket's level is the target of the same money, and legal when the position
\* is on the right side of it.
LEMMA BracketOf ==
    ASSUME NEW leg \in Trade!Leg, NEW num \in Int, NEW den \in Int
    PROVE  LET up == [num |-> num, den |-> den]
               down == [num |-> -num, den |-> den]
               at == leg.cur * leg.mpu * den
               worth == Trade!Signed(leg.isBuy, leg.cur - leg.entry) * leg.mpu
               put == [leg EXCEPT !.entry = @ * den]
           IN  /\ Trade!BracketLevel(leg, down) = Trade!ProfitTarget(put, num, "sl")
               /\ Trade!BracketLevel(leg, up) = Trade!ProfitTarget(put, num, "tp")
               /\ (IF leg.isBuy THEN Trade!BracketLevel(leg, up) < at ELSE Trade!BracketLevel(leg, up) > at)
                    <=> worth * den > num
               /\ (IF leg.isBuy THEN Trade!BracketLevel(leg, up) > at ELSE Trade!BracketLevel(leg, up) < at)
                    <=> worth * den < num
<1> DEFINE E == leg.entry  C == leg.cur  m == leg.mpu  buy == leg.isBuy
           up == [num |-> num, den |-> den]  down == [num |-> -num, den |-> den]
           at == C * m * den  from == E * m * den
           worth == Trade!Signed(buy, C - E) * m  put == [leg EXCEPT !.entry = @ * den]
<1>1. E \in Nat /\ C \in Nat /\ m \in Nat /\ buy \in BOOLEAN
  BY DEF Trade!Leg
<1>2. put.entry = E * den /\ put.mpu = m /\ put.isBuy = buy
  BY DEF Trade!Leg
<1>3. Trade!BracketLevel(leg, down) = from + Trade!Signed(buy, -num)
      /\ Trade!BracketLevel(leg, up) = from + Trade!Signed(buy, num)
  BY DEF Trade!BracketLevel
<1>4. /\ Trade!ProfitTarget(put, num, "sl") = (E * den) * m + (IF buy THEN -num ELSE num)
      /\ Trade!ProfitTarget(put, num, "tp") = (E * den) * m + (IF buy THEN num ELSE -num)
  <2> HIDE DEF put
  <2>1. buy = TRUE \/ buy = FALSE
    BY <1>1
  <2> QED
    BY <1>2, <2>1 DEF Trade!ProfitTarget
<1>5. at \in Int /\ from \in Int /\ (E * den) * m = from
  BY <1>1
<1>6. worth * den = (IF buy THEN at - from ELSE from - at)
  <2>1. CASE buy
    <3>1. worth = (C - E) * m
      BY <2>1 DEF Trade!Signed
    <3>2. ((C - E) * m) * den = C * m * den - E * m * den
      BY <1>1
    <3> QED
      BY <2>1, <3>1, <3>2
  <2>2. CASE ~buy
    <3>1. worth = (-(C - E)) * m
      BY <2>2 DEF Trade!Signed
    <3>2. ((-(C - E)) * m) * den = E * m * den - C * m * den
      BY <1>1
    <3> QED
      BY <2>2, <3>1, <3>2
  <2> QED
    BY <2>1, <2>2
<1> HIDE DEF at, from, worth, put, up, down
<1>7. /\ Trade!BracketLevel(leg, down) = Trade!ProfitTarget(put, num, "sl")
      /\ Trade!BracketLevel(leg, up) = Trade!ProfitTarget(put, num, "tp")
  BY <1>1, <1>3, <1>4, <1>5 DEF Trade!Signed
<1>8. (IF buy THEN Trade!BracketLevel(leg, up) < at ELSE Trade!BracketLevel(leg, up) > at) <=> worth * den > num
  BY <1>1, <1>3, <1>5, <1>6 DEF Trade!Signed
<1>9. (IF buy THEN Trade!BracketLevel(leg, up) > at ELSE Trade!BracketLevel(leg, up) < at) <=> worth * den < num
  BY <1>1, <1>3, <1>5, <1>6 DEF Trade!Signed
<1> QED
  BY <1>7, <1>8, <1>9 DEF at, worth, put, up, down

LEMMA BasketHolds ==
    ASSUME NEW legs \in Seq(Trade!Leg), NEW T \in Int, NEW split \in {"equal", "weighted"}, NEW i \in DOMAIN legs
    PROVE  LET b == Trade!Bracket(legs, -T, T, split)
               lock == Trade!Bracket(legs, T, 0, split)
               sh == Trade!Share(legs, i, T, split)
               worth == Trade!Signed(legs[i].isBuy, legs[i].cur - legs[i].entry) * legs[i].mpu
           IN  /\ split = "weighted" => sh.num * legs[1].mpu = Trade!Share(legs, 1, T, split).num * legs[i].mpu
               /\ b[i].sl = Trade!BasketTarget(legs, T, "sl", split)[i]
               /\ b[i].tp = Trade!BasketTarget(legs, T, "tp", split)[i]
               /\ lock[i].slValid = (worth * sh.den > sh.num) /\ b[i].tpValid = (worth * sh.den < sh.num)
<1>1. PICK num \in Int, den \in Int :
         /\ Trade!Share(legs, i, T, split) = [num |-> num, den |-> den]
         /\ Trade!Share(legs, i, -T, split) = [num |-> -num, den |-> den]
         /\ split = "weighted" => num * legs[1].mpu = Trade!Share(legs, 1, T, split).num * legs[i].mpu
  BY ShareOf
<1> DEFINE leg == legs[i]  up == [num |-> num, den |-> den]  down == [num |-> -num, den |-> den]
           at == leg.cur * leg.mpu * den
           worth == Trade!Signed(leg.isBuy, leg.cur - leg.entry) * leg.mpu
           put == [leg EXCEPT !.entry = @ * den]
           b == Trade!Bracket(legs, -T, T, split)  lock == Trade!Bracket(legs, T, 0, split)
<1>2. leg \in Trade!Leg /\ up.num = num /\ up.den = den /\ down.den = den
  OBVIOUS
<1>3. /\ Trade!BracketLevel(leg, down) = Trade!ProfitTarget(put, num, "sl")
      /\ Trade!BracketLevel(leg, up) = Trade!ProfitTarget(put, num, "tp")
      /\ (IF leg.isBuy THEN Trade!BracketLevel(leg, up) < at ELSE Trade!BracketLevel(leg, up) > at) <=> worth * den > num
      /\ (IF leg.isBuy THEN Trade!BracketLevel(leg, up) > at ELSE Trade!BracketLevel(leg, up) < at) <=> worth * den < num
  BY <1>2, BracketOf
<1>4. /\ b[i].sl = Trade!BracketLevel(leg, down) /\ b[i].tp = Trade!BracketLevel(leg, up)
      /\ b[i].tpValid = (IF leg.isBuy THEN Trade!BracketLevel(leg, up) > at ELSE Trade!BracketLevel(leg, up) < at)
      /\ lock[i].slValid = (IF leg.isBuy THEN Trade!BracketLevel(leg, up) < at ELSE Trade!BracketLevel(leg, up) > at)
  BY <1>1 DEF Trade!Bracket
<1>5. /\ Trade!BasketTarget(legs, T, "sl", split)[i] = Trade!ProfitTarget(put, num, "sl")
      /\ Trade!BasketTarget(legs, T, "tp", split)[i] = Trade!ProfitTarget(put, num, "tp")
  BY SMTT(40), <1>1 DEF Trade!BasketTarget
<1> HIDE DEF b, lock, up, down, put, at, worth
<1>6. leg.isBuy \in BOOLEAN
  BY <1>2 DEF Trade!Leg
<1>7. lock[i].slValid = (worth * den > num) /\ b[i].tpValid = (worth * den < num)
  BY <1>3, <1>4, <1>6
<1> QED
  BY <1>1, <1>2, <1>3, <1>4, <1>5, <1>7 DEF b, lock, worth, up

LEMMA CalculatorsHold == Trade!WellPut(v1) => Trade!CalculatorsAgree
<1> DEFINE one == [level |-> -1, points |-> -1, money |-> -1]  legs == v1.legs  T == v1.target
           worth(i) == Trade!Signed(legs[i].isBuy, legs[i].cur - legs[i].entry) * legs[i].mpu
<1> SUFFICES ASSUME Trade!WellPut(v1), v1.kind = "calc"
             PROVE
    /\ \A i \in DOMAIN legs, l \in v1.levels : \A r \in {Trade!SltpCalc(legs[i], [one EXCEPT !.level = l], "tp")} :
        /\ Trade!SltpCalc(legs[i], [one EXCEPT !.money = Trade!Abs(r.money)], r.mode) = r
        /\ Trade!SltpCalc(legs[i], [one EXCEPT !.points = Trade!Abs(l - legs[i].entry)], r.mode) = r
        /\ Trade!ProfitTarget(legs[i], Trade!Abs(r.money), r.mode) = l * legs[i].mpu
    /\ \A split \in {"equal", "weighted"} :
        \A b \in {Trade!Bracket(legs, -T, T, split)}, lock \in {Trade!Bracket(legs, T, 0, split)} :
            /\ Trade!FoldFunction(+, 0, [i \in DOMAIN legs |-> Trade!Share(legs, i, T, split).num])
                 = T * Trade!Share(legs, 1, T, split).den
            /\ \A i \in DOMAIN legs :
                LET sh == Trade!Share(legs, i, T, split) IN
                /\ split = "weighted" => sh.num * legs[1].mpu = Trade!Share(legs, 1, T, split).num * legs[i].mpu
                /\ b[i].sl = Trade!BasketTarget(legs, T, "sl", split)[i]
                /\ b[i].tp = Trade!BasketTarget(legs, T, "tp", split)[i]
                /\ lock[i].slValid = (worth(i) * sh.den > sh.num) /\ b[i].tpValid = (worth(i) * sh.den < sh.num)
  BY DEF Trade!CalculatorsAgree, Trade!Is
<1>1. legs \in Seq(Trade!Leg) /\ v1.levels \subseteq Nat /\ T \in Nat
  BY DEF Trade!WellPut
<1> HIDE DEF legs, T
<1>2. ASSUME NEW i \in DOMAIN legs, NEW l \in v1.levels, NEW r, r = Trade!SltpCalc(legs[i], [one EXCEPT !.level = l], "tp")
      PROVE  /\ Trade!SltpCalc(legs[i], [one EXCEPT !.money = Trade!Abs(r.money)], r.mode) = r
             /\ Trade!SltpCalc(legs[i], [one EXCEPT !.points = Trade!Abs(l - legs[i].entry)], r.mode) = r
             /\ Trade!ProfitTarget(legs[i], Trade!Abs(r.money), r.mode) = l * legs[i].mpu
  <2>1. legs[i] \in Trade!Leg /\ l \in Nat
    BY <1>1
  <2>2. one = [level |-> -1, points |-> -1, money |-> -1]
    OBVIOUS
  <2> HIDE DEF one
  <2> QED
    BY <1>2, <2>1, <2>2, LevelComesBack
<1>3. ASSUME NEW split \in {"equal", "weighted"}
      PROVE  Trade!FoldFunction(+, 0, [i \in DOMAIN legs |-> Trade!Share(legs, i, T, split).num])
                 = T * Trade!Share(legs, 1, T, split).den
  <2>1. T \in Int
    BY <1>1
  <2> QED
    BY <1>1, <2>1, SharesAddUp, Zenon
<1>4. ASSUME NEW split \in {"equal", "weighted"}, NEW i \in DOMAIN legs
      PROVE  LET b == Trade!Bracket(legs, -T, T, split)
                 lock == Trade!Bracket(legs, T, 0, split)
                 sh == Trade!Share(legs, i, T, split)
             IN  /\ split = "weighted" => sh.num * legs[1].mpu = Trade!Share(legs, 1, T, split).num * legs[i].mpu
                 /\ b[i].sl = Trade!BasketTarget(legs, T, "sl", split)[i]
                 /\ b[i].tp = Trade!BasketTarget(legs, T, "tp", split)[i]
                 /\ lock[i].slValid = (worth(i) * sh.den > sh.num) /\ b[i].tpValid = (worth(i) * sh.den < sh.num)
  BY SMTT(40), <1>1, BasketHolds
<1>5. ASSUME NEW split \in {"equal", "weighted"},
             NEW b, b = Trade!Bracket(legs, -T, T, split), NEW lock, lock = Trade!Bracket(legs, T, 0, split),
             NEW i \in DOMAIN legs
      PROVE  LET sh == Trade!Share(legs, i, T, split)
             IN  /\ split = "weighted" => sh.num * legs[1].mpu = Trade!Share(legs, 1, T, split).num * legs[i].mpu
                 /\ b[i].sl = Trade!BasketTarget(legs, T, "sl", split)[i]
                 /\ b[i].tp = Trade!BasketTarget(legs, T, "tp", split)[i]
                 /\ lock[i].slValid = (worth(i) * sh.den > sh.num) /\ b[i].tpValid = (worth(i) * sh.den < sh.num)
  BY <1>4, <1>5
<1> QED
  <2> HIDE DEF one, worth
  <2>1. \A i \in DOMAIN legs, l \in v1.levels : \A r \in {Trade!SltpCalc(legs[i], [one EXCEPT !.level = l], "tp")} :
          /\ Trade!SltpCalc(legs[i], [one EXCEPT !.money = Trade!Abs(r.money)], r.mode) = r
          /\ Trade!SltpCalc(legs[i], [one EXCEPT !.points = Trade!Abs(l - legs[i].entry)], r.mode) = r
          /\ Trade!ProfitTarget(legs[i], Trade!Abs(r.money), r.mode) = l * legs[i].mpu
    BY <1>2
  <2>2. ASSUME NEW split \in {"equal", "weighted"},
               NEW b \in {Trade!Bracket(legs, -T, T, split)}, NEW lock \in {Trade!Bracket(legs, T, 0, split)}
        PROVE  /\ Trade!FoldFunction(+, 0, [i \in DOMAIN legs |-> Trade!Share(legs, i, T, split).num])
                    = T * Trade!Share(legs, 1, T, split).den
               /\ \A i \in DOMAIN legs :
                   LET sh == Trade!Share(legs, i, T, split) IN
                   /\ split = "weighted" => sh.num * legs[1].mpu = Trade!Share(legs, 1, T, split).num * legs[i].mpu
                   /\ b[i].sl = Trade!BasketTarget(legs, T, "sl", split)[i]
                   /\ b[i].tp = Trade!BasketTarget(legs, T, "tp", split)[i]
                   /\ lock[i].slValid = (worth(i) * sh.den > sh.num) /\ b[i].tpValid = (worth(i) * sh.den < sh.num)
    <3>1. b = Trade!Bracket(legs, -T, T, split) /\ lock = Trade!Bracket(legs, T, 0, split)
      OBVIOUS
    <3>2. Trade!FoldFunction(+, 0, [i \in DOMAIN legs |-> Trade!Share(legs, i, T, split).num])
             = T * Trade!Share(legs, 1, T, split).den
      BY <1>3, Zenon
    <3>3. ASSUME NEW i \in DOMAIN legs
          PROVE  LET sh == Trade!Share(legs, i, T, split) IN
                 /\ split = "weighted" => sh.num * legs[1].mpu = Trade!Share(legs, 1, T, split).num * legs[i].mpu
                 /\ b[i].sl = Trade!BasketTarget(legs, T, "sl", split)[i]
                 /\ b[i].tp = Trade!BasketTarget(legs, T, "tp", split)[i]
                 /\ lock[i].slValid = (worth(i) * sh.den > sh.num) /\ b[i].tpValid = (worth(i) * sh.den < sh.num)
      BY <1>5, <3>1
    <3> QED
      BY <3>2, <3>3, Zenon
  <2> QED
    BY <2>1, <2>2, Zenon

\* One hop: at the worth of the two, or nothing below.
LEMMA HopOf ==
    ASSUME NEW s, Trade!WellPut(s), s.kind = "fx", NEW a \in DOMAIN s.worth, NEW b \in DOMAIN s.worth
    PROVE  \E n, d \in Nat :
             /\ Trade!Hop(s, a, b) = <<n, d>> /\ (d # 0 => n * s.worth[b] = d * s.worth[a])
             /\ d # 0 <=> (a = b \/ <<a, b>> \in DOMAIN s.price \/ <<b, a>> \in DOMAIN s.price)
<1>1. /\ s.worth \in [DOMAIN s.worth -> Nat \ {0}]
      /\ s.price = [q \in DOMAIN s.price |-> <<s.worth[q[1]], s.worth[q[2]]>>]
  BY DEF Trade!WellPut
<1> DEFINE u == s.worth[a]  w == s.worth[b]
<1>2. u \in Nat \ {0} /\ w \in Nat \ {0}
  BY <1>1
<1>3. <<a, b>> \in DOMAIN s.price => s.price[<<a, b>>] = <<u, w>>
  BY <1>1
<1>4. <<b, a>> \in DOMAIN s.price => s.price[<<b, a>>] = <<w, u>>
  BY <1>1
<1> HIDE DEF u, w
<1>5. CASE a = b
  <2>1. Trade!Hop(s, a, b) = <<1, 1>> /\ u = w
    BY <1>5 DEF Trade!Hop, u, w
  <2> QED
    BY <1>2, <1>5, <2>1 DEF u, w
<1>6. CASE a # b /\ <<a, b>> \in DOMAIN s.price
  <2>1. Trade!PairPrice(s, a, b) = <<u, w>>
    BY <1>3, <1>6 DEF Trade!PairPrice
  <2>2. Trade!Hop(s, a, b) = <<u, w>>
    BY <1>2, <1>6, <2>1 DEF Trade!Hop
  <2>3. u * w = w * u
    BY <1>2
  <2> QED
    BY <1>2, <1>6, <2>2, <2>3 DEF u, w
<1>7. CASE a # b /\ <<a, b>> \notin DOMAIN s.price
  <2>1. Trade!PairPrice(s, a, b) = <<0, 1>>
    BY <1>7 DEF Trade!PairPrice
  <2>2. Trade!Hop(s, a, b) = <<Trade!PairPrice(s, b, a)[2], Trade!PairPrice(s, b, a)[1]>>
    BY <1>7, <2>1 DEF Trade!Hop
  <2>3. CASE <<b, a>> \in DOMAIN s.price
    <3>1. Trade!PairPrice(s, b, a) = <<w, u>>
      BY <1>4, <2>3 DEF Trade!PairPrice
    <3>2. Trade!Hop(s, a, b) = <<u, w>>
      BY <2>2, <3>1
    <3>3. u * w = w * u
      BY <1>2
    <3> QED
      BY <1>2, <2>3, <3>2, <3>3 DEF u, w
  <2>4. CASE <<b, a>> \notin DOMAIN s.price
    <3>1. Trade!PairPrice(s, b, a) = <<0, 1>>
      BY <2>4 DEF Trade!PairPrice
    <3>2. Trade!Hop(s, a, b) = <<1, 0>>
      BY <2>2, <3>1
    <3> QED
      BY <1>7, <2>4, <3>2
  <2> QED
    BY <2>3, <2>4
<1> QED
  BY <1>5, <1>6, <1>7

LEMMA MoneyHolds == Trade!WellPut(v1) => Trade!MoneyIsConverted
<1> DEFINE f == v1.from  t == v1.to  worth == v1.worth  pairs == DOMAIN v1.price
           joined(a, b) == a = b \/ <<a, b>> \in pairs \/ <<b, a>> \in pairs
           m == Trade!MoneyRate(v1)  r == Trade!FxRate(v1, f, t)
<1> SUFFICES ASSUME Trade!WellPut(v1), v1.kind = "fx"
             PROVE  /\ m.exact = (joined(f, t) \/ (joined(f, "USD") /\ joined("USD", t)))
                    /\ m.exact => m.rate[1] * worth[t] = m.rate[2] * worth[f]
  BY DEF Trade!MoneyIsConverted, Trade!Is
<1>1. {f, t, "USD"} \subseteq DOMAIN worth /\ worth \in [DOMAIN worth -> Nat \ {0}]
  BY DEF Trade!WellPut
<1> DEFINE x == worth[f]  y == worth[t]  z == worth["USD"]
<1>2. x \in Nat \ {0} /\ y \in Nat \ {0} /\ z \in Nat \ {0}
  BY <1>1
<1>3. PICK n1 \in Nat, d1 \in Nat :
        /\ Trade!Hop(v1, f, t) = <<n1, d1>> /\ (d1 # 0 => n1 * y = d1 * x)
        /\ (d1 # 0 <=> joined(f, t))
  BY <1>1, HopOf
<1>4. PICK n2 \in Nat, d2 \in Nat :
        /\ Trade!Hop(v1, f, "USD") = <<n2, d2>> /\ (d2 # 0 => n2 * z = d2 * x)
        /\ (d2 # 0 <=> joined(f, "USD"))
  BY <1>1, HopOf
<1>5. PICK n3 \in Nat, d3 \in Nat :
        /\ Trade!Hop(v1, "USD", t) = <<n3, d3>> /\ (d3 # 0 => n3 * y = d3 * z)
        /\ (d3 # 0 <=> joined("USD", t))
  BY <1>1, HopOf
<1>6. r = IF d1 # 0 \/ "USD" \in {f, t} THEN <<n1, d1>> ELSE <<n2 * n3, d2 * d3>>
  <2> DEFINE h1 == Trade!Hop(v1, f, t)  h2 == Trade!Hop(v1, f, "USD")  h3 == Trade!Hop(v1, "USD", t)
  <2>1. h1 = <<n1, d1>> /\ h2 = <<n2, d2>> /\ h3 = <<n3, d3>>
    BY <1>3, <1>4, <1>5
  <2>2. r = IF h1[2] # 0 \/ "USD" \in {f, t} THEN h1 ELSE <<h2[1] * h3[1], h2[2] * h3[2]>>
    BY DEF Trade!FxRate
  <2> HIDE DEF h1, h2, h3, r
  <2> QED
    BY <2>1, <2>2
<1>7. m = IF r[2] = 0 THEN [rate |-> <<1, 1>>, exact |-> FALSE] ELSE [rate |-> r, exact |-> TRUE]
  BY DEF Trade!MoneyRate
<1> HIDE DEF m, r, x, y, z
<1>8. CASE d1 # 0
  <2>1. r = <<n1, d1>> /\ n1 * y = d1 * x /\ joined(f, t)
    BY <1>3, <1>6, <1>8
  <2>2. m.exact = TRUE /\ m.rate = <<n1, d1>>
    BY <1>7, <1>8, <2>1
  <2>3. m.exact = (joined(f, t) \/ (joined(f, "USD") /\ joined("USD", t)))
    BY <2>1, <2>2
  <2> HIDE DEF joined
  <2> QED
    BY <2>1, <2>2, <2>3 DEF x, y
<1>9. CASE d1 = 0 /\ "USD" \in {f, t}
  <2>1. ~joined(f, t) /\ ~(joined(f, "USD") /\ joined("USD", t))
    BY <1>3, <1>9
  <2>2. m.exact = FALSE
    BY <1>6, <1>7, <1>9
  <2> HIDE DEF joined
  <2> QED
    BY <2>1, <2>2
<1>10. CASE d1 = 0 /\ "USD" \notin {f, t}
  <2>1. r = <<n2 * n3, d2 * d3>> /\ ~joined(f, t)
    BY <1>3, <1>6, <1>10
  <2>2. CASE d2 # 0 /\ d3 # 0
    <3>1. d2 * d3 \in Nat \ {0}
      BY <2>2, TimesPositive
    <3>2. (n2 * n3) * y = (d2 * d3) * x
      <4>1. n2 * z = d2 * x /\ n3 * y = d3 * z
        BY <1>4, <1>5, <2>2
      <4>2. (n2 * n3) * y = n2 * (n3 * y) /\ n2 * (d3 * z) = d3 * (n2 * z) /\ d3 * (d2 * x) = (d2 * d3) * x
        BY <1>2
      <4> QED
        BY <4>1, <4>2
    <3>3. m.exact = TRUE /\ m.rate = <<n2 * n3, d2 * d3>>
      BY <1>7, <2>1, <3>1
    <3>4. joined(f, "USD") /\ joined("USD", t)
      BY <1>4, <1>5, <2>2
    <3>5. m.exact = (joined(f, t) \/ (joined(f, "USD") /\ joined("USD", t)))
      BY <3>3, <3>4
    <3> HIDE DEF joined
    <3> QED
      BY <3>2, <3>3, <3>5 DEF x, y
  <2>3. CASE d2 = 0 \/ d3 = 0
    <3>1. d2 * d3 = 0
      BY <2>3
    <3>2. m.exact = FALSE
      BY <1>7, <2>1, <3>1
    <3>3. ~(joined(f, "USD") /\ joined("USD", t))
      BY <1>4, <1>5, <2>3
    <3> HIDE DEF joined
    <3> QED
      BY <2>1, <3>2, <3>3
  <2> QED
    BY <2>2, <2>3
<1> QED
  BY <1>8, <1>9, <1>10

-----------------------------------------------------------------------------
(* The sums: the signals.                                                  *)

\* The last of the good nodes of a kind is one of them.
LEMMA LastGoodIs ==
    ASSUME NEW kind, NEW trace \in Seq(Signals!Steps)
    PROVE  Signals!LastGood(kind, trace) # 0 =>
             /\ Signals!LastGood(kind, trace) \in DOMAIN trace
             /\ trace[Signals!LastGood(kind, trace)].kind = kind
<1> DEFINE good == {i \in DOMAIN trace : trace[i].kind = kind /\ trace[i].good}
           Last(i) == i \in good /\ \A j \in good : j <= i
<1>1. good \subseteq 1..Len(trace) /\ Len(trace) \in Nat
  OBVIOUS
<1>2. ASSUME good # {} PROVE \E i \in good : \A j \in good : j <= i
  <2> DEFINE L == Len(trace)  S == {n \in Nat : L - n \in good}
  <2> HIDE DEF good, L
  <2>1. PICK i \in good : TRUE
    BY <1>2
  <2>2. L - i \in S
    <3>1. L - i \in Nat /\ L - (L - i) = i
      BY <1>1, <2>1 DEF L
    <3> QED
      BY <2>1, <3>1
  <2>3. PICK m \in S : \A k \in S : m <= k
    BY <2>2, LeastNumber
  <2>4. ASSUME NEW j \in good PROVE j <= L - m
    <3>1. L - j \in Nat /\ L - (L - j) = j
      BY <1>1 DEF L
    <3>2. L - j \in S
      BY <3>1
    <3>3. j \in Nat /\ L \in Nat /\ m \in Nat
      BY <1>1 DEF L
    <3> HIDE DEF S
    <3>4. m <= L - j
      BY <2>3, <3>2
    <3> QED
      BY <3>3, <3>4
  <2> QED
    BY <2>3, <2>4
<1>3. Signals!LastGood(kind, trace) = IF good = {} THEN 0 ELSE CHOOSE i \in good : \A j \in good : j <= i
  BY DEF Signals!LastGood
<1>4. good # {} => Signals!LastGood(kind, trace) \in good
  <2> HIDE DEF good
  <2> QED
    BY <1>2, <1>3
<1> QED
  BY <1>3, <1>4

\* What the run gathered: a plan that has an entry if it says anything, and a price.
LEMMA GatheredIs ==
    ASSUME NEW s, Signals!WellPut(s), s.kind = "signal"
    PROVE  LET plan == Signals!PlanFromTrace(s.trace) IN
           /\ plan.dir \in Signals!Sides /\ plan.entry \in Nat \cup {-1}
           /\ plan.sl \in Nat \cup {-1} /\ plan.tp \in Nat \cup {-1} /\ plan.entry # 0
           /\ plan.sl # -1 \/ plan.tp # -1 => plan.entry # -1
           /\ Signals!MarketPrice(s.trace) \in Nat \cup {-1} /\ Signals!MarketPrice(s.trace) # 0
<1> DEFINE i == Signals!LastGood("risk", s.trace)  k == Signals!LastGood("market", s.trace)
<1>1. s.trace \in Seq(Signals!Steps)
  BY DEF Signals!WellPut
<1>2. i # 0 => s.trace[i] \in Signals!Steps /\ s.trace[i].kind = "risk"
  <2> DEFINE t == s.trace
  <2> HIDE DEF t
  <2>1. \A j \in DOMAIN t : t[j] \in Signals!Steps
    BY <1>1 DEF t
  <2> QED
    BY <1>1, <2>1, LastGoodIs DEF t
<1>3. k # 0 => s.trace[k] \in Signals!Steps /\ s.trace[k].kind = "market"
  <2> DEFINE t == s.trace
  <2> HIDE DEF t
  <2>1. \A j \in DOMAIN t : t[j] \in Signals!Steps
    BY <1>1 DEF t
  <2> QED
    BY <1>1, <2>1, LastGoodIs DEF t
<1> HIDE DEF i, k
<1>4. Signals!PlanFromTrace(s.trace) = IF i = 0 THEN Signals!NoPlan ELSE s.trace[i].plan
  BY DEF Signals!PlanFromTrace, i
<1>5. Signals!MarketPrice(s.trace) = IF k = 0 THEN -1 ELSE s.trace[k].price
  BY DEF Signals!MarketPrice, Signals!None, k
<1>6. i # 0 => LET plan == s.trace[i].plan IN
          /\ plan.dir \in Signals!Sides /\ plan.entry \in Nat /\ plan.entry # 0
          /\ plan.sl \in Nat \cup {-1} /\ plan.tp \in Nat \cup {-1}
  BY <1>2 DEF Signals!Steps, Signals!Priced, Signals!Opt, Signals!None
<1>7. k # 0 => s.trace[k].price \in Nat /\ s.trace[k].price # 0
  BY <1>3 DEF Signals!Steps, Signals!Priced
<1>8. LET plan == Signals!NoPlan IN
          /\ plan.dir \in Signals!Sides /\ plan.entry = -1 /\ plan.sl = -1 /\ plan.tp = -1
  BY DEF Signals!NoPlan, Signals!None, Signals!Sides
<1> QED
  BY <1>4, <1>5, <1>6, <1>7, <1>8

\* A trade that is drafted has a type, and a resting one's level is where its name says.
LEMMA DraftIsOne ==
    ASSUME NEW s, Signals!WellPut(s), s.kind = "signal", Signals!Drafted(s).dir # "NONE"
    PROVE  Signals!OneOfThree(s, Signals!Drafted(s))
<1> DEFINE dir == Signals!Direction(s)  entry == Signals!Entry(s)  price == Signals!Price(s)
           type == Signals!OrderType(s)  geo == Signals!PendingType(dir, entry, price)
           sig == Signals!Drafted(s)  plan == Signals!PlanFromTrace(s.trace)
<1>1. s.out.dir \in Signals!Sides /\ s.out.entry \in Nat \cup {-1} /\ s.live \in Nat \cup {-1} /\ s.live # 0
  BY DEF Signals!WellPut, Signals!Opt, Signals!Priced, Signals!None
<1>2. /\ plan.dir \in Signals!Sides /\ plan.entry \in Nat \cup {-1} /\ plan.entry # 0
      /\ Signals!MarketPrice(s.trace) \in Nat \cup {-1} /\ Signals!MarketPrice(s.trace) # 0
  BY GatheredIs
<1>3. /\ sig.dir = dir /\ sig.type = type /\ sig.price = price
      /\ sig.entry = IF type = "MARKET" THEN Signals!Or(plan.entry, entry) ELSE entry
  BY DEF Signals!Drafted
<1> HIDE DEF plan, sig
<1>4. dir \in {"BUY", "SELL"}
  <2>1. dir = IF Signals!SaidNone(s.out) THEN "NONE" ELSE IF plan.dir # "NONE" THEN plan.dir ELSE s.out.dir
    BY DEF Signals!Direction, plan
  <2>2. dir # "NONE"
    BY <1>3 DEF sig
  <2> HIDE DEF dir
  <2> QED
    BY <1>1, <1>2, <2>1, <2>2 DEF Signals!Sides
<1>5. entry \in Nat \cup {-1}
  BY <1>1, <1>2 DEF Signals!Entry, Signals!Or, plan
<1>6. price \in Nat \cup {-1} /\ price # 0
  <2> DEFINE seen == Signals!Or(Signals!MarketPrice(s.trace), plan.entry)
  <2>1. seen \in Nat \cup {-1} /\ seen # 0
    BY <1>2 DEF Signals!Or
  <2>2. price = IF Signals!Pending(s) /\ Signals!Direction(s) # "NONE" THEN Signals!Or(seen, s.live) ELSE seen
    BY DEF Signals!Price, plan
  <2> HIDE DEF seen, price
  <2> QED
    BY <1>1, <2>1, <2>2 DEF Signals!Or
<1>7. type = IF ~Signals!Pending(s) THEN "MARKET" ELSE IF geo # "unknown" THEN geo
             ELSE IF s.out.hint \in Signals!PendingTypes THEN s.out.hint
             ELSE IF Signals!Given(entry) THEN "PENDING" ELSE "MARKET"
  BY <1>4 DEF Signals!OrderType
<1> HIDE DEF dir, entry, price, type
<1>8. geo \in {"unknown", "MARKET", "BUY_STOP", "BUY_LIMIT", "SELL_STOP", "SELL_LIMIT"}
  BY DEF Signals!PendingType
<1>9. ASSUME Signals!Given(entry), Signals!Given(price)
      PROVE  /\ geo # "unknown"
             /\ geo \in {"BUY_STOP", "SELL_LIMIT"} => entry > price
             /\ geo \in {"SELL_STOP", "BUY_LIMIT"} => entry < price
             /\ geo \in {"BUY_STOP", "BUY_LIMIT"} => dir = "BUY"
             /\ geo \in {"SELL_STOP", "SELL_LIMIT"} => dir = "SELL"
  <2>1. entry \in Nat /\ price \in Nat /\ price > 0
    BY <1>5, <1>6, <1>9 DEF Signals!Given, Signals!None
  <2>2. entry = price => Signals!AtMarket(entry, price)
    BY <2>1 DEF Signals!AtMarket, Signals!Apart
  <2>3. geo = IF Signals!AtMarket(entry, price) THEN "MARKET"
              ELSE IF dir = "BUY" THEN IF entry > price THEN "BUY_STOP" ELSE "BUY_LIMIT"
              ELSE IF entry > price THEN "SELL_LIMIT" ELSE "SELL_STOP"
    BY <1>9 DEF Signals!PendingType
  <2> HIDE DEF geo
  <2> QED
    BY <1>4, <2>1, <2>2, <2>3
<1> HIDE DEF geo
<1>10. /\ type \in {"MARKET", "PENDING"} \cup Signals!PendingTypes
       /\ type = "PENDING" => Signals!Given(entry)
  BY <1>7, <1>8 DEF Signals!PendingTypes
<1>11. ASSUME Signals!Given(price), type \in {"BUY_STOP", "SELL_LIMIT", "SELL_STOP", "BUY_LIMIT"}, Signals!Given(entry)
       PROVE  type = geo
  BY <1>7, <1>9, <1>11
<1>12. type \in {"BUY_STOP", "SELL_LIMIT", "SELL_STOP", "BUY_LIMIT"} => sig.entry = entry
  BY <1>3
<1> QED
  BY <1>3, <1>4, <1>9, <1>10, <1>11, <1>12 DEF Signals!OneOfThree, Signals!PendingTypes, sig

\* A draft that is not implausible loses no more than it says.
LEMMA DraftFits ==
    ASSUME NEW s, Signals!WellPut(s), s.kind = "signal", NEW sig, sig = Signals!Drafted(s), sig.dir # "NONE",
           ~Signals!Implausible(sig, Signals!Or(sig.price, s.later))
    PROVE  Signals!LevelsFit(s, sig)
<1> DEFINE plan == Signals!PlanFromTrace(s.trace)  entry == Signals!Entry(s)  type == Signals!OrderType(s)
           near == Signals!Or(sig.price, s.later)  at == Signals!Or(sig.entry, near)
           ahead(a, b) == IF sig.dir = "BUY" THEN a < b ELSE a > b
<1>1. /\ s.out.entry \in Nat \cup {-1} /\ s.out.sl \in Nat \cup {-1} /\ s.out.tp \in Nat \cup {-1}
      /\ s.live \in Nat \cup {-1} /\ s.later \in Nat \cup {-1}
  BY DEF Signals!WellPut, Signals!Opt, Signals!Priced, Signals!None
<1>2. /\ plan.entry \in Nat \cup {-1} /\ plan.sl \in Nat \cup {-1} /\ plan.tp \in Nat \cup {-1}
      /\ plan.sl # -1 \/ plan.tp # -1 => plan.entry # -1
      /\ Signals!MarketPrice(s.trace) \in Nat \cup {-1}
  BY GatheredIs
<1>3. /\ sig.price = Signals!Price(s)
      /\ sig.entry = IF type = "MARKET" THEN Signals!Or(plan.entry, entry) ELSE entry
      /\ sig.sl = Signals!Or(IF Signals!Coherent(s) THEN plan.sl ELSE -1, s.out.sl)
      /\ sig.tp = Signals!Or(IF Signals!Coherent(s) THEN plan.tp ELSE -1, s.out.tp)
      /\ type # "NONE" => Signals!Pending(s) \/ type = "MARKET"
  BY DEF Signals!Drafted, Signals!None, Signals!OrderType
<1>4. type # "NONE" /\ (~Signals!Pending(s) => type = "MARKET")
  <2>1. Signals!OneOfThree(s, sig) /\ sig.type = type
    BY DraftIsOne DEF Signals!Drafted
  <2> QED
    BY <1>3, <2>1 DEF Signals!OneOfThree
<1>5. Signals!Price(s) \in Nat \cup {-1}
  BY <1>1, <1>2 DEF Signals!Price, Signals!Or
<1>6. entry \in Nat \cup {-1}
  BY <1>1, <1>2 DEF Signals!Entry, Signals!Or
<1> HIDE DEF plan, entry, type
<1>7. sig.entry \in Nat \cup {-1} /\ sig.sl \in Nat \cup {-1} /\ sig.tp \in Nat \cup {-1} /\ near \in Nat \cup {-1}
  BY <1>1, <1>2, <1>3, <1>5, <1>6 DEF Signals!Or
<1>8. ASSUME Signals!Given(near)
      PROVE  (Signals!Given(sig.sl) => ahead(sig.sl, at)) /\ (Signals!Given(sig.tp) => ahead(at, sig.tp))
  <2>1. ~Signals!WrongSide(sig, at)
    BY <1>8 DEF Signals!Implausible
  <2>2. at \in Nat
    BY <1>7, <1>8 DEF Signals!Or, Signals!Given, Signals!None
  <2> HIDE DEF at, near
  <2> QED
    BY <1>7, <2>1, <2>2 DEF Signals!WrongSide, Signals!Given, Signals!None
<1>9. ASSUME Signals!Given(sig.sl), sig.sl # s.out.sl
      PROVE  500 * Signals!Apart(plan.entry, sig.entry) <= sig.entry
  <2>1. Signals!Coherent(s) /\ plan.sl # -1
    BY <1>3, <1>9 DEF Signals!Or, Signals!Given, Signals!None
  <2>2. plan.entry \in Nat
    BY <1>2, <2>1
  <2>3. CASE type = "MARKET"
    <3>1. sig.entry = plan.entry
      BY <1>3, <2>2, <2>3 DEF Signals!Or, Signals!Given, Signals!None
    <3> QED
      BY <2>2, <3>1 DEF Signals!Apart
  <2>4. CASE type # "MARKET"
    <3>1. Signals!Pending(s) /\ sig.entry = entry
      BY <1>3, <1>4, <2>4
    <3>2. Signals!SameTrade(plan.entry, entry)
      BY <2>1, <3>1 DEF Signals!Coherent, plan, entry
    <3> QED
      BY <3>1, <3>2 DEF Signals!SameTrade
  <2> QED
    BY <2>3, <2>4
<1> QED
  BY <1>8, <1>9 DEF Signals!LevelsFit, plan

LEMMA SignalsHold == Signals!WellPut(v1) => Signals!SignalsFit
<1> SUFFICES ASSUME Signals!WellPut(v1), v1.kind = "signal"
             PROVE  \A sig \in {Signals!Signal(v1)} : Signals!OneOfThree(v1, sig) /\ Signals!LevelsFit(v1, sig)
  BY DEF Signals!SignalsFit
<1> DEFINE draft == Signals!Drafted(v1)  sig == Signals!Signal(v1)
           void == draft.dir # "NONE" /\ Signals!Implausible(draft, Signals!Or(draft.price, v1.later))
<1>1. CASE ~void /\ draft.dir # "NONE"
  <2>1. sig = draft
    BY <1>1 DEF Signals!Signal
  <2>2. Signals!OneOfThree(v1, draft)
    BY <1>1, DraftIsOne
  <2>3. Signals!LevelsFit(v1, draft)
    <3>1. draft = Signals!Drafted(v1) /\ draft.dir # "NONE" /\ ~Signals!Implausible(draft, Signals!Or(draft.price, v1.later))
      BY <1>1
    <3> HIDE DEF draft
    <3> QED
      BY <3>1, DraftFits
  <2> HIDE DEF draft, sig
  <2> QED
    BY <2>1, <2>2, <2>3 DEF sig
<1>2. CASE void \/ draft.dir = "NONE"
  <2>1. sig = [draft EXCEPT !.dir = "NONE", !.type = "NONE", !.entry = Signals!None, !.sl = Signals!None, !.tp = Signals!None,
                            !.quality = IF void THEN 0 ELSE Signals!Or(@, 0)]
    <3> HIDE DEF draft
    <3> QED
      BY <1>2 DEF Signals!Signal, draft
  <2>2. sig.dir = "NONE" /\ sig.type = "NONE" /\ sig.entry = -1 /\ sig.sl = -1 /\ sig.tp = -1
    BY <2>1 DEF Signals!Drafted, Signals!None
  <2> HIDE DEF sig
  <2>3. Signals!OneOfThree(v1, sig)
    BY <2>2 DEF Signals!OneOfThree, Signals!Given, Signals!None
  <2>4. Signals!LevelsFit(v1, sig)
    BY <2>2 DEF Signals!LevelsFit
  <2> QED
    BY <2>3, <2>4 DEF sig
<1> QED
  BY <1>1, <1>2

-----------------------------------------------------------------------------
(* The theorems. *)

\* Nobody becomes a user but by a code sent to the address and the door that is open, and
\* by the last code unless it was sent under a verification or a completion, for every
\* number of addresses, requests, codes, keys and edits (main.py:393-434, 792-908).
THEOREM SignUpsLetIn == PartsSpec => []EveryoneWasLetIn
<1> DEFINE Holds == machine = "signups" => SignUps!IInv
<1>1. PartsInit => Holds
  BY SignupInitially DEF PartsInit
<1>2. Holds /\ [PartsNext]_vars => Holds'
  <2> SUFFICES ASSUME Holds, [PartsNext]_vars, machine' = "signups" PROVE SignUps!IInv'
    OBVIOUS
  <2>1. machine = "signups" /\ SignUps!IInv
    BY MachineStays
  <2>2. SignUps!Next \/ UNCHANGED SignUps!svars
    BY <2>1 DEF PartsNext, vars, SignUps!svars
  <2> QED
    BY <2>1, <2>2, SignupInductive
<1>3. Holds => EveryoneWasLetIn
  BY DEF EveryoneWasLetIn, SignUps!IInv
<1> QED
  BY <1>1, <1>2, <1>3, PTL DEF PartsSpec

\* A finished analysis is its owner's to collect for as long as it is kept, and whoever
\* pays a share had the answer of a run of their own, for every number of users and jobs,
\* whatever starts, sweeps, waits and restarts overlap (analysis_api.py:180-352).
THEOREM AnalysesAreAnswered == PartsSpec => []OwnerIsAnswered
<1> DEFINE Holds == machine = "analyses" => Analyses!IInv
<1>1. PartsInit => Holds
  BY JobInitially DEF PartsInit
<1>2. Holds /\ [PartsNext]_vars => Holds'
  <2> SUFFICES ASSUME Holds, [PartsNext]_vars, machine' = "analyses" PROVE Analyses!IInv'
    OBVIOUS
  <2>1. machine = "analyses" /\ Analyses!IInv
    BY MachineStays
  <2>2. Analyses!Next \/ UNCHANGED Analyses!jvars
    BY <2>1 DEF PartsNext, vars, Analyses!jvars
  <2> QED
    BY <2>1, <2>2, JobInductive
<1>3. Holds => OwnerIsAnswered
  <2> SUFFICES ASSUME Analyses!IInv PROVE Analyses!CollectedByItsOwner
    BY DEF OwnerIsAnswered, Analyses!OwnerIsAnswered, Analyses!IInv
  <2> SUFFICES ASSUME NEW j \in Things
      PROVE  /\ v9[j] = "poll" /\ Analyses!AtWork(j) /\ ~Analyses!TooLong(j) =>
                    Analyses!Result(v8[j], j) = "running"
             /\ v9[j] = "poll" /\ v3[j] = "ended" /\ ~Analyses!TooLong(j) /\ v1 <= v12[j] + JobTTL =>
                    Analyses!Result(v8[j], j) = v4[j]
             /\ \A u \in Actors \ {v8[j]} : Analyses!Result(u, j) = "not found"
    BY DEF Analyses!CollectedByItsOwner
  <2> QED
    <3>1. v2[j].user \in {v8[j], Analyses!Nobody}
          /\ (v9[j] = "poll" /\ Analyses!AtWork(j) /\ ~Analyses!TooLong(j) =>
                 v2[j] = [status |-> "running", user |-> v8[j], at |-> v10[j]])
          /\ (v9[j] = "poll" /\ v3[j] = "ended" /\ ~Analyses!TooLong(j) /\ v1 <= v12[j] + JobTTL =>
                 v2[j] = [status |-> v4[j], user |-> v8[j], at |-> v12[j]])
      BY DEF Analyses!IInv, Analyses!RecordsAreTheirs
    <3>2. \A u \in Actors \ {v8[j]} : Analyses!Result(u, j) = "not found"
      BY <3>1, NobodyIsNone DEF Analyses!Result
    <3>3. ASSUME NEW s, NEW t, v2[j] = [status |-> s, user |-> v8[j], at |-> t]
          PROVE  Analyses!Result(v8[j], j) = s
      BY <3>3 DEF Analyses!Result
    <3> QED
      BY <3>1, <3>2, <3>3
<1> QED
  BY <1>1, <1>2, <1>3, PTL DEF PartsSpec

\* An alert no newer than the browser's watermark has been given to it, and one the user
\* never saw or dismissed stays unread, but for those a full answer left out or a late
\* commit hid, for every number of happenings and passes and every size of an answer
\* (market_alerts.py:64-83, 200-350).
THEOREM AlertsAreNotMissed == PartsSpec => []NothingIsMissed
<1> DEFINE Holds == machine = "alerts" => Alerts!IInv
<1>1. PartsInit => Holds
  BY AlertInitially DEF PartsInit
<1>2. Holds /\ [PartsNext]_vars => Holds'
  <2> SUFFICES ASSUME Holds, [PartsNext]_vars, machine' = "alerts" PROVE Alerts!IInv'
    OBVIOUS
  <2>1. machine = "alerts" /\ Alerts!IInv
    BY MachineStays
  <2>2. Alerts!Next \/ UNCHANGED Alerts!avars
    BY <2>1 DEF PartsNext, vars, Alerts!avars
  <2> QED
    BY <2>1, <2>2, AlertInductive
<1>3. Holds => NothingIsMissed
  BY DEF NothingIsMissed, Alerts!IInv
<1> QED
  BY <1>1, <1>2, <1>3, PTL DEF PartsSpec

\* "Running" is said of a profit monitor exactly while its thread is alive, and a live
\* page has its one poller, for every number of threads, requests and pages, whatever
\* starts, stops, polls and departures overlap (trading_api.py:769-828,
\* broker_base.py:845-930 and 1000-1060, main.py:2664-2790).
THEOREM MonitorsAreSeen == PartsSpec => []MonitorIsSeen
<1> DEFINE Holds == (machine = "monitor" => Monitor!IInv) /\ (machine = "streams" => Streams!IInv)
<1>1. PartsInit => Holds
  BY MonitorInitially, StreamInitially DEF PartsInit
<1>2. Holds /\ [PartsNext]_vars => Holds'
  <2> SUFFICES ASSUME Holds, [PartsNext]_vars PROVE Holds'
    OBVIOUS
  <2>1. machine' = machine
    BY MachineStays
  <2>2. machine = "monitor" => Monitor!Next \/ UNCHANGED Monitor!monVars
    BY DEF PartsNext, vars, Monitor!monVars
  <2>3. machine = "streams" => Streams!Next \/ UNCHANGED Streams!streamVars
    BY DEF PartsNext, vars, Streams!streamVars
  <2> QED
    BY <2>1, <2>2, <2>3, MonitorInductive, StreamInductive
<1>3. Holds => MonitorIsSeen
  BY DEF MonitorIsSeen, Monitor!IInv, Streams!IInv
<1> QED
  BY <1>1, <1>2, <1>3, PTL DEF PartsSpec

\* What a pass over orders or positions reported as closed (all or in part), cancelled,
\* resting, moved or aimed is what became of them, and a stop it reported as deleted is
\* still there, but for positions that two passes held at once, for every number of
\* positions, requests and volumes, any prices and any margin (broker_base.py:758-825 and
\* 932-998, trading_api.py:568-584, modules/tradelocker/backend/tradelocker/trader.py:577-600).
THEOREM ReportsHold == PartsSpec => []ReportsAreTrue
<1> DEFINE Holds == machine = "orders" => Orders!IInv
<1>1. PartsInit => Holds
  BY OrderInitially DEF PartsInit
<1>2. Holds /\ [PartsNext]_vars => Holds'
  <2> SUFFICES ASSUME Holds, [PartsNext]_vars, machine' = "orders" PROVE Orders!IInv'
    OBVIOUS
  <2>1. machine = "orders" /\ Orders!IInv
    BY MachineStays
  <2>2. Orders!Next \/ UNCHANGED Orders!bookVars
    BY <2>1 DEF PartsNext, vars, Orders!bookVars
  <2> QED
    BY <2>1, <2>2, OrderInductive
<1>3. Holds => ReportsAreTrue
  BY DEF ReportsAreTrue, Orders!IInv
<1> QED
  BY <1>1, <1>2, <1>3, PTL DEF PartsSpec

\* The active account is of the broker in use and, unless its move is still to be written,
\* one the user made available, and so is the account of a request bound since, but where a
\* handler was overtaken; and the market is read through any account that serves it, for
\* every number of brokers, accounts, handlers and readers and any order of preference
\* (brokers.py:137-250, user_session.py:31-57, market.py:94-230).
THEOREM AccountsStayInReach == PartsSpec => []ActiveInReach
<1> DEFINE Holds == (machine = "desk" => Desk!IInv) /\ (machine = "reads" => Prices!IInv)
<1>1. PartsInit => Holds
  BY DeskInitially, ReadInitially DEF PartsInit
<1>2. Holds /\ [PartsNext]_vars => Holds'
  <2> SUFFICES ASSUME Holds, [PartsNext]_vars PROVE Holds'
    OBVIOUS
  <2>1. machine' = machine
    BY MachineStays
  <2>2. machine = "desk" => Desk!Next \/ UNCHANGED Desk!deskVars
    BY DEF PartsNext, vars, Desk!deskVars
  <2>3. machine = "reads" => Prices!Next \/ UNCHANGED Prices!readVars
    BY DEF PartsNext, vars, Prices!readVars
  <2> QED
    BY <2>1, <2>2, <2>3, DeskInductive, ReadInductive
<1>3. Holds => ActiveInReach
  BY DEF ActiveInReach, Desk!IInv, Prices!IInv
<1> QED
  BY <1>1, <1>2, <1>3, PTL DEF PartsSpec

\* A turn nobody left pays for all it burned unless a part was never metered or the charge
\* raised, the balance is short of exactly what the turns paid, and a note somebody was told
\* is stored is there or gave way, for every number of turns, rounds, tools and notes, however
\* they overlap (main.py:1447-1508, agent.py:152-247 and 1000-1011).
THEOREM TurnsStaySettled == PartsSpec => []TurnsAreSettled
<1> DEFINE Holds == machine = "chat" => Chat!IInv
<1>1. PartsInit => Holds
  BY ChatInitially DEF PartsInit
<1>2. Holds /\ [PartsNext]_vars => Holds'
  <2> SUFFICES ASSUME Holds, [PartsNext]_vars, machine' = "chat" PROVE Chat!IInv'
    OBVIOUS
  <2>1. machine = "chat" /\ Chat!IInv
    BY MachineStays
  <2>2. Chat!Next \/ UNCHANGED Chat!chatVars
    BY <2>1 DEF PartsNext, vars, Chat!chatVars
  <2> QED
    BY <2>1, <2>2, ChatInductive
<1>3. Holds => TurnsAreSettled
  BY DEF TurnsAreSettled, Chat!IInv
<1> QED
  BY <1>1, <1>2, <1>3, PTL DEF PartsSpec

\* A run is priced as the key it ran on, what is offered can run, and what was picked stays
\* picked, for every number of providers, models, connections and picks, whatever keys and
\* tiers are edited while runs and listings are under way (ai_keys.py:166-426,
\* connections.py:276-417, billing.py:320-338).
THEOREM KeysStayTrue == PartsSpec => []KeysAreTrue
<1> DEFINE Holds == machine = "keys" => Keys!IInv
<1>1. PartsInit => Holds
  BY KeysInitially DEF PartsInit
<1>2. Holds /\ [PartsNext]_vars => Holds'
  <2> SUFFICES ASSUME Holds, [PartsNext]_vars, machine' = "keys" PROVE Keys!IInv'
    OBVIOUS
  <2>1. machine = "keys" /\ Keys!IInv
    BY MachineStays
  <2>2. Keys!Next \/ UNCHANGED Keys!keyVars
    BY <2>1 DEF PartsNext, vars, Keys!keyVars
  <2> QED
    BY <2>1, <2>2, KeysInductive
<1>3. Holds => KeysAreTrue
  BY DEF KeysAreTrue, Keys!IInv
<1> QED
  BY <1>1, <1>2, <1>3, PTL DEF PartsSpec

\* Every question of a trade or a signal that is well put has an answer that is safe: a
\* size, a level, a converted sum and a signal for every price, volume, risk, basket, trace
\* and reading, and the two readings of the rules for every profile and override
\* (broker_base.py:91-492, 780-810 and 932-960, trading_api.py:320-395, risk_gate.py:28-101,
\* analysis_agent.py:1475-1752).
THEOREM TradesStaySafe == PartsSpec => []TradesAreSafe
<1> DEFINE Put == machine = "sums" => v1 \in TradeSums \cup SignalSums
<1>1. PartsInit => Put
  BY DEF PartsInit
<1>2. Put /\ [PartsNext]_vars => Put'
  <2> SUFFICES ASSUME Put, [PartsNext]_vars, machine' = "sums" PROVE v1' \in TradeSums \cup SignalSums
    OBVIOUS
  <2>1. machine = "sums" /\ v1' = v1
    BY MachineStays DEF PartsNext, vars
  <2> QED
    BY <2>1
<1>3. Put => TradesAreSafe
  <2> SUFFICES ASSUME Put, machine = "sums"
               PROVE  Trade!SizesAreSafe /\ Trade!RulesAgree /\ Signals!SignalsFit
    BY DEF TradesAreSafe
  <2>1. CASE v1 \in TradeSums
    <3>1. Trade!WellPut(v1)
      BY <2>1, SumAssumption
    <3>2. v1.kind # "signal"
      BY <3>1 DEF Trade!WellPut
    <3>3. Trade!SizesAreSafe /\ Trade!RulesAgree
      BY <3>1, LevelsHold, PlansHold, MovesHold, CalculatorsHold, MoneyHolds, RulesHold DEF Trade!SizesAreSafe
    <3> QED
      BY <3>2, <3>3 DEF Signals!SignalsFit
  <2>2. CASE v1 \in SignalSums
    <3>1. Signals!WellPut(v1)
      BY <2>2, SumAssumption
    <3>2. v1.kind = "signal"
      BY <3>1 DEF Signals!WellPut
    <3>3. Trade!SizesAreSafe /\ Trade!RulesAgree
      BY <3>2 DEF Trade!SizesAreSafe, Trade!RulesAgree, Trade!LevelsOnTheirSide, Trade!PlansAgree,
                  Trade!MovedStopsLock, Trade!CalculatorsAgree, Trade!MoneyIsConverted, Trade!Is
    <3> QED
      BY <3>1, <3>3, SignalsHold
  <2> QED
    BY <2>1, <2>2
<1> QED
  BY <1>1, <1>2, <1>3, PTL DEF PartsSpec

------------------------------------------------------------------------------
(* The runs of the analysis flows. *)

\* Counting the numbers of a set up to each of them numbers them.
LEMMA RanksNumber ==
    ASSUME NEW S \in SUBSET Nat, IsFiniteSet(S)
    PROVE  LET Rank(i) == Cardinality({j \in S : j <= i})
           IN  /\ \A i \in S : Rank(i) \in 1..Cardinality(S)
               /\ \A i, k \in S : Rank(i) = Rank(k) => i = k
               /\ \A n \in 1..Cardinality(S) : \E i \in S : Rank(i) = n
<1> DEFINE UpTo(i) == {j \in S : j <= i}
           rank == [i \in S |-> Cardinality(UpTo(i))]
<1>1. ASSUME NEW i \in S
      PROVE  UpTo(i) \subseteq S /\ i \in UpTo(i) /\ IsFiniteSet(UpTo(i)) /\ Cardinality(UpTo(i)) \in 1..Cardinality(S)
  <2>1. UpTo(i) \in SUBSET S /\ i \in UpTo(i)
    OBVIOUS
  <2>2. IsFiniteSet(UpTo(i)) /\ Cardinality(UpTo(i)) <= Cardinality(S)
    BY <2>1, FS_Subset
  <2>3. Cardinality(UpTo(i)) \in Nat /\ Cardinality(UpTo(i)) # 0 /\ Cardinality(S) \in Nat
    BY <2>1, <2>2, FS_CardinalityType, FS_EmptySet
  <2> HIDE DEF UpTo
  <2> QED
    BY <2>1, <2>2, <2>3
<1>2. ASSUME NEW i \in S, NEW k \in S, i < k PROVE Cardinality(UpTo(i)) # Cardinality(UpTo(k))
  <2> i \in Nat /\ k \in Nat /\ \A j \in S : j \in Nat
    OBVIOUS
  <2>1. UpTo(i) \in SUBSET UpTo(k) /\ k \notin UpTo(i) /\ k \in UpTo(k)
    <3>1. \A j \in UpTo(i) : j \in UpTo(k)
      BY <1>2
    <3>2. k \notin UpTo(i) /\ k \in UpTo(k)
      BY <1>2
    <3> QED
      BY <3>1, <3>2
  <2>2. IsFiniteSet(UpTo(k))
    BY <1>1
  <2> HIDE DEF UpTo
  <2>3. Cardinality(UpTo(k)) = Cardinality(UpTo(i)) => UpTo(k) = UpTo(i)
    BY <2>1, <2>2, FS_Subset
  <2> QED
    BY <2>1, <2>3
<1>3. \A i, k \in S : Cardinality(UpTo(i)) = Cardinality(UpTo(k)) => i = k
  <2> SUFFICES ASSUME NEW i \in S, NEW k \in S, Cardinality(UpTo(i)) = Cardinality(UpTo(k)) PROVE i = k
    OBVIOUS
  <2>1. ~(i < k) /\ ~(k < i)
    BY <1>2
  <2> QED
    BY <2>1
<1> HIDE DEF UpTo
<1>4. rank \in Injection(S, 1..Cardinality(S))
  BY <1>1, <1>3 DEF Injection, IsInjective
<1>5. rank \in Surjection(S, 1..Cardinality(S))
  <2>1. Cardinality(S) \in Nat
    BY FS_CardinalityType
  <2>2. IsFiniteSet(1..Cardinality(S)) /\ Cardinality(1..Cardinality(S)) = Cardinality(S)
    BY <2>1, FS_Interval
  <2> HIDE DEF rank
  <2> QED
    BY <1>4, <2>2, FS_Injection
<1>6. \A n \in 1..Cardinality(S) : \E i \in S : Cardinality(UpTo(i)) = n
  BY <1>5 DEF Surjection
<1> QED
  BY <1>1, <1>3, <1>6 DEF UpTo

\* The model counts as the library does.
LEMMA FlowCardinality == \A S : Flows!Cardinality(S) = Cardinality(S)
  BY DEF Flows!Cardinality, Cardinality

\* Of a sequence.
LEMMA ElementsAre ==
    ASSUME NEW R, NEW s \in Seq(R)
    PROVE  DOMAIN s = 1..Len(s) /\ Len(s) \in Nat /\ \A i \in DOMAIN s : s[i] \in R
  OBVIOUS

\* Sequences stay sequences.
LEMMA SequencesGrow ==
    ASSUME NEW R
    PROVE  /\ << >> \in Seq(R)
           /\ \A s \in Seq(R), x \in R : Append(s, x) \in Seq(R)
           /\ \A s, t \in Seq(R) : s \o t \in Seq(R)
  OBVIOUS

\* The edges followed are queued one by one, and nothing else is.
LEMMA TargetsAre ==
    ASSUME NEW w, w.edges \in Seq([from : STRING, handle : STRING, to : STRING]),
           NEW outs \in SUBSET DOMAIN w.edges
    PROVE  LET queued == Flows!Targets(w, outs)
           IN  /\ queued \in Seq(STRING)
               /\ \A k \in DOMAIN queued : \E i \in outs : queued[k] = w.edges[i].to
               /\ \A i \in outs : \E k \in DOMAIN queued : queued[k] = w.edges[i].to
<1> DEFINE Rank(i) == Cardinality({j \in outs : j <= i})
           Nth(k) == CHOOSE i \in outs : Rank(i) = k
           n == Cardinality(outs)
<1>1. outs \in SUBSET Nat /\ IsFiniteSet(outs) /\ n \in Nat
  <2>1. DOMAIN w.edges = 1..Len(w.edges) /\ Len(w.edges) \in Nat
    OBVIOUS
  <2>2. IsFiniteSet(1..Len(w.edges))
    BY <2>1, FS_Interval
  <2> QED
    BY <2>1, <2>2, FS_Subset, FS_CardinalityType
<1>2. /\ \A i \in outs : Rank(i) \in 1..n
      /\ \A i, k \in outs : Rank(i) = Rank(k) => i = k
      /\ \A k \in 1..n : \E i \in outs : Rank(i) = k
  BY <1>1, RanksNumber
<1>5. Flows!Targets(w, outs) = [k \in 1..n |-> w.edges[Nth(k)].to]
  BY Zenon DEF Flows!Targets, Flows!Cardinality, Cardinality
<1> HIDE DEF Rank
<1>3. \A k \in 1..n : Nth(k) \in outs /\ Rank(Nth(k)) = k
  BY <1>2
<1> HIDE DEF Nth
<1>4. ASSUME NEW i \in outs PROVE Nth(Rank(i)) = i
  <2> DEFINE k == Rank(i)
  <2>1. k \in 1..n
    BY <1>2
  <2> HIDE DEF k
  <2>2. Nth(k) \in outs /\ Rank(Nth(k)) = k
    BY <1>3, <2>1
  <2>3. Rank(Nth(k)) = Rank(i)
    BY <2>2 DEF k
  <2>4. Nth(k) = i
    BY <1>2, <2>2, <2>3
  <2> QED
    BY <2>4 DEF k
<1>6. \A i \in outs : w.edges[i] \in [from : STRING, handle : STRING, to : STRING]
  BY ElementsAre
<1> HIDE DEF n
<1>7. Flows!Targets(w, outs) \in Seq(STRING) /\ DOMAIN Flows!Targets(w, outs) = 1..n
  BY <1>1, <1>3, <1>5, <1>6
<1> QED
  BY SMTT(40), <1>2, <1>3, <1>4, <1>5, <1>7

\* Where the drawing leads is where the edges followed lead.
LEMMA OutsLead ==
    ASSUME NEW w, NEW n, NEW branch \in {"none", "true", "false"}
    PROVE  /\ Flows!Outs(w, n, branch) \subseteq DOMAIN w.edges
           /\ \A m : Flows!LeadsTo(w, n, branch, m) <=> \E i \in Flows!Outs(w, n, branch) : w.edges[i].to = m
<1>1. Flows!Outs(w, n, branch) \subseteq DOMAIN w.edges
  BY DEF Flows!Outs
<1>2. CASE Flows!Kind(w, n) # "if"
  BY <1>1, <1>2 DEF Flows!Outs, Flows!LeadsTo
<1>3. CASE Flows!Kind(w, n) = "if"
  BY <1>1, <1>3 DEF Flows!Outs, Flows!LeadsTo
<1> QED
  BY <1>1, <1>2, <1>3

\* A step more: what the steps before it are stays.
LEMMA TraceGrows ==
    ASSUME NEW r, NEW q, NEW s \in Flows!FlowStep, r.trace \in Seq(Flows!FlowStep), q.trace = Append(r.trace, s)
    PROVE  LET n == Len(r.trace) + 1
           IN  /\ n \in Nat \ {0} /\ Len(q.trace) = n /\ DOMAIN q.trace = 1..n /\ q.trace[n] = s
               /\ DOMAIN r.trace = 1..(n - 1) /\ \A i \in 1..(n - 1) : q.trace[i] = r.trace[i]
               /\ q.trace \in Seq(Flows!FlowStep)
<1> DEFINE a == r.trace
           b == q.trace
<1> HIDE DEF a, b
<1>1. a \in Seq(Flows!FlowStep) /\ b = Append(a, s)
  BY DEF a, b
<1>2. Len(a) \in Nat /\ DOMAIN a = 1..Len(a)
  BY <1>1
<1>3. Len(b) = Len(a) + 1 /\ b \in Seq(Flows!FlowStep) /\ b[Len(a) + 1] = s /\ \A i \in 1..Len(a) : b[i] = a[i]
  BY <1>1, <1>2
<1>4. DOMAIN b = 1..Len(b)
  BY <1>3
<1> QED
  BY <1>1, <1>2, <1>3, <1>4 DEF a, b

\* What is counted of a run is finite.
LEMMA WalkedIs ==
    ASSUME NEW r, r.trace \in Seq(Flows!FlowStep)
    PROVE  /\ Flows!Walked(r) \in SUBSET (1..Len(r.trace)) /\ IsFiniteSet(Flows!Walked(r))
           /\ Cardinality(Flows!Walked(r)) \in Nat /\ Len(r.trace) \in Nat
           /\ \A n : /\ Flows!Visits(r, n) \subseteq Flows!Walked(r)
                     /\ IsFiniteSet(Flows!Visits(r, n)) /\ Cardinality(Flows!Visits(r, n)) \in Nat
           /\ \A i \in Nat : IsFiniteSet(Flows!Own(r, i)) /\ Cardinality(Flows!Own(r, i)) \in Nat
<1>1. DOMAIN r.trace = 1..Len(r.trace) /\ Len(r.trace) \in Nat
  BY ElementsAre
<1>2. Flows!Walked(r) \in SUBSET (1..Len(r.trace)) /\ IsFiniteSet(1..Len(r.trace))
  BY <1>1, FS_Interval DEF Flows!Walked
<1>3. IsFiniteSet(Flows!Walked(r)) /\ Cardinality(Flows!Walked(r)) \in Nat
  BY <1>2, FS_Subset, FS_CardinalityType
<1>4. ASSUME NEW n
      PROVE  /\ Flows!Visits(r, n) \subseteq Flows!Walked(r)
             /\ IsFiniteSet(Flows!Visits(r, n)) /\ Cardinality(Flows!Visits(r, n)) \in Nat
  <2>1. Flows!Visits(r, n) \in SUBSET Flows!Walked(r)
    BY DEF Flows!Visits
  <2> QED
    BY <1>3, <2>1, FS_Subset, FS_CardinalityType
<1>5. ASSUME NEW i \in Nat
      PROVE  IsFiniteSet(Flows!Own(r, i)) /\ Cardinality(Flows!Own(r, i)) \in Nat
  <2>1. Flows!Own(r, i) \in SUBSET (1..(i - 1)) /\ IsFiniteSet(1..(i - 1))
    BY FS_Interval DEF Flows!Own, Flows!Tentacles
  <2> QED
    BY <2>1, FS_Subset, FS_CardinalityType
<1> QED
  BY <1>1, <1>2, <1>3, <1>4, <1>5

\* A walked step more, and a tentacle's.
StepAdds(r, q, s, n) ==
    /\ n \notin Flows!Walked(r)
    /\ Flows!Walked(q) = IF s.via = "edge" THEN Flows!Walked(r) \cup {n} ELSE Flows!Walked(r)
    /\ \A m : Flows!Visits(q, m) = IF s.via = "edge" /\ m = s.node THEN Flows!Visits(r, m) \cup {n} ELSE Flows!Visits(r, m)
    /\ \A i \in 1..n : Flows!Tentacles(q, i) = Flows!Tentacles(r, i) /\ Flows!Own(q, i) = Flows!Own(r, i)
    /\ n \notin Flows!Own(r, n)
    /\ Flows!Tentacles(q, n + 1) = IF s.via = "edge" THEN {} ELSE Flows!Tentacles(r, n) \cup {n}
    /\ Flows!Own(q, n + 1) = IF s.via = "edge" THEN {}
                              ELSE IF s.via = "octo" THEN Flows!Own(r, n) \cup {n} ELSE Flows!Own(r, n)

LEMMA StepCounts ==
    ASSUME NEW r, NEW q, NEW s \in Flows!FlowStep, r.trace \in Seq(Flows!FlowStep), q.trace = Append(r.trace, s)
    PROVE  StepAdds(r, q, s, Len(r.trace) + 1)
<1> DEFINE n == Len(r.trace) + 1
<1>1. /\ n \in Nat \ {0} /\ Len(q.trace) = n /\ DOMAIN q.trace = 1..n /\ q.trace[n] = s
      /\ DOMAIN r.trace = 1..(n - 1) /\ \A i \in 1..(n - 1) : q.trace[i] = r.trace[i]
  BY TraceGrows
<1> HIDE DEF n
<1>2. n \notin Flows!Walked(r) /\ Flows!Walked(r) \subseteq 1..(n - 1)
  BY <1>1 DEF Flows!Walked
<1>3. Flows!Walked(q) = IF s.via = "edge" THEN Flows!Walked(r) \cup {n} ELSE Flows!Walked(r)
  <2>1. \A i : i \in 1..n <=> i \in 1..(n - 1) \/ i = n
    BY <1>1
  <2> QED
    BY <1>1, <2>1 DEF Flows!Walked
<1>4. ASSUME NEW m
      PROVE  Flows!Visits(q, m) = IF s.via = "edge" /\ m = s.node THEN Flows!Visits(r, m) \cup {n}
                                  ELSE Flows!Visits(r, m)
  BY <1>1, <1>2, <1>3 DEF Flows!Visits
<1>5. ASSUME NEW i \in 1..n PROVE Flows!Tentacles(q, i) = Flows!Tentacles(r, i)
  <2>1. ASSUME NEW k \in 1..(i - 1), NEW l \in k..(i - 1) PROVE q.trace[l] = r.trace[l]
    BY <1>1
  <2> QED
    BY <2>1 DEF Flows!Tentacles
<1>6. n \notin Flows!Own(r, n) /\ \A i \in 1..n : \A k \in Flows!Tentacles(r, i) : k \in 1..(n - 1)
  BY <1>1 DEF Flows!Tentacles, Flows!Own
<1>9. \A i \in 1..n : Flows!Own(q, i) = Flows!Own(r, i)
  BY <1>1, <1>5, <1>6 DEF Flows!Own
<1>7. CASE s.via = "edge"
  <2>1. ASSUME NEW k \in 1..n PROVE ~(\A l \in k..n : q.trace[l].via # "edge")
    BY <1>1, <1>7
  <2>2. (n + 1) - 1 = n
    BY <1>1
  <2>3. Flows!Tentacles(q, n + 1) = {}
    BY <2>1, <2>2 DEF Flows!Tentacles
  <2>4. Flows!Own(q, n + 1) = {}
    BY <2>3 DEF Flows!Own
  <2> QED
    BY <1>2, <1>3, <1>4, <1>5, <1>6, <1>7, <1>9, <2>3, <2>4 DEF n, StepAdds
<1>8. CASE s.via # "edge"
  <2>2. ASSUME NEW k \in 1..(n - 1)
        PROVE  (\A l \in k..n : q.trace[l].via # "edge") <=> (\A l \in k..(n - 1) : r.trace[l].via # "edge")
    <3>1. \A l : l \in k..n <=> l \in k..(n - 1) \/ l = n
      BY <1>1
    <3>2. \A l \in k..(n - 1) : l \in 1..(n - 1)
      BY <1>1
    <3> QED
      BY <1>1, <1>8, <3>1, <3>2
  <2>3. \A l \in n..n : q.trace[l].via # "edge"
    BY <1>1, <1>8
  <2>4. (n + 1) - 1 = n /\ \A k : k \in 1..n <=> k \in 1..(n - 1) \/ k = n
    BY <1>1
  <2>5. Flows!Tentacles(q, n + 1) = Flows!Tentacles(r, n) \cup {n}
    BY <2>2, <2>3, <2>4 DEF Flows!Tentacles
  <2>6. n \in 1..n
    BY <1>1
  <2>7. Flows!Own(q, n + 1) = IF s.via = "octo" THEN Flows!Own(r, n) \cup {n} ELSE Flows!Own(r, n)
    BY <1>1, <1>6, <2>5, <2>6 DEF Flows!Own
  <2> QED
    BY <1>2, <1>3, <1>4, <1>5, <1>6, <1>8, <1>9, <2>5, <2>7 DEF n, StepAdds
<1> QED
  BY <1>7, <1>8

\* Every drawing has a node and ends its edges somewhere.
LEMMA DrawnWell == \A w \in Flows!Drawings : Flows!WellDrawn(w)
  BY FlowAssumption DEF Flows!Drawings

\* The fields of a run, and a run with fields of these kinds.
LEMMA FlowRunIs ==
    ASSUME NEW r \in Flows!FlowRun
    PROVE  /\ r.agent \in FlowAgents /\ r.wiring \in Flows!Drawings /\ Flows!WellDrawn(r.wiring)
           /\ r.queue \in Seq(STRING) /\ r.node \in Flows!Names /\ r.steps \in Nat
           /\ r.trace \in Seq(Flows!FlowStep) /\ r.response \in Flows!Names
           /\ r.bodies \in Seq(Flows!Body) /\ r.over \in BOOLEAN
  BY DrawnWell DEF Flows!FlowRun

\* The kinds of the fields, as opaque sets.
FieldsAre(V, O, Q, T) ==
    /\ V = UNION {[Flows!Nodes(w) -> 0..MaxVisits] : w \in Flows!Drawings}
    /\ O = Seq(Flows!Body) /\ Q = Seq(STRING) /\ T = Seq(Flows!FlowStep)
    /\ Flows!FlowRun = [agent : FlowAgents, wiring : Flows!Drawings, queue : Q, node : Flows!Names, steps : Nat,
                        visits : V, trace : T, response : Flows!Names, bodies : O, over : BOOLEAN]

LEMMA FlowRunIsRecord == \E V, O, Q, T : FieldsAre(V, O, Q, T)
  BY Zenon DEF Flows!FlowRun, FieldsAre

\* The bodies at work, the last of them on top.
LEMMA BodiesAre ==
    ASSUME NEW r \in Flows!FlowRun
    PROVE  /\ Len(r.bodies) \in Nat /\ DOMAIN r.bodies = 1..Len(r.bodies) /\ (r.bodies = << >> <=> Len(r.bodies) = 0)
           /\ \A b \in DOMAIN r.bodies : r.bodies[b] \in Flows!Body
           /\ r.bodies # << >> => /\ 1 \in DOMAIN r.bodies /\ Len(r.bodies) \in DOMAIN r.bodies
                                 /\ Flows!Top(r) = r.bodies[Len(r.bodies)]
<1>1. r.bodies \in Seq(Flows!Body)
  BY FlowRunIs
<1> QED
  BY <1>1 DEF Flows!Top

\* What a finished node changes of its run.
FinishedAs(r, branch, response, q) ==
    /\ q \in Flows!FlowRun /\ q.wiring = r.wiring /\ q.node = "none" /\ q.steps = r.steps /\ q.visits = r.visits
    /\ q.bodies = << >>
    /\ q.trace = Append(r.trace, [node |-> r.node, via |-> "edge", branch |-> branch])
    /\ q.response = (IF response # "none" THEN response ELSE r.response)
    /\ q.over = (Flows!Kind(r.wiring, r.node) = "respond" /\ response # "none")
    /\ q.queue = r.queue \o Flows!Targets(r.wiring, Flows!Outs(r.wiring, r.node, branch))

LEMMA FinishedIs ==
    ASSUME NEW r \in Flows!FlowRun, NEW branch \in {"none", "true", "false"}, NEW response \in Flows!Names
    PROVE  FinishedAs(r, branch, response, Flows!Finished(r, branch, response))
<1> DEFINE s == [node |-> r.node, via |-> "edge", branch |-> branch]
           trace == Append(r.trace, s)
           queue == r.queue \o Flows!Targets(r.wiring, Flows!Outs(r.wiring, r.node, branch))
           answer == IF response # "none" THEN response ELSE r.response
           over == Flows!Kind(r.wiring, r.node) = "respond" /\ response # "none"
<1>1. queue \in Seq(STRING)
  <2>1. Flows!Targets(r.wiring, Flows!Outs(r.wiring, r.node, branch)) \in Seq(STRING)
    BY FlowRunIs, OutsLead, TargetsAre DEF Flows!WellDrawn
  <2> QED
    BY <2>1, FlowRunIs, SequencesGrow
<1>2. trace \in Seq(Flows!FlowStep) /\ answer \in Flows!Names /\ over \in BOOLEAN
  <2>1. s \in Flows!FlowStep
    BY FlowRunIs DEF Flows!FlowStep
  <2>2. trace \in Seq(Flows!FlowStep)
    BY <2>1, FlowRunIs, SequencesGrow
  <2> QED
    BY <2>2, FlowRunIs
<1>3. << >> \in Seq(Flows!Body)
  BY SequencesGrow
<1>4. Flows!Finished(r, branch, response) =
        [r EXCEPT !.node = "none", !.bodies = << >>, !.trace = trace, !.response = answer, !.over = over,
                  !.queue = queue]
  BY DEF Flows!Finished, Flows!Step
<1> DEFINE q == Flows!Finished(r, branch, response)
<1> HIDE DEF trace, queue, answer, over, q
<1>5. /\ q \in Flows!FlowRun /\ q.wiring = r.wiring /\ q.node = "none" /\ q.steps = r.steps /\ q.visits = r.visits
      /\ q.bodies = << >> /\ q.trace = trace /\ q.response = answer /\ q.over = over /\ q.queue = queue
  <2>1. "none" \in Flows!Names
    BY DEF Flows!Names
  <2>2. PICK V, O, Q, T : FieldsAre(V, O, Q, T)
    BY FlowRunIsRecord
  <2>3. queue \in Q /\ trace \in T /\ << >> \in O
    BY <1>1, <1>2, <1>3, <2>2 DEF FieldsAre
  <2> QED
    BY ZenonT(60), <1>2, <1>4, <2>1, <2>2, <2>3 DEF q, FieldsAre
<1> QED
  BY <1>5 DEF trace, queue, answer, over, q, FinishedAs

\* Where a walk may go next grows with each step walked.
LEMMA ReachGrows ==
    ASSUME NEW r, NEW q, NEW s \in Flows!FlowStep, r.trace \in Seq(Flows!FlowStep), q.trace = Append(r.trace, s),
           q.wiring = r.wiring, NEW m
    PROVE  Flows!Reached(q, m) <=>
               Flows!Reached(r, m) \/ (s.via = "edge" /\ Flows!LeadsTo(r.wiring, s.node, s.branch, m))
<1> DEFINE n == Len(r.trace) + 1
<1>1. n \in Nat \ {0} /\ q.trace[n] = s /\ \A i \in 1..(n - 1) : q.trace[i] = r.trace[i]
  BY TraceGrows
<1>2. Flows!Walked(q) = IF s.via = "edge" THEN Flows!Walked(r) \cup {n} ELSE Flows!Walked(r)
  BY StepCounts DEF StepAdds
<1>3. Flows!Walked(r) \subseteq 1..(n - 1)
  BY WalkedIs
<1> HIDE DEF n
<1> QED
  BY <1>1, <1>2, <1>3 DEF Flows!Reached

\* x is in a sequence.
Queued(s, x) == \E k \in DOMAIN s : s[k] = x

\* What is in a sequence joined of two.
LEMMA JoinedHold ==
    ASSUME NEW s \in Seq(STRING), NEW t \in Seq(STRING), NEW u, u = s \o t
    PROVE  \A x : Queued(u, x) <=> Queued(s, x) \/ Queued(t, x)
<1> SUFFICES ASSUME NEW x
             PROVE  (\E i \in DOMAIN u : u[i] = x) <=> (\E i \in DOMAIN s : s[i] = x) \/ (\E i \in DOMAIN t : t[i] = x)
  BY DEF Queued
<1>1. /\ Len(s) \in Nat /\ Len(t) \in Nat /\ DOMAIN s = 1..Len(s) /\ DOMAIN t = 1..Len(t)
      /\ DOMAIN u = 1..(Len(s) + Len(t))
      /\ \A i \in 1..Len(s) : u[i] = s[i]
      /\ \A i \in 1..Len(t) : u[Len(s) + i] = t[i]
  OBVIOUS
<1>2. ASSUME NEW i \in DOMAIN u, u[i] = x
      PROVE  (\E k \in DOMAIN s : s[k] = x) \/ (\E k \in DOMAIN t : t[k] = x)
  <2>1. CASE i <= Len(s)
    BY <1>1, <1>2, <2>1
  <2>2. CASE i > Len(s)
    <3>1. i - Len(s) \in 1..Len(t) /\ Len(s) + (i - Len(s)) = i
      BY <1>1, <2>2
    <3> QED
      BY <1>1, <1>2, <3>1
  <2> QED
    BY <1>1, <2>1, <2>2
<1>3. ASSUME NEW i \in DOMAIN s, s[i] = x PROVE \E k \in DOMAIN u : u[k] = x
  BY <1>1, <1>3
<1>4. ASSUME NEW i \in DOMAIN t, t[i] = x PROVE \E k \in DOMAIN u : u[k] = x
  <2>1. Len(s) + i \in 1..(Len(s) + Len(t))
    BY <1>1
  <2> QED
    BY <1>1, <1>4, <2>1
<1> QED
  BY <1>2, <1>3, <1>4

\* A node that was at work and is finished is a step walked, and leads on.
LEMMA FinishedHolds ==
    ASSUME NEW r, Flows!RunHolds(r), r.node # "none", NEW branch \in {"none", "true", "false"}, NEW response \in Flows!Names,
           Flows!Kind(r.wiring, r.node) = "respond" => response = r.node
    PROVE  Flows!RunHolds(Flows!Finished(r, branch, response))
<1> DEFINE q == Flows!Finished(r, branch, response)
           s == [node |-> r.node, via |-> "edge", branch |-> branch]
           n == Len(r.trace) + 1
           w == r.wiring
           more == Flows!Targets(w, Flows!Outs(w, r.node, branch))
<1> HIDE DEF q, s, n, w, more
<1>1. r \in Flows!FlowRun
  BY DEF Flows!RunHolds
<1>2. Flows!Counted(r) /\ Flows!Followed(r) /\ Flows!Attached(r) /\ Flows!Staffed(r) /\ Flows!Responded(r)
  BY DEF Flows!RunHolds
<1>3. /\ Flows!WellDrawn(w) /\ r.trace \in Seq(Flows!FlowStep) /\ r.queue \in Seq(STRING) /\ r.node \in Flows!Names
      /\ r.steps \in Nat
  BY <1>1, FlowRunIs DEF w
<1>4. /\ q \in Flows!FlowRun /\ q.wiring = w /\ q.node = "none" /\ q.steps = r.steps /\ q.visits = r.visits
      /\ q.bodies = << >> /\ q.trace = Append(r.trace, s)
      /\ q.response = (IF response # "none" THEN response ELSE r.response)
      /\ q.over = (Flows!Kind(w, r.node) = "respond" /\ response # "none")
      /\ q.queue = r.queue \o more
  <2>1. q = Flows!Finished(r, branch, response)
    BY DEF q
  <2>2. FinishedAs(r, branch, response, q)
    BY <1>1, <2>1, FinishedIs
  <2> QED
    BY <2>2 DEF FinishedAs, s, w, more
<1>5. s \in Flows!FlowStep /\ s.node = r.node /\ s.via = "edge" /\ s.branch = branch
  BY <1>3 DEF Flows!FlowStep, s
<1>6. q.trace = Append(r.trace, s) /\ q.wiring = r.wiring
  BY <1>4 DEF w
<1>7. /\ n \in Nat \ {0} /\ Len(q.trace) = n /\ q.trace[n] = s
      /\ \A i \in 1..(n - 1) : q.trace[i] = r.trace[i]
  BY <1>3, <1>5, <1>6, TraceGrows DEF n
<1>8. /\ n \notin Flows!Walked(r) /\ Flows!Walked(q) = Flows!Walked(r) \cup {n}
      /\ \A m : Flows!Visits(q, m) = IF m = r.node THEN Flows!Visits(r, m) \cup {n} ELSE Flows!Visits(r, m)
      /\ \A i \in 1..n : Flows!Tentacles(q, i) = Flows!Tentacles(r, i) /\ Flows!Own(q, i) = Flows!Own(r, i)
      /\ Flows!Tentacles(q, n + 1) = {}
  <2>1. StepAdds(r, q, s, n)
    BY <1>3, <1>5, <1>6, StepCounts DEF n
  <2> QED
    BY <1>5, <2>1 DEF StepAdds
<1>9. /\ Flows!Walked(r) \subseteq 1..(n - 1)
      /\ IsFiniteSet(Flows!Walked(r)) /\ Cardinality(Flows!Walked(r)) \in Nat
      /\ \A m : /\ Flows!Visits(r, m) \subseteq Flows!Walked(r)
                /\ IsFiniteSet(Flows!Visits(r, m)) /\ Cardinality(Flows!Visits(r, m)) \in Nat
  <2>1. r.trace \in Seq(Flows!FlowStep) /\ (n - 1 = Len(r.trace) /\ \A i \in 1..n : i \in Nat)
    BY <1>3, <1>7, ElementsAre DEF n
  <2> QED
    BY <2>1, WalkedIs
<1>10. \A m : Flows!Reached(q, m) <=> Flows!Reached(r, m) \/ Flows!LeadsTo(w, r.node, branch, m)
  BY <1>3, <1>5, <1>6, ReachGrows DEF w
<1>11. /\ more \in Seq(STRING)
       /\ \A m : Flows!LeadsTo(w, r.node, branch, m) <=> \E k \in DOMAIN more : more[k] = m
  <2> DEFINE outs == Flows!Outs(w, r.node, branch)
  <2> HIDE DEF outs
  <2>1. /\ outs \in SUBSET DOMAIN w.edges
        /\ \A m : Flows!LeadsTo(w, r.node, branch, m) <=> \E i \in outs : w.edges[i].to = m
    BY OutsLead DEF outs
  <2>2. w.edges \in Seq([from : STRING, handle : STRING, to : STRING])
    BY <1>3 DEF Flows!WellDrawn
  <2>3. more = Flows!Targets(w, outs)
    BY DEF more, outs, w
  <2>4. /\ more \in Seq(STRING)
        /\ \A k \in DOMAIN more : \E i \in outs : more[k] = w.edges[i].to
        /\ \A i \in outs : \E k \in DOMAIN more : more[k] = w.edges[i].to
    BY ZenonT(60), <2>1, <2>2, <2>3, TargetsAre
  <2> QED
    BY <2>1, <2>4
<1>12. Flows!Counted(q)
  <2>1. Cardinality(Flows!Walked(q)) = Cardinality(Flows!Walked(r)) + 1
    BY SMTT(40), <1>8, <1>9, FS_AddElement
  <2>2. ASSUME NEW m
        PROVE  Cardinality(Flows!Visits(q, m)) = Cardinality(Flows!Visits(r, m)) + (IF m = r.node THEN 1 ELSE 0)
    <3>1. n \notin Flows!Visits(r, m)
      BY <1>8, <1>9
    <3>2. Cardinality(Flows!Visits(r, m) \cup {n}) = Cardinality(Flows!Visits(r, m)) + 1
      BY <1>9, <3>1, FS_AddElement
    <3>3. Flows!Visits(q, m) = IF m = r.node THEN Flows!Visits(r, m) \cup {n} ELSE Flows!Visits(r, m)
      BY <1>8
    <3>4. Cardinality(Flows!Visits(r, m)) \in Nat
      BY <1>9
    <3> QED
      BY <3>2, <3>3, <3>4
  <2>3. "none" \notin Flows!Nodes(w)
    BY <1>3 DEF Flows!WellDrawn
  <2> QED
    <3>1. /\ r.steps = Flows!Cardinality(Flows!Walked(r)) + 1 /\ r.steps <= MaxSteps
          /\ r.visits \in [Flows!Nodes(w) -> 0..MaxVisits]
          /\ \A m \in Flows!Nodes(w) :
                r.visits[m] = Flows!Cardinality(Flows!Visits(r, m)) + (IF m = r.node THEN 1 ELSE 0)
      BY <1>2 DEF Flows!Counted, w
    <3>2. q.steps = Flows!Cardinality(Flows!Walked(q)) + 0 /\ q.steps <= MaxSteps
      BY <1>4, <1>9, <2>1, <3>1, FlowCardinality
    <3>3. ASSUME NEW m \in Flows!Nodes(w)
          PROVE  q.visits[m] = Flows!Cardinality(Flows!Visits(q, m)) + (IF q.node = m THEN 1 ELSE 0)
      <4>1. Cardinality(Flows!Visits(r, m)) \in Nat /\ q.node # m
        BY <1>4, <1>9, <2>3
      <4> QED
        BY <1>4, <2>2, <3>1, <4>1, FlowCardinality
    <3> QED
      BY <1>4, <3>1, <3>2, <3>3 DEF Flows!Counted
<1>13. Flows!Followed(q)
  <2>1. ASSUME NEW i \in Flows!Walked(q)
        PROVE  /\ q.trace[i].node \in Flows!Nodes(w)
               /\ \/ q.trace[i].node = Flows!Trigger(w)
                  \/ \E j \in Flows!Walked(q) : j < i /\ Flows!LeadsTo(w, q.trace[j].node, q.trace[j].branch, q.trace[i].node)
    <3>1. CASE i \in Flows!Walked(r)
      <4>1. q.trace[i] = r.trace[i] /\ \A j \in Flows!Walked(r) : q.trace[j] = r.trace[j] /\ j \in Flows!Walked(q)
        BY <1>7, <1>8, <1>9, <3>1
      <4>2. /\ r.trace[i].node \in Flows!Nodes(w)
            /\ \/ r.trace[i].node = Flows!Trigger(w)
               \/ \E j \in Flows!Walked(r) : j < i /\ Flows!LeadsTo(w, r.trace[j].node, r.trace[j].branch, r.trace[i].node)
        BY <1>2, <3>1 DEF Flows!Followed, w
      <4> QED
        BY <4>1, <4>2
    <3>2. CASE i = n
      <4>1. q.trace[i].node = r.node
        BY <1>5, <1>7, <3>2
      <4>2. r.node \in Flows!Nodes(w) /\ Flows!Reached(r, r.node)
        BY <1>2 DEF Flows!Followed, w
      <4>3. \A j \in Flows!Walked(r) : q.trace[j] = r.trace[j] /\ j \in Flows!Walked(q) /\ j < n
        BY <1>7, <1>8, <1>9
      <4> QED
        BY <3>2, <4>1, <4>2, <4>3 DEF Flows!Reached, w
    <3> QED
      BY <1>8, <3>1, <3>2
  <2>2. \A m : (\E k \in DOMAIN q.queue : q.queue[k] = m) <=>
                   (\E k \in DOMAIN r.queue : r.queue[k] = m) \/ Flows!LeadsTo(w, r.node, branch, m)
    <3>1. \A m : Queued(q.queue, m) <=> Queued(r.queue, m) \/ Queued(more, m)
      BY <1>3, <1>4, <1>11, JoinedHold
    <3> QED
      BY <1>11, <3>1 DEF Queued
  <2>3. \A k \in DOMAIN q.queue : Flows!Reached(q, q.queue[k])
    BY <1>2, <1>10, <2>2 DEF Flows!Followed
  <2>4. ASSUME NEW m \in Flows!Nodes(w), Flows!Reached(q, m)
        PROVE  Flows!Visits(q, m) # {} \/ \E k \in DOMAIN q.queue : q.queue[k] = m
    BY <1>2, <1>8, <1>10, <2>2, <2>4 DEF Flows!Followed, w
  <2> QED
    BY <1>4, <2>1, <2>3, <2>4 DEF Flows!Followed
<1>14. Flows!Attached(q)
  <2>1. ASSUME NEW i \in Flows!Walked(q)
        PROVE  /\ \A k \in Flows!Tentacles(q, i) :
                    Flows!Kind(w, q.trace[i].node) = "octo" /\ q.trace[k].node \in Flows!Menu(w, q.trace[i].node)
               /\ Flows!Cardinality(Flows!Own(q, i)) <= OctoCalls
    <3>1. i \in 1..n /\ Flows!Tentacles(q, i) = Flows!Tentacles(r, i) /\ Flows!Own(q, i) = Flows!Own(r, i)
      BY <1>7, <1>8, <1>9
    <3>2. \A k \in Flows!Tentacles(q, i) : q.trace[k] = r.trace[k]
      <4>1. \A k \in Flows!Tentacles(r, i) : k \in 1..(i - 1)
        BY DEF Flows!Tentacles
      <4> QED
        BY <1>7, <3>1, <4>1
    <3>3. CASE i \in Flows!Walked(r)
      <4>1. q.trace[i] = r.trace[i]
        BY <1>7, <1>9, <3>3
      <4> QED
        BY <1>2, <3>1, <3>2, <3>3, <4>1 DEF Flows!Attached, w
    <3>4. CASE i = n
      <4>1. q.trace[i].node = r.node
        BY <1>5, <1>7, <3>4
      <4>2. ASSUME NEW k \in Flows!Tentacles(r, n) PROVE Flows!Kind(w, r.node) = "octo"
        BY <1>2, <4>2 DEF Flows!Attached, Flows!Staffed, n, w
      <4>3. Flows!Cardinality(Flows!Own(r, n)) <= OctoCalls
        <5>1. CASE r.bodies = << >>
          <6>1. Flows!Own(r, n) = {}
            BY <1>2, <5>1 DEF Flows!Attached, Flows!Own, n
          <6> QED
            BY <6>1, FlowCardinality, FS_EmptySet, FlowAssumption
        <5>2. CASE r.bodies # << >>
          <6>1. 1 \in DOMAIN r.bodies
            BY <1>1, <5>2, BodiesAre
          <6> QED
            BY <1>2, <5>2, <6>1 DEF Flows!Attached, Flows!Staffed, n
        <5> QED
          BY <5>1, <5>2
      <4> QED
        BY <1>2, <3>1, <3>2, <3>4, <4>1, <4>2, <4>3 DEF Flows!Attached, w, n
    <3> QED
      BY <1>8, <3>3, <3>4
  <2>3. Flows!Tentacles(q, Len(q.trace) + 1) = {}
    BY <1>7, <1>8
  <2> QED
    BY <1>4, <2>1, <2>3 DEF Flows!Attached
<1>16. Flows!Staffed(q)
  BY <1>4 DEF Flows!Staffed
<1>15. Flows!Responded(q)
  <2>1. ~r.over /\ \A i \in Flows!Walked(r) : Flows!Kind(w, r.trace[i].node) # "respond"
    BY <1>2 DEF Flows!Responded, w
  <2>2. \A i \in Flows!Walked(r) : q.trace[i] = r.trace[i]
    BY <1>7, <1>9
  <2>3. q.trace[n].node = r.node
    BY <1>5, <1>7
  <2>4. n \in Flows!Walked(q) /\ \A i \in Flows!Walked(q) : i \in Flows!Walked(r) \/ i = n
    BY <1>8
  <2>5. r.node # "none" /\ (Flows!Kind(w, r.node) = "respond" => response = r.node)
    BY DEF w
  <2> QED
    BY <1>4, <1>7, <2>1, <2>2, <2>3, <2>4, <2>5 DEF Flows!Responded
<1> QED
  BY <1>4, <1>12, <1>13, <1>14, <1>15, <1>16 DEF Flows!RunHolds, q

\* Runs with the same steps on the same drawing.
LEMMA SameSteps ==
    ASSUME NEW r, NEW q, q.trace = r.trace, q.wiring = r.wiring
    PROVE  /\ Flows!Walked(q) = Flows!Walked(r)
           /\ \A n : Flows!Visits(q, n) = Flows!Visits(r, n)
           /\ \A i : Flows!Tentacles(q, i) = Flows!Tentacles(r, i) /\ Flows!Own(q, i) = Flows!Own(r, i)
           /\ \A m : Flows!Reached(q, m) <=> Flows!Reached(r, m)
<1>1. Flows!Walked(q) = Flows!Walked(r)
  BY DEF Flows!Walked
<1>2. ASSUME NEW n PROVE Flows!Visits(q, n) = Flows!Visits(r, n)
  BY <1>1 DEF Flows!Visits
<1>3. ASSUME NEW i PROVE Flows!Tentacles(q, i) = Flows!Tentacles(r, i) /\ Flows!Own(q, i) = Flows!Own(r, i)
  BY DEF Flows!Tentacles, Flows!Own
<1>4. ASSUME NEW m PROVE Flows!Reached(q, m) <=> Flows!Reached(r, m)
  BY <1>1 DEF Flows!Reached
<1> QED
  BY <1>1, <1>2, <1>3, <1>4

\* Of a drawing, its trigger and its menus.
LEMMA DrawnNodes ==
    ASSUME NEW w \in Flows!Drawings
    PROVE  /\ Flows!Nodes(w) \subseteq STRING /\ "none" \notin Flows!Nodes(w) /\ Flows!Nodes(w) # {}
           /\ Flows!Nodes(w) \subseteq Flows!Names /\ Flows!Trigger(w) \in Flows!Nodes(w)
           /\ \A n : Flows!Menu(w, n) \subseteq Flows!Nodes(w)
<1>1. Flows!WellDrawn(w)
  BY DrawnWell
<1>2. Flows!Nodes(w) \subseteq STRING /\ "none" \notin Flows!Nodes(w) /\ Flows!Nodes(w) # {}
  BY <1>1 DEF Flows!WellDrawn
<1>3. Flows!Nodes(w) \subseteq Flows!Names
  BY DEF Flows!Names
<1>4. Flows!Trigger(w) \in Flows!Nodes(w)
  <2> DEFINE triggers == {n \in Flows!Nodes(w) : Flows!Kind(w, n) = "trigger"}
  <2>1. \E n \in Flows!Nodes(w) : triggers = {} \/ n \in triggers
    BY <1>2
  <2>2. Flows!Trigger(w) = CHOOSE n \in Flows!Nodes(w) : triggers = {} \/ n \in triggers
    BY Zenon DEF Flows!Trigger
  <2> HIDE DEF triggers
  <2> QED
    BY <2>1, <2>2
<1>5. \A n : Flows!Menu(w, n) \subseteq Flows!Nodes(w)
  BY DEF Flows!Menu
<1> QED
  BY <1>2, <1>3, <1>4, <1>5

\* The node at work, or the tentacle the body on top waits for, has a name.
LEMMA PendingIs ==
    ASSUME NEW r \in Flows!FlowRun, ~Flows!Thinks(r)
    PROVE  /\ Flows!Pending(r) \in Flows!Names
           /\ r.bodies = << >> => Flows!Pending(r) = r.node
           /\ r.bodies # << >> => /\ Flows!Top(r) \in Flows!Body /\ Flows!Top(r).plan # << >>
                                 /\ Flows!Pending(r) = Head(Flows!Top(r).plan)
<1>1. CASE r.bodies = << >>
  BY <1>1, FlowRunIs DEF Flows!Pending
<1>2. CASE r.bodies # << >>
  <2>1. Flows!Top(r) \in Flows!Body /\ Flows!Top(r).plan # << >>
    BY <1>2, BodiesAre DEF Flows!Thinks
  <2>2. Flows!Top(r).plan \in Seq(Flows!Names)
    BY <2>1 DEF Flows!Body
  <2>3. Head(Flows!Top(r).plan) \in Flows!Names
    BY <2>1, <2>2
  <2> QED
    BY <1>2, <2>1, <2>3 DEF Flows!Pending
<1> QED
  BY <1>1, <1>2

\* A body that begins, and one that has the result of a tentacle.
LEMMA NewBodyIs ==
    /\ Flows!NewBody \in Flows!Body /\ Flows!NewBody.called = 0 /\ Flows!NewBody.plan = << >>
    /\ DOMAIN Flows!NewBody.plan = {}
<1>1. << >> \in Seq(Flows!Names)
  BY SequencesGrow
<1> QED
  BY <1>1 DEF Flows!NewBody, Flows!Body

LEMMA CalledIs ==
    ASSUME NEW b \in Flows!Body, b.plan # << >>
    PROVE  /\ Flows!Called(b) \in Flows!Body /\ Flows!Called(b).called = b.called + 1
           /\ Flows!Called(b).plan # << >> => b.called + 1 < OctoCalls
           /\ \A k \in DOMAIN Flows!Called(b).plan : \E l \in DOMAIN b.plan : Flows!Called(b).plan[k] = b.plan[l]
<1> DEFINE plan == IF b.called + 1 < OctoCalls THEN Tail(b.plan) ELSE << >>
<1>1. b.called \in Nat /\ b.plan \in Seq(Flows!Names)
  BY DEF Flows!Body
<1>2. /\ plan \in Seq(Flows!Names) /\ (plan # << >> => b.called + 1 < OctoCalls)
      /\ \A k \in DOMAIN plan : \E l \in DOMAIN b.plan : plan[k] = b.plan[l]
  <2>1. CASE b.called + 1 < OctoCalls
    <3>2. \A t \in Seq(Flows!Names) : t # << >> =>
            /\ Tail(t) \in Seq(Flows!Names)
            /\ \A k \in DOMAIN Tail(t) : k + 1 \in DOMAIN t /\ Tail(t)[k] = t[k + 1]
      OBVIOUS
    <3> QED
      BY <1>1, <2>1, <3>2
  <2>2. CASE ~(b.called + 1 < OctoCalls)
    <3>1. plan = << >> /\ << >> \in Seq(Flows!Names) /\ DOMAIN << >> = {}
      BY <2>2, SequencesGrow
    <3> QED
      BY <3>1
  <2> QED
    BY <2>1, <2>2
<1>3. Flows!Called(b) = [[b EXCEPT !.called = @ + 1] EXCEPT !.plan = plan]
  BY DEF Flows!Called, Flows!Body
<1> HIDE DEF plan
<1>4. [b EXCEPT !.called = @ + 1] = [round |-> b.round, called |-> b.called + 1, plan |-> b.plan]
  BY DEF Flows!Body
<1>5. Flows!Called(b) = [round |-> b.round, called |-> b.called + 1, plan |-> plan]
  BY <1>3, <1>4
<1>6. b.round \in Nat
  BY DEF Flows!Body
<1> QED
  BY <1>1, <1>2, <1>5, <1>6 DEF Flows!Body

\* Only the bodies at work change.
Rewritten(r, trace, bodies) == [r EXCEPT !.trace = trace, !.bodies = bodies]

LEMMA BodiesChange ==
    ASSUME NEW r \in Flows!FlowRun, NEW trace \in Seq(Flows!FlowStep), NEW bodies \in Seq(Flows!Body),
           NEW q, q = Rewritten(r, trace, bodies)
    PROVE  /\ q \in Flows!FlowRun /\ q.wiring = r.wiring /\ q.node = r.node /\ q.steps = r.steps
           /\ q.visits = r.visits /\ q.bodies = bodies /\ q.trace = trace /\ q.response = r.response
           /\ q.over = r.over /\ q.queue = r.queue
<1>1. PICK V, O, Q, T : FieldsAre(V, O, Q, T)
  BY FlowRunIsRecord
<1>2. trace \in T /\ bodies \in O
  BY <1>1 DEF FieldsAre
<1> QED
  BY <1>1, <1>2 DEF FieldsAre, Rewritten

\* A tentacle has its result: a step of a body's is kept, nothing is walked.
LEMMA TentacleHolds ==
    ASSUME NEW r, Flows!RunHolds(r), r.node # "none", r.bodies # << >>, ~Flows!Thinks(r), NEW branch, NEW response
    PROVE  Flows!RunHolds(Flows!Landed(r, branch, response))
<1> DEFINE q == Flows!Landed(r, branch, response)
           m == Len(r.bodies)
           top == r.bodies[m]
           p == Head(top.plan)
           via == IF m = 1 THEN "octo" ELSE "nested"
           s == [node |-> p, via |-> via, branch |-> "none"]
           n == Len(r.trace) + 1
           w == r.wiring
           called == Flows!Called(top)
           bodies == [r.bodies EXCEPT ![m] = called]
           trace == Append(r.trace, s)
<1>1. r \in Flows!FlowRun /\ Flows!Counted(r) /\ Flows!Followed(r) /\ Flows!Attached(r) /\ Flows!Staffed(r) /\ Flows!Responded(r)
  BY DEF Flows!RunHolds
<1>2. /\ w \in Flows!Drawings /\ r.trace \in Seq(Flows!FlowStep) /\ r.node \in Flows!Names
      /\ m \in Nat /\ m # 0 /\ DOMAIN r.bodies = 1..m /\ r.bodies \in Seq(Flows!Body) /\ m \in 1..m /\ 1 \in 1..m
      /\ top \in Flows!Body /\ top.plan # << >> /\ p \in Flows!Names
      /\ Flows!Top(r) = top /\ Flows!Pending(r) = p
  BY <1>1, FlowRunIs, BodiesAre, PendingIs
<1>3. s \in Flows!FlowStep /\ s.node = p /\ s.via = via
  BY <1>2 DEF Flows!FlowStep
<1>4. Flows!Landed(r, branch, response) = [r EXCEPT !.trace = trace, !.bodies = bodies]
  BY <1>1, <1>2 DEF Flows!Landed, Flows!Step
<1>5. /\ called \in Flows!Body /\ called.called = top.called + 1
      /\ called.plan # << >> => top.called + 1 < OctoCalls
      /\ \A k \in DOMAIN called.plan : \E l \in DOMAIN top.plan : called.plan[k] = top.plan[l]
  BY <1>2, CalledIs
<1> HIDE DEF called, s, p, w
<1>6. /\ bodies \in Seq(Flows!Body) /\ Len(bodies) = m /\ DOMAIN bodies = 1..m /\ bodies[m] = called
      /\ \A b \in 1..m : b # m => bodies[b] = r.bodies[b]
  BY <1>2, <1>5
<1>7. trace \in Seq(Flows!FlowStep)
  BY <1>2, <1>3, SequencesGrow
<1> HIDE DEF bodies, trace, q, top, m
<1>8. /\ q \in Flows!FlowRun /\ q.wiring = w /\ q.node = r.node /\ q.steps = r.steps /\ q.visits = r.visits
      /\ q.bodies = bodies /\ q.trace = trace /\ q.response = r.response /\ q.over = r.over /\ q.queue = r.queue
  <2>1. q = Rewritten(r, trace, bodies)
    BY <1>4 DEF q, Rewritten
  <2>2. r \in Flows!FlowRun /\ bodies \in Seq(Flows!Body)
    BY <1>1, <1>6
  <2>3. /\ q \in Flows!FlowRun /\ q.wiring = r.wiring /\ q.node = r.node /\ q.steps = r.steps
        /\ q.visits = r.visits /\ q.bodies = bodies /\ q.trace = trace /\ q.response = r.response
        /\ q.over = r.over /\ q.queue = r.queue
    BY <1>7, <2>1, <2>2, BodiesChange
  <2> QED
    BY <2>2, <2>3 DEF w
<1>10. q.trace = Append(r.trace, s) /\ q.wiring = r.wiring
  BY <1>8 DEF trace, w
<1> HIDE DEF n, via
<1>11. /\ n \in Nat \ {0} /\ Len(q.trace) = n /\ q.trace[n] = s
       /\ \A i \in 1..(n - 1) : q.trace[i] = r.trace[i]
  BY <1>2, <1>3, <1>10, TraceGrows DEF n
<1>12. /\ Flows!Walked(q) = Flows!Walked(r) /\ \A k : Flows!Visits(q, k) = Flows!Visits(r, k)
       /\ \A i \in 1..n : Flows!Tentacles(q, i) = Flows!Tentacles(r, i) /\ Flows!Own(q, i) = Flows!Own(r, i)
       /\ n \notin Flows!Own(r, n) /\ Flows!Tentacles(q, n + 1) = Flows!Tentacles(r, n) \cup {n}
       /\ Flows!Own(q, n + 1) = IF m = 1 THEN Flows!Own(r, n) \cup {n} ELSE Flows!Own(r, n)
  <2>1. StepAdds(r, q, s, n)
    BY <1>2, <1>3, <1>10, StepCounts DEF n
  <2>2. s.via # "edge" /\ (s.via = "octo" <=> m = 1)
    BY <1>3 DEF via
  <2> QED
    BY <2>1, <2>2 DEF StepAdds
<1>13. Flows!Walked(r) \subseteq 1..(n - 1) /\ IsFiniteSet(Flows!Own(r, n)) /\ Cardinality(Flows!Own(r, n)) \in Nat
  <2>1. Len(r.trace) \in Nat /\ n - 1 = Len(r.trace) /\ n \in Nat
    BY <1>2, <1>11, ElementsAre DEF n
  <2> QED
    BY <1>2, <2>1, WalkedIs
<1>14. \A k : Flows!Reached(q, k) <=> Flows!Reached(r, k)
  <2>1. s.via # "edge"
    BY <1>3 DEF via
  <2>2. \A k : Flows!Reached(q, k) <=> Flows!Reached(r, k) \/ (s.via = "edge" /\ Flows!LeadsTo(r.wiring, s.node, s.branch, k))
    BY <1>2, <1>3, <1>10, ReachGrows
  <2> QED
    BY <2>1, <2>2
<1>15. Flows!Counted(q)
  BY <1>1, <1>8, <1>12 DEF Flows!Counted, w
<1>16. Flows!Followed(q)
  <2>1. \A i \in Flows!Walked(q) : i \in Flows!Walked(r) /\ q.trace[i] = r.trace[i]
    BY <1>11, <1>12, <1>13
  <2>2. \A i \in Flows!Walked(q) :
          /\ q.trace[i].node \in Flows!Nodes(q.wiring)
          /\ \/ q.trace[i].node = Flows!Trigger(q.wiring)
             \/ \E j \in Flows!Walked(q) :
                    j < i /\ Flows!LeadsTo(q.wiring, q.trace[j].node, q.trace[j].branch, q.trace[i].node)
    BY <1>1, <1>8, <1>12, <2>1 DEF Flows!Followed, w
  <2>3. /\ q.node # "none" => q.node \in Flows!Nodes(q.wiring) /\ Flows!Reached(q, q.node)
        /\ \A k \in DOMAIN q.queue : Flows!Reached(q, q.queue[k])
        /\ \A k \in Flows!Nodes(q.wiring) : Flows!Reached(q, k) =>
              Flows!Visits(q, k) # {} \/ q.node = k \/ \E l \in DOMAIN q.queue : q.queue[l] = k
    BY <1>1, <1>8, <1>12, <1>14 DEF Flows!Followed, w
  <2> QED
    BY <2>2, <2>3, Zenon DEF Flows!Followed
<1>19. /\ top.called < OctoCalls /\ top.called \in Nat /\ OctoCalls \in Nat
       /\ Flows!Kind(w, r.node) = "octo" /\ p \in Flows!Menu(w, r.node)
       /\ \A l \in DOMAIN top.plan : top.plan[l] \in Flows!Menu(w, r.node)
  <2>1. top.plan \in Seq(Flows!Names) /\ top.called \in Nat
    BY <1>2 DEF Flows!Body
  <2>2. 1 \in DOMAIN top.plan /\ p = top.plan[1]
    BY <1>2, <2>1 DEF p
  <2>3. m \in DOMAIN r.bodies /\ top = r.bodies[m]
    BY <1>2 DEF top
  <2> QED
    BY <1>1, <1>2, <2>1, <2>2, <2>3, FlowAssumption DEF Flows!Staffed, w
<1>17. Flows!Attached(q)
  <2>2. ASSUME NEW i \in Flows!Walked(q)
        PROVE  /\ \A k \in Flows!Tentacles(q, i) :
                    Flows!Kind(q.wiring, q.trace[i].node) = "octo" /\ q.trace[k].node \in Flows!Menu(q.wiring, q.trace[i].node)
               /\ Flows!Cardinality(Flows!Own(q, i)) <= OctoCalls
    <3>1. /\ i \in Flows!Walked(r) /\ i \in 1..n /\ q.trace[i] = r.trace[i]
          /\ Flows!Tentacles(q, i) = Flows!Tentacles(r, i) /\ Flows!Own(q, i) = Flows!Own(r, i)
      BY <1>11, <1>12, <1>13, <2>2
    <3>2. \A k \in Flows!Tentacles(q, i) : q.trace[k] = r.trace[k]
      <4>1. \A k \in Flows!Tentacles(r, i) : k \in 1..(i - 1)
        BY DEF Flows!Tentacles
      <4> QED
        BY <1>11, <3>1, <4>1
    <3> QED
      BY <1>1, <1>8, <3>1, <3>2 DEF Flows!Attached, w
  <2>3. ASSUME NEW k \in Flows!Tentacles(q, n + 1) PROVE q.trace[k].node \in Flows!Menu(w, r.node)
    <3>1. CASE k = n
      BY <1>3, <1>11, <1>19, <3>1
    <3>2. CASE k \in Flows!Tentacles(r, n)
      <4>1. k \in 1..(n - 1)
        BY <3>2 DEF Flows!Tentacles
      <4>2. q.trace[k] = r.trace[k]
        BY <1>11, <4>1
      <4> QED
        BY <1>1, <3>2, <4>2 DEF Flows!Attached, n, w
    <3> QED
      BY <1>12, <2>3, <3>1, <3>2
  <2>4. Flows!Cardinality(Flows!Own(q, n + 1)) = bodies[1].called
    <3>1. Cardinality(Flows!Own(r, n) \cup {n}) = Cardinality(Flows!Own(r, n)) + 1
      BY <1>12, <1>13, FS_AddElement
    <3>2. Flows!Cardinality(Flows!Own(r, n)) = r.bodies[1].called
      BY <1>1 DEF Flows!Attached, n
    <3>3. CASE m = 1
      BY <1>5, <1>6, <1>12, <3>1, <3>2, <3>3, FlowCardinality DEF top
    <3>4. CASE m # 1
      BY <1>2, <1>6, <1>12, <3>2, <3>4
    <3> QED
      BY <3>3, <3>4
  <2>5. q.bodies # << >>
    BY <1>2, <1>6, <1>8
  <2> QED
    BY <1>8, <1>11, <2>2, <2>3, <2>4, <2>5, Zenon DEF Flows!Attached
<1>20. Flows!Staffed(q)
  <2>1. ASSUME NEW b \in 1..m
        PROVE  /\ bodies[b].called <= OctoCalls /\ (bodies[b].plan # << >> => bodies[b].called < OctoCalls)
               /\ b < m => bodies[b].plan # << >>
               /\ \A k \in DOMAIN bodies[b].plan : bodies[b].plan[k] \in Flows!Menu(w, r.node)
    <3>1. CASE b = m
      BY <1>2, <1>5, <1>6, <1>19, <3>1
    <3>2. CASE b # m
      BY <1>1, <1>2, <1>6, <3>2 DEF Flows!Staffed, w, m
    <3> QED
      BY <3>1, <3>2
  <2>2. /\ DOMAIN q.bodies = 1..m /\ Len(q.bodies) = m /\ q.bodies # << >>
        /\ q.node # "none" /\ Flows!Kind(q.wiring, q.node) = "octo"
    BY <1>2, <1>6, <1>8, <1>19
  <2> QED
    BY <1>8, <2>1, <2>2 DEF Flows!Staffed
<1>18. Flows!Responded(q)
  <2>1. \A i \in Flows!Walked(q) : i \in Flows!Walked(r) /\ q.trace[i] = r.trace[i]
    BY <1>11, <1>12, <1>13
  <2>2. ~r.over
    BY <1>1 DEF Flows!Responded
  <2> QED
    BY <1>1, <1>8, <2>1, <2>2 DEF Flows!Responded, w
<1> QED
  BY <1>8, <1>15, <1>16, <1>17, <1>18, <1>20 DEF Flows!RunHolds, q

\* Whatever the node at work was.
LEMMA LandedHolds ==
    ASSUME NEW r, Flows!RunHolds(r), r.node # "none", ~Flows!Thinks(r), NEW branch \in {"none", "true", "false"},
           NEW response \in Flows!Names,
           Flows!Kind(r.wiring, Flows!Pending(r)) = "respond" => response = Flows!Pending(r)
    PROVE  Flows!RunHolds(Flows!Landed(r, branch, response))
<1>1. CASE r.bodies # << >>
  BY <1>1, TentacleHolds
<1>2. CASE r.bodies = << >>
  <2>1. Flows!Pending(r) = r.node
    BY <1>2 DEF Flows!Pending
  <2>2. Flows!Landed(r, branch, response) = Flows!Finished(r, branch, response)
    BY <1>2 DEF Flows!Landed
  <2> QED
    BY <2>1, <2>2, FinishedHolds
<1> QED
  BY <1>1, <1>2

\* A sequence without its last.
FrontOf(R, s, n, f) ==
    /\ f \in Seq(R) /\ Len(f) = n - 1 /\ DOMAIN f = 1..(n - 1) /\ f # << >>
    /\ n - 1 \in 1..n /\ n - 1 \in 1..(n - 1) /\ n - 1 < n /\ 1 \in 1..(n - 1)
    /\ \A b \in 1..(n - 1) : b \in 1..n /\ f[b] = s[b]

LEMMA FrontIs ==
    ASSUME NEW R, NEW s \in Seq(R), NEW n \in Nat \ {0}, n = Len(s), n # 1
    PROVE  FrontOf(R, s, n, SubSeq(s, 1, n - 1))
<1> DEFINE k == n - 1
<1>1. k \in Nat /\ k # 0 /\ n = k + 1
  OBVIOUS
<1> HIDE DEF k
<1>2. k \in 1..n /\ k \in 1..k /\ k < n /\ 1 \in 1..k /\ \A b \in 1..k : b \in 1..n
  BY <1>1
<1>3. SubSeq(s, 1, k) \in Seq(R) /\ Len(SubSeq(s, 1, k)) = k /\ \A b \in 1..k : SubSeq(s, 1, k)[b] = s[b]
  <2>1. k \in 1..Len(s) /\ Len(s) \in Nat /\ k \in Nat
    BY <1>1
  <2> QED
    BY <2>1
<1>4. DOMAIN SubSeq(s, 1, k) = 1..k /\ SubSeq(s, 1, k) # << >>
  <2>1. \A u \in Seq(R) : DOMAIN u = 1..Len(u) /\ (u = << >> => Len(u) = 0)
    OBVIOUS
  <2> QED
    BY <1>1, <1>3, <2>1
<1> QED
  BY <1>2, <1>3, <1>4 DEF k, FrontOf

\* A body within another ends, and is a step of the one around it.
LEMMA BodyEndsHolds ==
    ASSUME NEW r, Flows!RunHolds(r), Flows!Thinks(r), r.node # "none", NEW response \in Flows!Names
    PROVE  Flows!RunHolds(Flows!BodyEnds(r, response))
<1> DEFINE n == Len(r.bodies)
           front == SubSeq(r.bodies, 1, n - 1)
           q == [r EXCEPT !.bodies = front]
<1>1. r \in Flows!FlowRun /\ Flows!Counted(r) /\ Flows!Followed(r) /\ Flows!Attached(r) /\ Flows!Staffed(r) /\ Flows!Responded(r)
  BY DEF Flows!RunHolds
<1>2. /\ n = Len(r.bodies) /\ n \in Nat \ {0} /\ DOMAIN r.bodies = 1..n /\ r.bodies \in Seq(Flows!Body)
      /\ Flows!Kind(r.wiring, r.node) = "octo"
  BY <1>1, BodiesAre, FlowRunIs DEF Flows!Thinks, Flows!Staffed
<1> HIDE DEF front, n, q
<1>3. CASE n = 1
  <2>1. Flows!BodyEnds(r, response) = Flows!Finished(r, "none", response)
    BY <1>2, <1>3 DEF Flows!BodyEnds
  <2>2. Flows!Kind(r.wiring, r.node) # "respond" /\ "none" \in {"none", "true", "false"}
    BY <1>2
  <2>3. Flows!RunHolds(Flows!Finished(r, "none", response))
    BY <2>2, FinishedHolds
  <2> QED
    BY <2>1, <2>3
<1>4. CASE n # 1
  <2>1. /\ front \in Seq(Flows!Body) /\ Len(front) = n - 1 /\ DOMAIN front = 1..(n - 1) /\ front # << >>
        /\ n - 1 \in 1..n /\ n - 1 \in 1..(n - 1) /\ n - 1 < n /\ 1 \in 1..(n - 1)
        /\ \A b \in 1..(n - 1) : b \in 1..n /\ front[b] = r.bodies[b]
    <3>1. r.bodies \in Seq(Flows!Body) /\ n \in Nat \ {0} /\ n = Len(r.bodies) /\ n # 1
      BY <1>2, <1>4
    <3>2. FrontOf(Flows!Body, r.bodies, n, front)
      BY <3>1, FrontIs DEF front
    <3> QED
      BY <3>2 DEF FrontOf
  <2>2. /\ q \in Flows!FlowRun /\ q.wiring = r.wiring /\ q.node = r.node /\ q.steps = r.steps
        /\ q.visits = r.visits /\ q.bodies = front /\ q.trace = r.trace /\ q.response = r.response
        /\ q.over = r.over /\ q.queue = r.queue
    <3>1. PICK V, O, Q, T : FieldsAre(V, O, Q, T)
      BY FlowRunIsRecord
    <3>2. front \in O
      BY <2>1, <3>1 DEF FieldsAre
    <3> QED
      BY <1>1, <3>1, <3>2 DEF FieldsAre, q
  <2>3. /\ Flows!Walked(q) = Flows!Walked(r) /\ \A m : Flows!Visits(q, m) = Flows!Visits(r, m)
        /\ \A i : Flows!Tentacles(q, i) = Flows!Tentacles(r, i) /\ Flows!Own(q, i) = Flows!Own(r, i)
        /\ \A m : Flows!Reached(q, m) <=> Flows!Reached(r, m)
    BY <2>2, SameSteps
  <2>4. Flows!Counted(q) /\ Flows!Responded(q)
    BY <1>1, <2>2, <2>3 DEF Flows!Counted, Flows!Responded
  <2>5. Flows!Followed(q)
    BY <1>1, <2>2, <2>3 DEF Flows!Followed
  <2>6. Flows!Attached(q)
    BY <1>1, <1>2, <2>1, <2>2, <2>3 DEF Flows!Attached, n
  <2>7. ASSUME NEW b \in 1..(n - 1)
        PROVE  /\ front[b].called <= OctoCalls /\ (front[b].plan # << >> => front[b].called < OctoCalls)
               /\ front[b].plan # << >>
               /\ \A k \in DOMAIN front[b].plan : front[b].plan[k] \in Flows!Menu(r.wiring, r.node)
    <3>1. b \in DOMAIN r.bodies /\ front[b] = r.bodies[b] /\ b < Len(r.bodies)
      BY <1>2, <2>1 DEF n
    <3> QED
      BY <1>1, <3>1 DEF Flows!Staffed
  <2>8. Flows!Staffed(q)
    BY <1>2, <2>1, <2>2, <2>7 DEF Flows!Staffed
  <2>9. ~Flows!Thinks(q) /\ q.bodies # << >>
    BY <2>1, <2>2, <2>7 DEF Flows!Thinks, Flows!Top
  <2>10. Flows!RunHolds(Flows!Landed(q, "none", response))
    BY <2>2, <2>4, <2>5, <2>6, <2>8, <2>9, TentacleHolds DEF Flows!RunHolds
  <2> QED
    BY <1>4, <2>10 DEF Flows!BodyEnds, q, front, n
<1> QED
  BY <1>3, <1>4

\* What is in a sequence is its head or in its tail.
LEMMA HeadAndTail ==
    ASSUME NEW s \in Seq(STRING), s # << >>, NEW u, u = Tail(s)
    PROVE  /\ Head(s) \in STRING /\ u \in Seq(STRING)
           /\ \A x : Queued(s, x) <=> x = Head(s) \/ Queued(u, x)
<1>1. /\ Len(s) \in Nat \ {0} /\ DOMAIN s = 1..Len(s) /\ DOMAIN u = 1..(Len(s) - 1) /\ Head(s) = s[1]
      /\ \A k \in 1..(Len(s) - 1) : u[k] = s[k + 1]
  OBVIOUS
<1>2. ASSUME NEW k \in DOMAIN s PROVE s[k] = Head(s) \/ \E l \in DOMAIN u : u[l] = s[k]
  <2>1. CASE k = 1
    BY <1>1, <2>1
  <2>2. CASE k # 1
    <3>1. k - 1 \in 1..(Len(s) - 1) /\ (k - 1) + 1 = k
      BY <1>1, <2>2
    <3> QED
      BY <1>1, <3>1
  <2> QED
    BY <2>1, <2>2
<1>3. ASSUME NEW k \in DOMAIN u PROVE \E l \in DOMAIN s : s[l] = u[k]
  <2>1. k + 1 \in 1..Len(s)
    BY <1>1
  <2> QED
    BY <1>1, <2>1
<1>4. Head(s) \in STRING /\ u \in Seq(STRING) /\ 1 \in DOMAIN s
  BY <1>1
<1>5. ASSUME NEW x PROVE Queued(s, x) <=> x = Head(s) \/ Queued(u, x)
  <2>1. Queued(s, x) => x = Head(s) \/ Queued(u, x)
    BY <1>2 DEF Queued
  <2>2. s[1] = Head(s)
    BY <1>1
  <2>3. x = Head(s) => Queued(s, x)
    BY <1>4, <2>2, Zenon DEF Queued
  <2>4. Queued(u, x) => Queued(s, x)
    BY <1>3 DEF Queued
  <2> QED
    BY <2>1, <2>3, <2>4
<1> QED
  BY <1>4, <1>5

\* With no octo body at work no tentacle is ahead of a walked step.
LEMMA NothingHangs ==
    ASSUME NEW r, Flows!RunHolds(r), r.node = "none"
    PROVE  r.bodies = << >> /\ Flows!Tentacles(r, Len(r.trace) + 1) = {}
  BY DEF Flows!RunHolds, Flows!Attached, Flows!Staffed

\* The head of the queue is dropped: it hangs in the air, or was walked often.
LEMMA SkippedHolds ==
    ASSUME NEW r, Flows!RunHolds(r), r.node = "none", r.queue # << >>,
           Head(r.queue) \notin Flows!Nodes(r.wiring) \/ r.visits[Head(r.queue)] >= MaxVisits
    PROVE  Flows!RunHolds([r EXCEPT !.queue = Tail(@)])
<1> DEFINE q == [r EXCEPT !.queue = Tail(@)]
           u == Tail(r.queue)
<1>1. r \in Flows!FlowRun /\ Flows!Counted(r) /\ Flows!Followed(r) /\ Flows!Attached(r) /\ Flows!Staffed(r) /\ Flows!Responded(r)
  BY DEF Flows!RunHolds
<1>2. r.queue \in Seq(STRING) /\ r.trace \in Seq(Flows!FlowStep)
  BY <1>1, FlowRunIs
<1> HIDE DEF u
<1>3. /\ u \in Seq(STRING) /\ \A k \in DOMAIN u : \E l \in DOMAIN r.queue : r.queue[l] = u[k]
      /\ \A k \in DOMAIN r.queue : r.queue[k] = Head(r.queue) \/ \E l \in DOMAIN u : u[l] = r.queue[k]
  <2>1. u \in Seq(STRING) /\ \A x : Queued(r.queue, x) <=> x = Head(r.queue) \/ Queued(u, x)
    BY <1>2, HeadAndTail DEF u
  <2> QED
    BY <2>1 DEF Queued
<1>4. q = [r EXCEPT !.queue = u]
  BY DEF u
<1> HIDE DEF q
<1>5. /\ q \in Flows!FlowRun /\ q.wiring = r.wiring /\ q.node = r.node /\ q.steps = r.steps
      /\ q.visits = r.visits /\ q.bodies = r.bodies /\ q.trace = r.trace /\ q.response = r.response /\ q.over = r.over
      /\ q.queue = u
  <2>1. PICK V, O, Q, T : FieldsAre(V, O, Q, T)
    BY FlowRunIsRecord
  <2>2. u \in Q
    BY <1>3, <2>1 DEF FieldsAre
  <2> QED
    BY <1>1, <1>4, <2>1, <2>2 DEF FieldsAre
<1>6. /\ Flows!Walked(q) = Flows!Walked(r) /\ \A n : Flows!Visits(q, n) = Flows!Visits(r, n)
      /\ \A i : Flows!Tentacles(q, i) = Flows!Tentacles(r, i) /\ Flows!Own(q, i) = Flows!Own(r, i)
      /\ \A m : Flows!Reached(q, m) <=> Flows!Reached(r, m)
  BY <1>5, SameSteps
<1>7. Flows!Counted(q)
  BY <1>1, <1>5, <1>6 DEF Flows!Counted
<1>8. Flows!Followed(q)
  <2>1. \A k \in DOMAIN q.queue : Flows!Reached(q, q.queue[k])
    BY <1>1, <1>3, <1>5, <1>6 DEF Flows!Followed
  <2>2. ASSUME NEW m \in Flows!Nodes(r.wiring), m = Head(r.queue) PROVE Flows!Visits(r, m) # {}
    <3>1. r.visits[m] >= MaxVisits /\ r.visits[m] = Flows!Cardinality(Flows!Visits(r, m)) + 0
      <4>1. m # "none"
        BY <1>1, FlowRunIs, DrawnNodes
      <4> QED
        BY <1>1, <2>2, <4>1 DEF Flows!Counted
    <3>2. Cardinality(Flows!Visits(r, m)) \in Nat /\ Flows!Cardinality(Flows!Visits(r, m)) = Cardinality(Flows!Visits(r, m))
      BY <1>2, WalkedIs, FlowCardinality
    <3>3. Cardinality(Flows!Visits(r, m)) # 0
      BY <3>1, <3>2, FlowAssumption
    <3> QED
      BY <3>3, FS_EmptySet
  <2>3. \A m \in Flows!Nodes(q.wiring) : Flows!Reached(q, m) =>
            Flows!Visits(q, m) # {} \/ q.node = m \/ \E k \in DOMAIN q.queue : q.queue[k] = m
    BY <1>1, <1>3, <1>5, <1>6, <2>2 DEF Flows!Followed
  <2> QED
    BY <1>1, <1>5, <1>6, <2>1, <2>3 DEF Flows!Followed
<1>9. Flows!Attached(q) /\ Flows!Staffed(q) /\ Flows!Responded(q)
  BY <1>1, <1>5, <1>6 DEF Flows!Attached, Flows!Staffed, Flows!Responded
<1> QED
  BY <1>5, <1>7, <1>8, <1>9 DEF Flows!RunHolds, q

\* The head of the queue goes to work.
Staff(r) == IF Flows!Kind(r.wiring, Head(r.queue)) = "octo" THEN << Flows!NewBody >> ELSE << >>

LEMMA PoppedHolds ==
    ASSUME NEW r, Flows!RunHolds(r), r.node = "none", r.queue # << >>, ~r.over, r.steps < MaxSteps,
           Head(r.queue) \in Flows!Nodes(r.wiring), ~(r.visits[Head(r.queue)] >= MaxVisits)
    PROVE  Flows!RunHolds([r EXCEPT !.queue = Tail(@), !.node = Head(r.queue), !.steps = @ + 1,
                                    !.visits[Head(r.queue)] = @ + 1, !.bodies = Staff(r)])
<1> DEFINE n == Head(r.queue)
           q == [r EXCEPT !.queue = Tail(@), !.node = Head(r.queue), !.steps = @ + 1, !.visits[Head(r.queue)] = @ + 1,
                          !.bodies = Staff(r)]
           staff == Staff(r)
           u == Tail(r.queue)
           w == r.wiring
           visits == [r.visits EXCEPT ![n] = @ + 1]
<1> HIDE DEF u, n, w, visits, staff
<1>1. r \in Flows!FlowRun /\ Flows!Counted(r) /\ Flows!Followed(r) /\ Flows!Attached(r) /\ Flows!Staffed(r) /\ Flows!Responded(r)
  BY DEF Flows!RunHolds
<1>2. /\ r.queue \in Seq(STRING) /\ r.trace \in Seq(Flows!FlowStep) /\ w \in Flows!Drawings /\ r.steps \in Nat
      /\ n \in Flows!Nodes(w) /\ n \in Flows!Names /\ n # "none"
  BY <1>1, FlowRunIs, DrawnNodes DEF w, n
<1>3. /\ u \in Seq(STRING) /\ \A k \in DOMAIN u : \E l \in DOMAIN r.queue : r.queue[l] = u[k]
      /\ \A k \in DOMAIN r.queue : r.queue[k] = n \/ \E l \in DOMAIN u : u[l] = r.queue[k]
      /\ \E k \in DOMAIN r.queue : r.queue[k] = n
  <2>1. u \in Seq(STRING) /\ \A x : Queued(r.queue, x) <=> x = n \/ Queued(u, x)
    BY <1>2, HeadAndTail DEF u, n
  <2> QED
    BY <2>1 DEF Queued
<1>4. /\ visits \in [Flows!Nodes(w) -> 0..MaxVisits]
      /\ \A m \in Flows!Nodes(w) : visits[m] = r.visits[m] + (IF m = n THEN 1 ELSE 0)
  <2>1. r.visits \in [Flows!Nodes(w) -> 0..MaxVisits] /\ MaxVisits \in Nat
    BY <1>1, FlowAssumption DEF Flows!Counted, w
  <2>2. ~(r.visits[n] >= MaxVisits)
    BY DEF n
  <2>3. r.visits[n] + 1 \in 0..MaxVisits
    BY <1>2, <2>1, <2>2
  <2> QED
    BY <1>2, <2>1, <2>3 DEF visits
<1>5. q = [r EXCEPT !.queue = u, !.node = n, !.steps = r.steps + 1, !.visits = visits, !.bodies = staff]
  BY <1>1, <1>2 DEF u, n, visits, staff, Flows!FlowRun
<1>12. /\ staff \in Seq(Flows!Body) /\ (staff # << >> <=> Flows!Kind(w, n) = "octo")
       /\ DOMAIN staff \subseteq {1} /\ \A b \in DOMAIN staff : staff[b] = Flows!NewBody
  <2>1. Flows!NewBody \in Flows!Body /\ << >> \in Seq(Flows!Body)
    BY NewBodyIs, SequencesGrow
  <2>2. staff = IF Flows!Kind(w, n) = "octo" THEN << Flows!NewBody >> ELSE << >>
    BY DEF staff, Staff, w, n
  <2> QED
    BY <2>1, <2>2
<1> HIDE DEF q
<1>6. /\ q \in Flows!FlowRun /\ q.wiring = w /\ q.node = n /\ q.steps = r.steps + 1
      /\ q.visits = visits /\ q.bodies = staff /\ q.trace = r.trace /\ q.response = r.response /\ q.over = r.over
      /\ q.queue = u
  <2>1. PICK V, O, Q, T : FieldsAre(V, O, Q, T)
    BY FlowRunIsRecord
  <2>2. u \in Q /\ visits \in V /\ staff \in O
    BY <1>2, <1>3, <1>4, <1>12, <2>1 DEF FieldsAre
  <2>3. r.steps + 1 \in Nat
    BY <1>2
  <2> QED
    BY <1>1, <1>2, <1>5, <2>1, <2>2, <2>3 DEF w, FieldsAre
<1>7. /\ Flows!Walked(q) = Flows!Walked(r) /\ \A m : Flows!Visits(q, m) = Flows!Visits(r, m)
      /\ \A i : Flows!Tentacles(q, i) = Flows!Tentacles(r, i) /\ Flows!Own(q, i) = Flows!Own(r, i)
      /\ \A m : Flows!Reached(q, m) <=> Flows!Reached(r, m)
  BY <1>6, SameSteps DEF w
<1>8. Flows!Counted(q)
  <2>1. \A m \in Flows!Nodes(w) : m # "none"
    BY <1>2, DrawnNodes
  <2>2. /\ r.steps = Flows!Cardinality(Flows!Walked(r)) + 0
        /\ \A m \in Flows!Nodes(w) : r.visits[m] = Flows!Cardinality(Flows!Visits(r, m)) + 0
    BY <1>1, <2>1 DEF Flows!Counted, w
  <2>3. Cardinality(Flows!Walked(r)) \in Nat /\ \A m : Cardinality(Flows!Visits(r, m)) \in Nat
    BY <1>2, WalkedIs
  <2>4. q.steps = Flows!Cardinality(Flows!Walked(q)) + 1 /\ q.steps <= MaxSteps
    BY <1>2, <1>6, <1>7, <2>2, <2>3, FlowCardinality, FlowAssumption
  <2>5. \A m \in Flows!Nodes(w) : q.visits[m] = Flows!Cardinality(Flows!Visits(q, m)) + (IF q.node = m THEN 1 ELSE 0)
    BY <1>4, <1>6, <1>7, <2>2, <2>3, FlowCardinality
  <2> QED
    BY <1>2, <1>4, <1>6, <2>4, <2>5 DEF Flows!Counted
<1>9. Flows!Followed(q)
  <2>1. \A k \in DOMAIN q.queue : Flows!Reached(q, q.queue[k])
    BY <1>1, <1>3, <1>6, <1>7 DEF Flows!Followed
  <2>2. q.node \in Flows!Nodes(w) /\ Flows!Reached(q, q.node)
    BY <1>1, <1>2, <1>3, <1>6, <1>7 DEF Flows!Followed
  <2>3. \A m \in Flows!Nodes(q.wiring) : Flows!Reached(q, m) =>
            Flows!Visits(q, m) # {} \/ q.node = m \/ \E k \in DOMAIN q.queue : q.queue[k] = m
    <3>1. \A m \in Flows!Nodes(w) : m # r.node
      BY <1>2, DrawnNodes
    <3> QED
      BY <1>1, <1>3, <1>6, <1>7, <3>1 DEF Flows!Followed, w
  <2>4. \A i \in Flows!Walked(q) :
          /\ q.trace[i].node \in Flows!Nodes(q.wiring)
          /\ \/ q.trace[i].node = Flows!Trigger(q.wiring)
             \/ \E j \in Flows!Walked(q) :
                    j < i /\ Flows!LeadsTo(q.wiring, q.trace[j].node, q.trace[j].branch, q.trace[i].node)
    BY <1>1, <1>6, <1>7 DEF Flows!Followed, w
  <2> QED
    BY <1>6, <2>1, <2>2, <2>3, <2>4 DEF Flows!Followed
<1>10. Flows!Attached(q) /\ Flows!Staffed(q)
  <2>1. Flows!Tentacles(q, Len(q.trace) + 1) = {} /\ Flows!Own(q, Len(q.trace) + 1) = {}
    BY <1>6, <1>7, NothingHangs DEF Flows!Own
  <2>2. Flows!Cardinality({}) = 0 /\ OctoCalls \in Nat
    BY FlowCardinality, FS_EmptySet, FlowAssumption
  <2>3. q.bodies # << >> => q.bodies[1] = Flows!NewBody
    BY <1>6, <1>12 DEF staff, Staff
  <2>4. Flows!Attached(q)
    BY <1>1, <1>6, <1>7, <2>1, <2>2, <2>3, NewBodyIs DEF Flows!Attached, w
  <2>5. Len(staff) \in Nat /\ \A b \in DOMAIN staff : ~(b < Len(staff))
    <3>1. staff = << >> \/ staff = << Flows!NewBody >>
      BY DEF staff, Staff
    <3> QED
      BY <3>1
  <2>6. \A b \in DOMAIN q.bodies : q.bodies[b] = Flows!NewBody /\ ~(b < Len(q.bodies))
    BY <1>6, <1>12, <2>5
  <2>7. DOMAIN Flows!NewBody.plan = {} /\ Flows!NewBody.plan = << >> /\ Flows!NewBody.called = 0
    BY NewBodyIs
  <2>8. q.bodies # << >> <=> q.node # "none" /\ Flows!Kind(q.wiring, q.node) = "octo"
    BY <1>2, <1>6, <1>12
  <2>9. 0 <= OctoCalls
    BY <2>2
  <2> QED
    BY <2>4, <2>6, <2>7, <2>8, <2>9 DEF Flows!Staffed
<1>11. Flows!Responded(q)
  BY <1>1, <1>6, <1>7 DEF Flows!Responded, w
<1> QED
  BY <1>6, <1>8, <1>9, <1>10, <1>11 DEF Flows!RunHolds, q

\* The bodies at work become others, each within its own limit.
LEMMA StaffHolds ==
    ASSUME NEW r, Flows!RunHolds(r), r.bodies # << >>, NEW bodies \in Seq(Flows!Body), bodies # << >>,
           bodies[1].called = r.bodies[1].called,
           \A b \in DOMAIN bodies :
              /\ bodies[b].called <= OctoCalls /\ (bodies[b].plan # << >> => bodies[b].called < OctoCalls)
              /\ b < Len(bodies) => bodies[b].plan # << >>
              /\ \A k \in DOMAIN bodies[b].plan : bodies[b].plan[k] \in Flows!Menu(r.wiring, r.node)
    PROVE  Flows!RunHolds([r EXCEPT !.bodies = bodies])
<1> DEFINE q == [r EXCEPT !.bodies = bodies]
<1>1. r \in Flows!FlowRun /\ Flows!Counted(r) /\ Flows!Followed(r) /\ Flows!Attached(r) /\ Flows!Staffed(r) /\ Flows!Responded(r)
  BY DEF Flows!RunHolds
<1>2. /\ q \in Flows!FlowRun /\ q.wiring = r.wiring /\ q.node = r.node /\ q.steps = r.steps
      /\ q.visits = r.visits /\ q.bodies = bodies /\ q.trace = r.trace /\ q.response = r.response
      /\ q.over = r.over /\ q.queue = r.queue
  <2>1. PICK V, O, Q, T : FieldsAre(V, O, Q, T)
    BY FlowRunIsRecord
  <2>2. bodies \in O
    BY <2>1 DEF FieldsAre
  <2> QED
    BY <1>1, <2>1, <2>2 DEF FieldsAre
<1> HIDE DEF q
<1>3. /\ Flows!Walked(q) = Flows!Walked(r) /\ \A m : Flows!Visits(q, m) = Flows!Visits(r, m)
      /\ \A i : Flows!Tentacles(q, i) = Flows!Tentacles(r, i) /\ Flows!Own(q, i) = Flows!Own(r, i)
      /\ \A m : Flows!Reached(q, m) <=> Flows!Reached(r, m)
  BY <1>2, SameSteps
<1>4. Flows!Counted(q) /\ Flows!Responded(q)
  BY <1>1, <1>2, <1>3 DEF Flows!Counted, Flows!Responded
<1>5. Flows!Followed(q)
  BY <1>1, <1>2, <1>3 DEF Flows!Followed
<1>6. Flows!Attached(q)
  BY <1>1, <1>2, <1>3 DEF Flows!Attached
<1>7. Flows!Staffed(q)
  BY <1>1, <1>2 DEF Flows!Staffed
<1> QED
  BY <1>2, <1>4, <1>5, <1>6, <1>7 DEF Flows!RunHolds, q

\* The body on top names tentacles.
Planned(r, plan) == [r EXCEPT !.bodies[Len(r.bodies)] = [Flows!Top(r) EXCEPT !.round = @ + 1, !.plan = plan]]

LEMMA PlannedHolds ==
    ASSUME NEW r, Flows!RunHolds(r), Flows!Thinks(r), Flows!Top(r).called < OctoCalls,
           NEW named \in 0..OctoCalls, NEW plan \in [1..named -> Flows!Menu(r.wiring, r.node)]
    PROVE  Flows!RunHolds(Planned(r, plan))
<1> DEFINE n == Len(r.bodies)
           menu == Flows!Menu(r.wiring, r.node)
           top == [Flows!Top(r) EXCEPT !.round = @ + 1, !.plan = plan]
           bodies == [r.bodies EXCEPT ![n] = top]
<1>1. r \in Flows!FlowRun /\ Flows!Staffed(r) /\ r.bodies # << >>
  BY DEF Flows!RunHolds, Flows!Thinks
<1>2. /\ n \in Nat \ {0} /\ n \in 1..n /\ DOMAIN r.bodies = 1..n /\ r.bodies \in Seq(Flows!Body)
      /\ Flows!Top(r) = r.bodies[n] /\ Flows!Top(r) \in Flows!Body
  BY <1>1, BodiesAre, FlowRunIs
<1> HIDE DEF menu
<1>3. plan \in Seq(menu) /\ \A k \in DOMAIN plan : plan[k] \in menu
  <2>1. plan \in [1..named -> menu] /\ named \in Nat
    BY FlowAssumption DEF menu
  <2> QED
    BY <2>1
<1>4. plan \in Seq(Flows!Names)
  <2>1. menu \subseteq Flows!Names
    BY <1>1, FlowRunIs, DrawnNodes DEF menu
  <2> QED
    BY <1>3, <2>1
<1>5. top \in Flows!Body /\ top.called = Flows!Top(r).called /\ top.plan = plan
  <2> DEFINE b == Flows!Top(r)
             o == [b EXCEPT !.round = @ + 1]
  <2>1. b \in Flows!Body
    BY <1>2
  <2> HIDE DEF b
  <2>2. o = [round |-> b.round + 1, called |-> b.called, plan |-> b.plan] /\ b.round \in Nat /\ b.called \in Nat
    BY <2>1 DEF Flows!Body
  <2>3. top = [o EXCEPT !.plan = plan]
    BY DEF b
  <2> HIDE DEF o, top
  <2>4. top = [round |-> b.round + 1, called |-> b.called, plan |-> plan]
    BY <2>2, <2>3
  <2> QED
    BY <1>4, <2>2, <2>4 DEF b, Flows!Body
<1> HIDE DEF top
<1>6. /\ bodies \in Seq(Flows!Body) /\ Len(bodies) = n /\ DOMAIN bodies = 1..n /\ bodies[n] = top
      /\ bodies # << >> /\ \A b \in 1..n : b # n => bodies[b] = r.bodies[b]
  BY <1>2, <1>5
<1>7. Flows!Top(r).called \in Nat /\ OctoCalls \in Nat
  BY <1>2, FlowAssumption DEF Flows!Body
<1> HIDE DEF bodies, n
<1>8. bodies[1].called = r.bodies[1].called
  <2>1. 1 \in 1..n
    BY <1>2
  <2> QED
    BY <1>2, <1>5, <1>6, <2>1
<1>9. ASSUME NEW b \in DOMAIN bodies
      PROVE  /\ bodies[b].called <= OctoCalls /\ (bodies[b].plan # << >> => bodies[b].called < OctoCalls)
             /\ b < Len(bodies) => bodies[b].plan # << >>
             /\ \A k \in DOMAIN bodies[b].plan : bodies[b].plan[k] \in Flows!Menu(r.wiring, r.node)
  <2>1. CASE b = n
    BY <1>2, <1>3, <1>5, <1>6, <1>7, <2>1 DEF menu
  <2>2. CASE b # n
    BY <1>1, <1>2, <1>6, <2>2 DEF Flows!Staffed, n
  <2> QED
    BY <2>1, <2>2
<1>10. Flows!RunHolds([r EXCEPT !.bodies = bodies])
  BY <1>1, <1>6, <1>8, <1>9, StaffHolds
<1> QED
  BY <1>10 DEF bodies, n, top, Planned

\* A tentacle is an octo: its body begins within the one that called it.
LEMMA NestedHolds ==
    ASSUME NEW r, Flows!RunHolds(r), r.bodies # << >>, ~Flows!Thinks(r)
    PROVE  Flows!RunHolds([r EXCEPT !.bodies = Append(@, Flows!NewBody)])
<1> DEFINE n == Len(r.bodies)
           bodies == Append(r.bodies, Flows!NewBody)
<1>1. r \in Flows!FlowRun /\ Flows!Staffed(r)
  BY DEF Flows!RunHolds
<1>2. /\ n \in Nat \ {0} /\ 1 \in 1..n /\ DOMAIN r.bodies = 1..n /\ r.bodies \in Seq(Flows!Body)
      /\ Flows!Top(r) = r.bodies[n] /\ r.bodies[n].plan # << >>
  BY <1>1, BodiesAre, FlowRunIs DEF Flows!Thinks
<1>3. /\ bodies \in Seq(Flows!Body) /\ Len(bodies) = n + 1 /\ DOMAIN bodies = 1..(n + 1) /\ bodies # << >>
      /\ bodies[n + 1] = Flows!NewBody /\ \A b \in 1..n : bodies[b] = r.bodies[b]
  BY <1>2, NewBodyIs
<1> HIDE DEF bodies, n
<1>4. ASSUME NEW b \in DOMAIN bodies
      PROVE  /\ bodies[b].called <= OctoCalls /\ (bodies[b].plan # << >> => bodies[b].called < OctoCalls)
             /\ b < Len(bodies) => bodies[b].plan # << >>
             /\ \A k \in DOMAIN bodies[b].plan : bodies[b].plan[k] \in Flows!Menu(r.wiring, r.node)
  <2>1. CASE b = n + 1
    <3>1. 0 <= OctoCalls /\ ~(n + 1 < n + 1)
      BY <1>2, FlowAssumption
    <3> QED
      BY <1>3, <2>1, <3>1, NewBodyIs
  <2>2. CASE b # n + 1
    <3>1. b \in 1..n /\ b \in DOMAIN r.bodies /\ bodies[b] = r.bodies[b] /\ (b = n \/ b < n)
      BY <1>2, <1>3, <2>2
    <3> QED
      BY <1>1, <1>2, <3>1 DEF Flows!Staffed, n
  <2> QED
    BY <2>1, <2>2
<1>5. Flows!RunHolds([r EXCEPT !.bodies = bodies])
  BY <1>2, <1>3, <1>4, StaffHolds
<1> QED
  BY <1>5 DEF bodies

\* A run begins at its trigger, with nothing walked.
LEMMA NewRunHolds ==
    ASSUME NEW a \in FlowAgents, NEW w \in Flows!Drawings
    PROVE  Flows!RunHolds(Flows!NewRun(a, w)) /\ Flows!NewRun(a, w).node = "none"
<1> DEFINE r == Flows!NewRun(a, w)
           start == Flows!Trigger(w)
           visits == [n \in Flows!Nodes(w) |-> 0]
           queue == << start >>
           trace == << >>
<1>1. /\ start \in STRING /\ start \in Flows!Nodes(w) /\ "none" \notin Flows!Nodes(w)
      /\ MaxVisits \in Nat /\ OctoCalls \in Nat /\ MaxSteps \in Nat
  BY DrawnNodes, FlowAssumption
<1>2. visits \in [Flows!Nodes(w) -> 0..MaxVisits] /\ \A n \in Flows!Nodes(w) : visits[n] = 0
  BY <1>1
<1> HIDE DEF start, visits
<1>3. queue \in Seq(STRING) /\ DOMAIN queue = 1..1 /\ queue[1] = start
  BY <1>1
<1>4. trace \in Seq(Flows!FlowStep) /\ DOMAIN trace = {} /\ Len(trace) = 0 /\ << >> \in Seq(Flows!Names)
  BY SequencesGrow
<1>5. << >> \in Seq(Flows!Body)
  BY SequencesGrow
<1>6. r = [agent |-> a, wiring |-> w, queue |-> queue, node |-> "none", steps |-> 0, visits |-> visits, trace |-> trace,
           response |-> "none", bodies |-> << >>, over |-> FALSE]
  BY Zenon DEF Flows!NewRun, start, visits
<1> HIDE DEF queue, trace, r
<1>7. r \in Flows!FlowRun
  <2>1. PICK V, O, Q, T : FieldsAre(V, O, Q, T)
    BY FlowRunIsRecord
  <2>2. queue \in Q /\ trace \in T /\ << >> \in O /\ visits \in V /\ "none" \in Flows!Names
    BY <1>2, <1>3, <1>4, <1>5, <2>1 DEF Flows!Names, FieldsAre
  <2> QED
    BY <1>6, <2>1, <2>2 DEF FieldsAre
<1>8. /\ r.wiring = w /\ r.queue = queue /\ r.node = "none" /\ r.steps = 0 /\ r.visits = visits /\ r.trace = trace
      /\ r.bodies = << >> /\ ~r.over
  BY <1>6
<1>9. /\ Flows!Walked(r) = {} /\ \A n : Flows!Visits(r, n) = {}
      /\ Flows!Tentacles(r, Len(r.trace) + 1) = {} /\ \A m : Flows!Reached(r, m) <=> m = start
  <2>1. Flows!Walked(r) = {}
    BY <1>4, <1>8 DEF Flows!Walked
  <2>2. \A n : Flows!Visits(r, n) = {}
    BY <2>1 DEF Flows!Visits
  <2>3. 1..((Len(r.trace) + 1) - 1) = {}
    BY <1>4, <1>8
  <2>4. Flows!Tentacles(r, Len(r.trace) + 1) = {}
    BY <2>3 DEF Flows!Tentacles
  <2> QED
    BY <1>8, <2>1, <2>2, <2>4 DEF Flows!Reached, start
<1>10. Flows!Cardinality({}) = 0
  BY FlowCardinality, FS_EmptySet
<1>11. Flows!Counted(r)
  <2>1. r.steps = Flows!Cardinality(Flows!Walked(r)) + 0 /\ r.steps <= MaxSteps
    BY <1>1, <1>8, <1>9, <1>10
  <2>2. ASSUME NEW n \in Flows!Nodes(w)
        PROVE  r.visits[n] = Flows!Cardinality(Flows!Visits(r, n)) + (IF r.node = n THEN 1 ELSE 0)
    <3>1. r.node # n /\ r.visits[n] = 0 /\ Flows!Cardinality(Flows!Visits(r, n)) = 0
      BY <1>1, <1>2, <1>8, <1>9, <1>10
    <3> QED
      BY <3>1
  <2> QED
    BY <1>2, <1>8, <2>1, <2>2 DEF Flows!Counted
<1>12. Flows!Followed(r)
  BY <1>3, <1>8, <1>9 DEF Flows!Followed
<1>13. Flows!Attached(r) /\ Flows!Staffed(r)
  BY <1>8, <1>9 DEF Flows!Attached, Flows!Staffed
<1>14. Flows!Responded(r)
  BY <1>8, <1>9 DEF Flows!Responded
<1> QED
  BY <1>7, <1>8, <1>11, <1>12, <1>13, <1>14 DEF Flows!RunHolds, r

\* What a run is once its walk is over, whatever is made of its answer.
Wired(e) ==
    /\ Flows!EveryStepWasDrawn(e) /\ Flows!NothingWasLeft(e)
    /\ Flows!Cardinality(Flows!Walked(e)) <= MaxSteps
    /\ \A n \in Flows!Nodes(e.wiring) : Flows!Cardinality(Flows!Visits(e, n)) <= MaxVisits

\* A run whose walk is over was as its drawing says.
LEMMA OverIsWired ==
    ASSUME NEW r, Flows!RunHolds(r), Flows!WalkIsOver(r), NEW e, e.trace = r.trace, e.wiring = r.wiring,
           r.response # "none" => e.response = r.response
    PROVE  Wired(e)
<1>1. r \in Flows!FlowRun /\ Flows!Counted(r) /\ Flows!Followed(r) /\ Flows!Attached(r) /\ Flows!Staffed(r) /\ Flows!Responded(r)
  BY DEF Flows!RunHolds
<1>2. r.node = "none" /\ (r.over \/ r.queue = << >> \/ r.steps >= MaxSteps)
  BY DEF Flows!WalkIsOver
<1>3. /\ r.trace \in Seq(Flows!FlowStep) /\ r.wiring \in Flows!Drawings /\ r.steps \in Nat /\ MaxSteps \in Nat
      /\ \A n \in Flows!Nodes(r.wiring) : n # "none"
  BY <1>1, FlowRunIs, DrawnNodes, FlowAssumption
<1>4. /\ Flows!Walked(e) = Flows!Walked(r) /\ \A m : Flows!Visits(e, m) = Flows!Visits(r, m)
      /\ \A i : Flows!Tentacles(e, i) = Flows!Tentacles(r, i) /\ Flows!Own(e, i) = Flows!Own(r, i)
      /\ \A m : Flows!Reached(e, m) <=> Flows!Reached(r, m)
  BY SameSteps
<1>5. /\ Cardinality(Flows!Walked(r)) \in Nat /\ \A m : Cardinality(Flows!Visits(r, m)) \in Nat
      /\ \A S : Flows!Cardinality(S) = Cardinality(S)
  BY <1>3, WalkedIs, FlowCardinality
<1>6. Flows!EveryStepWasDrawn(e)
  <2>1. Flows!Tentacles(e, Len(e.trace) + 1) = {}
    BY <1>2, <1>4, NothingHangs
  <2> QED
    BY <1>1, <1>4, <2>1 DEF Flows!EveryStepWasDrawn, Flows!Followed, Flows!Attached
<1>7. Flows!NothingWasLeft(e)
  <2> DEFINE last == Len(e.trace)
             responded == {i \in Flows!Walked(e) : Flows!Kind(e.wiring, e.trace[i].node) = "respond"}
  <2>1. responded \subseteq {last}
    BY <1>1, <1>4 DEF Flows!Responded
  <2>2. ASSUME responded # {} PROVE e.response = e.trace[last].node
    <3>1. r.over
      BY <1>1, <1>4, <2>2 DEF Flows!Responded
    <3>2. last \in Flows!Walked(r) /\ r.response = r.trace[last].node
      BY <1>1, <3>1 DEF Flows!Responded
    <3>3. r.response \in Flows!Nodes(r.wiring)
      BY <1>1, <3>2 DEF Flows!Followed
    <3> QED
      BY <1>3, <3>2, <3>3
  <2>3. ASSUME responded = {}, Flows!Cardinality(Flows!Walked(e)) < MaxSteps, NEW m \in Flows!Nodes(e.wiring),
               Flows!Reached(e, m)
        PROVE  Flows!Visits(e, m) # {}
    <3>1. ~r.over
      BY <1>1, <1>4, <2>3 DEF Flows!Responded
    <3>2. r.steps < MaxSteps
      BY <1>1, <1>2, <1>3, <1>4, <1>5, <2>3 DEF Flows!Counted
    <3>3. r.queue = << >> /\ DOMAIN r.queue = {}
      BY <1>2, <1>3, <3>1, <3>2
    <3> QED
      BY <1>1, <1>2, <1>3, <1>4, <2>3, <3>3 DEF Flows!Followed
  <2> QED
    BY <2>1, <2>2, <2>3 DEF Flows!NothingWasLeft
<1>8. Flows!Cardinality(Flows!Walked(e)) <= MaxSteps
  BY <1>1, <1>2, <1>3, <1>4, <1>5 DEF Flows!Counted
<1>9. \A n \in Flows!Nodes(e.wiring) : Flows!Cardinality(Flows!Visits(e, n)) <= MaxVisits
  <2> SUFFICES ASSUME NEW n \in Flows!Nodes(r.wiring) PROVE Flows!Cardinality(Flows!Visits(r, n)) <= MaxVisits
    BY <1>4
  <2>1. r.visits[n] \in 0..MaxVisits /\ r.visits[n] = Flows!Cardinality(Flows!Visits(r, n)) + 0
    BY <1>1, <1>2, <1>3 DEF Flows!Counted
  <2> QED
    BY <1>5, <2>1
<1> QED
  BY <1>6, <1>7, <1>8, <1>9 DEF Wired

\* No run is in progress at first.
LEMMA FlowsInitially == Flows!Init => Flows!IInv
<1> SUFFICES ASSUME Flows!Init PROVE Flows!IInv
  OBVIOUS
<1>1. v1 \in [FlowAgents -> Flows!Drawings]
  BY DEF Flows!Init, Flows!Drawings
<1>2. v2 = << >> /\ v2 \in Seq(Flows!FlowRun) /\ Len(v2) = 0 /\ DOMAIN v2 = {} /\ v6 = Flows!NoRun
  BY SequencesGrow DEF Flows!Init
<1>3. MaxDepth \in Nat /\ Flows!Depth = 0 /\ 1..(0 - 1) = {}
  BY <1>2, FlowAssumption DEF Flows!Depth
<1>4. Flows!RunsAsWired
  BY <1>2, <1>3 DEF Flows!RunsAsWired
<1> QED
  BY <1>1, <1>2, <1>3, <1>4 DEF Flows!IInv

\* The run on top, and the rest below it.
LEMMA StackIs ==
    ASSUME Flows!IInv
    PROVE  /\ v2 \in Seq(Flows!FlowRun) /\ Flows!Depth = Len(v2) /\ Len(v2) \in Nat /\ DOMAIN v2 = 1..Len(v2)
           /\ Len(v2) <= MaxDepth + 1 /\ MaxDepth \in Nat /\ v1 \in [FlowAgents -> Flows!Drawings]
           /\ \A d \in 1..Len(v2) : Flows!RunHolds(v2[d])
           /\ \A d \in 1..(Len(v2) - 1) : Flows!Waits(v2[d])
           /\ v2 # << >> => /\ Len(v2) \in 1..Len(v2) /\ Flows!Run = v2[Len(v2)] /\ Flows!RunHolds(Flows!Run)
                            /\ Flows!Run \in Flows!FlowRun
<1>1. /\ v2 \in Seq(Flows!FlowRun) /\ Flows!Depth = Len(v2) /\ Flows!Depth <= MaxDepth + 1
      /\ v1 \in [FlowAgents -> Flows!Drawings] /\ \A d \in DOMAIN v2 : Flows!RunHolds(v2[d])
      /\ \A d \in 1..(Flows!Depth - 1) : Flows!Waits(v2[d])
  BY DEF Flows!IInv, Flows!Depth
<1>2. Len(v2) \in Nat /\ DOMAIN v2 = 1..Len(v2) /\ (v2 # << >> => Len(v2) \in 1..Len(v2))
  BY <1>1
<1>3. v2 # << >> => Flows!Run = v2[Len(v2)] /\ Flows!RunHolds(Flows!Run) /\ Flows!Run \in Flows!FlowRun
  BY <1>1, <1>2 DEF Flows!Run, Flows!RunHolds
<1> QED
  BY <1>1, <1>2, <1>3, FlowAssumption

\* The run on top becomes another that holds.
LEMMA TopHolds ==
    ASSUME Flows!IInv, v2 # << >>, NEW r, Flows!RunHolds(r), Flows!Becomes(r), v1' = v1, v6' = v6
    PROVE  Flows!IInv'
<1>1. /\ v2 \in Seq(Flows!FlowRun) /\ Flows!Depth = Len(v2) /\ Len(v2) \in Nat /\ Len(v2) \in 1..Len(v2)
      /\ Len(v2) <= MaxDepth + 1 /\ v1 \in [FlowAgents -> Flows!Drawings]
      /\ \A d \in 1..Len(v2) : Flows!RunHolds(v2[d])
      /\ \A d \in 1..(Len(v2) - 1) : Flows!Waits(v2[d])
  BY StackIs
<1>2. v2' = [v2 EXCEPT ![Len(v2)] = r] /\ r \in Flows!FlowRun
  BY <1>1 DEF Flows!Becomes, Flows!RunHolds
<1>3. /\ v2' \in Seq(Flows!FlowRun) /\ Len(v2') = Len(v2) /\ DOMAIN v2' = 1..Len(v2)
      /\ v2'[Len(v2)] = r /\ \A d \in 1..Len(v2) : d # Len(v2) => v2'[d] = v2[d]
  BY SMTT(40), <1>1, <1>2
<1>4. Flows!Depth' = Len(v2)
  BY <1>3 DEF Flows!Depth
<1>5. Flows!RunsAsWired'
  BY <1>1, <1>4 DEF Flows!IInv, Flows!RunsAsWired
<1>6. \A d \in DOMAIN v2' : Flows!RunHolds(v2'[d])
  BY SMTT(40), <1>1, <1>3
<1>7. \A d \in 1..(Len(v2) - 1) : Flows!Waits(v2'[d])
  <2> SUFFICES ASSUME NEW d \in 1..(Len(v2) - 1) PROVE v2'[d] = v2[d]
    BY <1>1
  <2>1. d \in 1..Len(v2) /\ d # Len(v2)
    BY <1>1
  <2> QED
    BY ZenonT(60), <1>3, <2>1
<1> QED
  BY <1>1, <1>3, <1>4, <1>5, <1>6, <1>7 DEF Flows!IInv

\* A run begins, on top of the one that called it if any.
LEMMA PushedHolds ==
    ASSUME Flows!IInv, NEW a \in FlowAgents, v2' = Append(v2, Flows!NewRun(a, v1[a])), Len(v2) <= MaxDepth,
           v2 # << >> => Flows!Waits(Flows!Run),
           v1' = v1, v6' = v6 \/ v6' = Flows!NoRun
    PROVE  Flows!IInv'
<1> DEFINE r == Flows!NewRun(a, v1[a])
<1> HIDE DEF r
<1>1. /\ v2 \in Seq(Flows!FlowRun) /\ Flows!Depth = Len(v2) /\ Len(v2) \in Nat
      /\ MaxDepth \in Nat /\ v1 \in [FlowAgents -> Flows!Drawings]
      /\ \A d \in 1..Len(v2) : Flows!RunHolds(v2[d])
      /\ \A d \in 1..(Len(v2) - 1) : Flows!Waits(v2[d])
      /\ v2 # << >> => Flows!Run = v2[Len(v2)]
  BY StackIs
<1>2. Flows!RunHolds(r) /\ r \in Flows!FlowRun
  BY <1>1, NewRunHolds DEF r, Flows!RunHolds
<1>3. /\ v2' \in Seq(Flows!FlowRun) /\ Len(v2') = Len(v2) + 1 /\ DOMAIN v2' = 1..(Len(v2) + 1)
      /\ v2'[Len(v2) + 1] = r /\ \A d \in 1..Len(v2) : v2'[d] = v2[d]
  <2>1. v2' = Append(v2, r)
    BY DEF r
  <2> QED
    BY <1>1, <1>2, <2>1
<1>4. Flows!Depth' = Len(v2) + 1
  BY <1>3 DEF Flows!Depth
<1>5. Flows!RunsAsWired'
  BY <1>1, <1>4 DEF Flows!IInv, Flows!RunsAsWired
<1>6. \A d \in DOMAIN v2' : Flows!RunHolds(v2'[d])
  BY <1>1, <1>2, <1>3
<1>7. \A d \in 1..((Len(v2) + 1) - 1) : Flows!Waits(v2'[d])
  <2> SUFFICES ASSUME NEW d \in 1..Len(v2)
               PROVE  Flows!Waits(v2[d])
    BY <1>1, <1>3
  <2>1. CASE d = Len(v2)
    BY <1>1, <2>1
  <2>2. CASE d # Len(v2)
    <3>1. d \in 1..(Len(v2) - 1)
      BY <1>1, <2>2
    <3> QED
      BY SMTT(40), <1>1, <3>1
  <2> QED
    BY <2>1, <2>2
<1> QED
  BY <1>1, <1>3, <1>4, <1>5, <1>6, <1>7 DEF Flows!IInv

\* A run ends: it was as its drawing says, and the one that called it goes on.
LEMMA EndedHolds == Flows!IInv /\ Flows!Ends => Flows!IInv'
<1> SUFFICES ASSUME Flows!IInv, Flows!Ends PROVE Flows!IInv'
  OBVIOUS
<1> DEFINE r == Flows!Run
           answer == IF r.response = "none" THEN "summary" ELSE r.response
           below == v2[Len(v2) - 1]
           landed == Flows!Landed(below, "none", Flows!Pending(below))
<1>1. /\ v2 # << >> /\ Flows!WalkIsOver(r) /\ v6' = [r EXCEPT !.response = answer] /\ v1' = v1
      /\ v2' = IF Flows!Depth = 1 THEN << >>
               ELSE [SubSeq(v2, 1, Flows!Depth - 1) EXCEPT ![Flows!Depth - 1] =
                        Flows!Landed(v2[Flows!Depth - 1], "none", Flows!Pending(v2[Flows!Depth - 1]))]
  BY DEF Flows!Ends
<1> HIDE DEF r
<1>2. /\ v2 \in Seq(Flows!FlowRun) /\ Flows!Depth = Len(v2) /\ Len(v2) \in Nat /\ Len(v2) \in 1..Len(v2)
      /\ Len(v2) <= MaxDepth + 1 /\ MaxDepth \in Nat /\ v1 \in [FlowAgents -> Flows!Drawings]
      /\ \A d \in 1..Len(v2) : Flows!RunHolds(v2[d])
      /\ \A d \in 1..(Len(v2) - 1) : Flows!Waits(v2[d])
      /\ Flows!RunHolds(r) /\ r \in Flows!FlowRun
  BY <1>1, StackIs DEF r
<1>3. Wired(v6')
  <2> DEFINE e == [r EXCEPT !.response = answer]
  <2>1. e.trace = r.trace /\ e.wiring = r.wiring /\ (r.response # "none" => e.response = r.response)
    BY <1>2 DEF Flows!FlowRun
  <2> HIDE DEF e
  <2>2. Wired(e)
    BY <1>1, <1>2, <2>1, OverIsWired
  <2> QED
    BY <1>1, <2>2 DEF e
<1>4. CASE Len(v2) = 1
  <2>1. v2' = << >> /\ v2' \in Seq(Flows!FlowRun) /\ Len(v2') = 0 /\ DOMAIN v2' = {}
    BY <1>1, <1>2, <1>4, SequencesGrow
  <2>2. Flows!Depth' = 0 /\ 1..(0 - 1) = {}
    BY <2>1 DEF Flows!Depth
  <2>3. Flows!RunsAsWired'
    BY <1>2, <1>3, <2>2 DEF Flows!RunsAsWired, Wired
  <2> QED
    BY <1>1, <1>2, <2>1, <2>2, <2>3 DEF Flows!IInv
<1>5. CASE Len(v2) # 1
  <2> DEFINE m == Len(v2) - 1
             front == SubSeq(v2, 1, Flows!Depth - 1)
  <2>1. m \in 1..Len(v2) /\ m \in 1..(Len(v2) - 1) /\ m \in Nat /\ m # 0
    BY <1>2, <1>5
  <2>2. front \in Seq(Flows!FlowRun) /\ Len(front) = m /\ \A d \in 1..m : front[d] = v2[d]
    BY <1>2, <2>1 DEF m
  <2> HIDE DEF m, front, landed
  <2>3. Flows!RunHolds(landed) /\ landed \in Flows!FlowRun
    <3>1. /\ below = v2[m] /\ Flows!RunHolds(below) /\ below.node # "none" /\ ~Flows!Thinks(below)
          /\ Flows!Kind(below.wiring, Flows!Pending(below)) = "call"
      BY <1>2, <2>1 DEF m, Flows!Waits
    <3>2. Flows!Pending(below) \in Flows!Names
      BY <3>1, PendingIs DEF Flows!RunHolds
    <3> HIDE DEF below
    <3>3. Flows!RunHolds(Flows!Landed(below, "none", Flows!Pending(below)))
      BY <3>1, <3>2, LandedHolds
    <3> QED
      BY <3>3 DEF landed, Flows!RunHolds
  <2>4. v2' = [front EXCEPT ![m] = landed]
    BY <1>1, <1>2, <1>5 DEF m, front, landed
  <2>5. /\ v2' \in Seq(Flows!FlowRun) /\ Len(v2') = m /\ DOMAIN v2' = 1..m
        /\ v2'[m] = landed /\ \A d \in 1..m : d # m => v2'[d] = v2[d]
    BY <2>1, <2>2, <2>3, <2>4
  <2>6. Flows!Depth' = m
    BY <2>5 DEF Flows!Depth
  <2>7. Flows!RunsAsWired'
    <3>1. m <= MaxDepth + 1
      BY <1>2 DEF m
    <3> QED
      BY <1>3, <2>6, <3>1 DEF Flows!RunsAsWired, Wired
  <2>8. \A d \in DOMAIN v2' : Flows!RunHolds(v2'[d])
    <3>1. \A d \in 1..m : d \in 1..Len(v2)
      BY <1>2 DEF m
    <3> QED
      BY <1>2, <2>3, <2>5, <3>1
  <2>9. \A d \in 1..(m - 1) : Flows!Waits(v2'[d])
    <3> SUFFICES ASSUME NEW d \in 1..(m - 1) PROVE v2'[d] = v2[d] /\ d \in 1..(Len(v2) - 1)
      BY <1>2
    <3>1. d \in 1..m /\ d # m /\ d \in 1..(Len(v2) - 1)
      BY <1>2, <2>1 DEF m
    <3> QED
      BY <2>5, <3>1
  <2>10. m <= MaxDepth + 1
    BY <1>2 DEF m
  <2> QED
    BY <1>1, <1>2, <2>5, <2>6, <2>7, <2>8, <2>9, <2>10 DEF Flows!IInv
<1> QED
  BY <1>4, <1>5

\* A node at work does its work.
LEMMA WorkHolds ==
    Flows!IInv /\ (Flows!Fetches \/ Flows!Branches \/ Flows!Composes \/ Flows!CallsAgent) => Flows!IInv'
<1> SUFFICES ASSUME Flows!IInv, Flows!Fetches \/ Flows!Branches \/ Flows!Composes \/ Flows!CallsAgent PROVE Flows!IInv'
  OBVIOUS
<1> DEFINE r == Flows!Run
           p == Flows!Pending(r)
<1> HIDE DEF r, p
<1>1. v2 # << >> /\ r.node # "none" /\ ~Flows!Thinks(r) /\ v1' = v1 /\ v6' = v6
  BY DEF Flows!Fetches, Flows!Branches, Flows!Composes, Flows!CallsAgent, Flows!Works, r
<1>2. Flows!RunHolds(r) /\ p \in Flows!Names /\ "none" \in Flows!Names
  BY <1>1, StackIs, PendingIs DEF r, p, Flows!Names, Flows!RunHolds
<1>3. ASSUME NEW branch \in {"none", "true", "false"}, NEW response \in Flows!Names,
             Flows!Kind(r.wiring, p) = "respond" => response = p, Flows!Becomes(Flows!Landed(r, branch, response))
      PROVE  Flows!IInv'
  <2>1. Flows!RunHolds(Flows!Landed(r, branch, response))
    BY <1>1, <1>2, <1>3, LandedHolds DEF p
  <2> QED
    BY <1>1, <1>3, <2>1, TopHolds
<1>4. CASE Flows!Fetches
  <2>1. Flows!Kind(r.wiring, p) # "respond" /\ Flows!Becomes(Flows!Landed(r, "none", "none"))
    BY <1>4 DEF Flows!Fetches, Flows!Works, r, p
  <2> QED
    BY <1>2, <1>3, <2>1
<1>5. CASE Flows!Branches
  <2>1. PICK b \in {"true", "false"} : Flows!Becomes(Flows!Landed(r, b, "none"))
    BY <1>5 DEF Flows!Branches, r
  <2>2. Flows!Kind(r.wiring, p) # "respond"
    BY <1>5 DEF Flows!Branches, Flows!Works, r, p
  <2> QED
    BY <1>2, <1>3, <2>1, <2>2
<1>6. CASE Flows!Composes
  <2>1. Flows!Becomes(Flows!Landed(r, "none", p))
    BY <1>6 DEF Flows!Composes, r, p
  <2> QED
    BY <1>2, <1>3, <2>1
<1>7. CASE Flows!CallsAgent
  <2>1. Flows!Kind(r.wiring, p) = "call"
    BY <1>7 DEF Flows!CallsAgent, Flows!Works, r, p
  <2> DEFINE a == r.wiring.calls[p]
  <2>2. \/ Flows!Becomes(Flows!Landed(r, "none", "none")) \/ Flows!Becomes(Flows!Landed(r, "none", p))
        \/ Flows!Depth <= MaxDepth /\ a \in FlowAgents /\ v2' = Append(v2, Flows!NewRun(a, v1[a]))
    BY <1>7 DEF Flows!CallsAgent, r, p
  <2> HIDE DEF a
  <2>3. CASE Flows!Depth <= MaxDepth /\ a \in FlowAgents /\ v2' = Append(v2, Flows!NewRun(a, v1[a]))
    <3>1. Len(v2) <= MaxDepth /\ Flows!Waits(Flows!Run)
      BY <1>1, <2>1, <2>3, StackIs DEF r, p, Flows!Waits
    <3> QED
      BY <1>1, <2>3, <3>1, PushedHolds
  <2> QED
    BY <1>2, <1>3, <2>1, <2>2, <2>3
<1> QED
  BY <1>4, <1>5, <1>6, <1>7

\* A node comes off the queue, and an octo body thinks.
LEMMA WalkHolds == Flows!IInv /\ (Flows!Pops \/ Flows!OctoThinks \/ Flows!OctoNests) => Flows!IInv'
<1> SUFFICES ASSUME Flows!IInv, Flows!Pops \/ Flows!OctoThinks \/ Flows!OctoNests PROVE Flows!IInv'
  BY SMTT(40)
<1> DEFINE r == Flows!Run
<1> HIDE DEF r
<1>1. v2 # << >> /\ v1' = v1 /\ v6' = v6
  BY DEF Flows!Pops, Flows!OctoThinks, Flows!OctoNests, Flows!Works
<1>2. Flows!RunHolds(r) /\ r \in Flows!FlowRun /\ r.steps \in Nat /\ r.node \in Flows!Names /\ MaxSteps \in Nat
  BY <1>1, StackIs, FlowRunIs, FlowAssumption DEF r
<1>3. CASE Flows!Pops
  <2>1. r.node = "none" /\ ~r.over /\ r.queue # << >> /\ r.steps < MaxSteps
    BY <1>2, <1>3 DEF Flows!Pops, Flows!WalkIsOver, r
  <2>2. \/ /\ Head(r.queue) \notin Flows!Nodes(r.wiring) \/ r.visits[Head(r.queue)] >= MaxVisits
           /\ Flows!Becomes([r EXCEPT !.queue = Tail(@)])
        \/ /\ Head(r.queue) \in Flows!Nodes(r.wiring) /\ ~(r.visits[Head(r.queue)] >= MaxVisits)
           /\ Flows!Becomes([r EXCEPT !.queue = Tail(@), !.node = Head(r.queue), !.steps = @ + 1,
                                      !.visits[Head(r.queue)] = @ + 1, !.bodies = Staff(r)])
    BY <1>3 DEF Flows!Pops, r, Staff
  <2>3. CASE /\ Head(r.queue) \notin Flows!Nodes(r.wiring) \/ r.visits[Head(r.queue)] >= MaxVisits
             /\ Flows!Becomes([r EXCEPT !.queue = Tail(@)])
    <3>1. Flows!RunHolds([r EXCEPT !.queue = Tail(@)])
      BY <1>2, <2>1, <2>3, SkippedHolds
    <3> QED
      BY <1>1, <2>3, <3>1, TopHolds
  <2>4. CASE /\ Head(r.queue) \in Flows!Nodes(r.wiring) /\ ~(r.visits[Head(r.queue)] >= MaxVisits)
             /\ Flows!Becomes([r EXCEPT !.queue = Tail(@), !.node = Head(r.queue), !.steps = @ + 1,
                                        !.visits[Head(r.queue)] = @ + 1, !.bodies = Staff(r)])
    <3>1. Flows!RunHolds([r EXCEPT !.queue = Tail(@), !.node = Head(r.queue), !.steps = @ + 1,
                                   !.visits[Head(r.queue)] = @ + 1, !.bodies = Staff(r)])
      BY <1>2, <2>1, <2>4, PoppedHolds
    <3> QED
      BY SMTT(40), <1>1, <2>4, <3>1, TopHolds
  <2> QED
    BY <2>2, <2>3, <2>4
<1>4. CASE Flows!OctoThinks
  <2>1. r.node # "none" /\ Flows!Thinks(r) /\ r.bodies # << >> /\ "none" \in Flows!Names
    BY ZenonT(60), <1>4 DEF Flows!OctoThinks, Flows!Thinks, r, Flows!Names
  <2>2. \/ Flows!Becomes(Flows!BodyEnds(r, "none"))
        \/ Flows!Becomes(Flows!BodyEnds(r, r.node))
        \/ \E named \in 0..OctoCalls : \E plan \in [1..named -> Flows!Menu(r.wiring, r.node)] :
              Flows!Top(r).called < OctoCalls /\ Flows!Becomes(Planned(r, plan))
    BY <1>4 DEF Flows!OctoThinks, r, Planned
  <2>3. ASSUME NEW response \in Flows!Names, Flows!Becomes(Flows!BodyEnds(r, response)) PROVE Flows!IInv'
    <3>1. Flows!RunHolds(Flows!BodyEnds(r, response))
      BY <1>2, <2>1, BodyEndsHolds
    <3> QED
      BY <1>1, <2>3, <3>1, TopHolds
  <2>4. ASSUME NEW named \in 0..OctoCalls, NEW plan \in [1..named -> Flows!Menu(r.wiring, r.node)],
               Flows!Top(r).called < OctoCalls, Flows!Becomes(Planned(r, plan))
        PROVE  Flows!IInv'
    <3>1. Flows!RunHolds(Planned(r, plan))
      BY <1>2, <2>1, <2>4, PlannedHolds
    <3> QED
      BY <1>1, <2>4, <3>1, TopHolds
  <2> QED
    BY ZenonT(60), <1>2, <2>1, <2>2, <2>3, <2>4
<1>5. CASE Flows!OctoNests
  <2>1. r.node # "none" /\ ~Flows!Thinks(r) /\ Flows!Kind(r.wiring, Flows!Pending(r)) = "octo"
    BY <1>5 DEF Flows!OctoNests, Flows!Works, r
  <2>2. Flows!Becomes([r EXCEPT !.bodies = Append(@, Flows!NewBody)]) \/ v2' = << >>
    BY <1>5 DEF Flows!OctoNests, r
  <2>3. CASE v2' = << >>
    <3>1. v2' \in Seq(Flows!FlowRun) /\ Len(v2') = 0 /\ DOMAIN v2' = {}
      BY <2>3, SequencesGrow
    <3>2. Flows!Depth' = 0 /\ 1..(0 - 1) = {} /\ 0 <= MaxDepth + 1
      BY <3>1, FlowAssumption DEF Flows!Depth
    <3>3. Flows!RunsAsWired'
      BY <1>1, <3>2 DEF Flows!IInv, Flows!RunsAsWired
    <3> QED
      BY <1>1, <3>1, <3>2, <3>3 DEF Flows!IInv
  <2>4. CASE Flows!Becomes([r EXCEPT !.bodies = Append(@, Flows!NewBody)])
    <3>1. r.bodies # << >>
      <4>1. Flows!Staffed(r) /\ (r.bodies = << >> => Flows!Pending(r) = r.node)
        BY <1>2 DEF Flows!RunHolds, Flows!Pending
      <4> QED
        BY <2>1, <4>1 DEF Flows!Staffed
    <3>2. Flows!RunHolds([r EXCEPT !.bodies = Append(@, Flows!NewBody)])
      BY <1>2, <2>1, <3>1, NestedHolds
    <3> QED
      BY <1>1, <2>4, <3>2, TopHolds
  <2> QED
    BY <2>2, <2>3, <2>4
<1> QED
  BY <1>3, <1>4, <1>5

\* So every step of the flows keeps their invariant.
LEMMA FlowsInductive == Flows!IInv /\ (Flows!Next \/ UNCHANGED Flows!flowVars) => Flows!IInv'
<1> SUFFICES ASSUME Flows!IInv, Flows!Next \/ UNCHANGED Flows!flowVars PROVE Flows!IInv'
  OBVIOUS
<1>1. ASSUME v1' \in [FlowAgents -> Flows!Drawings], v2' = v2, v6' = v6 \/ v6' = Flows!NoRun PROVE Flows!IInv'
  <2>1. Flows!Depth' = Flows!Depth
    BY <1>1 DEF Flows!Depth
  <2>2. Flows!RunsAsWired'
    BY <1>1, <2>1 DEF Flows!IInv, Flows!RunsAsWired
  <2> QED
    BY <1>1, <2>1, <2>2 DEF Flows!IInv
<1>2. ASSUME NEW a \in FlowAgents, Flows!Begins(a) PROVE Flows!IInv'
  <2>1. v2 = << >> /\ v1' = v1 /\ v6' = Flows!NoRun /\ (v2' = v2 \/ v2' = << Flows!NewRun(a, v1[a]) >>)
    BY <1>2 DEF Flows!Begins
  <2>2. Append(v2, Flows!NewRun(a, v1[a])) = << Flows!NewRun(a, v1[a]) >> /\ Len(v2) = 0
    BY <2>1
  <2> QED
    BY <1>1, <2>1, <2>2, PushedHolds, StackIs
<1>3. ASSUME NEW a \in FlowAgents, NEW w \in Wirings[a], Flows!Edits(a, w) PROVE Flows!IInv'
  <2>1. v2' = v2 /\ v6' = v6 /\ v1' = [v1 EXCEPT ![a] = w] /\ w \in Flows!Drawings
    BY <1>3 DEF Flows!Edits, Flows!Drawings
  <2> QED
    BY <1>1, <2>1, StackIs
<1>4. CASE Flows!Expires
  BY <1>1, <1>4, StackIs DEF Flows!Expires
<1>5. CASE UNCHANGED Flows!flowVars
  BY <1>1, <1>5, StackIs DEF Flows!flowVars
<1> QED
  BY <1>2, <1>3, <1>4, <1>5, EndedHolds, WorkHolds, WalkHolds DEF Flows!Next

\* A run of a flow walks what its owner drew, all of it and no more, whatever
\* cycles, tentacles and calls the drawings have and whoever edits them meanwhile:
\* steps, visits and the depth of calls keep their limits, and so does what the
\* body of a walked octo calls itself; the octos among its tentacles have limits
\* of their own (run_flow, _n_octo and _n_call_agent, analysis_agent.py:878-932,
\* 1106-1203 and 1278-1429).
THEOREM RunsStayWired == PartsSpec => []RunsAsWired
<1> DEFINE Holds == machine = "flows" => Flows!IInv
<1>1. PartsInit => Holds
  BY FlowsInitially DEF PartsInit
<1>2. Holds /\ [PartsNext]_vars => Holds'
  <2> SUFFICES ASSUME Holds, [PartsNext]_vars, machine' = "flows" PROVE Flows!IInv'
    OBVIOUS
  <2>1. machine = "flows" /\ Flows!IInv
    BY MachineStays
  <2>2. Flows!Next \/ UNCHANGED Flows!flowVars
    BY <2>1 DEF PartsNext, vars, Flows!flowVars
  <2> QED
    BY <2>1, <2>2, FlowsInductive
<1>3. Holds => RunsAsWired
  BY DEF RunsAsWired, Flows!IInv
<1> QED
  BY <1>1, <1>2, <1>3, PTL DEF PartsSpec
==============================================================================
